------------------------------ MODULE AgentLoop ------------------------------
(***************************************************************************)
(* The agent loop of manox-harness (core/agent_loop.rs) inside the Agent   *)
(* that owns it (core/agent.rs).                                           *)
(*                                                                         *)
(* One task drives a run: it polls the steering and follow-up queues,      *)
(* sends the context to the provider, executes the tool calls of the reply *)
(* and stops, aborts or goes round again.  Other tasks hold a RunHandle    *)
(* and steer, queue follow-ups, retract, clear or abort at any moment.     *)
(* The loop reads the queues and the cancellation token at a few places    *)
(* only; every action below contains at most one such read, so the         *)
(* handle's operations interleave exactly where they can.                  *)
(*                                                                         *)
(* The loop's own message list is `context'; the Agent's message list is   *)
(* `transcript', which grows only through MessageEnd events.               *)
(***************************************************************************)
EXTENDS Integers, Sequences, FiniteSets, SequencesExt

CONSTANTS
    Inputs,      \* user messages; each is handed to the agent at most once
    MaxCalls,    \* bound: tool calls in one assistant reply
    MaxReplies,  \* bound: replies that ask for another round, over all runs
    MaxFaults,   \* bound: middleware errors, over all runs
    MaxBounces,  \* AgentLoopConfig.max_turn_end_bounces
    MaxTurns     \* AgentLoopConfig.max_turns; 0 stands for None

ASSUME AgentLoopAssumption ==
    /\ IsFiniteSet(Inputs)
    /\ MaxCalls \in Nat /\ MaxReplies \in Nat /\ MaxFaults \in Nat
    /\ MaxBounces \in Nat /\ MaxTurns \in Nat

VARIABLES
    pc,          \* where the run's task is; "idle" when active_run is None
    cancelled,   \* the active run's CancellationToken
    steering,    \* Agent.steering_queue
    followUp,    \* Agent.follow_up_queue
    prompts,     \* the run's prompt messages before the first turn announces them
    pending,     \* pending_messages of run_loop_inner
    context,     \* AgentContext.messages of the run
    transcript,  \* AgentState.messages
    turns,       \* turn_count
    escalations, \* length_escalations
    bounces,     \* turn_end_bounces
    more,        \* has_more_tool_calls
    replies,     \* bound counter for MaxReplies
    faults,      \* bound counter for MaxFaults
    base,        \* history: Len(transcript) when the run started
    strikes,     \* history: Length replies in a row
    cut,         \* history: the cancel landed while tools were executing
    accepted,    \* history: inputs handed to the agent so far
    steered,     \* history: inputs put on the steering queue, in order
    returned,    \* history: inputs handed back or cleared before they were drained
    disturbed    \* history: some run was cancelled or its sink failed

loopVars    == <<prompts, pending, context, turns, escalations, bounces, more>>
agentVars   == <<pc, cancelled, transcript, replies, faults>>
queueVars   == <<steering, followUp>>
runHistory  == <<base, strikes, cut>>
inputHistory == <<accepted, steered, returned>>
vars        == <<loopVars, agentVars, queueVars, runHistory, inputHistory, disturbed>>

-----------------------------------------------------------------------------
(* Messages.  Only what the loop's control looks at is kept: who a message  *)
(* is from, an assistant's stop reason and number of tool calls, and which  *)
(* call a result answers.                                                   *)

(* The control tells four stop reasons apart: ToolUse counts as Stop.        *)
Stops == {"Stop", "Length", "Error", "Aborted"}

User(m) == [kind |-> "user", id |-> m]
Injected(what) == [kind |-> "harness", id |-> what]
Assistant(stop, n) == [kind |-> "assistant", stop |-> stop, calls |-> n]
Result(i) == [kind |-> "result", call |-> i]

Message == [kind : {"user"}, id : Inputs]
             \cup [kind : {"harness"}, id : {"nudge", "bounce", "aside"}]
             \cup [kind : {"assistant"}, stop : Stops, calls : 0..MaxCalls]
             \cup [kind : {"result"}, call : 1..MaxCalls]

Users(s)   == [i \in DOMAIN s |-> User(s[i])]
ResultsMutant(n) == [i \in 1..(n - 1) |-> Result(i)]
Results(n) == [i \in 1..n |-> Result(i)]
IsAssistant(m) == m.kind = "assistant"

(* The reply being worked on: the last one the loop pushed.                 *)
Current == Last(context)

Init ==
    /\ pc = "idle" /\ cancelled = FALSE
    /\ steering = <<>> /\ followUp = <<>>
    /\ prompts = <<>> /\ pending = <<>> /\ context = <<>> /\ transcript = <<>>
    /\ turns = 0 /\ escalations = 0 /\ bounces = 0 /\ more = FALSE
    /\ replies = 0 /\ faults = 0
    /\ base = 0 /\ strikes = 0 /\ cut = FALSE
    /\ accepted = {} /\ steered = <<>> /\ returned = {} /\ disturbed = FALSE

-----------------------------------------------------------------------------
(* The queues.                                                              *)

(* PendingMessageQueue::drain.  The mode is a setter away at any moment, so *)
(* a drain takes the head (OneAtATime) or everything (All).                 *)
Drains(q) == IF q = <<>> THEN {<<>>} ELSE {<<Head(q)>>, q}
RestMutant(q, d) == IF q = <<>> THEN q ELSE Tail(q)
Rest(q, d) == SubSeq(q, Len(d) + 1, Len(q))

SteerMutant(m) ==
    /\ m \notin accepted
    /\ steering' = <<m>> \o steering
    /\ accepted' = accepted \cup {m}
    /\ steered' = Append(steered, m)
    /\ UNCHANGED <<loopVars, agentVars, followUp, runHistory, returned, disturbed>>

Steer(m) ==
    /\ m \notin accepted
    /\ steering' = Append(steering, m)
    /\ accepted' = accepted \cup {m}
    /\ steered' = Append(steered, m)
    /\ UNCHANGED <<loopVars, agentVars, followUp, runHistory, returned, disturbed>>

FollowUp(m) ==
    /\ m \notin accepted
    /\ followUp' = Append(followUp, m)
    /\ accepted' = accepted \cup {m}
    /\ UNCHANGED <<loopVars, agentVars, steering, runHistory, steered, returned, disturbed>>

(* cancel_steer answers TRUE for a message that is still queued (retain, by *)
(* an id no other message has); for one that drained it answers FALSE and   *)
(* changes nothing.                                                         *)
CancelSteer(m) ==
    /\ \E i \in DOMAIN steering :
         steering[i] = m /\ steering' = RemoveAt(steering, i)
    /\ returned' = returned \cup {m}
    /\ UNCHANGED <<loopVars, agentVars, followUp, runHistory, accepted, steered, disturbed>>

(* clear_queues takes the two queues under two locks, one after the other:  *)
(* each half is a step.  clear_steering_queue and clear_follow_up_queue are *)
(* the same two steps alone.                                                *)
ClearSteering ==
    /\ steering # <<>>
    /\ returned' = returned \cup ToSet(steering)
    /\ steering' = <<>>
    /\ UNCHANGED <<loopVars, agentVars, followUp, runHistory, accepted, steered, disturbed>>

ClearFollowUp ==
    /\ followUp # <<>>
    /\ returned' = returned \cup ToSet(followUp)
    /\ followUp' = <<>>
    /\ UNCHANGED <<loopVars, agentVars, steering, runHistory, accepted, steered, disturbed>>

(* Agent::abort cancels the token of the active run, if there is one.       *)
Abort ==
    /\ pc # "idle" /\ ~cancelled
    /\ cancelled' = TRUE
    /\ cut' = (pc = "tools")
    /\ disturbed' = TRUE
    /\ UNCHANGED <<loopVars, pc, transcript, replies, faults, queueVars, base, strikes, inputHistory>>

-----------------------------------------------------------------------------
(* Starting a run: run_with_lifecycle installs a fresh token and the loop   *)
(* works on a snapshot of the transcript.                                   *)

Begin(msgs) ==
    /\ pc' = "start" /\ cancelled' = FALSE
    /\ prompts' = msgs
    /\ context' = transcript \o Users(msgs)
    /\ pending' = <<>>
    /\ turns' = 0 /\ escalations' = 0 /\ bounces' = 0 /\ more' = FALSE
    /\ base' = Len(transcript) /\ strikes' = 0 /\ cut' = FALSE
    /\ UNCHANGED <<transcript, replies, faults, returned, disturbed>>

Prompt(m) ==
    /\ pc = "idle"
    /\ m \notin accepted
    /\ accepted' = accepted \cup {m}
    /\ Begin(<<m>>)
    /\ UNCHANGED <<queueVars, steered>>

(* continue_: after an assistant message it needs queued input, steering    *)
(* first; after anything else the transcript itself is the prompt.          *)
Continue ==
    /\ pc = "idle" /\ transcript # <<>>
    /\ \/ /\ ~IsAssistant(Last(transcript))
          /\ Begin(<<>>)
          /\ UNCHANGED queueVars
       \/ /\ IsAssistant(Last(transcript)) /\ steering # <<>>
          /\ \E d \in Drains(steering) :
                /\ steering' = Rest(steering, d)
                /\ Begin(d)
          /\ UNCHANGED followUp
       \/ /\ IsAssistant(Last(transcript)) /\ steering = <<>> /\ followUp # <<>>
          /\ \E d \in Drains(followUp) :
                /\ followUp' = Rest(followUp, d)
                /\ Begin(d)
          /\ UNCHANGED steering
    /\ UNCHANGED <<accepted, steered>>

(* reset clears the transcript and both queues; &mut self, so only between  *)
(* runs.                                                                    *)
Reset ==
    /\ pc = "idle" /\ transcript # <<>>
    /\ transcript' = <<>> /\ steering' = <<>> /\ followUp' = <<>>
    /\ returned' = returned \cup ToSet(steering) \cup ToSet(followUp)
                     \cup {m \in Inputs : User(m) \in ToSet(transcript)}
    /\ UNCHANGED <<loopVars, pc, cancelled, replies, faults, runHistory, accepted, steered, disturbed>>

-----------------------------------------------------------------------------
(* The run: run_loop_inner.                                                 *)

Goto(l) == pc' = l /\ UNCHANGED <<cancelled, replies, faults, inputHistory, disturbed>>

(* Steering queued while idle is polled before the first turn.              *)
Start ==
    /\ pc = "start"
    /\ \E d \in Drains(steering) : pending' = d /\ steering' = Rest(steering, d)
    /\ Goto("outer")
    /\ UNCHANGED <<prompts, context, turns, escalations, bounces, more, transcript,
                   followUp, runHistory>>

Outer ==
    /\ pc = "outer"
    /\ Goto(IF cancelled THEN "final" ELSE "inner")
    /\ more' = TRUE
    /\ UNCHANGED <<prompts, pending, context, turns, escalations, bounces, transcript,
                   queueVars, runHistory>>

TurnStartMutant ==
    /\ pc = "inner" /\ ~cancelled
    /\ turns' = turns + 1
    /\ transcript' = transcript \o Users(pending)
    /\ context' = context \o Users(pending)
    /\ prompts' = <<>> /\ pending' = <<>>
    /\ Goto("stream")
    /\ UNCHANGED <<escalations, bounces, more, queueVars, runHistory>>

TurnStartUncheckedMutant ==
    /\ pc = "inner"
    /\ turns' = turns + 1
    /\ transcript' = transcript \o Users(prompts) \o Users(pending)
    /\ context' = context \o Users(pending)
    /\ prompts' = <<>> /\ pending' = <<>>
    /\ Goto("stream")
    /\ UNCHANGED <<escalations, bounces, more, queueVars, runHistory>>

(* A new turn: the prompt messages are announced on the first one, then the *)
(* pending messages are announced and join the context.                     *)
TurnStart ==
    /\ pc = "inner" /\ ~cancelled
    /\ turns' = turns + 1
    /\ transcript' = transcript \o Users(prompts) \o Users(pending)
    /\ context' = context \o Users(pending)
    /\ prompts' = <<>> /\ pending' = <<>>
    /\ Goto("stream")
    /\ UNCHANGED <<escalations, bounces, more, queueVars, runHistory>>

TurnSkippedMutant ==
    /\ pc = "inner" /\ cancelled
    /\ Goto("inner")
    /\ UNCHANGED <<loopVars, transcript, queueVars, runHistory>>

(* Cancelled between turns: leave the inner loop with pending undelivered.  *)
TurnSkipped ==
    /\ pc = "inner" /\ cancelled
    /\ Goto("followUp")
    /\ UNCHANGED <<loopVars, transcript, queueVars, runHistory>>

(* The budget escalation saturates at three.                                *)
Escalate(stop) ==
    /\ escalations' = IF stop = "Length"
                      THEN IF escalations < 3 THEN escalations + 1 ELSE escalations
                      ELSE 0
    /\ strikes' = IF stop = "Length" THEN strikes + 1 ELSE 0

(* The provider's reply arrives complete.  A Length reply without calls is  *)
(* followed by the harness's nudge and another round.                       *)
Reply(stop, n) ==
    LET nudge == n = 0 /\ stop = "Length" /\ escalations' <= 3
        said  == <<Assistant(stop, n)>> \o (IF nudge THEN <<Injected("nudge")>> ELSE <<>>)
    IN  /\ pc = "stream"
        /\ Escalate(stop)
        /\ (stop = "Length" \/ n > 0) => replies < MaxReplies
        /\ replies' = IF stop = "Length" \/ n > 0 THEN replies + 1 ELSE replies
        /\ context' = context \o said
        /\ transcript' = transcript \o said
        /\ more' = nudge
        /\ pc' = IF n > 0 THEN "tools" ELSE "prepare"
        /\ UNCHANGED <<prompts, pending, turns, bounces, cancelled, faults, queueVars, base,
                       cut, inputHistory, disturbed>>

(* The stream dies, is aborted, or no provider resolves.  The partial reply *)
(* is closed with Error, or Aborted under a cancelled token, and each call  *)
(* it already carried gets a not-executed result - in the context only.     *)
StreamFails(n) ==
    LET reply == Assistant(IF cancelled THEN "Aborted" ELSE "Error", n)
    IN  /\ pc = "stream"
        /\ Escalate("Error")
        /\ context' = Append(context, reply) \o Results(n)
        /\ transcript' = Append(transcript, reply)
        /\ Goto("ended")
        /\ UNCHANGED <<prompts, pending, turns, bounces, more, queueVars, base, cut>>

(* The batch settles with one result per call: executed, failed because the *)
(* reply was truncated, or aborted.  Any result may ask to terminate.       *)
ToolsSettle(terminate) ==
    /\ pc = "tools"
    /\ Current.stop = "Length" => ~terminate
    /\ context' = context \o Results(Current.calls)
    /\ transcript' = transcript \o Results(Current.calls)
    /\ more' = ~terminate
    /\ Goto("prepare")
    /\ UNCHANGED <<prompts, pending, turns, escalations, bounces, queueVars, runHistory>>

(* prepare_next_turn: messages the host recorded outside the turn join the  *)
(* context here; the harness adds them to the transcript after the run.     *)
IsAside(m) == m = Injected("aside")

PrepareNextTurn(aside) ==
    /\ pc = "prepare"
    /\ aside => \A i \in DOMAIN context : ~IsAside(context[i])
    /\ context' = IF aside THEN Append(context, Injected("aside")) ELSE context
    /\ Goto("turnEnd")
    /\ UNCHANGED <<prompts, pending, turns, escalations, bounces, more, transcript, queueVars,
                   runHistory>>

(* The turn-end gate has vetoes left.                                       *)
GateOpen == bounces < MaxBounces

(* After the turn: the turn cap, the steering poll, and the turn-end gate,  *)
(* which may veto a stop a bounded number of times per run.                 *)
TurnCapped ==
    /\ pc = "turnEnd" /\ MaxTurns > 0 /\ turns >= MaxTurns
    /\ Goto("ended")
    /\ UNCHANGED <<loopVars, transcript, queueVars, runHistory>>

TurnEnd(veto) ==
    /\ pc = "turnEnd" /\ (MaxTurns = 0 \/ turns < MaxTurns)
    /\ \E d \in Drains(steering) :
        LET stopping == ~more /\ d = <<>>
            bounced  == stopping /\ veto /\ GateOpen
            said     == IF bounced THEN <<Injected("bounce")>> ELSE <<>>
        IN  /\ steering' = Rest(steering, d)
            /\ pending' = d
            /\ bounces' = IF bounced THEN bounces + 1 ELSE bounces
            /\ more' = (more \/ bounced)
            /\ context' = context \o said
            /\ transcript' = transcript \o said
            /\ Goto(IF stopping /\ ~bounced THEN "followUp" ELSE "inner")
    /\ UNCHANGED <<prompts, turns, escalations, followUp, runHistory>>

(* The inner loop is exhausted: a follow-up resumes the run.                *)
FollowUpPoll ==
    /\ pc = "followUp"
    /\ \E d \in Drains(followUp) :
        /\ followUp' = Rest(followUp, d)
        /\ pending' = IF d = <<>> THEN pending ELSE d
        /\ Goto(IF d = <<>> THEN "final" ELSE "outer")
    /\ UNCHANGED <<prompts, context, turns, escalations, bounces, more, transcript,
                   steering, runHistory>>

(* A cancelled run closes with a terminal Aborted message.                  *)
FinalMutant ==
    /\ pc = "final" /\ Goto("ended")
    /\ IF cancelled /\ ~more
       THEN /\ context' = Append(context, Assistant("Aborted", 0))
            /\ transcript' = Append(transcript, Assistant("Aborted", 0))
       ELSE UNCHANGED <<context, transcript>>
    /\ UNCHANGED <<prompts, pending, turns, escalations, bounces, more, queueVars, runHistory>>

Final ==
    /\ pc = "final"
    /\ IF cancelled
       THEN /\ context' = Append(context, Assistant("Aborted", 0))
            /\ transcript' = Append(transcript, Assistant("Aborted", 0))
       ELSE UNCHANGED <<context, transcript>>
    /\ Goto("ended")
    /\ UNCHANGED <<prompts, pending, turns, escalations, bounces, more, queueVars, runHistory>>

(* AgentEnd has been emitted; run_with_lifecycle clears the active run and  *)
(* the loop's own state is dropped with its future.                         *)
Discard ==
    /\ pc' = "idle"
    /\ prompts' = <<>> /\ pending' = <<>> /\ context' = <<>>
    /\ turns' = 0 /\ escalations' = 0 /\ bounces' = 0 /\ more' = FALSE
    /\ cancelled' = FALSE
    /\ UNCHANGED <<replies, queueVars, runHistory, inputHistory>>

Settle ==
    /\ pc = "ended"
    /\ Discard
    /\ UNCHANGED <<transcript, faults, disturbed>>

(* What the task may be about to announce.  A middleware error on one of    *)
(* these events drops the run; the events up to and including the failed    *)
(* one have been reduced into the transcript.                               *)
Announcing ==
    CASE pc = "inner"   -> {Users(prompts) \o Users(pending)}
      [] pc = "stream"  -> {<<Assistant(stop, n)>> : stop \in Stops, n \in 0..MaxCalls}
                             \cup {<<Assistant("Length", 0), Injected("nudge")>>}
      [] pc = "tools"   -> {Results(Current.calls)}
      [] pc = "turnEnd" -> {<<Injected("bounce")>>}
      [] pc = "final" /\ cancelled -> {<<Assistant("Aborted", 0)>>}
      [] OTHER          -> {<<>>}

MiddlewareFails ==
    /\ pc \notin {"idle", "ended"} /\ faults < MaxFaults
    /\ \E said \in Announcing : \E k \in 0..Len(said) :
          transcript' = transcript \o SubSeq(said, 1, k)
    /\ Discard
    /\ faults' = faults + 1
    /\ disturbed' = TRUE

Loop ==
    \/ Start \/ Outer \/ TurnStart \/ TurnSkipped
    \/ \E stop \in {"Stop", "Length"}, n \in 0..MaxCalls : Reply(stop, n)
    \/ \E n \in 0..MaxCalls : StreamFails(n)
    \/ \E terminate \in BOOLEAN : ToolsSettle(terminate)
    \/ \E aside \in BOOLEAN : PrepareNextTurn(aside)
    \/ TurnCapped
    \/ \E veto \in BOOLEAN : TurnEnd(veto)
    \/ FollowUpPoll \/ Final \/ Settle

Next ==
    \/ \E m \in Inputs : Prompt(m) \/ Steer(m) \/ FollowUp(m) \/ CancelSteer(m)
    \/ Continue \/ Reset \/ ClearSteering \/ ClearFollowUp \/ Abort
    \/ MiddlewareFails
    \/ Loop

Spec == Init /\ [][Next]_vars

(* Once the token is cancelled every step of the run is bound to happen: the *)
(* task is scheduled, the provider stream ends on the token, and every tool  *)
(* is raced against it (execute_one).  Nothing is assumed of a run that was  *)
(* not cancelled.                                                            *)
FairSpec == Spec /\ WF_vars(cancelled /\ Loop)

-----------------------------------------------------------------------------
(* Properties.                                                              *)

Pcs == {"idle", "start", "outer", "inner", "stream", "tools", "prepare", "turnEnd",
        "followUp", "final", "ended"}

(* Every variable keeps the type the Rust declarations give it.             *)
TypeOK ==
    /\ pc \in Pcs /\ cancelled \in BOOLEAN
    /\ steering \in Seq(Inputs) /\ followUp \in Seq(Inputs)
    /\ prompts \in Seq(Inputs) /\ pending \in Seq(Inputs)
    /\ context \in Seq(Message) /\ transcript \in Seq(Message)
    /\ turns \in Nat /\ escalations \in 0..3 /\ bounces \in 0..MaxBounces /\ more \in BOOLEAN
    /\ replies \in 0..MaxReplies /\ faults \in 0..MaxFaults
    /\ base \in Nat /\ strikes \in Nat /\ cut \in BOOLEAN
    /\ accepted \subseteq Inputs /\ steered \in Seq(Inputs) /\ returned \subseteq Inputs
    /\ disturbed \in BOOLEAN

(* A list without the messages the host added at a turn boundary.           *)
Announced(s) ==
    LET kept[n \in 0..Len(s)] ==
          IF n = 0 THEN <<>>
          ELSE IF IsAside(s[n]) THEN kept[n - 1] ELSE Append(kept[n - 1], s[n])
    IN  kept[Len(s)]

(* The last turn died, and the results its calls got: not executed.         *)
Died ==
    /\ transcript # <<>> /\ IsAssistant(Last(transcript))
    /\ Last(transcript).stop \in {"Error", "Aborted"}
NotExecuted == IF Died THEN Results(Last(transcript).calls) ELSE <<>>

(* From its first step to its end, what the Agent's transcript, built from  *)
(* MessageEnd events, lacks of the loop's own context is exactly this: the  *)
(* messages the host added at a turn boundary, the prompt messages a run    *)
(* has not announced - for good if it is cancelled before its first turn -  *)
(* and, once a turn has died, the results of the calls it left unexecuted.  *)
(* Nothing is announced without being in the context.                       *)
TranscriptIsContext ==
    /\ pc \notin {"idle", "ended"} => Announced(context) = transcript \o Users(prompts)
    /\ pc = "ended" =>
         Announced(context) =
           IF prompts = <<>> THEN transcript \o NotExecuted
           ELSE Front(transcript) \o Users(prompts) \o <<Last(transcript)>>

(* Whenever a request is sent, every tool call of this run is answered: the *)
(* calls' results follow their reply directly, in emission order.           *)
Answered(s, i) ==
    s[i].kind = "assistant" =>
        /\ i + s[i].calls <= Len(s)
        /\ \A k \in 1..s[i].calls : s[i + k] = Result(k)

RequestsAnswerEveryCall ==
    pc = "stream" => \A i \in (base + 1)..Len(context) : Answered(context, i)

(* Where each accepted input is.  Until a run is cancelled or dropped it is *)
(* in exactly one place: a queue, the run's hands, the transcript, or back  *)
(* with the caller.  Racing polls, clears and retractions never lose or     *)
(* duplicate one.                                                           *)
Places(m) ==
    LET in(s) == Cardinality({i \in DOMAIN s : s[i] = m})
    IN  in(steering) + in(followUp) + in(pending) + in(prompts)
        + Cardinality({i \in DOMAIN transcript : transcript[i] = User(m)})
        + (IF m \in returned THEN 1 ELSE 0)

InputsConserved == ~disturbed => \A m \in accepted : Places(m) = 1

(* An input is never injected twice, whatever is cancelled or dropped.      *)
InputsAtMostOnce == \A m \in accepted : Places(m) <= 1

(* Steering messages reach the transcript in the order they were queued,    *)
(* over any number of polls, runs and retractions.                          *)
SteersInOrder ==
    \A i, j \in DOMAIN transcript : \A p, q \in DOMAIN steered :
        (/\ transcript[i] = User(steered[p])
         /\ transcript[j] = User(steered[q])
         /\ p < q) => i < j

(* A cancelled run ends.                                                    *)
CancelledRunSettles == cancelled ~> (pc = "idle")

(* How many steps a cancelled run may still take, at most, by where it is.  *)
StepsLeft ==
    [idle |-> 0, ended |-> 1, final |-> 2, outer |-> 3, start |-> 4, followUp |-> 4,
     inner |-> 5, turnEnd |-> 6, prepare |-> 7, tools |-> 8, stream |-> 9]

(* A cancelled run winds down: every further step of its task brings it     *)
(* nearer to the end, whatever is queued, vetoed or called meanwhile - no   *)
(* request follows a turn boundary - and the other tasks' operations leave  *)
(* the run's messages alone.                                                *)
CancelWindsDown ==
    [][cancelled =>
         \/ StepsLeft[pc'] < StepsLeft[pc]
         \/ pc' = pc /\ UNCHANGED <<cancelled, loopVars, transcript>>]_vars

(* A run whose tools were cut by a cancel tells its consumers: its last     *)
(* message is the terminal Aborted one, however the cut turn went on - more *)
(* calls, steering, follow-ups, a vetoed stop.  The turn cap alone returns  *)
(* before it.                                                               *)
Capped == MaxTurns > 0 /\ turns >= MaxTurns
AbortIsAnnounced ==
    pc = "ended" /\ cut /\ ~Capped => Last(transcript) = Assistant("Aborted", 0)

(* -- Claims of the source that the loop does not keep. --                  *)

(* "three strikes and the model keeps its own budget - a runaway that burns *)
(* every raise on more thinking must still settle": at most one more reply  *)
(* follows the third raise.                                                 *)
RunawaySettles == strikes <= 4

(* `state().messages' "matches what the loop's own context built".          *)
TranscriptMatchesContext == pc = "ended" => Announced(context) = transcript
=============================================================================
