------------------------------ MODULE AhpHost ------------------------------
(***************************************************************************)
(* Actions and subscriptions of one channel of the AHP host                *)
(* (manox-ahp/src/host.rs, router.rs, connection.rs, sequencer.rs).        *)
(*                                                                         *)
(* Every task of the host publishes by itself: the journal bridge, and the *)
(* reader of each connection for the actions its client dispatches.  A     *)
(* publication is stamped, folded into the channel's state and broadcast,  *)
(* in steps that those of other tasks come between.  A reader also serves  *)
(* subscribe: it enters the subscription, reads the state, then reads the  *)
(* watermark.  Connections die under all of it.                            *)
(*                                                                         *)
(* The channel's state is the sequence of actions folded into it.  An      *)
(* envelope carries its serverSeq, whether it is a rejection, and for an   *)
(* action the backend derived from a client's the serverSeq of that one    *)
(* (0 for the others).  What a client received is kept in order, and for    *)
(* each subscription which publications ran between the two reads.         *)
(***************************************************************************)
EXTENDS Naturals, Sequences, FiniteSets

CONSTANTS
  MaxConn,     \* connections 1 .. MaxConn, in the order they were accepted
  Speakers,    \* the connections whose clients dispatch actions
  Bridges,     \* tasks of the host that publish rows, connections aside
  MaxSeq       \* bound: stamps in all

ASSUME HostAssumption ==
  /\ MaxConn \in Nat \ {0}
  /\ Speakers \subseteq 1 .. MaxConn
  /\ Bridges \cap Nat = {}
  /\ MaxSeq \in Nat

Conns == 1 .. MaxConn
Tasks == Conns \union Bridges

VARIABLES
  seq,         \* Sequencer: the highest stamped serverSeq
  state,       \* the channel's fold: the actions applied, in order
  alive,       \* the connection's queue is open
  subscribed,  \* the connection observes the channel
  received,    \* envelopes queued to the connection, in order
  snapshot,    \* the last snapshot taken for it: state and from_seq
  raced,       \* history: stamps of the publications that were, at some time
               \* between the two reads of that snapshot, not folded yet
  pc,          \* where each task is
  jobs,        \* what it has yet to publish: the echo, then derived actions
  envelope,    \* what it is publishing
  targets      \* subscribers its broadcast has yet to reach

vars == <<seq, state, alive, subscribed, received, snapshot, raced, pc, jobs, envelope,
          targets>>
clients == <<received, snapshot, raced>>
publication == <<jobs, envelope, targets>>

NoEnvelope == [seq |-> 0, cause |-> 0, rejected |-> FALSE]
NoSnapshot == [state |-> <<>>, fromSeq |-> 0]

Init ==
  /\ seq = 0
  /\ state = <<>>
  /\ alive = [c \in Conns |-> TRUE]
  /\ subscribed = [c \in Conns |-> FALSE]
  /\ received = [c \in Conns |-> <<>>]
  /\ snapshot = [c \in Conns |-> NoSnapshot]
  /\ raced = [c \in Conns |-> {}]
  /\ pc = [t \in Tasks |-> "idle"]
  /\ jobs = [t \in Tasks |-> <<>>]
  /\ envelope = [t \in Tasks |-> NoEnvelope]
  /\ targets = [t \in Tasks |-> {}]

Goto(t, label) == pc' = [pc EXCEPT ![t] = label]

-----------------------------------------------------------------------------
(* Who publishes what.                                                     *)

\* The bridge forwards one row.
Forward(t) ==
  /\ t \in Bridges
  /\ pc[t] = "idle"
  /\ seq < MaxSeq
  /\ jobs' = [jobs EXCEPT ![t] = <<"echo">>]
  /\ Goto(t, "stamp")
  /\ UNCHANGED <<seq, state, alive, subscribed, clients, envelope, targets>>

\* dispatch_action: a client that does not observe the channel is rejected;
\* otherwise the backend rejects the action, accepts it, or accepts it and
\* derives another that is published after the echo.
Dispatch(c) ==
  /\ c \in Speakers
  /\ pc[c] = "idle"
  /\ seq < MaxSeq
  /\ \/ jobs' = [jobs EXCEPT ![c] = <<"reject">>]
     \/ /\ subscribed[c]
        /\ \E outcome \in {<<"echo">>, <<"echo", "derived">>} :
             jobs' = [jobs EXCEPT ![c] = outcome]
  /\ Goto(c, "stamp")
  /\ UNCHANGED <<seq, state, alive, subscribed, clients, envelope, targets>>

-----------------------------------------------------------------------------
(* publish and reject: stamp, fold, broadcast.                             *)

Stamp(t) ==
  /\ pc[t] = "stamp"
  /\ seq < MaxSeq
  /\ seq' = seq + 1
  /\ envelope' = [envelope EXCEPT ![t] =
       [seq |-> seq', rejected |-> Head(jobs[t]) = "reject",
        cause |-> IF Head(jobs[t]) = "derived" THEN @.seq ELSE 0]]
  /\ Goto(t, IF Head(jobs[t]) = "reject" THEN "broadcast" ELSE "fold")
  /\ raced' = [c \in Conns |->
                 IF pc[c] = "watermark" THEN raced[c] \union {seq'} ELSE raced[c]]
  /\ UNCHANGED <<state, alive, subscribed, received, snapshot, jobs, targets>>

Fold(t) ==
  /\ pc[t] = "fold"
  /\ state' = Append(state, envelope[t])
  /\ Goto(t, "broadcast")
  /\ UNCHANGED <<seq, alive, subscribed, clients, publication>>

Subscribers == {c \in Conns : alive[c] /\ subscribed[c]}

\* Mutant: connections still waiting for their snapshot are passed over.
CollectMutant(t) ==
  /\ pc[t] = "broadcast"
  /\ targets' = [targets EXCEPT ![t] = {c \in Subscribers : pc[c] \notin
                                       {"snapshot", "watermark"}}]
  /\ Goto(t, "send")
  /\ UNCHANGED <<seq, state, alive, subscribed, clients, jobs, envelope>>

\* broadcast collects the subscribers first.
Collect(t) ==
  /\ pc[t] = "broadcast"
  /\ targets' = [targets EXCEPT ![t] = Subscribers]
  /\ Goto(t, "send")
  /\ UNCHANGED <<seq, state, alive, subscribed, clients, jobs, envelope>>

First(conns) == CHOOSE c \in conns : \A d \in conns : c =< d

\* Mutant: the client that dispatched the action is not sent its echo.
SendMutant(t) ==
  LET c == First(targets[t]) IN
  /\ pc[t] = "send" /\ targets[t] # {}
  /\ targets' = [targets EXCEPT ![t] = @ \ {c}]
  /\ received' = IF alive[c] /\ (c # t \/ envelope[t].cause # 0)
                 THEN [received EXCEPT ![c] = Append(@, envelope[t])]
                 ELSE received
  /\ UNCHANGED <<seq, state, alive, subscribed, snapshot, raced, pc, jobs,
                 envelope>>

\* It queues the envelope to one after the other, in the order of conns; a
\* closed queue takes nothing.
Send(t) ==
  LET c == First(targets[t]) IN
  /\ pc[t] = "send"
  /\ targets[t] # {}
  /\ targets' = [targets EXCEPT ![t] = @ \ {c}]
  /\ received' = IF alive[c]
                 THEN [received EXCEPT ![c] = Append(@, envelope[t])]
                 ELSE received
  /\ UNCHANGED <<seq, state, alive, subscribed, snapshot, raced, pc, jobs,
                 envelope>>

\* The next action of the dispatch, or back to the task's loop.
Published(t) ==
  /\ pc[t] = "send"
  /\ targets[t] = {}
  /\ jobs' = [jobs EXCEPT ![t] = Tail(@)]
  /\ IF Len(jobs[t]) > 1
     THEN Goto(t, "stamp") /\ UNCHANGED envelope
     ELSE Goto(t, "idle") /\ envelope' = [envelope EXCEPT ![t] = NoEnvelope]
  /\ UNCHANGED <<seq, state, alive, subscribed, clients, targets>>

-----------------------------------------------------------------------------
(* subscribe_uri.  What a connection knew is forgotten when it subscribes  *)
(* anew, leaves or dies; where its answer lands in the queue is left out.  *)

Fresh(c) ==
  /\ received' = [received EXCEPT ![c] = <<>>]
  /\ snapshot' = [snapshot EXCEPT ![c] = NoSnapshot]
  /\ raced' = [raced EXCEPT ![c] = {}]

Subscribe(c) ==
  /\ c \in Conns
  /\ pc[c] = "idle"
  /\ alive[c]
  /\ subscribed' = [subscribed EXCEPT ![c] = TRUE]
  /\ Fresh(c)
  /\ Goto(c, "snapshot")
  /\ UNCHANGED <<seq, state, alive, publication>>

ReadState(c) ==
  /\ pc[c] = "snapshot"
  /\ snapshot' = [snapshot EXCEPT ![c].state = state]
  /\ raced' = [raced EXCEPT ![c] =
                 {envelope[t].seq : t \in {u \in Tasks : pc[u] = "fold"}}]
  /\ Goto(c, "watermark")
  /\ UNCHANGED <<seq, state, alive, subscribed, received, publication>>

\* Mutant: from_seq is that of the action folded last.
ReadWatermarkMutant(c) ==
  LET folded == snapshot[c].state IN
  /\ pc[c] = "watermark"
  /\ snapshot' = [snapshot EXCEPT ![c].fromSeq =
                    IF folded = <<>> THEN 0 ELSE folded[Len(folded)].seq]
  /\ Goto(c, "idle")
  /\ UNCHANGED <<seq, state, alive, subscribed, received, raced, publication>>

ReadWatermark(c) ==
  /\ pc[c] = "watermark"
  /\ snapshot' = [snapshot EXCEPT ![c].fromSeq = seq]
  /\ Goto(c, "idle")
  /\ UNCHANGED <<seq, state, alive, subscribed, received, raced, publication>>

Unsubscribe(c) ==
  /\ c \in Conns
  /\ pc[c] = "idle"
  /\ subscribed[c]
  /\ subscribed' = [subscribed EXCEPT ![c] = FALSE]
  /\ Fresh(c)
  /\ UNCHANGED <<seq, state, alive, pc, publication>>

\* The writer fails, or another connection takes the client over: the queue
\* closes while the reader may be anywhere.
Kill(c) ==
  /\ c \in Conns
  /\ alive[c]
  /\ alive' = [alive EXCEPT ![c] = FALSE]
  /\ Fresh(c)
  /\ UNCHANGED <<seq, state, subscribed, pc, publication>>

-----------------------------------------------------------------------------
Publish(t) == Stamp(t) \/ Fold(t) \/ Collect(t) \/ Send(t) \/ Published(t)
Serve(c) == ReadState(c) \/ ReadWatermark(c)

Next ==
  \E t \in Tasks :
    \/ Forward(t) \/ Dispatch(t) \/ Publish(t)
    \/ Subscribe(t) \/ Serve(t) \/ Unsubscribe(t) \/ Kill(t)

Spec == Init /\ [][Next]_vars

-----------------------------------------------------------------------------
(* Properties.                                                             *)

Envelopes == [seq : 0 .. MaxSeq, cause : 0 .. MaxSeq, rejected : BOOLEAN]
Jobs == {<<>>, <<"reject">>, <<"echo">>, <<"derived">>, <<"echo", "derived">>}

\* Types.
TypeOK ==
  /\ seq \in 0 .. MaxSeq
  /\ state \in Seq(Envelopes)
  /\ alive \in [Conns -> BOOLEAN]
  /\ subscribed \in [Conns -> BOOLEAN]
  /\ received \in [Conns -> Seq(Envelopes)]
  /\ snapshot \in [Conns -> [state : Seq(Envelopes), fromSeq : 0 .. MaxSeq]]
  /\ raced \in [Conns -> SUBSET (1 .. MaxSeq)]
  /\ pc \in [Tasks -> {"idle", "stamp", "fold", "broadcast", "send",
                       "snapshot", "watermark"}]
  /\ jobs \in [Tasks -> Jobs]
  /\ envelope \in [Tasks -> Envelopes]
  /\ targets \in [Tasks -> SUBSET Conns]

Has(envelopes, e) == \E k \in DOMAIN envelopes : envelopes[k] = e
Observes(c) == alive[c] /\ subscribed[c]

\* The connection observes the channel and its snapshot's state was read.
Informed(c) == Observes(c) /\ pc[c] # "snapshot"

\* The envelope is on its way to the connection.
Underway(e, c) ==
  \E t \in Tasks :
    /\ envelope[t] = e
    /\ pc[t] = "broadcast" \/ (pc[t] = "send" /\ c \in targets[t])

\* What the client of a snapshot misses: once the state was read for a
\* subscriber, every action folded so far is in that state, or was queued to
\* it or is on its way (subscribe before snapshot in subscribe_uri, fold
\* before broadcast in publish).  One that comes by the stream is reduced, its
\* stamp being above the snapshot's from_seq, unless it was published across
\* the two reads of the snapshot (SnapshotAtWatermark is about those).
NothingMissed ==
  \A c \in Conns : Informed(c) =>
    \A k \in DOMAIN state :
      LET e == state[k] IN
      \/ Has(snapshot[c].state, e)
      \/ /\ Has(received[c], e) \/ Underway(e, c)
         /\ \/ pc[c] = "watermark"
            \/ e.seq > snapshot[c].fromSeq
            \/ e.seq \in raced[c]

\* A client that skips envelopes up to the snapshot's from_seq reduces no
\* action twice: one that is both in the snapshot and in the stream was
\* stamped before the watermark was read, and the stream has none twice.
NothingReducedTwice ==
  \A c \in Conns :
    /\ Informed(c) /\ pc[c] # "watermark" =>
         \A k \in DOMAIN received[c] :
           Has(snapshot[c].state, received[c][k]) =>
             received[c][k].seq =< snapshot[c].fromSeq
    /\ \A j, k \in DOMAIN received[c] :
         received[c][j] = received[c][k] => j = k

\* A derived action reaches no client before the one it derives from
\* (AcceptedThen: the echo leads), the one that dispatched it included.
EchoFirst ==
  \A c \in Conns : Informed(c) =>
    \A k \in DOMAIN received[c] :
      LET cause == received[c][k].cause IN
      cause # 0 =>
        \/ \E j \in 1 .. (k - 1) : received[c][j].seq = cause
        \/ \E n \in DOMAIN snapshot[c].state :
             snapshot[c].state[n].seq = cause

\* What the client reduced: its snapshot, then the actions of its stream
\* that are not in it.
Reduced(c) ==
  LET fresh(e) == ~e.rejected /\ ~Has(snapshot[c].state, e)
  IN snapshot[c].state \o SelectSeq(received[c], fresh)

\* The comment of Host::chat_state: a client that reduced the envelopes it
\* was handed lands on exactly the host's state.
ClientsConverge ==
  (\A t \in Tasks : pc[t] = "idle") =>
    \A c \in Conns : Observes(c) => Reduced(c) = state

\* The comment of Sequencer: a snapshot carries the watermark it was taken at,
\* the highest stamp in its state; so a client may skip the envelopes up to it.
SnapshotAtWatermark ==
  \A c \in Conns : Informed(c) /\ pc[c] # "watermark" =>
    \A k \in DOMAIN state :
      state[k].seq =< snapshot[c].fromSeq => Has(snapshot[c].state, state[k])
=============================================================================
