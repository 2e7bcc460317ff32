--------------------------- MODULE AhpHostProofs ---------------------------
(***************************************************************************)
(* The delivery guarantees of one channel of the AHP host, for any number  *)
(* of connections, bridges and stamps.  The inductive invariant adds to    *)
(* the stated properties what they rest on: a stamp is held by one task    *)
(* and was not queued before its broadcast reaches a connection; what is   *)
(* folded is in a snapshot, queued or on its way to it, whatever the       *)
(* client makes of from_seq; an action that is folded or about to be is in *)
(* the snapshot, above its from_seq or published across its reads; the echo *)
(* of an action is folded before its derived action is stamped; and a      *)
(* connection that has read the state knows the cause of every derived     *)
(* action being published.                                                 *)
(***************************************************************************)
EXTENDS AhpHost, WellFoundedInduction, TLAPS

Publishing(t) == pc[t] \in {"fold", "broadcast", "send"}
HasSeq(envelopes, n) == \E k \in DOMAIN envelopes : envelopes[k].seq = n

\* The connection has the action, in its snapshot or in its stream.
Knows(c, e) == Has(snapshot[c].state, e) \/ Has(received[c], e)

\* What a task's position says of its jobs and its envelope.
Positions ==
  \A t \in Tasks :
    /\ pc[t] \in {"snapshot", "watermark"} => t \in Conns
    /\ pc[t] = "stamp" \/ Publishing(t) => jobs[t] # <<>>
    /\ Publishing(t) => envelope[t].seq > 0

\* No stamp is in use that the sequencer has not handed out.
Stamped ==
  /\ \A t \in Tasks : envelope[t].seq =< seq
  /\ \A k \in DOMAIN state : state[k].seq =< seq
  /\ \A c \in Conns : \A k \in DOMAIN received[c] : received[c][k].seq =< seq

\* A snapshot holds nothing stamped after its watermark.
SnapshotBelow ==
  \A c \in Conns : \A k \in DOMAIN snapshot[c].state :
    /\ snapshot[c].state[k].seq =< seq
    /\ pc[c] \notin {"snapshot", "watermark"} =>
         snapshot[c].state[k].seq =< snapshot[c].fromSeq

\* A stamp belongs to one task.
StampsDiffer ==
  \A t, u \in Tasks :
    envelope[t].seq # 0 /\ envelope[t].seq = envelope[u].seq => t = u

\* The broadcast of t has yet to reach c.
Pending(t, c) ==
  pc[t] \in {"fold", "broadcast"} \/ (pc[t] = "send" /\ c \in targets[t])

\* What is yet to reach a connection was not queued to it before.
Unsent ==
  \A t \in Tasks, c \in Conns : Pending(t, c) =>
    \A k \in DOMAIN received[c] : received[c][k].seq # envelope[t].seq

\* The stream of a connection carries no stamp twice.
StreamUnique ==
  \A c \in Conns : \A j, k \in DOMAIN received[c] :
    received[c][j].seq = received[c][k].seq => j = k

\* The task has an echo behind it, and the action derived from it to publish.
EchoLeads(t) ==
  \/ pc[t] = "stamp" /\ jobs[t] = <<"derived">>
  \/ pc[t] \in {"broadcast", "send"} /\ jobs[t] = <<"echo", "derived">>

\* The echo is in the channel's state before its derived action is stamped.
EchoFolded ==
  \A t \in Tasks : EchoLeads(t) => Has(state, envelope[t]) /\ envelope[t].seq # 0

KnowsSeq(c, n) == HasSeq(snapshot[c].state, n) \/ HasSeq(received[c], n)

\* The cause of a derived action is folded, and known to the connections that
\* have read the state, before the derived action is published.
CauseKnown ==
  \A t \in Tasks : Publishing(t) /\ envelope[t].cause # 0 =>
    /\ HasSeq(state, envelope[t].cause)
    /\ \A c \in Conns : Informed(c) => KnowsSeq(c, envelope[t].cause)

\* So is the cause of every envelope that was queued.
ReceivedCauses ==
  \A c \in Conns : \A k \in DOMAIN received[c] :
    received[c][k].cause # 0 => HasSeq(state, received[c][k].cause)

\* The folded actions reached every connection that has read the state.
Delivered ==
  \A c \in Conns : Informed(c) =>
    \A k \in DOMAIN state : Knows(c, state[k]) \/ Underway(state[k], c)

\* The snapshot of c accounts for a stamp: the action is in its state, ran
\* across its two reads, or was stamped after its watermark was read.
Accounted(c, e) ==
  \/ Has(snapshot[c].state, e)
  \/ e.seq \in raced[c]
  \/ pc[c] # "watermark" /\ e.seq > snapshot[c].fromSeq

\* So it does for every action that is folded or about to be.
SnapshotAccounts ==
  \A c \in Conns : Informed(c) =>
    /\ \A k \in DOMAIN state : Accounted(c, state[k])
    /\ \A t \in Tasks : pc[t] = "fold" => Accounted(c, envelope[t])

\* No watermark is above the highest stamp.
WatermarksBelow == \A c \in Conns : snapshot[c].fromSeq =< seq

IInv ==
  /\ TypeOK
  /\ Positions
  /\ Stamped
  /\ SnapshotBelow
  /\ StampsDiffer
  /\ Unsent
  /\ StreamUnique
  /\ EchoFolded
  /\ CauseKnown
  /\ ReceivedCauses
  /\ Delivered
  /\ SnapshotAccounts
  /\ WatermarksBelow
  /\ EchoFirst

PCs == {"idle", "stamp", "fold", "broadcast", "send", "snapshot", "watermark"}
Snapshots == [state : Seq(Envelopes), fromSeq : 0 .. MaxSeq]

------------------------------------------------------------------------------
(* Lemmas about the operators of the model.                                 *)

\* The next connection of a broadcast is one of its targets.
LEMMA FirstIsMember ==
  ASSUME NEW T, T \subseteq Nat, T # {}
  PROVE  First(T) \in T
  <1>1. {p \in Nat \X Nat : p[1] < p[2]} = OpToRel(<, Nat)
    BY Zenon DEF OpToRel
  <1> DEFINE R == {p \in Nat \X Nat : p[1] < p[2]}
  <1>2. PICK x \in T : \A y \in T : ~(<<y, x>> \in R)
    <2>1. IsWellFoundedOn(R, Nat)
      BY <1>1, NatLessThanWellFounded, Zenon
    <2> HIDE DEF R
    <2> QED BY <2>1, WFMin
  <1>3. ASSUME NEW y \in T PROVE x =< y
    <2>1. x \in Nat /\ y \in Nat
      OBVIOUS
    <2>2. <<y, x>> \in Nat \X Nat
      BY <2>1
    <2>3. ~(<<y, x>>[1] < <<y, x>>[2])
      BY <1>2, <2>2, Zenon
    <2>4. ~(y < x)
      BY <2>3
    <2> QED BY <2>1, <2>4
  <1>4. \E c \in T : \A d \in T : c =< d
    BY <1>3
  <1> QED BY <1>4 DEF First

\* s2 is s with e at its end.
Extended(s, s2, e) ==
  /\ s2 \in Seq(Envelopes)
  /\ Len(s) \in Nat
  /\ DOMAIN s = 1 .. Len(s)
  /\ DOMAIN s2 = 1 .. (Len(s) + 1)
  /\ \A k \in 1 .. Len(s) : s2[k] = s[k]
  /\ s2[Len(s) + 1] = e

LEMMA AppendExtends ==
  ASSUME NEW s \in Seq(Envelopes), NEW e \in Envelopes
  PROVE  Extended(s, Append(s, e), e)
  BY DEF Extended

LEMMA ExtendedHas ==
  ASSUME NEW s, NEW s2, NEW e, Extended(s, s2, e)
  PROVE  /\ \A x : Has(s2, x) <=> Has(s, x) \/ x = e
         /\ \A n : HasSeq(s2, n) <=> HasSeq(s, n) \/ n = e.seq
  <1>1. /\ Len(s) \in Nat
        /\ DOMAIN s2 = DOMAIN s \union {Len(s) + 1}
        /\ \A k \in DOMAIN s : s2[k] = s[k]
        /\ s2[Len(s) + 1] = e
    BY DEF Extended
  <1> QED BY <1>1 DEF Has, HasSeq

LEMMA EnvelopeFields ==
  ASSUME NEW e \in Envelopes
  PROVE  e.seq \in 0 .. MaxSeq /\ e.cause \in 0 .. MaxSeq /\ e.rejected \in BOOLEAN
  BY DEF Envelopes

\* The lists of jobs, and what Head and Tail make of them.
LEMMA JobLists ==
  ASSUME NEW j \in Jobs, j # <<>>
  PROVE  /\ Tail(j) \in Jobs
         /\ Len(j) > 1 <=> j = <<"echo", "derived">>
         /\ Len(j) > 1 => Tail(j) = <<"derived">>
         /\ Head(j) = "derived" <=> j = <<"derived">>
  <1>1. CASE j = <<"reject">> BY <1>1 DEF Jobs
  <1>2. CASE j = <<"echo">> BY <1>2 DEF Jobs
  <1>3. CASE j = <<"derived">> BY <1>3 DEF Jobs
  <1>4. CASE j = <<"echo", "derived">> BY <1>4 DEF Jobs
  <1> QED BY <1>1, <1>2, <1>3, <1>4 DEF Jobs

\* The initial states satisfy the invariant.
LEMMA InitIInv == Init => IInv
  <1> SUFFICES ASSUME Init PROVE IInv
    OBVIOUS
  <1> USE HostAssumption DEF Init
  <1>1. NoEnvelope \in Envelopes /\ NoSnapshot \in Snapshots
    BY DEF NoEnvelope, NoSnapshot, Envelopes, Snapshots
  <1>2. TypeOK
    <2>1. envelope \in [Tasks -> Envelopes] /\ snapshot \in [Conns -> Snapshots]
      BY <1>1
    <2> QED BY <2>1 DEF TypeOK, Snapshots, Jobs
  <1>3. Positions /\ EchoFolded /\ CauseKnown /\ Unsent
    BY DEF Positions, EchoFolded, CauseKnown, Unsent, Publishing, EchoLeads, Pending
  <1>4. Stamped /\ SnapshotBelow /\ StampsDiffer /\ WatermarksBelow
    BY DEF Stamped, SnapshotBelow, StampsDiffer, WatermarksBelow, NoEnvelope, NoSnapshot
  <1>5. StreamUnique /\ ReceivedCauses /\ Delivered /\ SnapshotAccounts /\ EchoFirst
    BY DEF StreamUnique, ReceivedCauses, Delivered, SnapshotAccounts, EchoFirst
  <1> QED BY <1>2, <1>3, <1>4, <1>5 DEF IInv

------------------------------------------------------------------------------
(* What the actions do.                                                     *)

LEMMA TypesOf ==
  ASSUME TypeOK
  PROVE  /\ seq \in 0 .. MaxSeq /\ seq \in Nat /\ MaxSeq \in Nat
         /\ state \in Seq(Envelopes)
         /\ alive \in [Conns -> BOOLEAN] /\ subscribed \in [Conns -> BOOLEAN]
         /\ received \in [Conns -> Seq(Envelopes)]
         /\ snapshot \in [Conns -> Snapshots]
         /\ raced \in [Conns -> SUBSET (1 .. MaxSeq)]
         /\ pc \in [Tasks -> PCs]
         /\ jobs \in [Tasks -> Jobs]
         /\ envelope \in [Tasks -> Envelopes]
         /\ targets \in [Tasks -> SUBSET Conns]
         /\ Conns \subseteq Tasks /\ Conns \subseteq Nat
  <1>1. seq \in Nat /\ MaxSeq \in Nat
    BY HostAssumption DEF TypeOK
  <1>2. Conns \subseteq Tasks /\ Conns \subseteq Nat
    BY HostAssumption DEF Conns, Tasks
  <1> QED BY <1>1, <1>2 DEF TypeOK, PCs, Snapshots

LEMMA TypesMake ==
  ASSUME seq \in 0 .. MaxSeq,
         state \in Seq(Envelopes),
         alive \in [Conns -> BOOLEAN], subscribed \in [Conns -> BOOLEAN],
         received \in [Conns -> Seq(Envelopes)],
         snapshot \in [Conns -> Snapshots],
         raced \in [Conns -> SUBSET (1 .. MaxSeq)],
         pc \in [Tasks -> PCs],
         jobs \in [Tasks -> Jobs],
         envelope \in [Tasks -> Envelopes],
         targets \in [Tasks -> SUBSET Conns]
  PROVE  TypeOK
  BY DEF TypeOK, PCs, Snapshots

\* Send queues the envelope to one more target, if its queue is open.
LEMMA SendEffect ==
  ASSUME TypeOK, NEW t \in Tasks, Send(t)
  PROVE  \E c \in targets[t] :
           /\ c \in Conns
           /\ pc[t] = "send"
           /\ targets' = [targets EXCEPT ![t] = @ \ {c}]
           /\ \A d \in Conns : d # c \/ ~alive[c] => received'[d] = received[d]
           /\ alive[c] => Extended(received[c], received'[c], envelope[t])
           /\ received' \in [Conns -> Seq(Envelopes)]
           /\ UNCHANGED <<seq, state, alive, subscribed, snapshot, raced, pc, jobs, envelope>>
  <1> DEFINE c == First(targets[t])
  <1>1. c \in targets[t] /\ c \in Conns
    <2>1. targets[t] \subseteq Conns /\ targets[t] \subseteq Nat /\ targets[t] # {}
      BY TypesOf DEF Send
    <2> QED BY <2>1, FirstIsMember
  <1>2. /\ pc[t] = "send"
        /\ targets' = [targets EXCEPT ![t] = @ \ {c}]
        /\ received' = IF alive[c] THEN [received EXCEPT ![c] = Append(@, envelope[t])]
                                   ELSE received
        /\ UNCHANGED <<seq, state, alive, subscribed, snapshot, raced, pc, jobs, envelope>>
    BY DEF Send
  <1> HIDE DEF c
  <1>3. received[c] \in Seq(Envelopes) /\ envelope[t] \in Envelopes
    BY <1>1, TypesOf
  <1>4. Append(received[c], envelope[t]) \in Seq(Envelopes)
    BY <1>3
  <1>5. \A d \in Conns : d # c \/ ~alive[c] => received'[d] = received[d]
    BY <1>1, <1>2, TypesOf
  <1>6. alive[c] => Extended(received[c], received'[c], envelope[t])
    BY <1>1, <1>2, <1>3, TypesOf, AppendExtends
  <1>7. received' \in [Conns -> Seq(Envelopes)]
    BY <1>1, <1>2, <1>4, TypesOf
  <1> QED BY <1>1, <1>2, <1>5, <1>6, <1>7

\* Forward and Dispatch: a task has something to publish.
Begins(t) ==
  /\ pc[t] = "idle"
  /\ pc' = [pc EXCEPT ![t] = "stamp"]
  /\ \E j \in {<<"reject">>, <<"echo">>, <<"echo", "derived">>} :
       jobs' = [jobs EXCEPT ![t] = j]
  /\ UNCHANGED <<seq, state, alive, subscribed, clients, envelope, targets>>

\* Subscribe, Unsubscribe and Kill: what the connection knew is forgotten, and
\* it is not informed any more.
Forgets(c) ==
  /\ c \in Conns
  /\ received' = [received EXCEPT ![c] = <<>>]
  /\ snapshot' = [snapshot EXCEPT ![c] = NoSnapshot]
  /\ raced' = [raced EXCEPT ![c] = {}]
  /\ \/ UNCHANGED pc
     \/ pc[c] = "idle" /\ pc' = [pc EXCEPT ![c] = "snapshot"]
  /\ ~Informed(c)'
  /\ \A d \in Conns \ {c} : Informed(d)' <=> Informed(d)
  /\ alive' \in [Conns -> BOOLEAN] /\ subscribed' \in [Conns -> BOOLEAN]
  /\ UNCHANGED <<seq, state, publication>>

Steps(t) ==
  \/ Begins(t) \/ Stamp(t) \/ Fold(t) \/ Collect(t) \/ Send(t) \/ Published(t)
  \/ ReadState(t) \/ ReadWatermark(t) \/ Forgets(t)

LEMMA ForgetsSplit ==
  ASSUME TypeOK, NEW t \in Tasks, Subscribe(t) \/ Unsubscribe(t) \/ Kill(t)
  PROVE  Forgets(t)
  <1>1. /\ alive \in [Conns -> BOOLEAN] /\ subscribed \in [Conns -> BOOLEAN]
        /\ pc \in [Tasks -> PCs] /\ Conns \subseteq Tasks
    BY TypesOf
  <1>2. CASE Subscribe(t)
    <2>1. ~Informed(t)'
      BY <1>1, <1>2 DEF Subscribe, Goto, Informed
    <2>2. \A d \in Conns \ {t} : Informed(d)' <=> Informed(d)
      BY <1>1, <1>2 DEF Subscribe, Goto, Informed, Observes
    <2> QED BY <1>1, <1>2, <2>1, <2>2 DEF Subscribe, Forgets, Fresh, Goto
  <1>3. CASE Unsubscribe(t)
    <2>1. ~Informed(t)'
      BY <1>1, <1>3 DEF Unsubscribe, Informed, Observes
    <2>2. \A d \in Conns \ {t} : Informed(d)' <=> Informed(d)
      BY <1>1, <1>3 DEF Unsubscribe, Informed, Observes
    <2> QED BY <1>1, <1>3, <2>1, <2>2 DEF Unsubscribe, Forgets, Fresh
  <1>4. CASE Kill(t)
    <2>1. ~Informed(t)'
      BY <1>1, <1>4 DEF Kill, Informed, Observes
    <2>2. \A d \in Conns \ {t} : Informed(d)' <=> Informed(d)
      BY <1>1, <1>4 DEF Kill, Informed, Observes
    <2> QED BY <1>1, <1>4, <2>1, <2>2 DEF Kill, Forgets, Fresh
  <1> QED BY <1>2, <1>3, <1>4

LEMMA NextSplits ==
  ASSUME TypeOK, Next
  PROVE  \E t \in Tasks : Steps(t)
  <1>1. PICK t \in Tasks : \/ Forward(t) \/ Dispatch(t) \/ Publish(t)
                           \/ Subscribe(t) \/ Serve(t) \/ Unsubscribe(t) \/ Kill(t)
    BY DEF Next
  <1>2. CASE Forward(t) \/ Dispatch(t)
    BY <1>2 DEF Forward, Dispatch, Begins, Steps, Goto
  <1>3. CASE Publish(t) \/ Serve(t)
    BY <1>3 DEF Publish, Serve, Steps
  <1>4. CASE Subscribe(t) \/ Unsubscribe(t) \/ Kill(t)
    BY <1>4, ForgetsSplit DEF Steps
  <1> QED BY <1>1, <1>2, <1>3, <1>4

\* Every step keeps the types.
LEMMA TypeStep ==
  ASSUME IInv, NEW t \in Tasks, Steps(t)
  PROVE  TypeOK'
  <1>1. /\ TypeOK /\ Positions
        /\ seq \in 0 .. MaxSeq /\ seq \in Nat /\ MaxSeq \in Nat
        /\ state \in Seq(Envelopes)
        /\ alive \in [Conns -> BOOLEAN] /\ subscribed \in [Conns -> BOOLEAN]
        /\ received \in [Conns -> Seq(Envelopes)]
        /\ snapshot \in [Conns -> Snapshots]
        /\ raced \in [Conns -> SUBSET (1 .. MaxSeq)]
        /\ pc \in [Tasks -> PCs]
        /\ jobs \in [Tasks -> Jobs]
        /\ envelope \in [Tasks -> Envelopes]
        /\ targets \in [Tasks -> SUBSET Conns]
        /\ Conns \subseteq Tasks
    BY TypesOf DEF IInv
  <1>2. \A l \in PCs : [pc EXCEPT ![t] = l] \in [Tasks -> PCs]
    BY <1>1
  <1> USE DEF Goto
  <1>3. CASE Begins(t)
    <2>1. jobs' \in [Tasks -> Jobs]
      BY <1>1, <1>3 DEF Begins, Jobs
    <2>2. pc' \in [Tasks -> PCs]
      BY <1>2, <1>3 DEF Begins, PCs
    <2> QED BY <1>1, <1>3, <2>1, <2>2 DEF Begins, clients, TypeOK, PCs
  <1>4. CASE Stamp(t)
    <2>1. envelope' \in [Tasks -> Envelopes]
      <3> DEFINE e == [seq |-> seq', rejected |-> Head(jobs[t]) = "reject",
                       cause |-> IF Head(jobs[t]) = "derived" THEN envelope[t].seq ELSE 0]
      <3>1. seq' \in 0 .. MaxSeq /\ envelope[t].seq \in 0 .. MaxSeq /\ 0 \in 0 .. MaxSeq
        BY <1>1, <1>4, EnvelopeFields DEF Stamp
      <3>2. e \in Envelopes
        BY <3>1 DEF Envelopes
      <3>3. envelope' = [envelope EXCEPT ![t] = e]
        BY <1>4 DEF Stamp
      <3> HIDE DEF e
      <3> QED BY <1>1, <3>2, <3>3
    <2>2. pc' \in [Tasks -> PCs]
      BY <1>2, <1>4 DEF Stamp, PCs
    <2>3. seq' \in 0 .. MaxSeq
      BY <1>1, <1>4 DEF Stamp
    <2>4. raced' \in [Conns -> SUBSET (1 .. MaxSeq)]
      <3>1. seq' \in 1 .. MaxSeq
        BY <1>1, <1>4 DEF Stamp
      <3> QED BY <1>1, <1>4, <3>1 DEF Stamp
    <2> QED BY <1>1, <1>4, <2>1, <2>2, <2>3, <2>4 DEF Stamp, clients, TypeOK, PCs
  <1>5. CASE Fold(t)
    <2>1. state' \in Seq(Envelopes)
      BY <1>1, <1>5 DEF Fold
    <2>2. pc' \in [Tasks -> PCs]
      BY <1>2, <1>5 DEF Fold, PCs
    <2> QED BY <1>1, <1>5, <2>1, <2>2 DEF Fold, clients, publication, TypeOK, PCs
  <1>6. CASE Collect(t)
    <2>1. targets' \in [Tasks -> SUBSET Conns]
      BY <1>1, <1>6 DEF Collect, Subscribers
    <2>2. pc' \in [Tasks -> PCs]
      BY <1>2, <1>6 DEF Collect, PCs
    <2> QED BY <1>1, <1>6, <2>1, <2>2 DEF Collect, clients, TypeOK, PCs
  <1>7. CASE Send(t)
    <2>1. received' \in [Conns -> Seq(Envelopes)] /\ targets' \in [Tasks -> SUBSET Conns]
      <3>1. PICK c \in targets[t] :
              /\ received' \in [Conns -> Seq(Envelopes)]
              /\ targets' = [targets EXCEPT ![t] = @ \ {c}]
        BY <1>1, <1>7, SendEffect
      <3> QED BY <1>1, <3>1
    <2> QED BY <1>1, <1>7, <2>1 DEF Send, TypeOK
  <1>8. CASE Published(t)
    <2>1. jobs' \in [Tasks -> Jobs]
      <3>1. jobs[t] \in Jobs /\ jobs[t] # <<>>
        BY <1>1, <1>8 DEF Published, Positions, Publishing
      <3>2. Tail(jobs[t]) \in Jobs
        BY <3>1, JobLists
      <3> QED BY <1>1, <1>8, <3>2 DEF Published
    <2>2. pc' \in [Tasks -> PCs]
      BY <1>2, <1>8 DEF Published, PCs
    <2>3. envelope' \in [Tasks -> Envelopes]
      <3>1. NoEnvelope \in Envelopes
        BY <1>1 DEF NoEnvelope, Envelopes
      <3> QED BY <1>1, <1>8, <3>1 DEF Published
    <2> QED BY <1>1, <1>8, <2>1, <2>2, <2>3 DEF Published, clients, TypeOK, PCs
  <1>9. CASE ReadState(t)
    <2>1. snapshot' \in [Conns -> Snapshots]
      BY <1>1, <1>9 DEF ReadState, Snapshots
    <2>2. pc' \in [Tasks -> PCs]
      BY <1>2, <1>9 DEF ReadState, PCs
    <2>3. raced' \in [Conns -> SUBSET (1 .. MaxSeq)]
      <3>1. ASSUME NEW u \in Tasks, pc[u] = "fold" PROVE envelope[u].seq \in 1 .. MaxSeq
        <4>1. envelope[u].seq \in 0 .. MaxSeq /\ envelope[u].seq > 0
          BY <1>1, <3>1, EnvelopeFields DEF Positions, Publishing
        <4> QED BY <1>1, <4>1
      <3> DEFINE pending == {envelope[x].seq : x \in {w \in Tasks : pc[w] = "fold"}}
      <3>2. pending \in SUBSET (1 .. MaxSeq)
        BY <3>1
      <3>3. raced' = [raced EXCEPT ![t] = pending]
        BY <1>9 DEF ReadState
      <3> HIDE DEF pending
      <3> QED BY <1>1, <3>2, <3>3
    <2> QED BY <1>1, <1>9, <2>1, <2>2, <2>3 DEF ReadState, publication, TypeOK, PCs, Snapshots
  <1>10. CASE ReadWatermark(t)
    <2>1. snapshot' \in [Conns -> Snapshots]
      BY <1>1, <1>10 DEF ReadWatermark, Snapshots
    <2>2. pc' \in [Tasks -> PCs]
      BY <1>2, <1>10 DEF ReadWatermark, PCs
    <2> QED BY <1>1, <1>10, <2>1, <2>2 DEF ReadWatermark, publication, TypeOK, PCs, Snapshots
  <1>11. CASE Forgets(t)
    <2>1. snapshot' \in [Conns -> Snapshots]
      <3>1. NoSnapshot \in Snapshots
        BY <1>1 DEF NoSnapshot, Snapshots
      <3> QED BY <1>1, <1>11, <3>1 DEF Forgets
    <2>2. pc' \in [Tasks -> PCs]
      BY <1>1, <1>2, <1>11 DEF Forgets, PCs
    <2>3. received' \in [Conns -> Seq(Envelopes)]
      BY <1>1, <1>11 DEF Forgets
    <2>4. raced' \in [Conns -> SUBSET (1 .. MaxSeq)]
      BY <1>1, <1>11 DEF Forgets
    <2> QED BY <1>1, <1>11, <2>1, <2>2, <2>3, <2>4 DEF Forgets, publication, TypeOK, PCs, Snapshots
  <1> QED BY <1>3, <1>4, <1>5, <1>6, <1>7, <1>8, <1>9, <1>10, <1>11 DEF Steps

------------------------------------------------------------------------------
(* The parts of the invariant, one by one.                                  *)

LEMMA PositionsStep ==
  ASSUME IInv, NEW t \in Tasks, Steps(t)
  PROVE  Positions'
  <1>1. /\ TypeOK /\ Positions /\ seq \in Nat
        /\ pc \in [Tasks -> PCs] /\ jobs \in [Tasks -> Jobs]
        /\ envelope \in [Tasks -> Envelopes] /\ Conns \subseteq Tasks
    BY TypesOf DEF IInv
  <1> USE DEF Goto, Positions, Publishing
  <1>3. CASE Begins(t)
    <2>1. jobs'[t] # <<>> /\ \A u \in Tasks \ {t} : jobs'[u] = jobs[u]
      <3>1. PICK j \in {<<"reject">>, <<"echo">>, <<"echo", "derived">>} :
              jobs' = [jobs EXCEPT ![t] = j]
        BY <1>3 DEF Begins
      <3>2. j # <<>>
        OBVIOUS
      <3> QED BY <1>1, <3>1, <3>2
    <2>2. pc'[t] = "stamp" /\ \A u \in Tasks \ {t} : pc'[u] = pc[u]
      BY <1>1, <1>3 DEF Begins
    <2>3. envelope' = envelope
      BY <1>3 DEF Begins
    <2> QED BY <1>1, <2>1, <2>2, <2>3
  <1>4. CASE Stamp(t)
    <2>1. jobs[t] # <<>> /\ t \in Tasks /\ jobs' = jobs
      BY <1>1, <1>4 DEF Stamp
    <2>2. envelope'[t].seq = seq + 1
      BY <1>1, <1>4 DEF Stamp
    <2>3. \A u \in Tasks : u # t => envelope'[u] = envelope[u] /\ pc'[u] = pc[u]
      BY <1>1, <1>4 DEF Stamp
    <2>4. pc'[t] \in {"broadcast", "fold"}
      BY <1>1, <1>4 DEF Stamp
    <2> QED BY <1>1, <2>1, <2>2, <2>3, <2>4
  <1>5. CASE Fold(t)
    BY <1>1, <1>5 DEF Fold, publication
  <1>6. CASE Collect(t)
    BY <1>1, <1>6 DEF Collect
  <1>7. CASE Send(t)
    BY <1>1, <1>7 DEF Send
  <1>8. CASE Published(t)
    <2>1. jobs[t] \in Jobs /\ jobs[t] # <<>>
      BY <1>1, <1>8 DEF Published
    <2>2. \A u \in Tasks : u # t =>
            envelope'[u] = envelope[u] /\ pc'[u] = pc[u] /\ jobs'[u] = jobs[u]
      BY <1>1, <1>8 DEF Published
    <2>3. CASE Len(jobs[t]) > 1
      <3>1. pc'[t] = "stamp" /\ jobs'[t] # <<>>
        <4>1. Tail(jobs[t]) = <<"derived">>
          BY <2>1, <2>3, JobLists
        <4>2. Tail(jobs[t]) # <<>>
          BY <4>1
        <4> QED BY <1>1, <1>8, <2>3, <4>2 DEF Published
      <3> QED BY <1>1, <2>2, <3>1
    <2>4. CASE ~(Len(jobs[t]) > 1)
      <3>1. pc'[t] = "idle"
        BY <1>1, <1>8, <2>4 DEF Published
      <3> QED BY <1>1, <2>2, <3>1
    <2> QED BY <2>3, <2>4
  <1>9. CASE ReadState(t)
    BY <1>1, <1>9 DEF ReadState, publication
  <1>10. CASE ReadWatermark(t)
    BY <1>1, <1>10 DEF ReadWatermark, publication
  <1>11. CASE Forgets(t)
    BY <1>1, <1>11 DEF Forgets, publication
  <1> QED BY <1>3, <1>4, <1>5, <1>6, <1>7, <1>8, <1>9, <1>10, <1>11 DEF Steps

\* A step stamps nothing, or gives one task a stamp above all others.
LEMMA EnvelopesMove ==
  ASSUME IInv, NEW t \in Tasks, Steps(t)
  PROVE  /\ seq' \in Nat /\ seq =< seq'
         /\ \A u \in Tasks \ {t} : envelope'[u] = envelope[u]
         /\ \/ envelope' = envelope
            \/ envelope'[t].seq = 0 /\ Published(t)
            \/ seq' = seq + 1 /\ envelope'[t].seq = seq + 1 /\ Stamp(t)
  <1>1. /\ TypeOK /\ seq \in Nat /\ envelope \in [Tasks -> Envelopes]
    BY TypesOf DEF IInv
  <1>2. CASE Stamp(t)
    <2>1. envelope'[t].seq = seq + 1
      BY <1>1, <1>2 DEF Stamp
    <2> QED BY <1>1, <1>2, <2>1 DEF Stamp
  <1>3. CASE Published(t)
    BY <1>1, <1>3 DEF Published, NoEnvelope
  <1>4. CASE envelope' = envelope /\ seq' = seq
    BY <1>1, <1>4
  <1> QED
    BY <1>2, <1>3, <1>4
    DEF Steps, Begins, Fold, Collect, Send, ReadState, ReadWatermark, Forgets, publication

LEMMA StampsDifferStep ==
  ASSUME IInv, NEW t \in Tasks, Steps(t)
  PROVE  StampsDiffer'
  <1>1. /\ StampsDiffer /\ seq \in Nat /\ envelope \in [Tasks -> Envelopes]
        /\ \A u \in Tasks : envelope[u].seq =< seq /\ envelope[u].seq \in Nat
    <2>1. \A u \in Tasks : envelope[u].seq \in 0 .. MaxSeq
      BY TypesOf, EnvelopeFields DEF IInv
    <2> QED BY <2>1, TypesOf DEF IInv, Stamped
  <1>2. CASE envelope' = envelope
    BY <1>1, <1>2 DEF StampsDiffer
  <1>3. ASSUME envelope'[t].seq = 0 \/ envelope'[t].seq = seq + 1,
               \A u \in Tasks \ {t} : envelope'[u] = envelope[u]
        PROVE  StampsDiffer'
    BY <1>1, <1>3 DEF StampsDiffer
  <1> QED BY <1>2, <1>3, EnvelopesMove

\* What a step does to the stream of a connection: nothing, forget it, or put
\* the envelope of the sending task at its end.
LEMMA StreamsMove ==
  ASSUME IInv, NEW t \in Tasks, Steps(t), NEW c \in Conns
  PROVE  \/ received'[c] = received[c]
         \/ received'[c] = <<>> /\ Forgets(t) /\ c = t
         \/ /\ Send(t) /\ pc[t] = "send" /\ pc' = pc /\ c \in targets[t] /\ c \notin targets'[t]
            /\ alive[c]
            /\ Extended(received[c], received'[c], envelope[t])
            /\ UNCHANGED <<seq, state, alive, subscribed, snapshot, raced, envelope>>
            /\ \A u \in Tasks \ {t} : targets'[u] = targets[u]
  <1>1. /\ TypeOK /\ received \in [Conns -> Seq(Envelopes)]
        /\ targets \in [Tasks -> SUBSET Conns]
    BY TypesOf DEF IInv
  <1>2. CASE Send(t)
    <2>1. PICK d \in targets[t] :
            /\ d \in Conns
            /\ pc[t] = "send"
            /\ targets' = [targets EXCEPT ![t] = @ \ {d}]
            /\ \A x \in Conns : x # d \/ ~alive[d] => received'[x] = received[x]
            /\ alive[d] => Extended(received[d], received'[d], envelope[t])
            /\ UNCHANGED <<seq, state, alive, subscribed, snapshot, raced, pc, jobs, envelope>>
      BY <1>1, <1>2, SendEffect
    <2>2. CASE d # c \/ ~alive[d]
      BY <2>1, <2>2
    <2>3. CASE d = c /\ alive[d]
      BY <1>1, <1>2, <2>1, <2>3
    <2> QED BY <2>2, <2>3
  <1>3. CASE Forgets(t)
    BY <1>1, <1>3 DEF Forgets
  <1>4. CASE received' = received
    BY <1>4
  <1> QED
    BY <1>2, <1>3, <1>4
    DEF Steps, Begins, Stamp, Fold, Collect, Published, ReadState, ReadWatermark, clients

LEMMA StampedStep ==
  ASSUME IInv, NEW t \in Tasks, Steps(t)
  PROVE  Stamped'
  <1>1. /\ TypeOK /\ Stamped /\ seq \in Nat /\ state \in Seq(Envelopes)
        /\ \A u \in Tasks : envelope[u] \in Envelopes /\ envelope[u].seq \in Nat
        /\ seq' \in Nat /\ seq =< seq'
    <2>1. \A u \in Tasks : envelope[u] \in Envelopes /\ envelope[u].seq \in 0 .. MaxSeq
      BY TypesOf, EnvelopeFields DEF IInv
    <2> QED BY <2>1, TypesOf, EnvelopesMove DEF IInv
  <1>2. ASSUME NEW u \in Tasks PROVE envelope'[u].seq =< seq'
    BY <1>1, EnvelopesMove DEF Stamped
  <1>3. ASSUME NEW k \in DOMAIN state' PROVE state'[k].seq =< seq'
    <2>1. CASE Fold(t)
      <3>1. Extended(state, state', envelope[t])
        BY <1>1, <2>1, AppendExtends DEF Fold
      <3>2. (k \in DOMAIN state /\ state'[k] = state[k]) \/ state'[k] = envelope[t]
        BY <3>1 DEF Extended
      <3>3. ASSUME NEW i \in DOMAIN state PROVE state[i].seq \in Nat
        BY <1>1, EnvelopeFields
      <3> QED BY <1>1, <3>2, <3>3 DEF Stamped
    <2>2. CASE state' = state
      <3>1. state[k] \in Envelopes
        BY <1>1, <2>2
      <3>2. state[k].seq \in Nat
        BY <3>1, EnvelopeFields
      <3> QED BY <1>1, <2>2, <3>2 DEF Stamped
    <2> QED
      BY <2>1, <2>2
      DEF Steps, Begins, Stamp, Collect, Send, Published, ReadState, ReadWatermark, Forgets
  <1>4. ASSUME NEW c \in Conns, NEW k \in DOMAIN received'[c]
        PROVE  received'[c][k].seq =< seq'
    <2>1. ASSUME NEW i \in DOMAIN received[c] PROVE received[c][i].seq =< seq'
      <3>1. received[c][i] \in Envelopes
        BY TypesOf DEF IInv
      <3>2. received[c][i].seq \in Nat
        BY <3>1, EnvelopeFields
      <3> QED BY <1>1, <3>2 DEF Stamped
    <2>2. envelope[t].seq =< seq'
      BY <1>1 DEF Stamped
    <2>3. CASE received'[c] = received[c]
      BY <2>1, <2>3
    <2>4. CASE received'[c] = <<>>
      BY <2>4
    <2>5. CASE Extended(received[c], received'[c], envelope[t])
      BY <2>1, <2>2, <2>5 DEF Extended
    <2> QED BY <2>3, <2>4, <2>5, StreamsMove
  <1> QED BY <1>2, <1>3, <1>4 DEF Stamped

\* The channel's state only grows.
LEMMA StateMoves ==
  ASSUME IInv, NEW t \in Tasks, Steps(t)
  PROVE  /\ \/ state' = state /\ ~Fold(t)
            \/ Fold(t) /\ Extended(state, state', envelope[t])
         /\ \A e : Has(state, e) => Has(state', e)
         /\ \A n : HasSeq(state, n) => HasSeq(state', n)
  <1>1. CASE Fold(t)
    <2>1. Extended(state, state', envelope[t])
      BY <1>1, TypesOf, AppendExtends DEF IInv, Fold
    <2> QED BY <1>1, <2>1, ExtendedHas
  <1>2. CASE state' = state
    BY <1>1, <1>2
  <1> QED
    BY <1>1, <1>2
    DEF Steps, Begins, Stamp, Collect, Send, Published, ReadState, ReadWatermark, Forgets

\* Only the stepping task moves.
LEMMA OthersStay ==
  ASSUME IInv, NEW t \in Tasks, Steps(t), NEW u \in Tasks, u # t
  PROVE  /\ pc'[u] = pc[u] /\ jobs'[u] = jobs[u]
         /\ envelope'[u] = envelope[u] /\ targets'[u] = targets[u]
  <1>1. /\ pc \in [Tasks -> PCs] /\ jobs \in [Tasks -> Jobs]
        /\ envelope \in [Tasks -> Envelopes] /\ targets \in [Tasks -> SUBSET Conns]
    BY TypesOf DEF IInv
  <1> USE DEF Goto, clients, publication
  <1>2. CASE Begins(t) BY <1>1, <1>2 DEF Begins
  <1>3. CASE Stamp(t) BY <1>1, <1>3 DEF Stamp
  <1>4. CASE Fold(t) BY <1>1, <1>4 DEF Fold
  <1>5. CASE Collect(t) BY <1>1, <1>5 DEF Collect
  <1>6. CASE Send(t) BY <1>1, <1>6 DEF Send
  <1>7. CASE Published(t) BY <1>1, <1>7 DEF Published
  <1>8. CASE ReadState(t) BY <1>1, <1>8 DEF ReadState
  <1>9. CASE ReadWatermark(t) BY <1>1, <1>9 DEF ReadWatermark
  <1>10. CASE Forgets(t) BY <1>1, <1>10 DEF Forgets
  <1> QED BY <1>2, <1>3, <1>4, <1>5, <1>6, <1>7, <1>8, <1>9, <1>10 DEF Steps

\* The stepping task reads the state or the watermark, forgets, or publishes.
LEMMA SnapshotsMove ==
  ASSUME IInv, NEW t \in Tasks, Steps(t), NEW c \in Conns
  PROVE  \/ /\ ReadState(t) /\ c = t /\ snapshot'[c].state = state
            /\ state' = state /\ received' = received /\ pc'[c] = "watermark"
         \/ /\ ReadWatermark(t) /\ c = t /\ snapshot'[c].state = snapshot[c].state
            /\ snapshot'[c].fromSeq = seq /\ pc[c] = "watermark"
         \/ Forgets(t) /\ c = t /\ snapshot'[c].state = <<>>
         \/ /\ snapshot'[c] = snapshot[c]
            /\ \/ pc'[c] = pc[c]
               \/ pc[c] \notin {"snapshot", "watermark"} /\ ~Forgets(t)
  <1>1. /\ snapshot \in [Conns -> Snapshots] /\ pc \in [Tasks -> PCs] /\ Conns \subseteq Tasks
    BY TypesOf DEF IInv
  <1>2. snapshot[c] \in Snapshots
    BY <1>1
  <1> USE DEF Goto, clients, publication
  <1>3. CASE c # t
    <2>1. pc'[c] = pc[c]
      BY <1>1, <1>3, OthersStay
    <2>2. snapshot'[c] = snapshot[c]
      BY <1>1, <1>3
      DEF Steps, Begins, Stamp, Fold, Collect, Send, Published, ReadState, ReadWatermark, Forgets
    <2> QED BY <2>1, <2>2
  <1>4. CASE c = t
    <2>1. CASE ReadState(t)
      <3>1. snapshot'[c].state = state
        BY <1>1, <1>2, <1>4, <2>1 DEF ReadState, Snapshots
      <3> QED BY <1>1, <1>4, <2>1, <3>1 DEF ReadState
    <2>2. CASE ReadWatermark(t)
      <3>1. snapshot'[c].state = snapshot[c].state /\ snapshot'[c].fromSeq = seq
        BY <1>1, <1>2, <1>4, <2>2 DEF ReadWatermark, Snapshots
      <3> QED BY <1>1, <1>4, <2>2, <3>1 DEF ReadWatermark
    <2>3. CASE Forgets(t)
      BY <1>1, <1>4, <2>3 DEF Forgets, NoSnapshot
    <2>4. CASE Begins(t) \/ Stamp(t) \/ Fold(t) \/ Collect(t) \/ Send(t) \/ Published(t)
      <3>1. snapshot' = snapshot /\ pc[c] \notin {"snapshot", "watermark"}
        BY <1>4, <2>4 DEF Begins, Stamp, Fold, Collect, Send, Published
      <3> QED BY <2>3, <3>1
    <2> QED BY <2>1, <2>2, <2>3, <2>4 DEF Steps
  <1> QED BY <1>3, <1>4

LEMMA SnapshotBelowStep ==
  ASSUME IInv, NEW t \in Tasks, Steps(t)
  PROVE  SnapshotBelow'
  <1> SUFFICES ASSUME NEW c \in Conns, NEW k \in DOMAIN snapshot'[c].state
               PROVE  /\ snapshot'[c].state[k].seq =< seq'
                      /\ pc'[c] \notin {"snapshot", "watermark"} =>
                           snapshot'[c].state[k].seq =< snapshot'[c].fromSeq
    BY DEF SnapshotBelow
  <1>1. seq \in Nat /\ seq' \in Nat /\ seq =< seq'
    BY TypesOf, EnvelopesMove DEF IInv
  <1>2. CASE snapshot'[c].state = state /\ pc'[c] = "watermark"
    <2>1. state[k] \in Envelopes
      BY <1>2, TypesOf DEF IInv
    <2>2. state[k].seq \in Nat
      BY <2>1, EnvelopeFields
    <2> QED BY <1>1, <1>2, <2>2 DEF IInv, Stamped
  <1>3. ASSUME snapshot'[c].state = snapshot[c].state
        PROVE  snapshot[c].state[k].seq \in Nat /\ snapshot[c].state[k].seq =< seq
    <2>1. snapshot[c].state[k] \in Envelopes
      BY <1>3, TypesOf DEF IInv, Snapshots
    <2> QED BY <1>3, <2>1, EnvelopeFields DEF IInv, SnapshotBelow
  <1>4. CASE /\ snapshot'[c].state = snapshot[c].state
             /\ snapshot'[c].fromSeq = seq
    BY <1>1, <1>3, <1>4
  <1>5. CASE snapshot'[c].state = <<>>
    BY <1>5
  <1>6. CASE /\ snapshot'[c] = snapshot[c]
             /\ pc'[c] = pc[c] \/ pc[c] \notin {"snapshot", "watermark"}
    BY <1>1, <1>3, <1>6 DEF IInv, SnapshotBelow
  <1> QED BY <1>2, <1>4, <1>5, <1>6, SnapshotsMove

\* A broadcast that has yet to reach a connection had to reach it before, but
\* for the envelope that is stamped in this step.
LEMMA PendingMoves ==
  ASSUME IInv, NEW t \in Tasks, Steps(t), NEW u \in Tasks, NEW c \in Conns, Pending(u, c)'
  PROVE  \/ Stamp(t) /\ u = t
         \/ Pending(u, c) /\ envelope'[u] = envelope[u]
  <1>1. /\ pc \in [Tasks -> PCs] /\ targets \in [Tasks -> SUBSET Conns]
    BY TypesOf DEF IInv
  <1> USE DEF Goto, clients, publication, Pending
  <1>2. CASE u # t
    BY <1>2, OthersStay
  <1>3. CASE u = t
    <2>1. CASE Stamp(t) BY <1>3, <2>1
    <2>2. CASE Fold(t) BY <1>1, <1>3, <2>2 DEF Fold
    <2>3. CASE Collect(t) BY <1>1, <1>3, <2>3 DEF Collect
    <2>4. CASE Send(t) BY <1>1, <1>3, <2>4 DEF Send
    <2>5. CASE Begins(t) \/ Published(t) \/ ReadState(t) \/ ReadWatermark(t)
      <3>1. pc'[t] \in {"stamp", "idle", "watermark"}
        BY <1>1, <2>5 DEF Begins, Published, ReadState, ReadWatermark
      <3> QED BY <1>3, <3>1
    <2>6. CASE Forgets(t) BY <1>1, <1>3, <2>6 DEF Forgets
    <2> QED BY <2>1, <2>2, <2>3, <2>4, <2>5, <2>6 DEF Steps
  <1> QED BY <1>2, <1>3

LEMMA UnsentStep ==
  ASSUME IInv, NEW t \in Tasks, Steps(t)
  PROVE  Unsent'
  <1> SUFFICES ASSUME NEW u \in Tasks, NEW c \in Conns, Pending(u, c)',
                      NEW k \in DOMAIN received'[c]
               PROVE  received'[c][k].seq # envelope'[u].seq
    BY DEF Unsent
  <1>1. ASSUME NEW i \in DOMAIN received[c]
        PROVE  received[c][i].seq # envelope'[u].seq
    <2>1. received[c][i] \in Envelopes /\ seq \in Nat
      BY TypesOf DEF IInv
    <2>2. received[c][i].seq \in Nat /\ received[c][i].seq =< seq
      BY <2>1, EnvelopeFields DEF IInv, Stamped
    <2>3. CASE Stamp(t) /\ u = t
      <3>1. envelope'[t].seq = seq + 1
        BY <2>3, TypesOf DEF IInv, Stamp
      <3> QED BY <2>1, <2>2, <2>3, <3>1
    <2>4. CASE Pending(u, c) /\ envelope'[u] = envelope[u]
      BY <2>4 DEF IInv, Unsent
    <2> QED BY <2>3, <2>4, PendingMoves
  <1>2. CASE received'[c] = received[c]
    BY <1>1, <1>2
  <1>3. CASE received'[c] = <<>>
    BY <1>3
  <1>4. CASE /\ Send(t) /\ pc[t] = "send" /\ pc' = pc /\ c \notin targets'[t]
             /\ Extended(received[c], received'[c], envelope[t]) /\ envelope' = envelope
    <2>1. u # t
      BY <1>4 DEF Pending
    <2>2. envelope[t].seq # 0
      BY <1>4, TypesOf, EnvelopeFields DEF IInv, Positions, Publishing
    <2>3. envelope[t].seq # envelope'[u].seq
      BY <1>4, <2>1, <2>2 DEF IInv, StampsDiffer
    <2> QED BY <1>1, <1>4, <2>3, SMTT(30) DEF Extended
  <1> QED BY <1>2, <1>3, <1>4, StreamsMove

LEMMA StreamUniqueStep ==
  ASSUME IInv, NEW t \in Tasks, Steps(t)
  PROVE  StreamUnique'
  <1> SUFFICES ASSUME NEW c \in Conns
               PROVE  \A j, k \in DOMAIN received'[c] :
                        received'[c][j].seq = received'[c][k].seq => j = k
    BY DEF StreamUnique
  <1>1. \A j, k \in DOMAIN received[c] : received[c][j].seq = received[c][k].seq => j = k
    BY DEF IInv, StreamUnique
  <1>2. CASE received'[c] = received[c]
    BY <1>1, <1>2
  <1>3. CASE received'[c] = <<>>
    BY <1>3
  <1>4. CASE /\ pc[t] = "send" /\ c \in targets[t]
             /\ Extended(received[c], received'[c], envelope[t])
    <2>1. \A k \in DOMAIN received[c] : received[c][k].seq # envelope[t].seq
      BY <1>4 DEF IInv, Unsent, Pending
    <2> DEFINE last == Len(received[c]) + 1
    <2>2. /\ last \notin DOMAIN received[c]
          /\ DOMAIN received'[c] = DOMAIN received[c] \union {last}
          /\ \A k \in DOMAIN received[c] : received'[c][k] = received[c][k]
          /\ received'[c][last] = envelope[t]
      BY <1>4 DEF Extended
    <2> HIDE DEF last
    <2> QED BY <1>1, <2>1, <2>2
  <1> QED BY <1>2, <1>3, <1>4, StreamsMove

\* Knows, KnowsSeq and Underway in the next state.
KnowsThen(c, e) == Has(snapshot'[c].state, e) \/ Has(received'[c], e)
KnowsSeqThen(c, n) == HasSeq(snapshot'[c].state, n) \/ HasSeq(received'[c], n)
UnderwayThen(e, c) ==
  \E t \in Tasks :
    /\ envelope'[t] = e
    /\ pc'[t] = "broadcast" \/ (pc'[t] = "send" /\ c \in targets'[t])

\* A connection that is informed after the step was so before it and still has
\* all that it knew, or it reads the state in this step.
LEMMA InformedMoves ==
  ASSUME IInv, NEW t \in Tasks, Steps(t), NEW c \in Conns, Informed(c)'
  PROVE  \/ /\ ReadState(t) /\ c = t
            /\ snapshot'[c].state = state /\ state' = state /\ received'[c] = received[c]
         \/ /\ Informed(c)
            /\ snapshot'[c].state = snapshot[c].state
            /\ \/ received'[c] = received[c]
               \/ /\ Send(t) /\ Extended(received[c], received'[c], envelope[t])
                  /\ UNCHANGED <<state, snapshot>>
            /\ \A e : Knows(c, e) => KnowsThen(c, e)
            /\ \A n : KnowsSeq(c, n) => KnowsSeqThen(c, n)
  <1>1. /\ pc \in [Tasks -> PCs] /\ Conns \subseteq Tasks
    BY TypesOf DEF IInv
  <1>2. ~(Forgets(t) /\ c = t)
    BY DEF Forgets
  <1>3. CASE /\ ReadState(t) /\ c = t /\ snapshot'[c].state = state
             /\ state' = state /\ received' = received
    BY <1>3
  <1>4. ASSUME snapshot'[c].state = snapshot[c].state, Informed(c)
        PROVE  \/ /\ ReadState(t) /\ c = t
                  /\ snapshot'[c].state = state /\ state' = state
                  /\ received'[c] = received[c]
               \/ /\ Informed(c)
                  /\ snapshot'[c].state = snapshot[c].state
                  /\ \/ received'[c] = received[c]
                     \/ /\ Send(t) /\ Extended(received[c], received'[c], envelope[t])
                        /\ UNCHANGED <<state, snapshot>>
                  /\ \A e : Knows(c, e) => KnowsThen(c, e)
                  /\ \A n : KnowsSeq(c, n) => KnowsSeqThen(c, n)
    <2>1. CASE received'[c] = received[c]
      BY <1>4, <2>1 DEF Knows, KnowsSeq, KnowsThen, KnowsSeqThen
    <2>2. CASE /\ Send(t) /\ Extended(received[c], received'[c], envelope[t])
               /\ UNCHANGED <<state, snapshot>>
      <3>1. /\ \A e : Has(received[c], e) => Has(received'[c], e)
            /\ \A n : HasSeq(received[c], n) => HasSeq(received'[c], n)
        BY <2>2, ExtendedHas
      <3> QED BY <1>4, <2>2, <3>1 DEF Knows, KnowsSeq, KnowsThen, KnowsSeqThen
    <2> QED BY <1>2, <2>1, <2>2, StreamsMove
  <1>5. CASE ReadWatermark(t) /\ c = t /\ snapshot'[c].state = snapshot[c].state
    <2>1. Informed(c)
      BY <1>5 DEF ReadWatermark, Informed, Observes
    <2> QED BY <1>4, <1>5, <2>1
  <1>6. CASE /\ snapshot'[c] = snapshot[c]
             /\ \/ pc'[c] = pc[c]
                \/ pc[c] \notin {"snapshot", "watermark"} /\ ~Forgets(t)
    <2>1. Informed(c)
      <3>1. CASE Forgets(t)
        BY <1>2, <3>1 DEF Forgets
      <3>2. CASE ~Forgets(t)
        <4>1. alive' = alive /\ subscribed' = subscribed
          BY <3>2
          DEF Steps, Begins, Stamp, Fold, Collect, Send, Published, ReadState, ReadWatermark
        <4> QED BY <1>6, <4>1 DEF Informed, Observes
      <3> QED BY <3>1, <3>2
    <2> QED BY <1>4, <1>6, <2>1
  <1> QED BY <1>2, <1>3, <1>5, <1>6, SnapshotsMove

LEMMA EchoFoldedStep ==
  ASSUME IInv, NEW t \in Tasks, Steps(t)
  PROVE  EchoFolded'
  <1> SUFFICES ASSUME NEW u \in Tasks, EchoLeads(u)'
               PROVE  Has(state', envelope'[u]) /\ envelope'[u].seq # 0
    BY DEF EchoFolded
  <1>1. /\ pc \in [Tasks -> PCs] /\ jobs \in [Tasks -> Jobs]
        /\ \A x \in Tasks : EchoLeads(x) => Has(state, envelope[x]) /\ envelope[x].seq # 0
    BY TypesOf DEF IInv, EchoFolded
  <1>2. CASE EchoLeads(u) /\ envelope'[u] = envelope[u]
    BY <1>1, <1>2, StateMoves
  <1>3. CASE u # t
    BY <1>2, <1>3, OthersStay DEF EchoLeads
  <1>4. CASE u = t
    <2> USE DEF Goto, clients, publication
    <2>1. CASE Begins(t)
      <3>1. pc'[t] = "stamp"
        BY <1>1, <2>1 DEF Begins
      <3>2. PICK j \in {<<"reject">>, <<"echo">>, <<"echo", "derived">>} :
              jobs' = [jobs EXCEPT ![t] = j]
        BY <2>1 DEF Begins
      <3>3. j # <<"derived">>
        OBVIOUS
      <3>4. jobs'[t] # <<"derived">>
        BY <1>1, <3>2, <3>3
      <3> QED BY <1>4, <3>1, <3>4 DEF EchoLeads
    <2>2. CASE Stamp(t)
      <3>1. CASE Head(jobs[t]) = "reject"
        <4>1. jobs' = jobs /\ pc'[t] = "broadcast" /\ jobs[t] # <<"echo", "derived">>
          BY <1>1, <2>2, <3>1 DEF Stamp
        <4> QED BY <1>4, <4>1 DEF EchoLeads
      <3>2. CASE Head(jobs[t]) # "reject"
        <4>1. pc'[t] = "fold"
          BY <1>1, <2>2, <3>2 DEF Stamp
        <4> QED BY <1>4, <4>1 DEF EchoLeads
      <3> QED BY <3>1, <3>2
    <2>3. CASE Fold(t)
      <3>1. envelope' = envelope /\ pc[t] = "fold"
        BY <2>3 DEF Fold
      <3>2. Has(state', envelope[t])
        BY <2>3, StateMoves, ExtendedHas
      <3>3. envelope[t].seq # 0
        BY <3>1, TypesOf, EnvelopeFields DEF IInv, Positions, Publishing
      <3> QED BY <1>4, <3>1, <3>2, <3>3
    <2>4. CASE Collect(t) \/ Send(t)
      <3>1. /\ envelope' = envelope /\ jobs' = jobs
            /\ pc[t] \in {"broadcast", "send"} /\ pc'[t] = "send"
        BY <1>1, <2>4 DEF Collect, Send
      <3> QED BY <1>2, <1>4, <3>1 DEF EchoLeads
    <2>5. CASE Published(t)
      <3>1. jobs[t] \in Jobs /\ jobs[t] # <<>> /\ pc[t] = "send"
        BY <1>1, <2>5 DEF Published, IInv, Positions, Publishing
      <3>2. CASE Len(jobs[t]) > 1
        <4>1. jobs[t] = <<"echo", "derived">>
          BY <3>1, <3>2, JobLists
        <4>2. envelope' = envelope
          BY <2>5, <3>2 DEF Published
        <4> QED BY <1>2, <1>4, <3>1, <4>1, <4>2 DEF EchoLeads
      <3>3. CASE ~(Len(jobs[t]) > 1)
        <4>1. pc'[t] = "idle"
          BY <1>1, <2>5, <3>3 DEF Published
        <4> QED BY <1>4, <4>1 DEF EchoLeads
      <3> QED BY <3>2, <3>3
    <2>6. CASE ReadState(t) \/ ReadWatermark(t)
      <3>1. pc'[t] \in {"watermark", "idle"}
        BY <1>1, <2>6 DEF ReadState, ReadWatermark
      <3> QED BY <1>4, <3>1 DEF EchoLeads
    <2>7. CASE Forgets(t)
      <3>1. envelope' = envelope /\ jobs' = jobs /\ (pc'[t] = pc[t] \/ pc'[t] = "snapshot")
        BY <1>1, <2>7 DEF Forgets
      <3> QED BY <1>2, <1>4, <3>1 DEF EchoLeads
    <2> QED BY <2>1, <2>2, <2>3, <2>4, <2>5, <2>6, <2>7 DEF Steps
  <1> QED BY <1>3, <1>4

\* A task publishes after the step what it published before, or what it stamps.
LEMMA PublishingMoves ==
  ASSUME IInv, NEW t \in Tasks, Steps(t), NEW u \in Tasks, Publishing(u)'
  PROVE  \/ Stamp(t) /\ u = t
         \/ Publishing(u) /\ envelope'[u] = envelope[u]
  <1>1. pc \in [Tasks -> PCs]
    BY TypesOf DEF IInv
  <1> USE DEF Goto, clients, publication, Publishing
  <1>2. CASE u # t
    BY <1>2, OthersStay
  <1>3. CASE u = t
    <2>1. CASE Stamp(t) BY <1>3, <2>1
    <2>2. CASE Fold(t) BY <1>1, <1>3, <2>2 DEF Fold
    <2>3. CASE Collect(t) BY <1>1, <1>3, <2>3 DEF Collect
    <2>4. CASE Send(t) BY <1>1, <1>3, <2>4 DEF Send
    <2>5. CASE Begins(t) \/ Published(t) \/ ReadState(t) \/ ReadWatermark(t)
      <3>1. pc'[t] \in {"stamp", "idle", "watermark"}
        BY <1>1, <2>5 DEF Begins, Published, ReadState, ReadWatermark
      <3> QED BY <1>3, <3>1
    <2>6. CASE Forgets(t) BY <1>1, <1>3, <2>6 DEF Forgets
    <2> QED BY <2>1, <2>2, <2>3, <2>4, <2>5, <2>6 DEF Steps
  <1> QED BY <1>2, <1>3

\* When a derived action is stamped, its echo is folded and has reached every
\* informed connection: no other task broadcasts it, and this one is done.
LEMMA EchoIsKnown ==
  ASSUME IInv, NEW t \in Tasks, EchoLeads(t), pc[t] = "stamp"
  PROVE  /\ HasSeq(state, envelope[t].seq)
         /\ \A c \in Conns : Informed(c) => KnowsSeq(c, envelope[t].seq)
  <1>1. PICK k \in DOMAIN state : state[k] = envelope[t]
    BY DEF IInv, EchoFolded, Has
  <1>2. envelope[t].seq # 0
    BY DEF IInv, EchoFolded
  <1>3. ASSUME NEW c \in Conns, Informed(c)
        PROVE  KnowsSeq(c, envelope[t].seq)
    <2>1. Knows(c, envelope[t]) \/ Underway(envelope[t], c)
      BY <1>1, <1>3 DEF IInv, Delivered
    <2>2. ~Underway(envelope[t], c)
      BY <1>2 DEF Underway, IInv, StampsDiffer
    <2> QED BY <2>1, <2>2 DEF Knows, KnowsSeq, Has, HasSeq
  <1> QED BY <1>1, <1>3 DEF HasSeq

LEMMA CauseKnownStep ==
  ASSUME IInv, NEW t \in Tasks, Steps(t)
  PROVE  CauseKnown'
  <1> SUFFICES ASSUME NEW u \in Tasks, Publishing(u)', envelope'[u].cause # 0
               PROVE  /\ HasSeq(state', envelope'[u].cause)
                      /\ \A c \in Conns : Informed(c)' => KnowsSeqThen(c, envelope'[u].cause)
    BY DEF CauseKnown, KnowsSeq, KnowsSeqThen
  <1>1. /\ HasSeq(state, envelope'[u].cause)
        /\ \A c \in Conns : Informed(c) => KnowsSeq(c, envelope'[u].cause)
    <2>1. CASE Publishing(u) /\ envelope'[u] = envelope[u]
      BY <2>1 DEF IInv, CauseKnown
    <2>2. CASE Stamp(t) /\ u = t
      <3>1. /\ envelope'[t].cause = IF Head(jobs[t]) = "derived" THEN envelope[t].seq ELSE 0
            /\ pc[t] = "stamp"
        BY <2>2, TypesOf DEF IInv, Stamp
      <3>2. Head(jobs[t]) = "derived" /\ envelope'[t].cause = envelope[t].seq
        BY <2>2, <3>1
      <3>3. jobs[t] \in Jobs /\ jobs[t] # <<>>
        BY <3>1, TypesOf DEF IInv, Positions
      <3>4. jobs[t] = <<"derived">>
        BY <3>2, <3>3, JobLists
      <3>5. EchoLeads(t)
        BY <3>1, <3>4 DEF EchoLeads
      <3> QED BY <2>2, <3>1, <3>2, <3>5, EchoIsKnown
    <2> QED BY <2>1, <2>2, PublishingMoves
  <1>2. HasSeq(state', envelope'[u].cause)
    BY <1>1, StateMoves
  <1>3. ASSUME NEW c \in Conns, Informed(c)'
        PROVE  KnowsSeqThen(c, envelope'[u].cause)
    <2>1. CASE snapshot'[c].state = state
      BY <1>1, <2>1 DEF KnowsSeqThen
    <2>2. CASE Informed(c) /\ \A n : KnowsSeq(c, n) => KnowsSeqThen(c, n)
      BY <1>1, <2>2
    <2> QED BY <1>3, <2>1, <2>2, InformedMoves
  <1> QED BY <1>2, <1>3

LEMMA ReceivedCausesStep ==
  ASSUME IInv, NEW t \in Tasks, Steps(t)
  PROVE  ReceivedCauses'
  <1> SUFFICES ASSUME NEW c \in Conns, NEW k \in DOMAIN received'[c],
                      received'[c][k].cause # 0
               PROVE  HasSeq(state', received'[c][k].cause)
    BY DEF ReceivedCauses
  <1>1. SUFFICES HasSeq(state, received'[c][k].cause)
    BY StateMoves
  <1>2. CASE received'[c] = received[c]
    BY <1>2 DEF IInv, ReceivedCauses
  <1>3. CASE received'[c] = <<>>
    BY <1>3
  <1>4. CASE pc[t] = "send" /\ Extended(received[c], received'[c], envelope[t])
    <2>1. \/ k \in DOMAIN received[c] /\ received'[c][k] = received[c][k]
          \/ received'[c][k] = envelope[t]
      BY <1>4 DEF Extended
    <2>2. envelope[t].cause # 0 => HasSeq(state, envelope[t].cause)
      BY <1>4 DEF IInv, CauseKnown, Publishing
    <2> QED BY <2>1, <2>2 DEF IInv, ReceivedCauses
  <1> QED BY <1>2, <1>3, <1>4, StreamsMove

LEMMA DeliveredStep ==
  ASSUME IInv, NEW t \in Tasks, Steps(t)
  PROVE  Delivered'
  <1> SUFFICES ASSUME NEW c \in Conns, Informed(c)', NEW k \in DOMAIN state'
               PROVE  KnowsThen(c, state'[k]) \/ UnderwayThen(state'[k], c)
    BY DEF Delivered, Knows, KnowsThen, Underway, UnderwayThen
  <1>1. /\ pc \in [Tasks -> PCs] /\ envelope \in [Tasks -> Envelopes]
        /\ targets \in [Tasks -> SUBSET Conns]
    BY TypesOf DEF IInv
  <1>2. CASE snapshot'[c].state = state /\ state' = state
    BY <1>2 DEF KnowsThen, Has
  <1>3. CASE Informed(c) /\ \A e : Knows(c, e) => KnowsThen(c, e)
    <2>1. CASE Fold(t) /\ state'[k] = envelope[t]
      <3>1. envelope'[t] = envelope[t] /\ pc'[t] = "broadcast"
        BY <1>1, <2>1 DEF Fold, Goto, publication
      <3> QED BY <2>1, <3>1 DEF UnderwayThen
    <2>2. CASE k \in DOMAIN state /\ state'[k] = state[k]
      <3>1. Knows(c, state[k]) \/ Underway(state[k], c)
        BY <1>3, <2>2 DEF IInv, Delivered
      <3>2. CASE Knows(c, state[k])
        BY <1>3, <2>2, <3>2
      <3>3. CASE Underway(state[k], c)
        <4>1. PICK u \in Tasks : /\ envelope[u] = state[k]
                                 /\ pc[u] = "broadcast" \/ (pc[u] = "send" /\ c \in targets[u])
          BY <3>3 DEF Underway
        <4>2. CASE u # t
          BY <2>2, <4>1, <4>2, OthersStay DEF UnderwayThen
        <4>3. CASE u = t
          <5>1. CASE Collect(t)
            <6>1. c \in Subscribers
              BY <1>3 DEF Subscribers, Informed, Observes
            <6>2. envelope'[t] = envelope[t] /\ pc'[t] = "send" /\ c \in targets'[t]
              BY <1>1, <5>1, <6>1 DEF Collect, Goto
            <6> QED BY <2>2, <4>1, <4>3, <6>2 DEF UnderwayThen
          <5>2. CASE Send(t)
            <6>1. PICK d \in targets[t] :
                    /\ d \in Conns
                    /\ pc[t] = "send"
                    /\ targets' = [targets EXCEPT ![t] = @ \ {d}]
                    /\ alive[d] => Extended(received[d], received'[d], envelope[t])
                    /\ UNCHANGED <<seq, state, alive, subscribed, snapshot, raced, pc, jobs, envelope>>
              BY <5>2, SendEffect DEF IInv
            <6>2. CASE d = c
              <7>1. alive[c]
                BY <1>3 DEF Informed, Observes
              <7>2. Has(received'[c], envelope[t])
                BY <6>1, <6>2, <7>1, ExtendedHas
              <7> QED BY <2>2, <4>1, <4>3, <7>2 DEF KnowsThen
            <6>3. CASE d # c
              <7>1. c \in targets'[t]
                BY <1>1, <4>1, <4>3, <6>1, <6>3
              <7> QED BY <2>2, <4>1, <4>3, <6>1, <7>1 DEF UnderwayThen
            <6> QED BY <6>2, <6>3
          <5>3. CASE Published(t)
            BY <4>1, <4>3, <5>3 DEF Published
          <5>4. CASE Forgets(t)
            <6>1. pc'[t] = pc[t] /\ envelope' = envelope /\ targets' = targets
              BY <1>1, <4>1, <4>3, <5>4 DEF Forgets, publication
            <6> QED BY <2>2, <4>1, <4>3, <6>1 DEF UnderwayThen
          <5> QED
            BY <4>1, <4>3, <5>1, <5>2, <5>3, <5>4
            DEF Steps, Begins, Stamp, Fold, ReadState, ReadWatermark
        <4> QED BY <4>2, <4>3
      <3> QED BY <3>1, <3>2, <3>3
    <2>3. CASE Extended(state, state', envelope[t]) /\ Fold(t)
      <3>1. (k \in DOMAIN state /\ state'[k] = state[k]) \/ state'[k] = envelope[t]
        BY <2>3 DEF Extended
      <3> QED BY <2>1, <2>2, <2>3, <3>1
    <2> QED BY <2>2, <2>3, StateMoves
  <1> QED BY <1>2, <1>3, InformedMoves

LEMMA WatermarksBelowStep ==
  ASSUME IInv, NEW t \in Tasks, Steps(t)
  PROVE  WatermarksBelow'
  <1> SUFFICES ASSUME NEW c \in Conns PROVE snapshot'[c].fromSeq =< seq'
    BY DEF WatermarksBelow
  <1>1. /\ seq \in Nat /\ seq' \in Nat /\ seq =< seq'
        /\ snapshot \in [Conns -> Snapshots] /\ snapshot[c] \in Snapshots
        /\ snapshot[c].fromSeq \in Nat /\ snapshot[c].fromSeq =< seq
    BY TypesOf, EnvelopesMove DEF IInv, WatermarksBelow, Snapshots
  <1>2. CASE snapshot'[c].fromSeq \in {0, seq, snapshot[c].fromSeq}
    BY <1>1, <1>2
  <1>3. CASE ReadState(t)
    BY <1>1, <1>2, <1>3 DEF ReadState, Snapshots
  <1>4. CASE ReadWatermark(t)
    BY <1>1, <1>2, <1>4 DEF ReadWatermark, Snapshots
  <1>5. CASE Forgets(t)
    BY <1>1, <1>2, <1>5 DEF Forgets, NoSnapshot
  <1>6. CASE snapshot' = snapshot
    BY <1>2, <1>6
  <1> QED
    BY <1>3, <1>4, <1>5, <1>6
    DEF Steps, Begins, Stamp, Fold, Collect, Send, Published, clients

\* Accounted in the next state.
AccountedThen(c, e) ==
  \/ Has(snapshot'[c].state, e)
  \/ e.seq \in raced'[c]
  \/ pc'[c] # "watermark" /\ e.seq > snapshot'[c].fromSeq

\* A task is about to fold what it was about to fold before, or what it stamps.
LEMMA FoldsMove ==
  ASSUME IInv, NEW t \in Tasks, Steps(t), NEW u \in Tasks, pc'[u] = "fold"
  PROVE  \/ Stamp(t) /\ u = t
         \/ pc[u] = "fold" /\ envelope'[u] = envelope[u]
  <1>1. pc \in [Tasks -> PCs]
    BY TypesOf DEF IInv
  <1> USE DEF Goto, clients, publication
  <1>2. CASE u # t
    BY <1>2, OthersStay
  <1>3. CASE u = t
    <2>1. CASE Stamp(t) BY <1>3, <2>1
    <2>2. CASE Fold(t) BY <1>1, <1>3, <2>2 DEF Fold
    <2>3. CASE Collect(t) BY <1>1, <1>3, <2>3 DEF Collect
    <2>4. CASE Send(t) BY <1>1, <1>3, <2>4 DEF Send
    <2>5. CASE Begins(t) \/ Published(t) \/ ReadState(t) \/ ReadWatermark(t)
      <3>1. pc'[t] \in {"stamp", "idle", "watermark"}
        BY <1>1, <2>5 DEF Begins, Published, ReadState, ReadWatermark
      <3> QED BY <1>3, <3>1
    <2>6. CASE Forgets(t) BY <1>1, <1>3, <2>6 DEF Forgets
    <2> QED BY <2>1, <2>2, <2>3, <2>4, <2>5, <2>6 DEF Steps
  <1> QED BY <1>2, <1>3

\* What a snapshot accounts for, it accounts for after a step that does not
\* read the state or forget it.
LEMMA AccountedStays ==
  ASSUME IInv, NEW t \in Tasks, Steps(t), NEW c \in Conns, NEW e, Accounted(c, e),
         snapshot'[c].state = snapshot[c].state,
         ~(ReadState(t) /\ c = t), ~(Forgets(t) /\ c = t)
  PROVE  AccountedThen(c, e)
  <1>1. /\ pc \in [Tasks -> PCs] /\ raced \in [Conns -> SUBSET (1 .. MaxSeq)]
        /\ Conns \subseteq Tasks
    BY TypesOf DEF IInv
  <1>2. raced[c] \subseteq raced'[c]
    BY <1>1
    DEF Steps, Begins, Stamp, Fold, Collect, Send, Published, ReadState, ReadWatermark,
        Forgets, clients
  <1>3. CASE pc[c] # "watermark" /\ e.seq > snapshot[c].fromSeq
    <2>1. snapshot'[c] = snapshot[c] /\ (pc'[c] = pc[c] \/ pc[c] \notin {"snapshot", "watermark"})
      BY <1>3, SnapshotsMove
    <2>2. pc'[c] # "watermark"
      <3>1. CASE c # t
        BY <1>1, <1>3, <3>1, OthersStay
      <3>2. CASE c = t
        BY <1>1, <1>3, <3>2
        DEF Steps, Begins, Stamp, Fold, Collect, Send, Published, ReadWatermark, Goto
      <3> QED BY <3>1, <3>2
    <2> QED BY <1>3, <2>1, <2>2 DEF AccountedThen
  <1> QED BY <1>2, <1>3 DEF Accounted, AccountedThen

LEMMA SnapshotAccountsStep ==
  ASSUME IInv, NEW t \in Tasks, Steps(t)
  PROVE  SnapshotAccounts'
  <1> SUFFICES ASSUME NEW c \in Conns, Informed(c)'
               PROVE  /\ \A k \in DOMAIN state' : AccountedThen(c, state'[k])
                      /\ \A u \in Tasks : pc'[u] = "fold" => AccountedThen(c, envelope'[u])
    BY DEF SnapshotAccounts, Accounted, AccountedThen
  <1>1. /\ pc \in [Tasks -> PCs] /\ raced \in [Conns -> SUBSET (1 .. MaxSeq)]
        /\ Conns \subseteq Tasks /\ seq \in Nat
    BY TypesOf DEF IInv
  <1>2. ~(Forgets(t) /\ c = t)
    BY DEF Forgets
  <1>3. CASE ReadState(t) /\ c = t /\ snapshot'[c].state = state /\ state' = state
    <2>1. \A k \in DOMAIN state' : AccountedThen(c, state'[k])
      BY <1>3 DEF AccountedThen, Has
    <2>2. ASSUME NEW u \in Tasks, pc'[u] = "fold" PROVE AccountedThen(c, envelope'[u])
      <3>1. pc[u] = "fold" /\ envelope'[u] = envelope[u]
        BY <1>1, <1>3, <2>2, FoldsMove DEF ReadState, Stamp
      <3>2. raced'[c] = {envelope[v].seq : v \in {w \in Tasks : pc[w] = "fold"}}
        BY <1>1, <1>3 DEF ReadState
      <3> QED BY <3>1, <3>2 DEF AccountedThen
    <2> QED BY <2>1, <2>2
  <1>4. CASE /\ Informed(c) /\ snapshot'[c].state = snapshot[c].state
             /\ ~(ReadState(t) /\ c = t)
    <2>1. ASSUME NEW k \in DOMAIN state' PROVE AccountedThen(c, state'[k])
      <3>1. CASE k \in DOMAIN state /\ state'[k] = state[k]
        BY <1>2, <1>4, <3>1, AccountedStays DEF IInv, SnapshotAccounts
      <3>2. CASE Fold(t) /\ state'[k] = envelope[t]
        <4>1. pc[t] = "fold"
          BY <3>2 DEF Fold
        <4>2. Accounted(c, envelope[t])
          BY <1>4, <4>1 DEF IInv, SnapshotAccounts
        <4> QED BY <1>2, <1>4, <3>2, <4>2, AccountedStays
      <3>3. CASE Fold(t) /\ Extended(state, state', envelope[t])
        <4>1. (k \in DOMAIN state /\ state'[k] = state[k]) \/ state'[k] = envelope[t]
          BY <3>3 DEF Extended
        <4> QED BY <3>1, <3>2, <3>3, <4>1
      <3> QED BY <3>1, <3>3, StateMoves
    <2>2. ASSUME NEW u \in Tasks, pc'[u] = "fold" PROVE AccountedThen(c, envelope'[u])
      <3>1. CASE pc[u] = "fold" /\ envelope'[u] = envelope[u]
        BY <1>2, <1>4, <3>1, AccountedStays DEF IInv, SnapshotAccounts
      <3>2. CASE Stamp(t) /\ u = t
        <4>1. /\ envelope'[t].seq = seq + 1 /\ seq' = seq + 1 /\ snapshot' = snapshot
              /\ snapshot[c].fromSeq \in Nat /\ snapshot[c].fromSeq =< seq
          BY <1>1, <3>2, TypesOf DEF IInv, Stamp, WatermarksBelow, Snapshots
        <4>2. CASE pc[c] = "watermark"
          BY <1>1, <3>2, <4>1, <4>2 DEF Stamp, AccountedThen
        <4>3. CASE pc[c] # "watermark"
          <5>1. pc'[c] # "watermark"
            BY <1>1, <3>2, <4>3 DEF Stamp, Goto
          <5> QED BY <1>1, <3>2, <4>1, <5>1 DEF AccountedThen
        <4> QED BY <4>2, <4>3
      <3> QED BY <2>2, <3>1, <3>2, FoldsMove
    <2> QED BY <2>1, <2>2
  <1>5. CASE ReadState(t) /\ c = t
    <2>1. snapshot'[c].state = state /\ state' = state
      BY <1>1, <1>5, TypesOf DEF ReadState, IInv, Snapshots
    <2> QED BY <1>3, <1>5, <2>1
  <1> QED BY <1>4, <1>5, InformedMoves

LEMMA EchoFirstStep ==
  ASSUME IInv, NEW t \in Tasks, Steps(t)
  PROVE  EchoFirst'
  <1> SUFFICES ASSUME NEW c \in Conns, Informed(c)', NEW k \in DOMAIN received'[c],
                      received'[c][k].cause # 0
               PROVE  \/ \E j \in 1 .. (k - 1) : received'[c][j].seq = received'[c][k].cause
                      \/ HasSeq(snapshot'[c].state, received'[c][k].cause)
    BY DEF EchoFirst, HasSeq
  <1>1. CASE snapshot'[c].state = state /\ received'[c] = received[c]
    BY <1>1 DEF IInv, ReceivedCauses
  <1>2. ASSUME Informed(c), snapshot'[c].state = snapshot[c].state,
               NEW i \in DOMAIN received[c], received[c][i].cause # 0
        PROVE  \/ \E j \in 1 .. (i - 1) : received[c][j].seq = received[c][i].cause
               \/ HasSeq(snapshot'[c].state, received[c][i].cause)
    BY <1>2 DEF IInv, EchoFirst, HasSeq
  <1>3. CASE /\ Informed(c) /\ snapshot'[c].state = snapshot[c].state
             /\ received'[c] = received[c]
    BY <1>2, <1>3
  <1>4. CASE /\ Informed(c) /\ snapshot'[c].state = snapshot[c].state
             /\ Send(t) /\ Extended(received[c], received'[c], envelope[t])
    <2>1. Len(received[c]) \in Nat
      BY <1>4 DEF Extended
    <2>2. CASE k \in DOMAIN received[c]
      <3>1. received'[c][k] = received[c][k]
        BY <1>4, <2>2 DEF Extended
      <3>2. \A j \in 1 .. (k - 1) : received'[c][j] = received[c][j]
        BY <1>4, <2>1, <2>2 DEF Extended
      <3> QED BY <1>2, <1>4, <2>2, <3>1, <3>2
    <2>3. CASE k = Len(received[c]) + 1
      <3>1. received'[c][k] = envelope[t]
        BY <1>4, <2>3 DEF Extended
      <3>2. KnowsSeq(c, envelope[t].cause)
        BY <1>4, <3>1 DEF Send, IInv, CauseKnown, Publishing
      <3>3. \A j \in DOMAIN received[c] : j \in 1 .. (k - 1) /\ received'[c][j] = received[c][j]
        BY <1>4, <2>1, <2>3 DEF Extended
      <3> QED BY <1>4, <3>1, <3>2, <3>3 DEF KnowsSeq, HasSeq
    <2> QED BY <1>4, <2>1, <2>2, <2>3 DEF Extended
  <1> QED BY <1>1, <1>3, <1>4, InformedMoves

------------------------------------------------------------------------------
LEMMA NextIInv == IInv /\ [Next]_vars => IInv'
  <1> SUFFICES ASSUME IInv, [Next]_vars PROVE IInv'
    OBVIOUS
  <1>1. CASE UNCHANGED vars
    BY <1>1
    DEF vars, IInv, TypeOK, Positions, Stamped, SnapshotBelow, StampsDiffer, Unsent,
        StreamUnique, EchoFolded, CauseKnown, ReceivedCauses, Delivered, EchoFirst,
        SnapshotAccounts, Accounted, WatermarksBelow,
        Publishing, Pending, EchoLeads, Informed, Observes, Knows, KnowsSeq, Underway
  <1>2. CASE Next
    <2>1. PICK t \in Tasks : Steps(t)
      BY <1>2, NextSplits DEF IInv
    <2>2. TypeOK' /\ Positions' /\ Stamped' /\ SnapshotBelow'
      BY <2>1, TypeStep, PositionsStep, StampedStep, SnapshotBelowStep
    <2>3. StampsDiffer' /\ Unsent' /\ StreamUnique' /\ EchoFolded'
      BY <2>1, StampsDifferStep, UnsentStep, StreamUniqueStep, EchoFoldedStep
    <2>4. CauseKnown' /\ ReceivedCauses' /\ Delivered' /\ EchoFirst'
      BY <2>1, CauseKnownStep, ReceivedCausesStep, DeliveredStep, EchoFirstStep
    <2>5. SnapshotAccounts' /\ WatermarksBelow'
      BY <2>1, SnapshotAccountsStep, WatermarksBelowStep
    <2> QED BY <2>2, <2>3, <2>4, <2>5 DEF IInv
  <1> QED BY <1>1, <1>2

LEMMA Invariance == Spec => []IInv
  BY InitIInv, NextIInv, PTL DEF Spec

\* Type correctness of the host's model.
THEOREM TypeCorrect == Spec => []TypeOK
  <1>1. IInv => TypeOK BY DEF IInv
  <1> QED BY <1>1, Invariance, PTL

\* For any number of connections and publishers: what was folded is in the
\* snapshot, or reaches the subscriber and is above its from_seq, unless it was
\* published across the two reads of that snapshot (subscribe_uri enters the
\* subscription before it reads the state; publish folds before it collects
\* the subscribers; a stamp is above every watermark read before it).
THEOREM NothingMissedHolds == Spec => []NothingMissed
  <1>1. IInv => NothingMissed
    <2> SUFFICES ASSUME IInv, NEW c \in Conns, Informed(c), NEW k \in DOMAIN state,
                        ~Has(snapshot[c].state, state[k])
                 PROVE  /\ Has(received[c], state[k]) \/ Underway(state[k], c)
                        /\ \/ pc[c] = "watermark"
                           \/ state[k].seq > snapshot[c].fromSeq
                           \/ state[k].seq \in raced[c]
      BY DEF NothingMissed
    <2>1. Has(received[c], state[k]) \/ Underway(state[k], c)
      BY DEF IInv, Delivered, Knows
    <2>2. Accounted(c, state[k])
      BY DEF IInv, SnapshotAccounts
    <2> QED BY <2>1, <2>2 DEF Accounted
  <1> QED BY <1>1, Invariance, PTL

\* A client that skips what is stamped up to from_seq reduces no action twice,
\* and its stream carries none twice.
THEOREM NothingReducedTwiceHolds == Spec => []NothingReducedTwice
  <1>1. IInv => NothingReducedTwice
    <2> SUFFICES ASSUME IInv, NEW c \in Conns
                 PROVE  /\ Informed(c) /\ pc[c] # "watermark" =>
                             \A k \in DOMAIN received[c] :
                               Has(snapshot[c].state, received[c][k]) =>
                                 received[c][k].seq =< snapshot[c].fromSeq
                        /\ \A j, k \in DOMAIN received[c] :
                             received[c][j] = received[c][k] => j = k
      BY DEF NothingReducedTwice
    <2>1. \A j, k \in DOMAIN received[c] : received[c][j] = received[c][k] => j = k
      BY DEF IInv, StreamUnique
    <2>2. ASSUME Informed(c), pc[c] # "watermark",
                 NEW k \in DOMAIN received[c], Has(snapshot[c].state, received[c][k])
          PROVE  received[c][k].seq =< snapshot[c].fromSeq
      <3>1. pc[c] \notin {"snapshot", "watermark"}
        BY <2>2 DEF Informed
      <3> QED BY <2>2, <3>1 DEF IInv, SnapshotBelow, Has
    <2> QED BY <2>1, <2>2
  <1> QED BY <1>1, Invariance, PTL

\* No client sees a derived action before the echo of the action it derives
\* from: the dispatching task sends the echo to every target before it stamps
\* the derived one, and a later subscriber finds it in the state.
THEOREM EchoFirstHolds == Spec => []EchoFirst
  <1>1. IInv => EchoFirst BY DEF IInv
  <1> QED BY <1>1, Invariance, PTL
=============================================================================
