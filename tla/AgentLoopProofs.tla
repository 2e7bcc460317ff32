-------------------------- MODULE AgentLoopProofs --------------------------
(***************************************************************************)
(* The safety of the agent loop for any inputs, any number of calls,       *)
(* replies, faults, vetoes and turns.                                      *)
(*                                                                         *)
(* Where an input may be is a line: the transcript, the prompts of the     *)
(* run, its pending messages, the steering queue, in this order; beside it *)
(* are the follow-up queue and what was handed back.  No input is in two   *)
(* of these places or twice in one, and along the line the steered ones    *)
(* are in the order in which they were steered.  Every handle operation    *)
(* and every poll of the loop takes from the head of one part and adds to  *)
(* the tail of the part before it, which is why the invariant is kept.     *)
(***************************************************************************)
EXTENDS AgentLoop, FiniteSetTheorems, WellFoundedInduction, TLAPS

-----------------------------------------------------------------------------
(* The invariant.                                                           *)

\* With z the inputs steered so far: x and y may stand in the line in this order.
Precedes(x, y, z) ==
  /\ x # y
  /\ \A p, q \in DOMAIN z : z[p] = x /\ z[q] = y => p < q

InLine(s, z) == \A i, j \in DOMAIN s : i < j => Precedes(s[i], s[j], z)

\* The same of a transcript, in which only the messages of users count.
SaidInLine(T, z) ==
  \A i, j \in DOMAIN T : \A x, y \in Inputs :
    i < j /\ T[i] = User(x) /\ T[j] = User(y) => Precedes(x, y, z)

Once(s) == \A i, j \in DOMAIN s : i < j => s[i] # s[j]

SaidSet(T) == {m \in Inputs : \E i \in DOMAIN T : T[i] = User(m)}

InnerOrder ==
  /\ SaidInLine(transcript, steered)
  /\ InLine(prompts, steered) /\ InLine(pending, steered) /\ InLine(steering, steered)
  /\ Once(followUp) /\ Once(steered)

\* Between the places, for the sets of inputs in the transcript, the prompts,
\* pending, the two queues, those handed back and those accepted.
Ordered(X, Y, z) == \A x \in X, y \in Y : Precedes(x, y, z)

Apart(t, q, p, s, f, r, a, z) ==
  /\ Ordered(t, q, z) /\ Ordered(t, p, z) /\ Ordered(t, s, z)
  /\ Ordered(q, p, z) /\ Ordered(q, s, z) /\ Ordered(p, s, z)
  /\ f \cap (t \cup q \cup p \cup s \cup ToSet(z)) = {}
  /\ r \cap (t \cup q \cup p \cup s \cup f) = {}
  /\ t \cup q \cup p \cup s \cup f \cup r \cup ToSet(z) \subseteq a

PlacesApart ==
  Apart(SaidSet(transcript), ToSet(prompts), ToSet(pending), ToSet(steering),
        ToSet(followUp), returned, accepted, steered)

Everywhere == SaidSet(transcript) \cup ToSet(prompts) \cup ToSet(pending)
                \cup ToSet(steering) \cup ToSet(followUp) \cup returned

\* Until a run is cancelled or its sink fails, nothing is dropped: an accepted
\* input is somewhere, and the run's hands are empty where they are refilled
\* or thrown away.
Conserved ==
  ~disturbed =>
    /\ ~cancelled
    /\ accepted \subseteq Everywhere
    /\ pc \notin {"start", "outer", "inner"} => prompts = <<>>
    /\ pc \notin {"outer", "inner"} => pending = <<>>

\* The messages of this run from base on: their calls are answered, but for
\* those of the reply whose tools are executing.
Replied ==
  /\ pc \notin {"idle", "ended"} => base <= Len(context)
  /\ pc \notin {"idle", "ended", "tools"} =>
       \A i \in (base + 1) .. Len(context) : Answered(context, i)
  /\ pc = "tools" =>
       /\ base < Len(context)
       /\ \A i \in (base + 1) .. (Len(context) - 1) : Answered(context, i)
       /\ Current.kind = "assistant" /\ Current.calls \in 0 .. MaxCalls

\* A cut run is cancelled, and does not ask the provider again.
CutIsCancelled ==
  pc # "idle" /\ cut => cancelled /\ pc \notin {"start", "stream"}

IInv ==
  /\ TypeOK
  /\ InnerOrder
  /\ PlacesApart
  /\ Conserved
  /\ Replied
  /\ CutIsCancelled
  /\ AbortIsAnnounced

-----------------------------------------------------------------------------
(* Lemmas about the operators of the model.                                 *)

LEMMA Drained ==
  ASSUME NEW S, NEW q \in Seq(S), NEW d \in Drains(q)
  PROVE  /\ d \in Seq(S) /\ Rest(q, d) \in Seq(S)
         /\ Len(d) \in Nat /\ Len(q) \in Nat /\ Len(d) <= Len(q)
         /\ DOMAIN q = 1 .. Len(q) /\ DOMAIN d = 1 .. Len(d)
         /\ DOMAIN Rest(q, d) = 1 .. (Len(q) - Len(d))
         /\ \A i \in 1 .. Len(d) : d[i] = q[i]
         /\ \A i \in 1 .. (Len(q) - Len(d)) : Rest(q, d)[i] = q[Len(d) + i]
         /\ d = <<>> <=> q = <<>>
  <1>1. CASE q = <<>>
    BY <1>1 DEF Drains, Rest
  <1>2. CASE q # <<>> /\ d = q
    BY <1>2 DEF Rest
  <1>3. CASE q # <<>> /\ d = <<Head(q)>>
    <2>1. Len(q) >= 1 /\ Head(q) = q[1] /\ q[1] \in S /\ Len(d) = 1 /\ d[1] = q[1] /\ d # <<>>
      BY <1>3
    <2>2. Rest(q, d) = SubSeq(q, 2, Len(q))
      BY <2>1 DEF Rest
    <2>3. Len(q) \in Nat /\ DOMAIN q = 1 .. Len(q)
      OBVIOUS
    <2>4. /\ Rest(q, d) \in Seq(S) /\ DOMAIN Rest(q, d) = 1 .. (Len(q) - 1)
          /\ \A i \in 1 .. (Len(q) - 1) : Rest(q, d)[i] = q[1 + i]
      BY <2>1, <2>2, <2>3
    <2>5. d \in Seq(S) /\ DOMAIN d = 1 .. 1 /\ \A i \in 1 .. 1 : d[i] = q[i]
      BY <1>3, <2>1
    <2> QED BY <1>3, <2>1, <2>3, <2>4, <2>5
  <1> QED BY <1>1, <1>2, <1>3 DEF Drains

\* A drain splits the queue into what is taken and what stays.
LEMMA DrainSplits ==
  ASSUME NEW S, NEW q \in Seq(S), NEW d \in Drains(q), NEW z
  PROVE  /\ d \in Seq(S) /\ Rest(q, d) \in Seq(S)
         /\ ToSet(d) \cup ToSet(Rest(q, d)) = ToSet(q)
         /\ InLine(q, z) => /\ InLine(d, z) /\ InLine(Rest(q, d), z)
                            /\ Ordered(ToSet(d), ToSet(Rest(q, d)), z)
         /\ Once(q) => Once(d) /\ Once(Rest(q, d)) /\ ToSet(d) \cap ToSet(Rest(q, d)) = {}
         /\ d = <<>> <=> q = <<>>
  <1> DEFINE r == Rest(q, d)
             n == Len(d)
             k == Len(q) - Len(d)
  <1>1. /\ d \in Seq(S) /\ r \in Seq(S) /\ n \in Nat /\ k \in Nat
        /\ DOMAIN q = 1 .. (n + k) /\ DOMAIN d = 1 .. n /\ DOMAIN r = 1 .. k
        /\ \A i \in 1 .. n : d[i] = q[i]
        /\ \A i \in 1 .. k : r[i] = q[n + i]
        /\ d = <<>> <=> q = <<>>
    <2>1. Len(q) = n + k /\ k \in Nat
      BY Drained
    <2> QED BY <2>1, Drained
  <1> HIDE DEF r, n, k
  <1>2. \A i \in 1 .. k : n + i \in 1 .. (n + k)
    BY <1>1
  <1>3. \A i \in 1 .. n : i \in 1 .. (n + k)
    BY <1>1
  <1>4. \A i \in 1 .. (n + k) : i \in 1 .. n \/ (i - n \in 1 .. k /\ n + (i - n) = i)
    BY <1>1
  <1>5. ToSet(d) \cup ToSet(r) = ToSet(q)
    <2>1. ToSet(q) \subseteq ToSet(d) \cup ToSet(r)
      <3> SUFFICES ASSUME NEW i \in DOMAIN q
                   PROVE  q[i] \in ToSet(d) \/ q[i] \in ToSet(r)
        BY DEF ToSet
      <3>1. CASE i \in 1 .. n
        BY <1>1, <3>1 DEF ToSet
      <3>2. CASE i - n \in 1 .. k /\ n + (i - n) = i
        <4>1. r[i - n] = q[i]
          BY <1>1, <3>2
        <4> QED BY <1>1, <3>2, <4>1 DEF ToSet
      <3> QED BY <1>1, <1>4, <3>1, <3>2
    <2>2. ToSet(d) \subseteq ToSet(q)
      BY <1>1, <1>3 DEF ToSet
    <2>3. ToSet(r) \subseteq ToSet(q)
      <3> SUFFICES ASSUME NEW i \in DOMAIN r
                   PROVE  r[i] \in ToSet(q)
        BY DEF ToSet
      <3>1. i \in 1 .. k /\ n + i \in DOMAIN q /\ r[i] = q[n + i]
        BY <1>1, <1>2
      <3> QED BY <3>1 DEF ToSet
    <2> QED BY <2>1, <2>2, <2>3
  <1>6. ASSUME InLine(q, z)
        PROVE  InLine(d, z) /\ InLine(r, z) /\ Ordered(ToSet(d), ToSet(r), z)
    <2>1. InLine(d, z)
      BY <1>1, <1>3, <1>6 DEF InLine
    <2>2. ASSUME NEW i \in 1 .. k, NEW j \in 1 .. k, i < j
          PROVE  Precedes(r[i], r[j], z)
      <3>1. n + i < n + j /\ n + i \in DOMAIN q /\ n + j \in DOMAIN q
        BY <1>1, <1>2, <2>2
      <3> QED BY <1>1, <1>6, <3>1 DEF InLine
    <2>3. ASSUME NEW i \in 1 .. n, NEW j \in 1 .. k
          PROVE  Precedes(d[i], r[j], z)
      <3>1. i < n + j /\ i \in DOMAIN q /\ n + j \in DOMAIN q
        BY <1>1, <1>2, <1>3, <2>3
      <3> QED BY <1>1, <1>6, <3>1 DEF InLine
    <2> QED BY <1>1, <2>1, <2>2, <2>3 DEF InLine, Ordered, ToSet
  <1>7. ASSUME Once(q)
        PROVE  Once(d) /\ Once(r) /\ ToSet(d) \cap ToSet(r) = {}
    <2>1. Once(d)
      BY <1>1, <1>3, <1>7 DEF Once
    <2>2. ASSUME NEW i \in 1 .. k, NEW j \in 1 .. k, i < j
          PROVE  r[i] # r[j]
      <3>1. n + i < n + j /\ n + i \in DOMAIN q /\ n + j \in DOMAIN q
        BY <1>1, <1>2, <2>2
      <3>2. q[n + i] # q[n + j]
        BY <1>7, <3>1 DEF Once
      <3>3. r[i] = q[n + i] /\ r[j] = q[n + j]
        BY <1>1
      <3> QED BY <3>2, <3>3
    <2>3. ASSUME NEW i \in 1 .. n, NEW j \in 1 .. k
          PROVE  d[i] # r[j]
      <3>1. i < n + j /\ i \in DOMAIN q /\ n + j \in DOMAIN q
        BY <1>1, <1>2, <1>3, <2>3
      <3> QED BY <1>1, <1>7, <3>1 DEF Once
    <2> QED BY <1>1, <2>1, <2>2, <2>3 DEF Once, ToSet
  <1> QED BY <1>1, <1>5, <1>6, <1>7 DEF r

LEMMA MessageKinds ==
  /\ \A m \in Inputs : User(m) \in Message /\ User(m).kind = "user" /\ User(m).id = m
  /\ \A w \in {"nudge", "bounce", "aside"} :
       Injected(w) \in Message /\ Injected(w).kind = "harness"
  /\ \A stop \in Stops, n \in 0 .. MaxCalls :
       /\ Assistant(stop, n) \in Message /\ Assistant(stop, n).kind = "assistant"
       /\ Assistant(stop, n).calls = n /\ Assistant(stop, n).stop = stop
  /\ \A k \in 1 .. MaxCalls : Result(k) \in Message /\ Result(k).kind = "result"
  BY DEF Message, User, Injected, Assistant, Result

LEMMA UsersOf ==
  ASSUME NEW s \in Seq(Inputs)
  PROVE  /\ Users(s) \in Seq(Message)
         /\ Len(Users(s)) = Len(s) /\ DOMAIN Users(s) = 1 .. Len(s) /\ Len(s) \in Nat
         /\ \A i \in 1 .. Len(s) : Users(s)[i] = User(s[i]) /\ s[i] \in Inputs
  <1>1. DOMAIN s = 1 .. Len(s) /\ Len(s) \in Nat /\ \A i \in 1 .. Len(s) : s[i] \in Inputs
    OBVIOUS
  <1>2. \A i \in 1 .. Len(s) : User(s[i]) \in Message
    BY <1>1, MessageKinds
  <1> QED BY <1>1, <1>2 DEF Users

LEMMA ResultsOf ==
  ASSUME NEW n \in 0 .. MaxCalls
  PROVE  /\ Results(n) \in Seq(Message)
         /\ Len(Results(n)) = n
         /\ \A i \in 1 .. n : Results(n)[i] = Result(i)
  <1>1. n \in Nat /\ \A i \in 1 .. n : Result(i) \in Message
    BY AgentLoopAssumption, MessageKinds
  <1> QED BY <1>1 DEF Results

\* T2 is T with messages added, of which those of users are u, in this order.
Adds(T, T2, u) ==
  /\ T2 \in Seq(Message)
  /\ \A i \in DOMAIN T : i \in DOMAIN T2 /\ T2[i] = T[i]
  /\ \A j \in DOMAIN T2 \ DOMAIN T : \A x \in Inputs :
       T2[j] = User(x) => j - Len(T) \in DOMAIN u /\ u[j - Len(T)] = x
  /\ \A i \in DOMAIN u : Len(T) + i \in DOMAIN T2 /\ T2[Len(T) + i] = User(u[i])

NoUser(t) == \A i \in DOMAIN t : t[i].kind # "user"

LEMMA SayingAdds ==
  ASSUME NEW T \in Seq(Message), NEW t \in Seq(Message), NoUser(t)
  PROVE  Adds(T, T \o t, <<>>)
  <1>1. /\ T \o t \in Seq(Message) /\ Len(T) \in Nat /\ Len(t) \in Nat
        /\ DOMAIN T = 1 .. Len(T) /\ DOMAIN t = 1 .. Len(t)
        /\ DOMAIN (T \o t) = 1 .. (Len(T) + Len(t))
        /\ \A i \in 1 .. Len(T) : (T \o t)[i] = T[i]
        /\ \A i \in 1 .. (Len(T) + Len(t)) : i > Len(T) => (T \o t)[i] = t[i - Len(T)]
    OBVIOUS
  <1> DEFINE T2 == T \o t
  <1> HIDE DEF T2
  <1>2. ASSUME NEW j \in DOMAIN T2 \ DOMAIN T, NEW x \in Inputs, T2[j] = User(x)
        PROVE  FALSE
    <2>1. j \in 1 .. (Len(T) + Len(t)) /\ j > Len(T) /\ j - Len(T) \in DOMAIN t
      BY <1>1, <1>2 DEF T2
    <2>2. T2[j] = t[j - Len(T)]
      BY <1>1, <2>1 DEF T2
    <2>3. User(x).kind = "user"
      BY MessageKinds
    <2>4. t[j - Len(T)].kind = "user"
      BY <1>2, <2>2, <2>3
    <2> QED BY <2>1, <2>4 DEF NoUser
  <1>3. \A i \in DOMAIN T : i \in DOMAIN T2 /\ T2[i] = T[i]
    BY <1>1 DEF T2
  <1>4. T2 \in Seq(Message)
    BY <1>1 DEF T2
  <1>5. Adds(T, T2, <<>>)
    BY <1>2, <1>3, <1>4 DEF Adds
  <1> QED BY <1>5 DEF T2

LEMMA UsersAdd ==
  ASSUME NEW T \in Seq(Message), NEW u \in Seq(Inputs)
  PROVE  Adds(T, T \o Users(u), u)
  <1> DEFINE t == Users(u)
             T2 == T \o t
  <1>1. /\ t \in Seq(Message) /\ Len(t) = Len(u) /\ Len(u) \in Nat /\ DOMAIN u = 1 .. Len(u)
        /\ \A i \in 1 .. Len(u) : t[i] = User(u[i]) /\ u[i] \in Inputs
    BY UsersOf
  <1> HIDE DEF t
  <1>2. /\ T2 \in Seq(Message) /\ Len(T) \in Nat
        /\ DOMAIN T = 1 .. Len(T) /\ DOMAIN T2 = 1 .. (Len(T) + Len(u))
        /\ \A i \in 1 .. Len(T) : T2[i] = T[i]
        /\ \A i \in 1 .. Len(u) : T2[Len(T) + i] = t[i]
    BY <1>1
  <1> HIDE DEF T2
  <1>3. ASSUME NEW j \in DOMAIN T2 \ DOMAIN T, NEW x \in Inputs, T2[j] = User(x)
        PROVE  j - Len(T) \in DOMAIN u /\ u[j - Len(T)] = x
    <2>1. j - Len(T) \in 1 .. Len(u) /\ Len(T) + (j - Len(T)) = j
      BY <1>1, <1>2, <1>3
    <2>2. T2[j] = User(u[j - Len(T)])
      BY <1>1, <1>2, <2>1
    <2>3. User(x).id = x /\ User(u[j - Len(T)]).id = u[j - Len(T)]
      BY <1>1, <2>1, MessageKinds
    <2> QED BY <1>1, <1>3, <2>1, <2>2, <2>3
  <1>4. \A i \in DOMAIN u : Len(T) + i \in DOMAIN T2 /\ T2[Len(T) + i] = User(u[i])
    BY <1>1, <1>2
  <1>5. Adds(T, T2, u)
    BY <1>2, <1>3, <1>4 DEF Adds
  <1> QED BY <1>5 DEF t, T2

\* A prefix of the announcement of two batches.
LEMMA PrefixAdds ==
  ASSUME NEW T \in Seq(Message), NEW q \in Seq(Inputs), NEW r \in Seq(Inputs),
         NEW k \in Nat, k <= Len(q) + Len(r)
  PROVE  /\ SubSeq(q \o r, 1, k) \in Seq(Inputs)
         /\ Adds(T, T \o SubSeq(Users(q) \o Users(r), 1, k), SubSeq(q \o r, 1, k))
  <1> DEFINE a == Users(q)
             b == Users(r)
             c == q \o r
             u == SubSeq(c, 1, k)
             t == SubSeq(a \o b, 1, k)
  <1>1. /\ a \in Seq(Message) /\ Len(a) = Len(q)
        /\ b \in Seq(Message) /\ Len(b) = Len(r)
        /\ \A i \in 1 .. Len(q) : a[i] = User(q[i])
        /\ \A i \in 1 .. Len(r) : b[i] = User(r[i])
    BY UsersOf
  <1> HIDE DEF a, b
  <1>2. /\ c \in Seq(Inputs) /\ Len(c) = Len(q) + Len(r) /\ Len(q) \in Nat /\ Len(r) \in Nat
        /\ \A i \in 1 .. Len(q) : c[i] = q[i]
        /\ \A i \in 1 .. Len(c) : i > Len(q) => c[i] = r[i - Len(q)]
    OBVIOUS
  <1> HIDE DEF c
  <1>3. u \in Seq(Inputs) /\ Len(u) = k /\ \A i \in 1 .. k : u[i] = c[i]
    BY <1>2
  <1>4. /\ a \o b \in Seq(Message) /\ Len(a \o b) = Len(q) + Len(r)
        /\ \A i \in 1 .. Len(q) : (a \o b)[i] = a[i]
        /\ \A i \in 1 .. Len(q) + Len(r) : i > Len(q) => (a \o b)[i] = b[i - Len(q)]
    <2>1. a \in Seq(Message) /\ b \in Seq(Message)
      BY <1>1
    <2>2. a \o b \in Seq(Message) /\ Len(a \o b) = Len(a) + Len(b)
      BY <2>1
    <2>3. \A i \in 1 .. Len(a) : (a \o b)[i] = a[i]
      BY <2>1
    <2>4. \A i \in 1 .. Len(a) + Len(b) : i > Len(a) => (a \o b)[i] = b[i - Len(a)]
      BY <2>1
    <2> QED BY <1>1, <2>2, <2>3, <2>4
  <1>5. t \in Seq(Message) /\ Len(t) = k /\ \A i \in 1 .. k : t[i] = (a \o b)[i]
    BY <1>4
  <1> HIDE DEF t, u
  <1>6. ASSUME NEW i \in 1 .. k
        PROVE  t[i] = User(u[i])
    <2>1. CASE i <= Len(q)
      <3>1. (a \o b)[i] = a[i] /\ c[i] = q[i] /\ i \in 1 .. Len(q)
        BY <1>2, <1>4, <2>1
      <3> QED BY <1>1, <1>3, <1>5, <3>1
    <2>2. CASE i > Len(q)
      <3>1. /\ (a \o b)[i] = b[i - Len(q)]
            /\ c[i] = r[i - Len(q)] /\ i - Len(q) \in 1 .. Len(r)
        BY <1>2, <1>4, <2>2, SMTT(30)
      <3> QED BY <1>1, <1>3, <1>5, <3>1
    <2> QED BY <1>2, <2>1, <2>2
  <1>7. t = Users(u)
    <2>1. Users(u) \in Seq(Message) /\ Len(Users(u)) = k
          /\ \A i \in 1 .. k : Users(u)[i] = User(u[i])
      BY <1>3, UsersOf
    <2> QED BY <1>5, <1>6, <2>1
  <1>8. Adds(T, T \o t, u)
    BY <1>3, <1>7, UsersAdd
  <1> QED BY <1>3, <1>8 DEF a, b, c, t, u

LEMMA AddsKeepOrder ==
  ASSUME NEW T \in Seq(Message), NEW T2, NEW u \in Seq(Inputs), NEW z, Adds(T, T2, u)
  PROVE  /\ T2 \in Seq(Message)
         /\ SaidSet(T2) = SaidSet(T) \cup ToSet(u)
         /\ SaidInLine(T, z) /\ InLine(u, z) /\ Ordered(SaidSet(T), ToSet(u), z)
              => SaidInLine(T2, z)
  <1>1. /\ T2 \in Seq(Message) /\ Len(T) \in Nat /\ Len(T2) \in Nat /\ Len(u) \in Nat
        /\ DOMAIN T = 1 .. Len(T) /\ DOMAIN T2 = 1 .. Len(T2) /\ DOMAIN u = 1 .. Len(u)
        /\ \A i \in DOMAIN u : u[i] \in Inputs
    BY DEF Adds
  <1>2. \A x \in ToSet(u) : x \in Inputs
    BY <1>1 DEF ToSet
  <1>3. SaidSet(T2) \subseteq SaidSet(T) \cup ToSet(u)
    <2> SUFFICES ASSUME NEW m \in Inputs, NEW j \in DOMAIN T2, T2[j] = User(m)
                 PROVE  m \in SaidSet(T) \/ m \in ToSet(u)
      BY DEF SaidSet
    <2>1. CASE j \in DOMAIN T
      BY <2>1 DEF Adds, SaidSet
    <2>2. CASE j \notin DOMAIN T
      <3>1. j - Len(T) \in DOMAIN u /\ u[j - Len(T)] = m
        BY <2>2 DEF Adds
      <3> QED BY <3>1 DEF ToSet
    <2> QED BY <2>1, <2>2
  <1>4. SaidSet(T) \cup ToSet(u) \subseteq SaidSet(T2)
    <2>1. SaidSet(T) \subseteq SaidSet(T2)
      BY DEF SaidSet, Adds
    <2>2. ASSUME NEW i \in DOMAIN u PROVE u[i] \in SaidSet(T2)
      BY <1>1, <2>2 DEF SaidSet, Adds
    <2> QED BY <2>1, <2>2 DEF ToSet
  <1>5. ASSUME SaidInLine(T, z), InLine(u, z), Ordered(SaidSet(T), ToSet(u), z)
        PROVE  SaidInLine(T2, z)
    <2> SUFFICES ASSUME NEW i \in DOMAIN T2, NEW j \in DOMAIN T2, NEW x \in Inputs, NEW y \in Inputs,
                        i < j, T2[i] = User(x), T2[j] = User(y)
                 PROVE  Precedes(x, y, z)
      BY DEF SaidInLine
    <2>1. CASE j \in DOMAIN T
      <3>1. i \in DOMAIN T
        BY <1>1, <2>1
      <3> QED BY <1>5, <2>1, <3>1 DEF SaidInLine, Adds
    <2>2. CASE i \in DOMAIN T /\ j \notin DOMAIN T
      <3>1. y \in ToSet(u)
        BY <2>2 DEF Adds, ToSet
      <3>2. x \in SaidSet(T)
        BY <2>2 DEF Adds, SaidSet
      <3> QED BY <1>5, <3>1, <3>2 DEF Ordered
    <2>3. CASE i \notin DOMAIN T /\ j \notin DOMAIN T
      <3>1. /\ i - Len(T) \in DOMAIN u /\ u[i - Len(T)] = x
            /\ j - Len(T) \in DOMAIN u /\ u[j - Len(T)] = y
        BY <2>3 DEF Adds
      <3>2. i - Len(T) < j - Len(T)
        BY <1>1
      <3> QED BY <1>5, <3>1, <3>2 DEF InLine
    <2> QED BY <2>1, <2>2, <2>3
  <1> QED BY <1>1, <1>3, <1>4, <1>5

\* One element leaves a queue.
LEMMA RemoveThins ==
  ASSUME NEW S, NEW q \in Seq(S), NEW n \in DOMAIN q, NEW z
  PROVE  /\ RemoveAt(q, n) \in Seq(S)
         /\ ToSet(RemoveAt(q, n)) \subseteq ToSet(q)
         /\ ToSet(q) \subseteq ToSet(RemoveAt(q, n)) \cup {q[n]}
         /\ InLine(q, z) => InLine(RemoveAt(q, n), z) /\ q[n] \notin ToSet(RemoveAt(q, n))
  <1> DEFINE r == RemoveAt(q, n)
             k == Len(q)
  <1>1. k \in Nat /\ DOMAIN q = 1 .. k /\ n \in 1 .. k
    OBVIOUS
  <1>2. /\ SubSeq(q, 1, n - 1) \in Seq(S) /\ Len(SubSeq(q, 1, n - 1)) = n - 1
        /\ \A i \in 1 .. (n - 1) : SubSeq(q, 1, n - 1)[i] = q[i]
    BY <1>1
  <1>3. /\ SubSeq(q, n + 1, k) \in Seq(S) /\ Len(SubSeq(q, n + 1, k)) = k - n
        /\ \A i \in 1 .. (k - n) : SubSeq(q, n + 1, k)[i] = q[n + i]
    BY <1>1
  <1>4. r = SubSeq(q, 1, n - 1) \o SubSeq(q, n + 1, k)
    BY DEF RemoveAt
  <1> HIDE DEF r, k
  <1>5. r \in Seq(S) /\ DOMAIN r = 1 .. (k - 1)
    BY <1>1, <1>2, <1>3, <1>4
  <1>6. \A i \in 1 .. (k - 1) : r[i] = IF i < n THEN q[i] ELSE q[i + 1]
    <2> SUFFICES ASSUME NEW i \in 1 .. (k - 1)
                 PROVE  r[i] = IF i < n THEN q[i] ELSE q[i + 1]
      OBVIOUS
    <2>1. CASE i < n
      BY <1>1, <1>2, <1>3, <1>4, <2>1, SMTT(30)
    <2>2. CASE ~(i < n)
      <3>1. r[i] = SubSeq(q, n + 1, k)[i - (n - 1)]
        <4> DEFINE a == SubSeq(q, 1, n - 1)
                   b == SubSeq(q, n + 1, k)
        <4>1. a \in Seq(S) /\ b \in Seq(S) /\ Len(a) = n - 1 /\ Len(b) = k - n
          BY <1>2, <1>3
        <4>2. r = a \o b
          BY <1>4
        <4> HIDE DEF a, b
        <4>3. i \in 1 .. (Len(a) + Len(b)) /\ i > Len(a)
          BY <1>1, <2>2, <4>1
        <4>4. r[i] = b[i - Len(a)]
          BY <4>1, <4>2, <4>3, SMTT(30)
        <4> QED BY <4>1, <4>4 DEF b
      <3>2. i - (n - 1) \in 1 .. (k - n) /\ n + (i - (n - 1)) = i + 1
        BY <1>1, <2>2
      <3> QED BY <1>3, <2>2, <3>1, <3>2
    <2> QED BY <2>1, <2>2
  <1>7. ToSet(r) \subseteq ToSet(q)
    <2> SUFFICES ASSUME NEW i \in 1 .. (k - 1)
                 PROVE  \E j \in 1 .. k : r[i] = q[j]
      BY <1>1, <1>5 DEF ToSet
    <2>1. i \in 1 .. k /\ i + 1 \in 1 .. k
      BY <1>1
    <2>2. r[i] = q[i] \/ r[i] = q[i + 1]
      BY <1>6
    <2> QED BY <2>1, <2>2
  <1>8. ToSet(q) \subseteq ToSet(r) \cup {q[n]}
    <2> SUFFICES ASSUME NEW i \in 1 .. k, i # n
                 PROVE  \E j \in 1 .. (k - 1) : r[j] = q[i]
      BY <1>1, <1>5 DEF ToSet
    <2>1. CASE i < n
      BY <1>1, <1>6, <2>1
    <2>2. CASE i > n
      <3>1. i - 1 \in 1 .. (k - 1) /\ ~(i - 1 < n) /\ (i - 1) + 1 = i
        BY <1>1, <2>2
      <3>2. r[i - 1] = q[i]
        BY <1>6, <3>1
      <3> QED BY <3>1, <3>2
    <2> QED BY <1>1, <2>1, <2>2
  <1>9. ASSUME InLine(q, z) PROVE InLine(r, z) /\ q[n] \notin ToSet(r)
    <2> DEFINE g(i) == IF i < n THEN i ELSE i + 1
    <2>1. \A i \in 1 .. (k - 1) : g(i) \in 1 .. k /\ r[i] = q[g(i)] /\ g(i) # n
      BY <1>1, <1>6
    <2>2. \A i, j \in 1 .. (k - 1) : i < j => g(i) < g(j)
      BY <1>1
    <2> HIDE DEF g
    <2>3. InLine(r, z)
      BY <1>1, <1>5, <1>9, <2>1, <2>2 DEF InLine
    <2>4. ASSUME NEW i \in 1 .. (k - 1) PROVE r[i] # q[n]
      <3>1. g(i) < n \/ n < g(i)
        BY <1>1, <2>1
      <3> QED BY <1>1, <1>9, <2>1, <3>1 DEF InLine, Precedes
    <2> QED BY <1>5, <2>3, <2>4 DEF ToSet
  <1> QED BY <1>5, <1>7, <1>8, <1>9 DEF r

LEMMA NothingInLine ==
  /\ ToSet(<<>>) = {} /\ Once(<<>>)
  /\ \A z : InLine(<<>>, z)
  BY DEF ToSet, Once, InLine

LEMMA OneInLine ==
  ASSUME NEW m
  PROVE  /\ ToSet(<<m>>) = {m}
         /\ \A z : InLine(<<m>>, z)
  BY DEF ToSet, InLine

\* An input that was not steered may stand anywhere.
LEMMA UnsteeredOrdered ==
  ASSUME NEW X, NEW Y, NEW z, X \cap Y = {},
         X \cap ToSet(z) = {} \/ Y \cap ToSet(z) = {}
  PROVE  Ordered(X, Y, z)
  <1> SUFFICES ASSUME NEW x \in X, NEW y \in Y
               PROVE  Precedes(x, y, z)
    BY DEF Ordered
  <1>1. x # y
    OBVIOUS
  <1>2. x \notin ToSet(z) \/ y \notin ToSet(z)
    OBVIOUS
  <1> QED BY <1>1, <1>2 DEF Precedes, ToSet

LEMMA UnsteeredInLine ==
  ASSUME NEW S, NEW s \in Seq(S), NEW z, Once(s), ToSet(s) \cap ToSet(z) = {}
  PROVE  InLine(s, z)
  <1> SUFFICES ASSUME NEW i \in DOMAIN s, NEW j \in DOMAIN s, i < j
               PROVE  Precedes(s[i], s[j], z)
    BY DEF InLine
  <1>1. s[i] # s[j]
    BY DEF Once
  <1>2. s[i] \in ToSet(s)
    BY DEF ToSet
  <1>3. s[i] \notin ToSet(z)
    BY <1>2
  <1> QED BY <1>1, <1>3 DEF Precedes, ToSet

\* Steering m puts it behind everything else.
LEMMA SteeredLast ==
  ASSUME NEW z \in Seq(Inputs), NEW m \in Inputs, m \notin ToSet(z)
  PROVE  /\ \A x, y : x # m /\ y # m /\ Precedes(x, y, z) => Precedes(x, y, Append(z, m))
         /\ \A x : x # m => Precedes(x, m, Append(z, m))
         /\ ToSet(Append(z, m)) = ToSet(z) \cup {m}
         /\ Once(z) => Once(Append(z, m))
  <1> DEFINE y2 == Append(z, m)
             n == Len(z)
  <1>1. /\ n \in Nat /\ DOMAIN z = 1 .. n /\ DOMAIN y2 = 1 .. (n + 1)
        /\ \A i \in 1 .. n : y2[i] = z[i]
        /\ y2[n + 1] = m
    OBVIOUS
  <1> HIDE DEF y2, n
  <1>2. \A i \in 1 .. n : z[i] # m
    BY <1>1 DEF ToSet
  <1>3. \A i \in 1 .. (n + 1) : i \in 1 .. n \/ i = n + 1
    BY <1>1
  <1>4. ASSUME NEW x, NEW y, x # m, y # m, Precedes(x, y, z)
        PROVE  Precedes(x, y, y2)
    <2> SUFFICES ASSUME NEW p \in DOMAIN y2, NEW q \in DOMAIN y2, y2[p] = x, y2[q] = y
                 PROVE  p < q
      BY <1>4 DEF Precedes
    <2>1. p \in DOMAIN z /\ q \in DOMAIN z /\ z[p] = x /\ z[q] = y
      BY <1>1, <1>3, <1>4
    <2> QED BY <1>4, <2>1 DEF Precedes
  <1>5. ASSUME NEW x, x # m
        PROVE  Precedes(x, m, y2)
    <2> SUFFICES ASSUME NEW p \in DOMAIN y2, NEW q \in DOMAIN y2, y2[p] = x, y2[q] = m
                 PROVE  p < q
      BY <1>5 DEF Precedes
    <2>1. p \in 1 .. n
      BY <1>1, <1>3, <1>5
    <2>2. q = n + 1
      BY <1>1, <1>2, <1>3
    <2> QED BY <1>1, <2>1, <2>2
  <1>6. ToSet(y2) = ToSet(z) \cup {m}
    <2>1. ToSet(y2) \subseteq ToSet(z) \cup {m}
      BY <1>1, <1>3 DEF ToSet
    <2>2. \A i \in 1 .. n : i \in 1 .. (n + 1) /\ n + 1 \in 1 .. (n + 1)
      BY <1>1
    <2>3. ToSet(z) \subseteq ToSet(y2)
      BY <1>1, <2>2 DEF ToSet
    <2>4. m \in ToSet(y2)
      <3>1. n + 1 \in DOMAIN y2
        BY <1>1
      <3> QED BY <1>1, <3>1 DEF ToSet
    <2> QED BY <2>1, <2>3, <2>4
  <1>7. ASSUME Once(z) PROVE Once(y2)
    <2> SUFFICES ASSUME NEW i \in 1 .. (n + 1), NEW j \in 1 .. (n + 1), i < j
                 PROVE  y2[i] # y2[j]
      BY <1>1 DEF Once
    <2>1. i \in 1 .. n
      BY <1>1, <1>3
    <2>2. CASE j \in 1 .. n
      BY <1>1, <1>7, <2>1, <2>2 DEF Once
    <2>3. CASE j = n + 1
      BY <1>1, <1>2, <2>1, <2>3
    <2> QED BY <1>3, <2>2, <2>3
  <1> QED BY <1>4, <1>5, <1>6, <1>7 DEF y2

\* An element joins the tail of a sequence: of a queue.
LEMMA QueuedLast ==
  ASSUME NEW S, NEW s \in Seq(S), NEW m \in S, NEW z
  PROVE  /\ ToSet(Append(s, m)) = ToSet(s) \cup {m}
         /\ InLine(s, z) /\ Ordered(ToSet(s), {m}, z) => InLine(Append(s, m), z)
         /\ Once(s) /\ m \notin ToSet(s) => Once(Append(s, m))
  <1> DEFINE s2 == Append(s, m)
             n == Len(s)
  <1>1. /\ n \in Nat /\ DOMAIN s = 1 .. n /\ DOMAIN s2 = 1 .. (n + 1)
        /\ \A i \in 1 .. n : s2[i] = s[i]
        /\ s2[n + 1] = m
    OBVIOUS
  <1> HIDE DEF s2, n
  <1>2. \A i, j \in 1 .. (n + 1) : i < j => i \in 1 .. n /\ (j \in 1 .. n \/ j = n + 1)
    BY <1>1
  <1>3. \A i \in 1 .. (n + 1) : i \in 1 .. n \/ i = n + 1
    BY <1>1
  <1>4. ToSet(s2) = ToSet(s) \cup {m}
    <2>1. ToSet(s2) \subseteq ToSet(s) \cup {m}
      BY <1>1, <1>3 DEF ToSet
    <2>2. \A i \in 1 .. n : i \in 1 .. (n + 1)
      BY <1>1
    <2>3. ToSet(s) \subseteq ToSet(s2)
      BY <1>1, <2>2 DEF ToSet
    <2>4. m \in ToSet(s2)
      <3>1. n + 1 \in DOMAIN s2
        BY <1>1
      <3> QED BY <1>1, <3>1 DEF ToSet
    <2> QED BY <2>1, <2>3, <2>4
  <1>5. ASSUME InLine(s, z), Ordered(ToSet(s), {m}, z)
        PROVE  InLine(s2, z)
    <2> SUFFICES ASSUME NEW i \in 1 .. (n + 1), NEW j \in 1 .. (n + 1), i < j
                 PROVE  Precedes(s2[i], s2[j], z)
      BY <1>1 DEF InLine
    <2>1. i \in 1 .. n /\ s2[i] = s[i] /\ s[i] \in ToSet(s)
      BY <1>1, <1>2 DEF ToSet
    <2>2. CASE j \in 1 .. n
      BY <1>1, <1>5, <2>1, <2>2 DEF InLine
    <2>3. CASE j = n + 1
      BY <1>1, <1>5, <2>1, <2>3 DEF Ordered
    <2> QED BY <1>3, <2>2, <2>3
  <1>6. ASSUME Once(s), m \notin ToSet(s)
        PROVE  Once(s2)
    <2> SUFFICES ASSUME NEW i \in 1 .. (n + 1), NEW j \in 1 .. (n + 1), i < j
                 PROVE  s2[i] # s2[j]
      BY <1>1 DEF Once
    <2>1. i \in 1 .. n /\ s2[i] = s[i] /\ s[i] \in ToSet(s)
      BY <1>1, <1>2 DEF ToSet
    <2>2. CASE j \in 1 .. n
      BY <1>1, <1>6, <2>1, <2>2 DEF Once
    <2>3. CASE j = n + 1
      BY <1>1, <1>6, <2>1, <2>3
    <2> QED BY <1>3, <2>2, <2>3
  <1> QED BY <1>4, <1>5, <1>6 DEF s2

\* A prefix of two batches in line, the first before the second.
LEMMA PrefixInLine ==
  ASSUME NEW S, NEW q \in Seq(S), NEW r \in Seq(S), NEW z,
         NEW k \in Nat, k <= Len(q) + Len(r),
         InLine(q, z), InLine(r, z), Ordered(ToSet(q), ToSet(r), z)
  PROVE  /\ InLine(SubSeq(q \o r, 1, k), z)
         /\ ToSet(SubSeq(q \o r, 1, k)) \subseteq ToSet(q) \cup ToSet(r)
  <1> DEFINE c == q \o r
             u == SubSeq(c, 1, k)
             n == Len(q)
  <1>1. /\ c \in Seq(S) /\ Len(c) = n + Len(r) /\ n \in Nat /\ Len(r) \in Nat
        /\ DOMAIN q = 1 .. n /\ DOMAIN r = 1 .. Len(r)
        /\ \A i \in 1 .. n : c[i] = q[i]
        /\ \A i \in 1 .. (n + Len(r)) : i > n => c[i] = r[i - n]
    OBVIOUS
  <1> HIDE DEF c, n
  <1>2. DOMAIN u = 1 .. k /\ \A i \in 1 .. k : u[i] = c[i]
    BY <1>1
  <1> HIDE DEF u
  <1>3. ASSUME NEW i \in 1 .. k
        PROVE  \/ i \in 1 .. n /\ u[i] = q[i] /\ u[i] \in ToSet(q)
               \/ i > n /\ i - n \in 1 .. Len(r) /\ u[i] = r[i - n] /\ u[i] \in ToSet(r)
    <2>1. CASE i <= n
      <3>1. i \in 1 .. n
        BY <1>1, <2>1
      <3> QED BY <1>1, <1>2, <3>1 DEF ToSet
    <2>2. CASE i > n
      <3>1. i - n \in 1 .. Len(r) /\ i \in 1 .. (n + Len(r))
        BY <1>1, <2>2
      <3> QED BY <1>1, <1>2, <2>2, <3>1 DEF ToSet
    <2> QED BY <1>1, <2>1, <2>2
  <1>4. ASSUME NEW i \in 1 .. k, NEW j \in 1 .. k, i < j
        PROVE  Precedes(u[i], u[j], z)
    <2>1. CASE i > n
      <3>1. j > n
        BY <1>1, <1>4, <2>1
      <3>2. i - n \in 1 .. Len(r) /\ u[i] = r[i - n] /\ j - n \in 1 .. Len(r) /\ u[j] = r[j - n]
        BY <1>1, <1>3, <2>1, <3>1
      <3>3. i - n < j - n
        BY <1>1, <1>4
      <3> QED BY <1>1, <3>2, <3>3 DEF InLine
    <2>2. CASE i <= n /\ j > n
      <3>1. u[i] \in ToSet(q) /\ u[j] \in ToSet(r)
        BY <1>1, <1>3, <2>2
      <3> QED BY <3>1 DEF Ordered
    <2>3. CASE i <= n /\ j <= n
      <3>1. i \in 1 .. n /\ u[i] = q[i] /\ j \in 1 .. n /\ u[j] = q[j]
        BY <1>1, <1>3, <2>3
      <3> QED BY <1>1, <1>4, <3>1 DEF InLine
    <2> QED BY <1>1, <2>1, <2>2, <2>3
  <1>5. InLine(u, z)
    BY <1>2, <1>4 DEF InLine
  <1>6. ToSet(u) \subseteq ToSet(q) \cup ToSet(r)
    <2> SUFFICES ASSUME NEW i \in 1 .. k
                 PROVE  u[i] \in ToSet(q) \/ u[i] \in ToSet(r)
      BY <1>2 DEF ToSet
    <2> QED BY <1>3
  <1> QED BY <1>5, <1>6 DEF u, c

-----------------------------------------------------------------------------
(* Types.                                                                   *)

\* The replies the loop knows without the provider: one cut off before its first
\* call, and the terminal message of a cancelled run.
LEMMA TerminalKinds ==
  \A stop \in {"Length", "Aborted"} :
     /\ Assistant(stop, 0) \in Message /\ Assistant(stop, 0).kind = "assistant"
     /\ Assistant(stop, 0).stop = stop /\ Assistant(stop, 0).calls = 0
  <1>1. 0 \in 0 .. MaxCalls
    BY AgentLoopAssumption
  <1> QED BY <1>1, MessageKinds DEF Stops

\* What a failed announcement leaves in the transcript is a prefix of messages.
LEMMA AnnouncedAreMessages ==
  ASSUME TypeOK, Replied, NEW said \in Announcing, pc # "idle"
  PROVE  said \in Seq(Message)
  <1>1. CASE pc = "inner"
    <2>1. prompts \in Seq(Inputs) /\ pending \in Seq(Inputs)
      BY DEF TypeOK
    <2>2. Users(prompts) \in Seq(Message) /\ Users(pending) \in Seq(Message)
      BY <2>1, UsersOf
    <2>3. Users(prompts) \o Users(pending) \in Seq(Message)
      BY <2>2
    <2>4. said = Users(prompts) \o Users(pending)
      BY <1>1 DEF Announcing
    <2> QED BY <2>3, <2>4
  <1>2. CASE pc = "stream"
    <2>1. \/ \E stop \in Stops, n \in 0 .. MaxCalls : said = <<Assistant(stop, n)>>
          \/ said = <<Assistant("Length", 0), Injected("nudge")>>
      BY <1>2 DEF Announcing
    <2>2. /\ \A stop \in Stops, n \in 0 .. MaxCalls : Assistant(stop, n) \in Message
          /\ Assistant("Length", 0) \in Message /\ Injected("nudge") \in Message
      BY MessageKinds, TerminalKinds
    <2>3. \A x, y \in Message : <<x>> \in Seq(Message) /\ <<x, y>> \in Seq(Message)
      OBVIOUS
    <2> QED BY <2>1, <2>2, <2>3
  <1>3. CASE pc = "tools"
    <2>1. said = Results(Current.calls) /\ Current.calls \in 0 .. MaxCalls
      BY <1>3 DEF Announcing, Replied
    <2> QED BY <2>1, ResultsOf
  <1>4. CASE pc = "turnEnd"
    <2>1. said = <<Injected("bounce")>> /\ Injected("bounce") \in Message
      BY <1>4, MessageKinds DEF Announcing
    <2> QED BY <2>1
  <1>5. CASE pc \notin {"inner", "stream", "tools", "turnEnd"}
    <2>1. said = <<>> \/ said = <<Assistant("Aborted", 0)>>
      BY <1>5 DEF Announcing
    <2>2. /\ Assistant("Aborted", 0) \in Message
          /\ <<>> \in Seq(Message) /\ \A x \in Message : <<x>> \in Seq(Message)
      BY TerminalKinds
    <2> QED BY <2>1, <2>2
  <1> QED BY <1>1, <1>2, <1>3, <1>4, <1>5

LEMMA TypeStep ==
  ASSUME TypeOK, Replied, [Next]_vars
  PROVE  TypeOK'
  <1> USE DEF loopVars, agentVars, queueVars, runHistory, inputHistory
  <1>z. 0 \in 0 .. MaxBounces /\ 0 \in 0 .. 3 /\ 0 \in Nat /\ <<>> \in Seq(Inputs) /\ <<>> \in Seq(Message)
    BY AgentLoopAssumption
  <1>0. ASSUME NEW d \in Seq(Inputs), Begin(d), accepted' \subseteq Inputs,
               steering' \in Seq(Inputs), followUp' \in Seq(Inputs), UNCHANGED steered
        PROVE  TypeOK'
    <2>1. Users(d) \in Seq(Message)
      BY UsersOf
    <2>2. transcript \o Users(d) \in Seq(Message) /\ Len(transcript) \in Nat
      BY <2>1 DEF TypeOK
    <2>3. /\ pc' \in Pcs /\ cancelled' \in BOOLEAN /\ prompts' \in Seq(Inputs) /\ pending' \in Seq(Inputs)
          /\ context' \in Seq(Message) /\ transcript' \in Seq(Message)
          /\ turns' \in Nat /\ escalations' \in 0 .. 3 /\ bounces' \in 0 .. MaxBounces /\ more' \in BOOLEAN
          /\ base' \in Nat /\ strikes' \in Nat /\ cut' \in BOOLEAN
      BY <1>0, <1>z, <2>2 DEF Begin, TypeOK, Pcs
    <2>4. /\ replies' \in 0 .. MaxReplies /\ faults' \in 0 .. MaxFaults
          /\ returned' \subseteq Inputs /\ disturbed' \in BOOLEAN /\ steered' \in Seq(Inputs)
      BY <1>0 DEF Begin, TypeOK
    <2> QED BY <1>0, <2>3, <2>4 DEF TypeOK
  <1>d. ASSUME Discard, transcript' \in Seq(Message), faults' \in 0 .. MaxFaults, disturbed' \in BOOLEAN
        PROVE  TypeOK'
    <2>1. /\ pc' \in Pcs /\ cancelled' \in BOOLEAN /\ prompts' \in Seq(Inputs) /\ pending' \in Seq(Inputs)
          /\ context' \in Seq(Message)
          /\ turns' \in Nat /\ escalations' \in 0 .. 3 /\ bounces' \in 0 .. MaxBounces /\ more' \in BOOLEAN
      BY <1>d, <1>z DEF Discard, Pcs
    <2>2. /\ steering' \in Seq(Inputs) /\ followUp' \in Seq(Inputs) /\ replies' \in 0 .. MaxReplies
          /\ base' \in Nat /\ strikes' \in Nat /\ cut' \in BOOLEAN
          /\ accepted' \subseteq Inputs /\ returned' \subseteq Inputs /\ steered' \in Seq(Inputs)
      BY <1>d DEF Discard, TypeOK
    <2> QED BY <1>d, <2>1, <2>2 DEF TypeOK
  <1>1. ASSUME NEW m \in Inputs, Prompt(m)
        PROVE  TypeOK'
    <2>1. <<m>> \in Seq(Inputs)
      OBVIOUS
    <2> QED BY <1>1, <2>1, <1>0 DEF Prompt, TypeOK
  <1>2. ASSUME NEW m \in Inputs, Steer(m) \/ FollowUp(m)
        PROVE  TypeOK'
    <2>1. CASE Steer(m)
      BY <2>1 DEF Steer, TypeOK
    <2>2. CASE FollowUp(m)
      BY <2>2 DEF FollowUp, TypeOK
    <2> QED BY <1>2, <2>1, <2>2
  <1>3. ASSUME NEW m \in Inputs, CancelSteer(m)
        PROVE  TypeOK'
    <2>1. PICK i \in DOMAIN steering : steering' = RemoveAt(steering, i)
      BY <1>3 DEF CancelSteer
    <2>2. steering' \in Seq(Inputs)
      BY <2>1, RemoveThins DEF TypeOK
    <2> QED BY <1>3, <2>2 DEF CancelSteer, TypeOK
  <1>4. CASE Continue
    <2>1. /\ accepted' \subseteq Inputs /\ UNCHANGED steered
          /\ steering \in Seq(Inputs) /\ followUp \in Seq(Inputs) /\ <<>> \in Seq(Inputs)
      BY <1>4, <1>z DEF Continue, TypeOK
    <2>3. CASE Begin(<<>>) /\ UNCHANGED queueVars
      BY <1>0, <2>1, <2>3
    <2>4. ASSUME NEW d \in Drains(steering), steering' = Rest(steering, d), Begin(d), UNCHANGED followUp
          PROVE  TypeOK'
      <3>1. d \in Seq(Inputs) /\ Rest(steering, d) \in Seq(Inputs)
        BY <2>1, DrainSplits
      <3> QED BY <1>0, <2>1, <2>4, <3>1
    <2>5. ASSUME NEW d \in Drains(followUp), followUp' = Rest(followUp, d), Begin(d), UNCHANGED steering
          PROVE  TypeOK'
      <3>1. d \in Seq(Inputs) /\ Rest(followUp, d) \in Seq(Inputs)
        BY <2>1, DrainSplits
      <3> QED BY <1>0, <2>1, <2>5, <3>1
    <2> QED BY <1>4, <2>3, <2>4, <2>5 DEF Continue
  <1>5. CASE Reset
    <2>1. ToSet(steering) \subseteq Inputs /\ ToSet(followUp) \subseteq Inputs
      BY DEF TypeOK, ToSet
    <2> QED BY <1>5, <2>1 DEF Reset, TypeOK
  <1>6. CASE ClearSteering \/ ClearFollowUp
    <2>1. ToSet(steering) \subseteq Inputs /\ ToSet(followUp) \subseteq Inputs
      BY DEF TypeOK, ToSet
    <2>2. CASE ClearSteering
      BY <1>z, <2>1, <2>2 DEF ClearSteering, TypeOK
    <2>3. CASE ClearFollowUp
      BY <1>z, <2>1, <2>3 DEF ClearFollowUp, TypeOK
    <2> QED BY <1>6, <2>2, <2>3
  <1>7. CASE Abort
    BY <1>7 DEF Abort, TypeOK
  <1>8. CASE MiddlewareFails
    <2>1. PICK said \in Announcing :
            \E k \in 0 .. Len(said) : transcript' = transcript \o SubSeq(said, 1, k)
      BY <1>8 DEF MiddlewareFails
    <2>2. said \in Seq(Message)
      BY <1>8, AnnouncedAreMessages DEF MiddlewareFails
    <2>3. \A k \in 0 .. Len(said) : SubSeq(said, 1, k) \in Seq(Message)
      BY <2>2
    <2>4. transcript' \in Seq(Message)
      BY <2>1, <2>3 DEF TypeOK
    <2>5. faults' \in 0 .. MaxFaults
      BY <1>8, AgentLoopAssumption DEF MiddlewareFails, TypeOK
    <2> QED BY <1>8, <1>d, <2>4, <2>5 DEF MiddlewareFails, TypeOK
  <1>9. CASE Start
    <2>1. PICK d \in Drains(steering) : pending' = d /\ steering' = Rest(steering, d)
      BY <1>9 DEF Start
    <2>2. pending' \in Seq(Inputs) /\ steering' \in Seq(Inputs)
      BY <2>1, DrainSplits DEF TypeOK
    <2> QED BY <1>9, <2>2 DEF Start, Goto, TypeOK, Pcs
  <1>10. CASE Outer \/ TurnSkipped \/ TurnCapped
    BY <1>10 DEF Outer, TurnSkipped, TurnCapped, Goto, TypeOK, Pcs
  <1>11. CASE TurnStart
    <2>1. Users(prompts) \in Seq(Message) /\ Users(pending) \in Seq(Message)
      BY UsersOf DEF TypeOK
    <2>2. transcript' \in Seq(Message) /\ context' \in Seq(Message)
      BY <1>11, <2>1 DEF TurnStart, TypeOK
    <2> QED BY <1>11, <2>2 DEF TurnStart, Goto, TypeOK, Pcs
  <1>12. ASSUME NEW stop \in {"Stop", "Length"}, NEW n \in 0 .. MaxCalls, Reply(stop, n)
         PROVE  TypeOK'
    <2>1. /\ Assistant(stop, n) \in Message /\ Injected("nudge") \in Message
      BY MessageKinds DEF Stops
    <2>2. context' \in Seq(Message) /\ transcript' \in Seq(Message) /\ more' \in BOOLEAN
      BY <1>12, <2>1 DEF Reply, TypeOK
    <2>3. replies' \in 0 .. MaxReplies
      BY <1>12, AgentLoopAssumption DEF Reply, TypeOK
    <2>4. escalations' \in 0 .. 3 /\ strikes' \in Nat
      BY <1>12 DEF Reply, Escalate, TypeOK
    <2> QED BY <1>12, <2>2, <2>3, <2>4 DEF Reply, TypeOK, Pcs
  <1>13. ASSUME NEW n \in 0 .. MaxCalls, StreamFails(n)
         PROVE  TypeOK'
    <2>1. /\ Assistant("Aborted", n) \in Message /\ Assistant("Error", n) \in Message
          /\ Results(n) \in Seq(Message)
      BY MessageKinds, ResultsOf DEF Stops
    <2>2. context' \in Seq(Message) /\ transcript' \in Seq(Message)
      BY <1>13, <2>1 DEF StreamFails, TypeOK
    <2>3. escalations' \in 0 .. 3 /\ strikes' \in Nat
      BY <1>13 DEF StreamFails, Escalate, TypeOK
    <2> QED BY <1>13, <2>2, <2>3 DEF StreamFails, Goto, TypeOK, Pcs
  <1>14. ASSUME NEW terminate \in BOOLEAN, ToolsSettle(terminate)
         PROVE  TypeOK'
    <2>1. Results(Current.calls) \in Seq(Message)
      BY <1>14, ResultsOf DEF ToolsSettle, Replied
    <2>2. context' \in Seq(Message) /\ transcript' \in Seq(Message)
      BY <1>14, <2>1 DEF ToolsSettle, TypeOK
    <2> QED BY <1>14, <2>2 DEF ToolsSettle, Goto, TypeOK, Pcs
  <1>15. ASSUME NEW aside \in BOOLEAN, PrepareNextTurn(aside)
         PROVE  TypeOK'
    <2>1. context' \in Seq(Message)
      BY <1>15, MessageKinds DEF PrepareNextTurn, TypeOK
    <2> QED BY <1>15, <2>1 DEF PrepareNextTurn, Goto, TypeOK, Pcs
  <1>16. ASSUME NEW veto \in BOOLEAN, TurnEnd(veto)
         PROVE  TypeOK'
    <2> DEFINE bounced(d) == ~more /\ d = <<>> /\ veto /\ GateOpen
               said(d) == IF bounced(d) THEN <<Injected("bounce")>> ELSE <<>>
    <2>1. PICK d \in Drains(steering) :
            /\ steering' = Rest(steering, d) /\ pending' = d
            /\ bounces' = IF bounced(d) THEN bounces + 1 ELSE bounces
            /\ more' = (more \/ bounced(d))
            /\ context' = context \o said(d) /\ transcript' = transcript \o said(d)
            /\ Goto(IF ~more /\ d = <<>> /\ ~bounced(d) THEN "followUp" ELSE "inner")
      BY <1>16 DEF TurnEnd
    <2>2. pending' \in Seq(Inputs) /\ steering' \in Seq(Inputs)
      BY <2>1, DrainSplits DEF TypeOK
    <2>3. said(d) \in Seq(Message)
      BY MessageKinds
    <2>4. context' \in Seq(Message) /\ transcript' \in Seq(Message)
      BY <2>1, <2>3 DEF TypeOK
    <2>5. bounces' \in 0 .. MaxBounces /\ more' \in BOOLEAN
      BY <2>1, AgentLoopAssumption DEF TypeOK, GateOpen
    <2> QED BY <1>16, <2>1, <2>2, <2>4, <2>5 DEF TurnEnd, Goto, TypeOK, Pcs
  <1>17. CASE FollowUpPoll
    <2>1. PICK d \in Drains(followUp) :
            /\ followUp' = Rest(followUp, d)
            /\ pending' = IF d = <<>> THEN pending ELSE d
            /\ Goto(IF d = <<>> THEN "final" ELSE "outer")
      BY <1>17 DEF FollowUpPoll
    <2>2. followUp' \in Seq(Inputs) /\ pending' \in Seq(Inputs)
      BY <2>1, DrainSplits DEF TypeOK
    <2> QED BY <1>17, <2>1, <2>2 DEF FollowUpPoll, Goto, TypeOK, Pcs
  <1>18. CASE Final
    <2>1. Assistant("Aborted", 0) \in Message
      BY MessageKinds, AgentLoopAssumption DEF Stops
    <2>2. context' \in Seq(Message) /\ transcript' \in Seq(Message)
      <3>1. CASE cancelled
        <4> DEFINE w == Assistant("Aborted", 0)
        <4>1. w \in Message /\ context' = Append(context, w) /\ transcript' = Append(transcript, w)
          BY <1>18, <2>1, <3>1 DEF Final
        <4> HIDE DEF w
        <4> QED BY <4>1 DEF TypeOK
      <3>2. CASE ~cancelled
        BY <1>18, <3>2 DEF Final, TypeOK
      <3> QED BY <3>1, <3>2
    <2> QED BY <1>18, <2>2 DEF Final, Goto, TypeOK, Pcs
  <1>19. CASE Settle
    BY <1>19, <1>d DEF Settle, TypeOK
  <1>20. CASE UNCHANGED vars
    BY <1>20 DEF vars, TypeOK
  <1> QED BY <1>1, <1>2, <1>3, <1>4, <1>5, <1>6, <1>7, <1>8, <1>9, <1>10, <1>11, <1>12, <1>13,
             <1>14, <1>15, <1>16, <1>17, <1>18, <1>19, <1>20 DEF Next, Loop

-----------------------------------------------------------------------------
(* The line.                                                                *)

LEMMA SayingKeepsOrder ==
  ASSUME NEW T \in Seq(Message), NEW T2, NEW z, Adds(T, T2, <<>>)
  PROVE  /\ SaidSet(T2) = SaidSet(T)
         /\ SaidInLine(T, z) => SaidInLine(T2, z)
  <1> DEFINE u == <<>>
  <1>1. u \in Seq(Inputs) /\ ToSet(u) = {} /\ InLine(u, z) /\ Adds(T, T2, u)
    BY NothingInLine
  <1> HIDE DEF u
  <1>2. Ordered(SaidSet(T), ToSet(u), z)
    BY <1>1 DEF Ordered
  <1>3. SaidSet(T2) = SaidSet(T) \cup ToSet(u)
    BY <1>1, AddsKeepOrder
  <1>4. SaidInLine(T, z) => SaidInLine(T2, z)
    BY <1>1, <1>2, AddsKeepOrder
  <1> QED BY <1>1, <1>3, <1>4

LEMMA NoUserConcat ==
  ASSUME NEW s \in Seq(Message), NEW t \in Seq(Message), NoUser(s), NoUser(t)
  PROVE  s \o t \in Seq(Message) /\ NoUser(s \o t)
  <1>1. /\ s \o t \in Seq(Message) /\ Len(s) \in Nat /\ Len(t) \in Nat
        /\ DOMAIN s = 1 .. Len(s) /\ DOMAIN t = 1 .. Len(t)
        /\ DOMAIN (s \o t) = 1 .. (Len(s) + Len(t))
        /\ \A i \in 1 .. Len(s) : (s \o t)[i] = s[i]
        /\ \A i \in 1 .. (Len(s) + Len(t)) : i > Len(s) => (s \o t)[i] = t[i - Len(s)]
    OBVIOUS
  <1>2. ASSUME NEW i \in 1 .. (Len(s) + Len(t))
        PROVE  (s \o t)[i].kind # "user"
    <2>1. CASE i <= Len(s)
      <3>1. i \in DOMAIN s /\ (s \o t)[i] = s[i]
        BY <1>1, <2>1
      <3> QED BY <3>1 DEF NoUser
    <2>2. CASE i > Len(s)
      <3>1. i - Len(s) \in DOMAIN t /\ (s \o t)[i] = t[i - Len(s)]
        BY <1>1, <2>2
      <3> QED BY <3>1 DEF NoUser
    <2> QED BY <1>1, <2>1, <2>2
  <1> QED BY <1>1, <1>2 DEF NoUser

LEMMA ResultsAreNoUsers ==
  ASSUME NEW n \in 0 .. MaxCalls
  PROVE  Results(n) \in Seq(Message) /\ NoUser(Results(n))
  <1>1. /\ Results(n) \in Seq(Message) /\ Len(Results(n)) = n
        /\ \A i \in 1 .. n : Results(n)[i] = Result(i)
    BY ResultsOf
  <1>2. \A i \in 1 .. n : i \in 1 .. MaxCalls /\ Result(i).kind # "user"
    BY AgentLoopAssumption, MessageKinds
  <1>3. DOMAIN Results(n) = 1 .. n
    BY <1>1
  <1> QED BY <1>1, <1>2, <1>3 DEF NoUser

\* A prefix of an announcement without users adds none.
LEMMA PrefixSays ==
  ASSUME NEW T \in Seq(Message), NEW t \in Seq(Message), NoUser(t), NEW k \in 0 .. Len(t)
  PROVE  Adds(T, T \o SubSeq(t, 1, k), <<>>)
  <1>1. /\ SubSeq(t, 1, k) \in Seq(Message) /\ DOMAIN SubSeq(t, 1, k) = 1 .. k
        /\ \A i \in 1 .. k : SubSeq(t, 1, k)[i] = t[i] /\ i \in DOMAIN t
    OBVIOUS
  <1>2. NoUser(SubSeq(t, 1, k))
    BY <1>1 DEF NoUser
  <1> QED BY <1>1, <1>2, SayingAdds

\* A failed announcement leaves a prefix of the prompts and pending messages.
LEMMA FailureAdds ==
  ASSUME TypeOK, Replied, MiddlewareFails,
         InLine(prompts, steered), InLine(pending, steered),
         Ordered(ToSet(prompts), ToSet(pending), steered)
  PROVE  \E u \in Seq(Inputs) : /\ Adds(transcript, transcript', u) /\ InLine(u, steered)
                                /\ ToSet(u) \subseteq ToSet(prompts) \cup ToSet(pending)
  <1>t. transcript \in Seq(Message) /\ prompts \in Seq(Inputs) /\ pending \in Seq(Inputs)
    BY DEF TypeOK
  <1>1. PICK said \in Announcing :
          \E k \in 0 .. Len(said) : transcript' = transcript \o SubSeq(said, 1, k)
    BY DEF MiddlewareFails
  <1>2. PICK k \in 0 .. Len(said) : transcript' = transcript \o SubSeq(said, 1, k)
    BY <1>1
  <1>n. <<>> \in Seq(Inputs) /\ ToSet(<<>>) = {} /\ InLine(<<>>, steered)
    BY NothingInLine
  <1>3. CASE pc = "inner"
    <2>1. said = Users(prompts) \o Users(pending)
      BY <1>3 DEF Announcing
    <2>2. k \in Nat /\ k <= Len(prompts) + Len(pending)
      <3> DEFINE a == Users(prompts)
                 b == Users(pending)
      <3>1. a \in Seq(Message) /\ b \in Seq(Message)
        BY <1>t, UsersOf
      <3>2. Len(a) = Len(prompts) /\ Len(b) = Len(pending)
        BY <1>t, UsersOf
      <3> HIDE DEF a, b
      <3>3. Len(a \o b) = Len(a) + Len(b) /\ Len(a) \in Nat /\ Len(b) \in Nat
        BY <3>1
      <3>4. said = a \o b
        BY <2>1 DEF a, b
      <3> QED BY <3>2, <3>3, <3>4
    <2>3. /\ SubSeq(prompts \o pending, 1, k) \in Seq(Inputs)
          /\ Adds(transcript, transcript', SubSeq(prompts \o pending, 1, k))
      BY <1>t, <1>2, <2>1, <2>2, PrefixAdds
    <2>4. /\ InLine(SubSeq(prompts \o pending, 1, k), steered)
          /\ ToSet(SubSeq(prompts \o pending, 1, k)) \subseteq ToSet(prompts) \cup ToSet(pending)
      BY <1>t, <2>2, PrefixInLine
    <2> QED BY <2>3, <2>4
  <1>4. CASE pc # "inner"
    <2>1. said \in Seq(Message)
      BY AnnouncedAreMessages DEF MiddlewareFails
    <2>2. NoUser(said)
      <3>1. CASE pc = "stream"
        <4>1. \/ \E stop \in Stops, n \in 0 .. MaxCalls : said = <<Assistant(stop, n)>>
              \/ said = <<Assistant("Length", 0), Injected("nudge")>>
          BY <3>1 DEF Announcing
        <4>2. /\ \A stop \in Stops, n \in 0 .. MaxCalls : Assistant(stop, n).kind # "user"
              /\ Assistant("Length", 0).kind # "user" /\ Injected("nudge").kind # "user"
          BY MessageKinds, TerminalKinds
        <4> QED BY <4>1, <4>2 DEF NoUser
      <3>2. CASE pc = "tools"
        <4>1. said = Results(Current.calls) /\ Current.calls \in 0 .. MaxCalls
          BY <3>2 DEF Announcing, Replied
        <4> QED BY <4>1, ResultsAreNoUsers
      <3>3. CASE pc = "turnEnd"
        <4>1. said = <<Injected("bounce")>> /\ Injected("bounce").kind # "user"
          BY <3>3, MessageKinds DEF Announcing
        <4> QED BY <4>1 DEF NoUser
      <3>4. CASE pc \notin {"inner", "stream", "tools", "turnEnd"}
        <4>1. said = <<>> \/ said = <<Assistant("Aborted", 0)>>
          BY <3>4 DEF Announcing
        <4> QED BY <4>1, TerminalKinds DEF NoUser
      <3> QED BY <1>4, <3>1, <3>2, <3>3, <3>4
    <2>3. Adds(transcript, transcript', <<>>)
      BY <1>t, <1>2, <2>1, <2>2, PrefixSays
    <2> QED BY <1>n, <2>3
  <1> QED BY <1>3, <1>4

LEMMA LineStep ==
  ASSUME TypeOK, InnerOrder, PlacesApart, Conserved, Replied, [Next]_vars
  PROVE  InnerOrder' /\ PlacesApart' /\ Conserved'
  <1> USE DEF loopVars, agentVars, queueVars, runHistory, inputHistory
  <1> DEFINE T == SaidSet(transcript)
             Q == ToSet(prompts)
             P == ToSet(pending)
             S == ToSet(steering)
             F == ToSet(followUp)
             Z == ToSet(steered)
  <1>t. /\ transcript \in Seq(Message) /\ prompts \in Seq(Inputs) /\ pending \in Seq(Inputs)
        /\ steering \in Seq(Inputs) /\ followUp \in Seq(Inputs) /\ steered \in Seq(Inputs)
    BY DEF TypeOK
  <1>i. /\ SaidInLine(transcript, steered) /\ InLine(prompts, steered) /\ InLine(pending, steered)
        /\ InLine(steering, steered) /\ Once(followUp) /\ Once(steered)
    BY DEF InnerOrder
  <1>p. /\ Ordered(T, Q, steered) /\ Ordered(T, P, steered) /\ Ordered(T, S, steered)
        /\ Ordered(Q, P, steered) /\ Ordered(Q, S, steered) /\ Ordered(P, S, steered)
        /\ F \cap (T \cup Q \cup P \cup S \cup Z) = {}
        /\ returned \cap (T \cup Q \cup P \cup S \cup F) = {}
        /\ T \cup Q \cup P \cup S \cup F \cup returned \cup Z \subseteq accepted
    BY DEF PlacesApart, Apart
  \* Nothing but harness and assistant messages and results is announced.
  <1>q. ASSUME NEW t \in Seq(Message), NoUser(t), transcript' = transcript \o t,
               UNCHANGED <<prompts, pending, steering, followUp, accepted, steered, returned>>
        PROVE  InnerOrder' /\ PlacesApart' /\ Everywhere' = Everywhere
    <2>1. Adds(transcript, transcript', <<>>)
      BY <1>q, <1>t, SayingAdds
    <2>2. SaidSet(transcript') = T /\ SaidInLine(transcript', steered)
      BY <1>t, <1>i, <2>1, SayingKeepsOrder
    <2> QED BY <1>q, <2>2 DEF InnerOrder, PlacesApart, Everywhere
  <1>u. ASSUME UNCHANGED <<transcript, prompts, pending, steering, followUp, accepted, steered, returned>>
        PROVE  InnerOrder' /\ PlacesApart' /\ Everywhere' = Everywhere
    BY <1>u DEF InnerOrder, PlacesApart, Everywhere
  <1>1. ASSUME NEW m \in Inputs, Prompt(m)
        PROVE  InnerOrder' /\ PlacesApart' /\ Conserved'
    <2>1. m \notin accepted /\ prompts' = <<m>> /\ pending' = <<>> /\ accepted' = accepted \cup {m}
          /\ UNCHANGED <<transcript, steering, followUp, steered, returned, disturbed>>
          /\ cancelled' = FALSE /\ pc = "idle" /\ pc' = "start"
      BY <1>1 DEF Prompt, Begin
    <2>2. ToSet(prompts') = {m} /\ ToSet(pending') = {}
          /\ InLine(prompts', steered) /\ InLine(pending', steered)
      BY <2>1, OneInLine, NothingInLine
    <2>3. Ordered(T, {m}, steered) /\ Ordered({m}, S, steered)
      BY <1>p, <2>1, UnsteeredOrdered
    <2>4. Ordered(T, {}, steered) /\ Ordered({m}, {}, steered) /\ Ordered({}, S, steered)
      BY DEF Ordered
    <2>5. InnerOrder'
      BY <1>i, <2>1, <2>2 DEF InnerOrder
    <2>6. PlacesApart'
      <3>1. m \notin T \cup Q \cup P \cup S \cup F \cup returned \cup Z
        BY <1>p, <2>1
      <3>2. /\ F \cap (T \cup {m} \cup {} \cup S \cup Z) = {}
            /\ returned \cap (T \cup {m} \cup {} \cup S \cup F) = {}
            /\ T \cup {m} \cup {} \cup S \cup F \cup returned \cup Z \subseteq accepted \cup {m}
        BY <1>p, <3>1
      <3>3. Apart(T, {m}, {}, S, F, returned, accepted \cup {m}, steered)
        BY <1>p, <2>3, <2>4, <3>2 DEF Apart
      <3> QED BY <2>1, <2>2, <3>3 DEF PlacesApart
    <2>7. Conserved'
      <3>1. ~disturbed => Q = {} /\ P = {}
        BY <2>1, NothingInLine DEF Conserved
      <3> QED BY <2>1, <2>2, <3>1 DEF Conserved, Everywhere
    <2> QED BY <2>5, <2>6, <2>7
  <1>2. ASSUME NEW m \in Inputs, Steer(m)
        PROVE  InnerOrder' /\ PlacesApart' /\ Conserved'
    <2>1. m \notin accepted /\ steering' = Append(steering, m) /\ accepted' = accepted \cup {m}
          /\ steered' = Append(steered, m)
          /\ UNCHANGED <<transcript, prompts, pending, followUp, returned, disturbed, pc, cancelled>>
      BY <1>2 DEF Steer
    <2>2. m \notin Z /\ m \notin T \cup Q \cup P \cup S
      BY <1>p, <2>1
    <2>3. /\ \A x, y : x # m /\ y # m /\ Precedes(x, y, steered) => Precedes(x, y, steered')
          /\ \A x : x # m => Precedes(x, m, steered')
          /\ ToSet(steered') = Z \cup {m} /\ Once(steered')
      BY <1>t, <1>i, <2>1, <2>2, SteeredLast
    <2>4. /\ SaidInLine(transcript, steered') /\ InLine(prompts, steered') /\ InLine(pending, steered')
          /\ InLine(steering, steered') /\ Ordered(S, {m}, steered')
      <3>1. SaidInLine(transcript, steered')
        BY <1>i, <2>2, <2>3 DEF SaidInLine, SaidSet
      <3>2. InLine(prompts, steered')
        BY <1>i, <2>2, <2>3 DEF InLine, ToSet
      <3>3. InLine(pending, steered')
        BY <1>i, <2>2, <2>3 DEF InLine, ToSet
      <3>4. InLine(steering, steered')
        BY <1>i, <2>2, <2>3 DEF InLine, ToSet
      <3>5. Ordered(S, {m}, steered')
        BY <2>2, <2>3 DEF Ordered
      <3> QED BY <3>1, <3>2, <3>3, <3>4, <3>5
    <2>5. ToSet(steering') = S \cup {m} /\ InLine(steering', steered')
      BY <1>t, <2>1, <2>4, QueuedLast
    <2>6. InnerOrder'
      BY <1>i, <2>1, <2>3, <2>4, <2>5 DEF InnerOrder
    <2>7. /\ Ordered(T, Q, steered') /\ Ordered(T, P, steered') /\ Ordered(T, S \cup {m}, steered')
          /\ Ordered(Q, P, steered') /\ Ordered(Q, S \cup {m}, steered')
          /\ Ordered(P, S \cup {m}, steered')
      BY <1>p, <2>2, <2>3 DEF Ordered
    <2>8. PlacesApart'
      BY <1>p, <2>1, <2>3, <2>5, <2>7 DEF PlacesApart, Apart
    <2>9. Conserved'
      BY <2>1, <2>5 DEF Conserved, Everywhere
    <2> QED BY <2>6, <2>8, <2>9
  <1>3. ASSUME NEW m \in Inputs, FollowUp(m)
        PROVE  InnerOrder' /\ PlacesApart' /\ Conserved'
    <2>1. m \notin accepted /\ followUp' = Append(followUp, m) /\ accepted' = accepted \cup {m}
          /\ UNCHANGED <<transcript, prompts, pending, steering, returned, steered, disturbed, pc, cancelled>>
      BY <1>3 DEF FollowUp
    <2>2. m \notin F
      BY <1>p, <2>1
    <2>3. ToSet(followUp') = F \cup {m} /\ Once(followUp')
      BY <1>t, <1>i, <2>1, <2>2, QueuedLast
    <2> QED BY <1>i, <1>p, <2>1, <2>3 DEF InnerOrder, PlacesApart, Apart, Conserved, Everywhere
  <1>4. ASSUME NEW m \in Inputs, CancelSteer(m)
        PROVE  InnerOrder' /\ PlacesApart' /\ Conserved'
    <2>1. PICK i \in DOMAIN steering : steering[i] = m /\ steering' = RemoveAt(steering, i)
      BY <1>4 DEF CancelSteer
    <2>2. returned' = returned \cup {m}
          /\ UNCHANGED <<transcript, prompts, pending, followUp, accepted, steered, disturbed, pc, cancelled>>
      BY <1>4 DEF CancelSteer
    <2>3. /\ ToSet(steering') \subseteq S /\ S \subseteq ToSet(steering') \cup {m}
          /\ InLine(steering', steered) /\ m \notin ToSet(steering')
      BY <1>t, <1>i, <2>1, RemoveThins
    <2>4. m \in S
      BY <2>1 DEF ToSet
    <2>5. m \notin T \cup Q \cup P \cup F
      BY <1>p, <2>4 DEF Ordered, Precedes
    <2>6. Ordered(T, ToSet(steering'), steered) /\ Ordered(Q, ToSet(steering'), steered)
          /\ Ordered(P, ToSet(steering'), steered)
      BY <1>p, <2>3 DEF Ordered
    <2>7. InnerOrder'
      BY <1>i, <2>2, <2>3 DEF InnerOrder
    <2>8. PlacesApart'
      BY <1>p, <2>2, <2>3, <2>4, <2>5, <2>6 DEF PlacesApart, Apart
    <2>9. Conserved'
      BY <2>2, <2>3 DEF Conserved, Everywhere
    <2> QED BY <2>7, <2>8, <2>9
  <1>5. CASE ClearSteering
    <2>1. /\ steering' = <<>> /\ returned' = returned \cup S
          /\ UNCHANGED <<transcript, prompts, pending, followUp, accepted, steered, disturbed, pc, cancelled>>
      BY <1>5 DEF ClearSteering
    <2>2. ToSet(steering') = {} /\ InLine(steering', steered)
      BY <2>1, NothingInLine
    <2>3. S \cap (T \cup Q \cup P) = {}
      BY <1>p DEF Ordered, Precedes
    <2>4. InnerOrder'
      BY <1>i, <2>1, <2>2 DEF InnerOrder
    <2>5. Ordered(T, {}, steered) /\ Ordered(Q, {}, steered) /\ Ordered(P, {}, steered)
      BY DEF Ordered
    <2>6. PlacesApart'
      BY <1>p, <2>1, <2>2, <2>3, <2>5 DEF PlacesApart, Apart
    <2>7. Conserved'
      BY <2>1, <2>2 DEF Conserved, Everywhere
    <2> QED BY <2>4, <2>6, <2>7
  <1>6. CASE ClearFollowUp
    <2>1. /\ followUp' = <<>> /\ returned' = returned \cup F
          /\ UNCHANGED <<transcript, prompts, pending, steering, accepted, steered, disturbed, pc, cancelled>>
      BY <1>6 DEF ClearFollowUp
    <2>2. ToSet(followUp') = {} /\ Once(followUp')
      BY <2>1, NothingInLine
    <2>3. InnerOrder'
      BY <1>i, <2>1, <2>2 DEF InnerOrder
    <2>4. PlacesApart'
      BY <1>p, <2>1, <2>2 DEF PlacesApart, Apart
    <2>5. Conserved'
      BY <2>1, <2>2 DEF Conserved, Everywhere
    <2> QED BY <2>3, <2>4, <2>5
  <1>7. CASE Abort
    <2>1. disturbed' /\ UNCHANGED <<transcript, prompts, pending, steering, followUp, accepted, steered, returned>>
      BY <1>7 DEF Abort
    <2> QED BY <1>u, <2>1 DEF Conserved
  \* A run begins with the messages d, whatever queue they were taken from.
  <1>b. ASSUME NEW d \in Seq(Inputs), NEW s \in Seq(Inputs), NEW f \in Seq(Inputs),
               pc = "idle", Begin(d), steering' = s, followUp' = f, UNCHANGED <<accepted, steered>>,
               InLine(d, steered), InLine(s, steered), Once(f),
               Ordered(T, ToSet(d), steered), Ordered(ToSet(d), ToSet(s), steered),
               ToSet(f) \cap ToSet(d) = {},
               ToSet(s) \subseteq S, ToSet(f) \subseteq F, ToSet(d) \subseteq S \cup F,
               S \cup F \subseteq ToSet(d) \cup ToSet(s) \cup ToSet(f)
        PROVE  InnerOrder' /\ PlacesApart' /\ Conserved'
    <2>1. /\ prompts' = d /\ pending' = <<>> /\ cancelled' = FALSE /\ pc' = "start"
          /\ UNCHANGED <<transcript, returned, disturbed, accepted, steered>>
      BY <1>b DEF Begin
    <2>2. ToSet(pending') = {} /\ InLine(pending', steered)
      BY <2>1, NothingInLine
    <2>3. InnerOrder'
      BY <1>i, <1>b, <2>1, <2>2 DEF InnerOrder
    <2>4. Ordered(T, {}, steered) /\ Ordered(ToSet(d), {}, steered) /\ Ordered({}, ToSet(s), steered)
      BY DEF Ordered
    <2>5. Ordered(T, ToSet(s), steered)
      BY <1>p, <1>b DEF Ordered
    <2>6. PlacesApart'
      <3> DEFINE D == ToSet(d)
                 s2 == ToSet(s)
                 f2 == ToSet(f)
      <3>1. /\ f2 \cap (T \cup D \cup {} \cup s2 \cup ToSet(steered)) = {}
            /\ returned \cap (T \cup D \cup {} \cup s2 \cup f2) = {}
            /\ T \cup D \cup {} \cup s2 \cup f2 \cup returned \cup ToSet(steered) \subseteq accepted
        BY <1>p, <1>b
      <3>2. /\ Ordered(T, D, steered) /\ Ordered(T, s2, steered) /\ Ordered(D, s2, steered)
            /\ Ordered(T, {}, steered) /\ Ordered(D, {}, steered) /\ Ordered({}, s2, steered)
        BY <1>b, <2>4, <2>5
      <3>3. Apart(T, D, {}, s2, f2, returned, accepted, steered)
        BY <3>1, <3>2 DEF Apart
      <3>4. /\ SaidSet(transcript') = T /\ ToSet(prompts') = D /\ ToSet(steering') = s2
            /\ ToSet(followUp') = f2
        BY <1>b, <2>1
      <3> QED BY <2>1, <2>2, <3>3, <3>4 DEF PlacesApart
    <2>7. Conserved'
      <3>1. ~disturbed => Q = {} /\ P = {} /\ accepted \subseteq Everywhere
        BY <1>b, NothingInLine DEF Conserved
      <3> QED BY <1>b, <2>1, <2>2, <3>1 DEF Conserved, Everywhere
    <2> QED BY <2>3, <2>6, <2>7
  <1>8. CASE Continue
    <2>e. pc = "idle" /\ UNCHANGED <<accepted, steered>>
      BY <1>8 DEF Continue
    <2>1. CASE Begin(<<>>) /\ UNCHANGED queueVars
      <3>1. <<>> \in Seq(Inputs) /\ ToSet(<<>>) = {} /\ InLine(<<>>, steered)
        BY NothingInLine
      <3>2. Ordered(T, {}, steered) /\ Ordered({}, S, steered)
        BY DEF Ordered
      <3> QED BY <1>b, <1>t, <1>i, <2>e, <2>1, <3>1, <3>2
    <2>2. ASSUME NEW d \in Drains(steering), steering' = Rest(steering, d), Begin(d), UNCHANGED followUp
          PROVE  InnerOrder' /\ PlacesApart' /\ Conserved'
      <3>1. /\ d \in Seq(Inputs) /\ Rest(steering, d) \in Seq(Inputs)
            /\ ToSet(d) \cup ToSet(Rest(steering, d)) = S
            /\ InLine(d, steered) /\ InLine(Rest(steering, d), steered)
            /\ Ordered(ToSet(d), ToSet(Rest(steering, d)), steered)
        BY <1>t, <1>i, DrainSplits
      <3>2. Ordered(T, ToSet(d), steered) /\ F \cap ToSet(d) = {}
        BY <1>p, <3>1 DEF Ordered
      <3> QED BY <1>b, <1>t, <1>i, <2>e, <2>2, <3>1, <3>2
    <2>3. ASSUME NEW d \in Drains(followUp), followUp' = Rest(followUp, d), Begin(d), UNCHANGED steering,
                 steering = <<>>
          PROVE  InnerOrder' /\ PlacesApart' /\ Conserved'
      <3>1. /\ d \in Seq(Inputs) /\ Rest(followUp, d) \in Seq(Inputs)
            /\ ToSet(d) \cup ToSet(Rest(followUp, d)) = F
            /\ Once(d) /\ Once(Rest(followUp, d)) /\ ToSet(d) \cap ToSet(Rest(followUp, d)) = {}
        BY <1>t, <1>i, DrainSplits
      <3>2. ToSet(d) \cap (T \cup Z) = {}
        BY <1>p, <3>1
      <3>3. InLine(d, steered) /\ Ordered(T, ToSet(d), steered)
        BY <3>1, <3>2, UnsteeredInLine, UnsteeredOrdered
      <3>4. S = {} /\ Ordered(ToSet(d), {}, steered)
        BY <2>3, NothingInLine DEF Ordered
      <3> QED BY <1>b, <1>t, <1>i, <2>e, <2>3, <3>1, <3>3, <3>4
    <2> QED BY <1>8, <2>1, <2>2, <2>3 DEF Continue
  <1>9. CASE Reset
    <2>1. /\ transcript' = <<>> /\ steering' = <<>> /\ followUp' = <<>>
          /\ returned' = returned \cup S \cup F \cup T
          /\ UNCHANGED <<prompts, pending, accepted, steered, disturbed, pc, cancelled>>
      BY <1>9 DEF Reset, SaidSet, ToSet
    <2>2. /\ SaidSet(transcript') = {} /\ SaidInLine(transcript', steered)
          /\ ToSet(steering') = {} /\ InLine(steering', steered)
          /\ ToSet(followUp') = {} /\ Once(followUp')
      BY <2>1, NothingInLine DEF SaidSet, SaidInLine
    <2>3. (S \cup T) \cap (Q \cup P) = {}
      BY <1>p DEF Ordered, Precedes
    <2>4. InnerOrder'
      BY <1>i, <2>1, <2>2 DEF InnerOrder
    <2>5. Ordered({}, Q, steered) /\ Ordered({}, P, steered) /\ Ordered({}, {}, steered)
          /\ Ordered(Q, {}, steered) /\ Ordered(P, {}, steered)
      BY DEF Ordered
    <2>6. PlacesApart'
      BY <1>p, <2>1, <2>2, <2>3, <2>5 DEF PlacesApart, Apart
    <2>7. Conserved'
      BY <2>1, <2>2 DEF Conserved, Everywhere
    <2> QED BY <2>4, <2>6, <2>7
  \* The run's pending messages are replaced by d; the queues keep s and f.
  <1>d. ASSUME NEW d \in Seq(Inputs), NEW s \in Seq(Inputs), NEW f \in Seq(Inputs),
               NEW t \in Seq(Message), NoUser(t), transcript' = transcript \o t,
               pending' = d, steering' = s, followUp' = f,
               UNCHANGED <<prompts, accepted, steered, returned, disturbed, cancelled>>,
               InLine(d, steered), InLine(s, steered), Once(f),
               Ordered(T, ToSet(d), steered), Ordered(Q, ToSet(d), steered),
               Ordered(ToSet(d), ToSet(s), steered), ToSet(f) \cap ToSet(d) = {},
               ToSet(s) \subseteq S, ToSet(f) \subseteq F, ToSet(d) \subseteq S \cup F,
               S \cup F \subseteq ToSet(d) \cup ToSet(s) \cup ToSet(f)
        PROVE  /\ InnerOrder' /\ PlacesApart'
               /\ ~disturbed /\ pending = <<>> => accepted' \subseteq Everywhere'
    <2>1. Adds(transcript, transcript', <<>>)
      BY <1>d, <1>t, SayingAdds
    <2>2. SaidSet(transcript') = T /\ SaidInLine(transcript', steered)
      BY <1>t, <1>i, <2>1, SayingKeepsOrder
    <2>4. InnerOrder'
      BY <1>i, <1>d, <2>2 DEF InnerOrder
    <2>5. Ordered(T, ToSet(s), steered) /\ Ordered(Q, ToSet(s), steered)
      BY <1>p, <1>d DEF Ordered
    <2>6. PlacesApart'
      BY <1>p, <1>d, <2>2, <2>5 DEF PlacesApart, Apart
    <2>7. ASSUME ~disturbed, pending = <<>>
          PROVE  accepted' \subseteq Everywhere'
      <3>1. P = {} /\ accepted \subseteq T \cup Q \cup P \cup S \cup F \cup returned
        BY <2>7, NothingInLine DEF Conserved, Everywhere
      <3> QED BY <1>d, <2>2, <3>1 DEF Everywhere
    <2> QED BY <2>4, <2>6, <2>7
  \* What a steering poll takes fits into pending.
  <1>s. ASSUME NEW d \in Drains(steering)
        PROVE  /\ d \in Seq(Inputs) /\ Rest(steering, d) \in Seq(Inputs)
               /\ InLine(d, steered) /\ InLine(Rest(steering, d), steered)
               /\ Ordered(T, ToSet(d), steered) /\ Ordered(Q, ToSet(d), steered)
               /\ Ordered(ToSet(d), ToSet(Rest(steering, d)), steered) /\ F \cap ToSet(d) = {}
               /\ ToSet(d) \cup ToSet(Rest(steering, d)) = S
    <2>1. /\ d \in Seq(Inputs) /\ Rest(steering, d) \in Seq(Inputs)
          /\ ToSet(d) \cup ToSet(Rest(steering, d)) = S
          /\ InLine(d, steered) /\ InLine(Rest(steering, d), steered)
          /\ Ordered(ToSet(d), ToSet(Rest(steering, d)), steered)
      BY <1>t, <1>i, DrainSplits
    <2>2. Ordered(T, ToSet(d), steered) /\ Ordered(Q, ToSet(d), steered) /\ F \cap ToSet(d) = {}
      BY <1>p, <2>1 DEF Ordered
    <2> QED BY <2>1, <2>2
  <1>n. <<>> \in Seq(Message) /\ NoUser(<<>>) /\ transcript \o <<>> = transcript
    BY <1>t DEF NoUser
  <1>10. CASE Start
    <2>1. PICK d \in Drains(steering) : pending' = d /\ steering' = Rest(steering, d)
      BY <1>10 DEF Start
    <2>2. /\ pc = "start" /\ pc' = "outer"
          /\ UNCHANGED <<transcript, prompts, followUp, accepted, steered, returned, disturbed, cancelled>>
      BY <1>10 DEF Start, Goto
    <2>3. /\ InnerOrder' /\ PlacesApart'
          /\ ~disturbed /\ pending = <<>> => accepted' \subseteq Everywhere'
      BY <1>d, <1>n, <1>s, <1>t, <1>i, <2>1, <2>2
    <2> QED BY <2>2, <2>3 DEF Conserved
  <1>11. ASSUME NEW veto \in BOOLEAN, TurnEnd(veto)
         PROVE  InnerOrder' /\ PlacesApart' /\ Conserved'
    <2> DEFINE said(d) == IF ~more /\ d = <<>> /\ veto /\ GateOpen THEN <<Injected("bounce")>> ELSE <<>>
    <2>1. PICK d \in Drains(steering) :
            /\ steering' = Rest(steering, d) /\ pending' = d /\ transcript' = transcript \o said(d)
            /\ UNCHANGED <<prompts, followUp, accepted, steered, returned, disturbed, cancelled>>
            /\ pc' \in {"followUp", "inner"}
            /\ pc' = "followUp" => d = <<>>
      BY <1>11 DEF TurnEnd, Goto
    <2>2. said(d) \in Seq(Message) /\ NoUser(said(d))
      BY MessageKinds DEF NoUser
    <2> HIDE DEF said
    <2>3. /\ InnerOrder' /\ PlacesApart'
          /\ ~disturbed /\ pending = <<>> => accepted' \subseteq Everywhere'
      BY <1>d, <1>s, <1>t, <1>i, <2>1, <2>2
    <2>4. pc = "turnEnd"
      BY <1>11 DEF TurnEnd
    <2> QED BY <2>1, <2>3, <2>4 DEF Conserved
  <1>12. CASE FollowUpPoll
    <2>1. PICK d \in Drains(followUp) :
            /\ followUp' = Rest(followUp, d)
            /\ pending' = IF d = <<>> THEN pending ELSE d
            /\ Goto(IF d = <<>> THEN "final" ELSE "outer")
      BY <1>12 DEF FollowUpPoll
    <2>2. /\ pc = "followUp"
          /\ UNCHANGED <<transcript, prompts, steering, accepted, steered, returned, disturbed, cancelled>>
      BY <1>12, <2>1 DEF FollowUpPoll, Goto
    <2>3. /\ d \in Seq(Inputs) /\ Rest(followUp, d) \in Seq(Inputs)
          /\ ToSet(d) \cup ToSet(Rest(followUp, d)) = F
          /\ Once(d) /\ Once(Rest(followUp, d)) /\ ToSet(d) \cap ToSet(Rest(followUp, d)) = {}
          /\ d = <<>> <=> followUp = <<>>
      BY <1>t, <1>i, DrainSplits
    <2>4. CASE d = <<>>
      <3>1. followUp' = followUp /\ pending' = pending
        BY <2>1, <2>3, <2>4 DEF Rest
      <3> QED BY <1>u, <2>1, <2>2, <2>4, <3>1 DEF Conserved, Goto
    <2>5. CASE d # <<>>
      <3>1. ToSet(d) \cap (T \cup Q \cup S \cup Z) = {}
        BY <1>p, <2>3
      <3>2. /\ InLine(d, steered) /\ Ordered(T, ToSet(d), steered) /\ Ordered(Q, ToSet(d), steered)
            /\ Ordered(ToSet(d), S, steered)
        BY <2>3, <3>1, UnsteeredInLine, UnsteeredOrdered
      <3>3. /\ InnerOrder' /\ PlacesApart'
            /\ ~disturbed /\ pending = <<>> => accepted' \subseteq Everywhere'
        BY <1>d, <1>n, <1>t, <1>i, <2>1, <2>2, <2>3, <2>5, <3>2
      <3> QED BY <2>1, <2>2, <2>5, <3>3 DEF Conserved, Goto
    <2> QED BY <2>4, <2>5
  <1>13. CASE TurnStart
    <2> DEFINE T1 == transcript \o Users(prompts)
    <2>1. /\ pc = "inner" /\ pc' = "stream" /\ ~cancelled /\ transcript' = T1 \o Users(pending)
          /\ prompts' = <<>> /\ pending' = <<>>
          /\ UNCHANGED <<steering, followUp, accepted, steered, returned, disturbed, cancelled>>
      BY <1>13 DEF TurnStart, Goto
    <2>2. T1 \in Seq(Message) /\ Adds(transcript, T1, prompts)
      <3>1. Adds(transcript, T1, prompts)
        BY <1>t, UsersAdd
      <3> QED BY <3>1 DEF Adds
    <2> HIDE DEF T1
    <2>3. SaidSet(T1) = T \cup Q /\ SaidInLine(T1, steered)
      BY <1>t, <1>i, <1>p, <2>2, AddsKeepOrder
    <2>4. Adds(T1, transcript', pending)
      BY <1>t, <2>1, <2>2, UsersAdd
    <2>5. Ordered(T \cup Q, P, steered) /\ Ordered(T \cup Q \cup P, S, steered)
      BY <1>p DEF Ordered
    <2>6. SaidSet(transcript') = T \cup Q \cup P /\ SaidInLine(transcript', steered)
      BY <1>t, <1>i, <2>2, <2>3, <2>4, <2>5, AddsKeepOrder
    <2>7. /\ ToSet(prompts') = {} /\ InLine(prompts', steered)
          /\ ToSet(pending') = {} /\ InLine(pending', steered)
      BY <2>1, NothingInLine
    <2>8. InnerOrder'
      BY <1>i, <2>1, <2>6, <2>7 DEF InnerOrder
    <2>9. Ordered(T \cup Q \cup P, {}, steered) /\ Ordered({}, {}, steered) /\ Ordered({}, S, steered)
      BY DEF Ordered
    <2>10. PlacesApart'
      <3> DEFINE X == T \cup Q \cup P
      <3>1. /\ F \cap (X \cup {} \cup {} \cup S \cup ToSet(steered)) = {}
            /\ returned \cap (X \cup {} \cup {} \cup S \cup F) = {}
            /\ X \cup {} \cup {} \cup S \cup F \cup returned \cup ToSet(steered) \subseteq accepted
        BY <1>p
      <3>2. Apart(X, {}, {}, S, F, returned, accepted, steered)
        BY <2>5, <2>9, <3>1 DEF Apart
      <3>3. /\ SaidSet(transcript') = X /\ ToSet(steering') = S /\ ToSet(followUp') = F
        BY <2>1, <2>6
      <3> QED BY <2>1, <2>7, <3>2, <3>3 DEF PlacesApart
    <2>11. Conserved'
      BY <2>1, <2>6, <2>7 DEF Conserved, Everywhere
    <2> QED BY <2>8, <2>10, <2>11
  <1>14. CASE Outer \/ TurnSkipped \/ TurnCapped
    <2>1. UNCHANGED <<transcript, prompts, pending, steering, followUp, accepted, steered, returned,
                      disturbed, cancelled>>
      BY <1>14 DEF Outer, TurnSkipped, TurnCapped, Goto
    <2>2. InnerOrder' /\ PlacesApart' /\ Everywhere' = Everywhere
      BY <1>u, <2>1
    <2>3. CASE Outer
      BY <2>1, <2>2, <2>3 DEF Outer, Goto, Conserved
    <2>4. CASE TurnSkipped
      BY <2>1, <2>2, <2>4 DEF TurnSkipped, Conserved
    <2>5. CASE TurnCapped
      BY <2>1, <2>2, <2>5 DEF TurnCapped, Goto, Conserved
    <2> QED BY <1>14, <2>3, <2>4, <2>5
  \* A step inside a turn, from a place where nothing is pending to another.
  <1>w. ASSUME NEW t \in Seq(Message), NoUser(t), transcript' = transcript \o t,
               UNCHANGED <<prompts, pending, steering, followUp, accepted, steered, returned,
                           disturbed, cancelled>>,
               pc \notin {"start", "outer", "inner"}
        PROVE  InnerOrder' /\ PlacesApart' /\ Conserved'
    <2>1. InnerOrder' /\ PlacesApart' /\ Everywhere' = Everywhere
      BY <1>q, <1>w
    <2> QED BY <1>w, <2>1 DEF Conserved
  <1>15. ASSUME NEW stop \in {"Stop", "Length"}, NEW n \in 0 .. MaxCalls, Reply(stop, n)
         PROVE  InnerOrder' /\ PlacesApart' /\ Conserved'
    <2> DEFINE nudge == n = 0 /\ stop = "Length" /\ escalations' <= 3
               t == <<Assistant(stop, n)>> \o (IF nudge THEN <<Injected("nudge")>> ELSE <<>>)
    <2>1. t \in Seq(Message) /\ NoUser(t)
      <3>1. /\ Assistant(stop, n) \in Message /\ Assistant(stop, n).kind # "user"
            /\ Injected("nudge") \in Message /\ Injected("nudge").kind # "user"
        BY MessageKinds DEF Stops
      <3>2. <<Assistant(stop, n)>> \in Seq(Message) /\ NoUser(<<Assistant(stop, n)>>)
        BY <3>1 DEF NoUser
      <3> DEFINE v == IF nudge THEN <<Injected("nudge")>> ELSE <<>>
      <3>3. v \in Seq(Message) /\ NoUser(v)
        BY <3>1 DEF NoUser
      <3> QED BY <3>2, <3>3, NoUserConcat
    <2>2. transcript' = transcript \o t /\ pc = "stream"
          /\ UNCHANGED <<prompts, pending, steering, followUp, accepted, steered, returned,
                         disturbed, cancelled>>
      BY <1>15 DEF Reply
    <2> HIDE DEF t
    <2> QED BY <1>w, <2>1, <2>2
  <1>16. ASSUME NEW n \in 0 .. MaxCalls, StreamFails(n)
         PROVE  InnerOrder' /\ PlacesApart' /\ Conserved'
    <2> DEFINE w == Assistant(IF cancelled THEN "Aborted" ELSE "Error", n)
    <2>1. w \in Message /\ w.kind # "user"
      BY MessageKinds DEF Stops
    <2>2. transcript' = Append(transcript, w) /\ pc = "stream"
          /\ UNCHANGED <<prompts, pending, steering, followUp, accepted, steered, returned,
                         disturbed, cancelled>>
      BY <1>16 DEF StreamFails, Goto
    <2> HIDE DEF w
    <2>3. <<w>> \in Seq(Message) /\ NoUser(<<w>>) /\ transcript' = transcript \o <<w>>
      BY <1>t, <2>1, <2>2 DEF NoUser
    <2> QED BY <1>w, <2>2, <2>3
  <1>17. ASSUME NEW terminate \in BOOLEAN, ToolsSettle(terminate)
         PROVE  InnerOrder' /\ PlacesApart' /\ Conserved'
    <2> DEFINE t == Results(Current.calls)
    <2>1. transcript' = transcript \o t /\ pc = "tools"
          /\ UNCHANGED <<prompts, pending, steering, followUp, accepted, steered, returned,
                         disturbed, cancelled>>
      BY <1>17 DEF ToolsSettle, Goto
    <2>2. t \in Seq(Message) /\ NoUser(t)
      BY <2>1, ResultsAreNoUsers DEF Replied
    <2> HIDE DEF t
    <2> QED BY <1>w, <2>1, <2>2
  <1>18. ASSUME NEW aside \in BOOLEAN, PrepareNextTurn(aside)
         PROVE  InnerOrder' /\ PlacesApart' /\ Conserved'
    <2>1. pc = "prepare" /\ UNCHANGED <<transcript, prompts, pending, steering, followUp, accepted, steered,
                                        returned, disturbed, cancelled>>
      BY <1>18 DEF PrepareNextTurn, Goto
    <2> QED BY <1>w, <1>n, <2>1
  <1>19. CASE Final
    <2>1. pc = "final" /\ UNCHANGED <<prompts, pending, steering, followUp, accepted, steered,
                                      returned, disturbed, cancelled>>
      BY <1>19 DEF Final, Goto
    <2>2. CASE cancelled
      <3> DEFINE w == Assistant("Aborted", 0)
      <3>1. w \in Message /\ w.kind # "user"
        BY MessageKinds, AgentLoopAssumption DEF Stops
      <3>2. transcript' = Append(transcript, w)
        BY <1>19, <2>2 DEF Final
      <3> HIDE DEF w
      <3>3. <<w>> \in Seq(Message) /\ NoUser(<<w>>) /\ transcript' = transcript \o <<w>>
        BY <1>t, <3>1, <3>2 DEF NoUser
      <3> QED BY <1>w, <2>1, <3>3
    <2>3. CASE ~cancelled
      <3>1. UNCHANGED transcript
        BY <1>19, <2>3 DEF Final
      <3> QED BY <1>w, <1>n, <2>1, <3>1
    <2> QED BY <2>2, <2>3
  <1>20. CASE Settle
    <2>1. /\ pc = "ended" /\ prompts' = <<>> /\ pending' = <<>> /\ cancelled' = FALSE /\ pc' = "idle"
          /\ UNCHANGED <<transcript, steering, followUp, accepted, steered, returned, disturbed>>
      BY <1>20 DEF Settle, Discard
    <2>2. /\ ToSet(prompts') = {} /\ InLine(prompts', steered)
          /\ ToSet(pending') = {} /\ InLine(pending', steered)
      BY <2>1, NothingInLine
    <2>3. Ordered(T, {}, steered) /\ Ordered({}, {}, steered) /\ Ordered({}, S, steered)
      BY DEF Ordered
    <2>4. InnerOrder'
      BY <1>i, <2>1, <2>2 DEF InnerOrder
    <2>5. PlacesApart'
      BY <1>p, <2>1, <2>2, <2>3 DEF PlacesApart, Apart
    <2>6. Conserved'
      <3>1. ~disturbed => Q = {} /\ P = {}
        BY <2>1, NothingInLine DEF Conserved
      <3> QED BY <2>1, <2>2, <3>1 DEF Conserved, Everywhere
    <2> QED BY <2>4, <2>5, <2>6
  <1>21. CASE MiddlewareFails
    <2>1. /\ disturbed' /\ prompts' = <<>> /\ pending' = <<>> /\ pc # "idle"
          /\ UNCHANGED <<steering, followUp, accepted, steered, returned>>
      BY <1>21 DEF MiddlewareFails, Discard
    <2>2. /\ ToSet(prompts') = {} /\ InLine(prompts', steered)
          /\ ToSet(pending') = {} /\ InLine(pending', steered)
      BY <2>1, NothingInLine
    <2>3. \E u \in Seq(Inputs) : /\ Adds(transcript, transcript', u) /\ InLine(u, steered)
                                 /\ ToSet(u) \subseteq Q \cup P
      BY <1>21, <1>i, <1>p, FailureAdds
    <2>4. PICK u \in Seq(Inputs) : /\ Adds(transcript, transcript', u) /\ InLine(u, steered)
                                   /\ ToSet(u) \subseteq Q \cup P
      BY <2>3
    <2>5. Ordered(T, ToSet(u), steered)
      BY <1>p, <2>4 DEF Ordered
    <2>6. SaidSet(transcript') = T \cup ToSet(u) /\ SaidInLine(transcript', steered)
      BY <1>t, <1>i, <2>4, <2>5, AddsKeepOrder
    <2>7. /\ Ordered(T \cup ToSet(u), {}, steered) /\ Ordered({}, {}, steered)
          /\ Ordered({}, S, steered) /\ Ordered(T \cup ToSet(u), S, steered)
      BY <1>p, <2>4 DEF Ordered
    <2>8. InnerOrder'
      BY <1>i, <2>1, <2>2, <2>6 DEF InnerOrder
    <2>9. PlacesApart'
      <3>1. /\ F \cap (T \cup ToSet(u) \cup {} \cup {} \cup S \cup Z) = {}
            /\ returned \cap (T \cup ToSet(u) \cup {} \cup {} \cup S \cup F) = {}
            /\ T \cup ToSet(u) \cup {} \cup {} \cup S \cup F \cup returned \cup Z \subseteq accepted
        BY <1>p, <2>4
      <3>2. Apart(T \cup ToSet(u), {}, {}, S, F, returned, accepted, steered)
        BY <2>7, <3>1 DEF Apart
      <3> QED BY <2>1, <2>2, <2>6, <3>2 DEF PlacesApart
    <2> QED BY <2>1, <2>8, <2>9 DEF Conserved
  <1>22. CASE UNCHANGED vars
    BY <1>u, <1>22 DEF vars, Conserved
  <1> QED BY <1>1, <1>2, <1>3, <1>4, <1>5, <1>6, <1>7, <1>8, <1>9, <1>10, <1>11, <1>12, <1>13,
             <1>14, <1>15, <1>16, <1>17, <1>18, <1>19, <1>20, <1>21, <1>22 DEF Next, Loop

-----------------------------------------------------------------------------
(* Calls and results.                                                       *)

LEMMA AssistantCalls ==
  ASSUME NEW m \in Message, m.kind = "assistant"
  PROVE  m.calls \in 0 .. MaxCalls /\ m.calls \in Nat
  BY AgentLoopAssumption DEF Message

AllAnswered(s, b) == \A i \in (b + 1) .. Len(s) : Answered(s, i)

\* Messages that call nothing.
CallFree(t) == \A i \in DOMAIN t : t[i].kind = "assistant" => t[i].calls = 0

\* What is answered stays answered when messages follow.
LEMMA AnsweredStays ==
  ASSUME NEW s \in Seq(Message), NEW t \in Seq(Message), NEW i \in 1 .. Len(s), Answered(s, i)
  PROVE  Answered(s \o t, i)
  <1>1. /\ Len(s) \in Nat /\ Len(t) \in Nat /\ Len(s \o t) = Len(s) + Len(t)
        /\ \A j \in 1 .. Len(s) : (s \o t)[j] = s[j]
        /\ s[i] \in Message
    OBVIOUS
  <1> SUFFICES ASSUME s[i].kind = "assistant"
               PROVE  /\ i + s[i].calls <= Len(s \o t)
                      /\ \A k \in 1 .. s[i].calls : (s \o t)[i + k] = Result(k)
    BY <1>1 DEF Answered
  <1>2. s[i].calls \in Nat
    BY <1>1, AssistantCalls
  <1>3. i + s[i].calls <= Len(s) /\ \A k \in 1 .. s[i].calls : s[i + k] = Result(k)
    BY DEF Answered
  <1>4. \A k \in 1 .. s[i].calls : i + k \in 1 .. Len(s)
    BY <1>1, <1>2, <1>3
  <1>5. \A k \in 1 .. s[i].calls : (s \o t)[i + k] = s[i + k]
    BY <1>1, <1>4
  <1>6. i + s[i].calls <= Len(s \o t)
    BY <1>1, <1>2, <1>3
  <1> QED BY <1>3, <1>5, <1>6

LEMMA CallFreeAnswered ==
  ASSUME NEW s \in Seq(Message), NEW t \in Seq(Message), CallFree(t),
         NEW b \in Nat, b <= Len(s), AllAnswered(s, b)
  PROVE  AllAnswered(s \o t, b) /\ b <= Len(s \o t)
  <1>1. /\ Len(s) \in Nat /\ Len(t) \in Nat /\ Len(s \o t) = Len(s) + Len(t)
        /\ DOMAIN t = 1 .. Len(t)
        /\ \A j \in 1 .. (Len(s) + Len(t)) : j > Len(s) => (s \o t)[j] = t[j - Len(s)]
    OBVIOUS
  <1>2. ASSUME NEW i \in (b + 1) .. Len(s \o t)
        PROVE  Answered(s \o t, i)
    <2>1. CASE i <= Len(s)
      <3>1. i \in 1 .. Len(s) /\ Answered(s, i)
        BY <1>1, <2>1 DEF AllAnswered
      <3> QED BY <3>1, AnsweredStays
    <2>2. CASE i > Len(s)
      <3>1. i - Len(s) \in DOMAIN t /\ (s \o t)[i] = t[i - Len(s)]
        BY <1>1, <2>2
      <3> DEFINE m == (s \o t)[i]
      <3>2. m.kind = "assistant" => m.calls = 0
        BY <3>1 DEF CallFree
      <3> HIDE DEF m
      <3>3. m.kind = "assistant" => i + m.calls <= Len(s \o t) /\ 1 .. m.calls = {}
        BY <1>1, <3>2
      <3>4. m = (s \o t)[i]
        BY DEF m
      <3> QED BY <3>3, <3>4 DEF Answered
    <2> QED BY <1>1, <2>1, <2>2
  <1>3. b <= Len(s \o t)
    BY <1>1
  <1> QED BY <1>2, <1>3 DEF AllAnswered

\* The results of the last reply answer it.
LEMMA ResultsAnswer ==
  ASSUME NEW s \in Seq(Message), NEW b \in Nat, b < Len(s), NEW n \in 0 .. MaxCalls,
         \A i \in (b + 1) .. (Len(s) - 1) : Answered(s, i),
         s[Len(s)].calls = n
  PROVE  AllAnswered(s \o Results(n), b) /\ b <= Len(s \o Results(n))
  <1> DEFINE t == Results(n)
             l == Len(s)
  <1>1. t \in Seq(Message) /\ Len(t) = n /\ n \in Nat /\ \A i \in 1 .. n : t[i] = Result(i)
    BY ResultsOf, AgentLoopAssumption
  <1>2. CallFree(t)
    <2>1. \A i \in 1 .. n : i \in 1 .. MaxCalls /\ Result(i).kind # "assistant"
      BY AgentLoopAssumption, MessageKinds
    <2>2. DOMAIN t = 1 .. n
      BY <1>1
    <2> QED BY <1>1, <2>1, <2>2 DEF CallFree
  <1> HIDE DEF t
  <1>3. /\ l \in Nat /\ Len(s \o t) = l + n
        /\ \A j \in 1 .. l : (s \o t)[j] = s[j]
        /\ \A k \in 1 .. n : (s \o t)[l + k] = t[k]
        /\ DOMAIN t = 1 .. n
        /\ \A j \in 1 .. (l + n) : j > l => (s \o t)[j] = t[j - l]
    <2>1. t \in Seq(Message)
      BY <1>1
    <2>2. /\ l \in Nat /\ Len(s \o t) = l + Len(t)
          /\ \A j \in 1 .. l : (s \o t)[j] = s[j]
          /\ \A k \in 1 .. Len(t) : (s \o t)[l + k] = t[k]
          /\ DOMAIN t = 1 .. Len(t)
          /\ \A j \in 1 .. (l + Len(t)) : j > l => (s \o t)[j] = t[j - l]
      BY <2>1
    <2> QED BY <1>1, <2>2
  <1>4. ASSUME NEW i \in (b + 1) .. Len(s \o t)
        PROVE  Answered(s \o t, i)
    <2>1. CASE i < l
      <3>1. i \in 1 .. Len(s) /\ Answered(s, i)
        BY <1>3, <2>1
      <3> QED BY <1>1, <3>1, AnsweredStays
    <2>2. CASE i = l
      <3>1. (s \o t)[i].calls = n
        BY <1>3, <2>2
      <3>2. \A k \in 1 .. n : (s \o t)[i + k] = Result(k)
        BY <1>1, <1>3, <2>2
      <3>3. i + n <= Len(s \o t)
        BY <1>1, <1>3, <2>2
      <3> QED BY <3>1, <3>2, <3>3 DEF Answered
    <2>3. CASE i > l
      <3>1. i - l \in DOMAIN t /\ (s \o t)[i] = t[i - l]
        BY <1>1, <1>3, <2>3
      <3>2. i - l \in 1 .. MaxCalls /\ t[i - l] = Result(i - l)
        BY <1>1, <1>3, <3>1, AgentLoopAssumption
      <3>3. (s \o t)[i].kind # "assistant"
        BY <3>1, <3>2, MessageKinds
      <3> QED BY <3>3 DEF Answered
    <2> QED BY <1>3, <2>1, <2>2, <2>3
  <1>5. b <= Len(s \o t)
    BY <1>1, <1>3
  <1> QED BY <1>4, <1>5 DEF AllAnswered, t

LEMMA RepliedStep ==
  ASSUME TypeOK, TypeOK', Replied, [Next]_vars
  PROVE  Replied'
  <1> USE DEF loopVars, agentVars, queueVars, runHistory, inputHistory
  <1>t. context \in Seq(Message) /\ transcript \in Seq(Message) /\ base \in Nat
    BY DEF TypeOK
  <1>r. /\ pc \notin {"idle", "ended"} => base <= Len(context)
        /\ pc \notin {"idle", "ended", "tools"} => AllAnswered(context, base)
    BY DEF Replied, AllAnswered
  \* A step that leaves the context alone and neither starts nor stops executing tools.
  <1>u. ASSUME UNCHANGED <<context, base>>, pc \notin {"idle", "ended"},
               pc = pc' \/ (pc # "tools" /\ pc' # "tools")
        PROVE  Replied'
    BY <1>u DEF Replied, Current
  \* Messages that call nothing join the context.
  <1>c. ASSUME NEW t \in Seq(Message), CallFree(t), context' = context \o t, UNCHANGED base,
               pc \notin {"idle", "ended", "tools"}, pc' # "tools"
        PROVE  Replied'
    <2>1. AllAnswered(context', base) /\ base <= Len(context')
      BY <1>c, <1>r, <1>t, CallFreeAnswered
    <2> QED BY <1>c, <2>1 DEF Replied, AllAnswered
  <1>f. ASSUME NEW d \in Seq(Inputs)
        PROVE  Users(d) \in Seq(Message) /\ CallFree(Users(d))
    <2>1. /\ Users(d) \in Seq(Message) /\ DOMAIN Users(d) = 1 .. Len(d)
          /\ \A i \in 1 .. Len(d) : Users(d)[i] = User(d[i]) /\ d[i] \in Inputs
      BY UsersOf
    <2>2. \A m \in Inputs : User(m).kind # "assistant"
      BY MessageKinds
    <2>3. \A i \in 1 .. Len(d) : Users(d)[i].kind # "assistant"
      BY <2>1, <2>2
    <2> QED BY <2>1, <2>3 DEF CallFree
  <1>b. ASSUME NEW d \in Seq(Inputs), Begin(d)
        PROVE  Replied'
    <2>1. /\ base' = Len(transcript) /\ context' = transcript \o Users(d) /\ pc' = "start"
      BY <1>b DEF Begin
    <2>2. Len(transcript) \in Nat /\ AllAnswered(transcript, Len(transcript))
      BY <1>t DEF AllAnswered
    <2>3. AllAnswered(context', base') /\ base' <= Len(context')
      BY <1>t, <1>f, <2>1, <2>2, CallFreeAnswered
    <2> QED BY <2>1, <2>3 DEF Replied, AllAnswered
  <1>1. ASSUME NEW m \in Inputs, Prompt(m)
        PROVE  Replied'
    <2>1. <<m>> \in Seq(Inputs) /\ Begin(<<m>>)
      BY <1>1 DEF Prompt
    <2> QED BY <1>b, <2>1
  <1>2. ASSUME NEW m \in Inputs, Steer(m) \/ FollowUp(m) \/ CancelSteer(m)
        PROVE  Replied'
    BY <1>2 DEF Steer, FollowUp, CancelSteer, Replied, Current
  <1>3. CASE Continue
    <2>1. \E d \in Seq(Inputs) : Begin(d)
      <3>1. <<>> \in Seq(Inputs) /\ steering \in Seq(Inputs) /\ followUp \in Seq(Inputs)
        BY DEF TypeOK
      <3>2. ASSUME NEW d \in Drains(steering) PROVE d \in Seq(Inputs)
        BY <3>1, DrainSplits
      <3>3. ASSUME NEW d \in Drains(followUp) PROVE d \in Seq(Inputs)
        BY <3>1, DrainSplits
      <3> QED BY <1>3, <3>1, <3>2, <3>3 DEF Continue
    <2> QED BY <1>b, <2>1
  <1>4. CASE Reset \/ ClearSteering \/ ClearFollowUp \/ Abort
    BY <1>4 DEF Reset, ClearSteering, ClearFollowUp, Abort, Replied, Current
  <1>5. CASE MiddlewareFails \/ Settle
    BY <1>5 DEF MiddlewareFails, Settle, Discard, Replied
  <1>6. CASE Start \/ Outer \/ TurnSkipped \/ TurnCapped \/ FollowUpPoll
    <2>1. /\ UNCHANGED <<context, base>> /\ pc \notin {"idle", "ended"}
          /\ pc # "tools" /\ pc' # "tools"
      BY <1>6 DEF Start, Outer, TurnSkipped, TurnCapped, FollowUpPoll, Goto
    <2> QED BY <1>u, <2>1
  <1>7. CASE TurnStart
    <2>1. /\ context' = context \o Users(pending) /\ pc = "inner" /\ pc' = "stream"
          /\ UNCHANGED base /\ pending \in Seq(Inputs)
      BY <1>7 DEF TurnStart, Goto, TypeOK
    <2>2. Users(pending) \in Seq(Message) /\ CallFree(Users(pending))
      BY <1>f, <2>1
    <2> QED BY <1>c, <2>1, <2>2
  <1>8. ASSUME NEW stop \in {"Stop", "Length"}, NEW n \in 0 .. MaxCalls, Reply(stop, n)
        PROVE  Replied'
    <2> DEFINE w == Assistant(stop, n)
               v == IF n = 0 /\ stop = "Length" /\ escalations' <= 3 THEN <<Injected("nudge")>> ELSE <<>>
    <2>1. w \in Message /\ w.kind = "assistant" /\ w.calls = n /\ n \in Nat
      BY MessageKinds, AgentLoopAssumption DEF Stops
    <2>2. v \in Seq(Message) /\ CallFree(v)
      BY MessageKinds DEF CallFree
    <2>3. /\ context' = context \o (<<w>> \o v) /\ pc = "stream" /\ UNCHANGED base
          /\ pc' = IF n > 0 THEN "tools" ELSE "prepare"
          /\ n > 0 => v = <<>>
      BY <1>8, <2>1 DEF Reply
    <2> HIDE DEF w, v
    <2>4. CASE n = 0
      <3>1. <<w>> \in Seq(Message) /\ CallFree(<<w>>)
        BY <2>1, <2>4 DEF CallFree
      <3>2. AllAnswered(context \o <<w>>, base) /\ base <= Len(context \o <<w>>)
        BY <1>r, <1>t, <2>3, <3>1, CallFreeAnswered
      <3>3. context \o <<w>> \in Seq(Message)
        BY <1>t, <3>1
      <3>4. AllAnswered((context \o <<w>>) \o v, base) /\ base <= Len((context \o <<w>>) \o v)
        BY <1>t, <2>2, <3>2, <3>3, CallFreeAnswered
      <3>5. context' = (context \o <<w>>) \o v
        BY <1>t, <2>2, <2>3, <3>1
      <3>6. AllAnswered(context', base') /\ base' <= Len(context')
        BY <2>3, <3>4, <3>5
      <3>7. pc' = "prepare"
        BY <2>3, <2>4
      <3> QED BY <3>6, <3>7 DEF Replied, AllAnswered
    <2>5. CASE n > 0
      <3>1. context' = context \o <<w>>
        BY <2>3, <2>5
      <3>2. /\ Len(context) \in Nat /\ Len(context') = Len(context) + 1
            /\ \A i \in 1 .. Len(context) : context'[i] = context[i]
            /\ context'[Len(context')] = w
        BY <1>t, <2>1, <3>1
      <3>3. <<w>> \in Seq(Message)
        BY <2>1
      <3>4. ASSUME NEW i \in (base + 1) .. Len(context)
            PROVE  Answered(context', i)
        <4>1. i \in 1 .. Len(context) /\ Answered(context, i)
          BY <1>t, <1>r, <2>3, <3>2 DEF AllAnswered
        <4> QED BY <1>t, <3>1, <3>3, <4>1, AnsweredStays
      <3>5. Last(context') = w
        BY <3>2 DEF Last
      <3>6. base < Len(context') /\ Len(context') - 1 = Len(context)
        BY <1>t, <1>r, <2>3, <3>2
      <3>7. Current' = w
        BY <3>5 DEF Current
      <3>8. base' < Len(context') /\ \A i \in (base' + 1) .. (Len(context') - 1) : Answered(context', i)
        BY <2>3, <3>4, <3>6
      <3>9. base' <= Len(context') /\ pc' = "tools"
        BY <1>t, <2>3, <2>5, <3>2, <3>8
      <3> QED BY <2>1, <3>7, <3>8, <3>9 DEF Replied
    <2> QED BY <2>1, <2>4, <2>5
  <1>9. CASE TurnCapped \/ Final \/ \E n \in 0 .. MaxCalls : StreamFails(n)
    <2>1. pc' = "ended"
      BY <1>9 DEF TurnCapped, Final, StreamFails, Goto
    <2> QED BY <2>1 DEF Replied
  <1>10. ASSUME NEW terminate \in BOOLEAN, ToolsSettle(terminate)
         PROVE  Replied'
    <2>1. /\ pc = "tools" /\ pc' = "prepare" /\ context' = context \o Results(Current.calls)
          /\ UNCHANGED base
      BY <1>10 DEF ToolsSettle, Goto
    <2>2. /\ base < Len(context) /\ Current.calls \in 0 .. MaxCalls
          /\ \A i \in (base + 1) .. (Len(context) - 1) : Answered(context, i)
          /\ Current = context[Len(context)]
      BY <1>t, <2>1 DEF Replied, Current, Last
    <2>3. AllAnswered(context', base) /\ base <= Len(context')
      BY <1>t, <2>1, <2>2, ResultsAnswer
    <2> QED BY <2>1, <2>3 DEF Replied, AllAnswered
  <1>11. ASSUME NEW aside \in BOOLEAN, PrepareNextTurn(aside)
         PROVE  Replied'
    <2>1. pc = "prepare" /\ pc' = "turnEnd" /\ UNCHANGED base
      BY <1>11 DEF PrepareNextTurn, Goto
    <2>2. CASE aside
      <3> DEFINE w == Injected("aside")
      <3>1. w \in Message /\ w.kind # "assistant" /\ context' = Append(context, w)
        BY <1>11, <2>2, MessageKinds DEF PrepareNextTurn
      <3> HIDE DEF w
      <3>2. <<w>> \in Seq(Message) /\ CallFree(<<w>>) /\ context' = context \o <<w>>
        BY <1>t, <3>1 DEF CallFree
      <3> QED BY <1>c, <2>1, <3>2
    <2>3. CASE ~aside
      <3>1. UNCHANGED context
        BY <1>11, <2>3 DEF PrepareNextTurn
      <3> QED BY <1>u, <2>1, <3>1
    <2> QED BY <2>2, <2>3
  <1>12. ASSUME NEW veto \in BOOLEAN, TurnEnd(veto)
         PROVE  Replied'
    <2>1. PICK t \in {<<Injected("bounce")>>, <<>>} :
            context' = context \o t /\ pc = "turnEnd" /\ pc' # "tools" /\ UNCHANGED base
      BY <1>12 DEF TurnEnd, Goto
    <2>2. t \in Seq(Message) /\ CallFree(t)
      <3>1. Injected("bounce") \in Message /\ Injected("bounce").kind # "assistant"
        BY MessageKinds
      <3>2. CASE t = <<>>
        BY <3>2 DEF CallFree
      <3>3. CASE t = <<Injected("bounce")>>
        BY <3>1, <3>3 DEF CallFree
      <3> QED BY <2>1, <3>2, <3>3
    <2> QED BY <1>c, <2>1, <2>2
  <1>13. CASE UNCHANGED vars
    BY <1>13 DEF vars, Replied, Current
  <1> QED BY <1>1, <1>2, <1>3, <1>4, <1>5, <1>6, <1>7, <1>8, <1>9, <1>10, <1>11, <1>12, <1>13 DEF Next, Loop

-----------------------------------------------------------------------------
(* Cuts.                                                                    *)

LEMMA CutStep ==
  ASSUME TypeOK, CutIsCancelled, AbortIsAnnounced, [Next]_vars
  PROVE  CutIsCancelled' /\ AbortIsAnnounced'
  <1> USE DEF loopVars, agentVars, queueVars, runHistory, inputHistory
  <1>1. CASE \E m \in Inputs : Steer(m) \/ FollowUp(m) \/ CancelSteer(m)
    BY <1>1 DEF Steer, FollowUp, CancelSteer, CutIsCancelled, AbortIsAnnounced, Capped
  <1>2. CASE ClearSteering \/ ClearFollowUp
    BY <1>2 DEF ClearSteering, ClearFollowUp, CutIsCancelled, AbortIsAnnounced, Capped
  <1>3. CASE Reset \/ Continue \/ \E m \in Inputs : Prompt(m)
    <2>1. CASE Reset
      BY <2>1 DEF Reset, CutIsCancelled, AbortIsAnnounced
    <2>2. CASE Continue \/ \E m \in Inputs : Prompt(m)
      <3>1. pc' = "start" /\ cut' = FALSE
        BY <2>2 DEF Continue, Prompt, Begin
      <3> QED BY <3>1 DEF CutIsCancelled, AbortIsAnnounced
    <2> QED BY <1>3, <2>1, <2>2
  <1>4. CASE Abort
    BY <1>4 DEF Abort, CutIsCancelled, AbortIsAnnounced
  <1>5. CASE MiddlewareFails \/ Settle
    <2>1. pc' = "idle"
      BY <1>5 DEF MiddlewareFails, Settle, Discard
    <2> QED BY <2>1 DEF CutIsCancelled, AbortIsAnnounced
  <1>6. CASE Start
    <2>1. pc = "start" /\ pc' = "outer" /\ UNCHANGED cut
      BY <1>6 DEF Start, Goto
    <2> QED BY <2>1 DEF CutIsCancelled, AbortIsAnnounced
  <1>7. CASE Outer \/ TurnSkipped \/ FollowUpPoll
    <2>1. /\ pc \in {"outer", "inner", "followUp"} /\ pc' \in {"inner", "followUp", "outer", "final"}
          /\ UNCHANGED <<cut, cancelled>>
      BY <1>7 DEF Outer, TurnSkipped, FollowUpPoll, Goto
    <2> QED BY <2>1 DEF CutIsCancelled, AbortIsAnnounced
  <1>8. CASE TurnStart
    <2>1. pc = "inner" /\ ~cancelled /\ pc' = "stream" /\ UNCHANGED cut
      BY <1>8 DEF TurnStart, Goto
    <2> QED BY <2>1 DEF CutIsCancelled, AbortIsAnnounced
  <1>9. ASSUME NEW stop \in {"Stop", "Length"}, NEW n \in 0 .. MaxCalls, Reply(stop, n)
        PROVE  CutIsCancelled' /\ AbortIsAnnounced'
    <2>1. pc = "stream" /\ pc' \in {"tools", "prepare"} /\ UNCHANGED cut
      BY <1>9 DEF Reply
    <2> QED BY <2>1 DEF CutIsCancelled, AbortIsAnnounced
  <1>10. ASSUME NEW n \in 0 .. MaxCalls, StreamFails(n)
         PROVE  CutIsCancelled' /\ AbortIsAnnounced'
    <2>1. pc = "stream" /\ pc' = "ended" /\ UNCHANGED cut
      BY <1>10 DEF StreamFails, Goto
    <2> QED BY <2>1 DEF CutIsCancelled, AbortIsAnnounced
  <1>11. CASE \/ \E terminate \in BOOLEAN : ToolsSettle(terminate)
              \/ \E aside \in BOOLEAN : PrepareNextTurn(aside)
              \/ \E veto \in BOOLEAN : TurnEnd(veto)
    <2>1. /\ pc \in {"tools", "prepare", "turnEnd"}
          /\ pc' \in {"prepare", "turnEnd", "followUp", "inner"}
          /\ UNCHANGED <<cut, cancelled>>
      BY <1>11 DEF ToolsSettle, PrepareNextTurn, TurnEnd, Goto
    <2> QED BY <2>1 DEF CutIsCancelled, AbortIsAnnounced
  <1>12. CASE TurnCapped
    <2>1. /\ pc = "turnEnd" /\ pc' = "ended" /\ Capped' /\ UNCHANGED <<cut, cancelled>>
      BY <1>12 DEF TurnCapped, Goto, Capped
    <2> QED BY <2>1 DEF CutIsCancelled, AbortIsAnnounced
  <1>13. CASE Final
    <2>1. pc = "final" /\ pc' = "ended" /\ UNCHANGED <<cut, cancelled>>
      BY <1>13 DEF Final, Goto
    <2>2. ASSUME cancelled PROVE Last(transcript') = Assistant("Aborted", 0)
      <3> DEFINE w == Assistant("Aborted", 0)
      <3>1. w \in Message /\ transcript' = Append(transcript, w) /\ transcript \in Seq(Message)
        BY <1>13, <2>2, MessageKinds, AgentLoopAssumption DEF Final, Stops, TypeOK
      <3> HIDE DEF w
      <3>2. Last(transcript') = w
        BY <3>1 DEF Last
      <3> QED BY <3>2 DEF w
    <2> QED BY <2>1, <2>2 DEF CutIsCancelled, AbortIsAnnounced
  <1>14. CASE UNCHANGED vars
    BY <1>14 DEF vars, CutIsCancelled, AbortIsAnnounced, Capped
  <1> QED BY <1>1, <1>2, <1>3, <1>4, <1>5, <1>6, <1>7, <1>8, <1>9, <1>10, <1>11, <1>12, <1>13, <1>14
          DEF Next, Loop

-----------------------------------------------------------------------------
(* The theorems.                                                            *)

LEMMA InitIInv == Init => IInv
  <1> SUFFICES ASSUME Init PROVE IInv
    OBVIOUS
  <1> USE DEF Init
  <1>1. TypeOK
    <2>1. /\ 0 \in 0 .. MaxReplies /\ 0 \in 0 .. MaxFaults /\ 0 \in 0 .. MaxBounces /\ 0 \in 0 .. 3
          /\ 0 \in Nat
      BY AgentLoopAssumption
    <2>2. <<>> \in Seq(Inputs) /\ <<>> \in Seq(Message)
      OBVIOUS
    <2> QED BY <2>1, <2>2 DEF TypeOK, Pcs
  <1>2. SaidSet(<<>>) = {} /\ \A z : SaidInLine(<<>>, z)
    BY DEF SaidSet, SaidInLine
  <1>3. InnerOrder
    BY <1>2, NothingInLine DEF InnerOrder
  <1>4. Ordered({}, {}, <<>>)
    BY DEF Ordered
  <1>5. PlacesApart
    BY <1>2, <1>4, NothingInLine DEF PlacesApart, Apart
  <1>6. Conserved /\ Replied /\ CutIsCancelled /\ AbortIsAnnounced
    BY DEF Conserved, Replied, CutIsCancelled, AbortIsAnnounced
  <1> QED BY <1>1, <1>3, <1>5, <1>6 DEF IInv

LEMMA StepIInv == IInv /\ [Next]_vars => IInv'
  <1> SUFFICES ASSUME IInv, [Next]_vars PROVE IInv'
    OBVIOUS
  <1>1. TypeOK'
    BY TypeStep DEF IInv
  <1>2. InnerOrder' /\ PlacesApart' /\ Conserved'
    BY LineStep DEF IInv
  <1>3. Replied'
    BY <1>1, RepliedStep DEF IInv
  <1>4. CutIsCancelled' /\ AbortIsAnnounced'
    BY CutStep DEF IInv
  <1> QED BY <1>1, <1>2, <1>3, <1>4 DEF IInv

LEMMA Invariant == Spec => []IInv
  BY InitIInv, StepIInv, PTL DEF Spec

\* Every variable keeps its type, for any inputs and any bounds.
THEOREM TypeCorrect == Spec => []TypeOK
  <1>1. IInv => TypeOK
    BY DEF IInv
  <1> QED BY <1>1, Invariant, PTL

\* Whenever a request is sent to the provider, the calls of this run's replies are
\* followed by their results, in order.
THEOREM RequestsAnswerEveryCallHolds == Spec => []RequestsAnswerEveryCall
  <1>1. IInv => RequestsAnswerEveryCall
    BY DEF IInv, Replied, RequestsAnswerEveryCall
  <1> QED BY <1>1, Invariant, PTL

\* A run cut by a cancel while tools executed ends with the Aborted message, unless
\* the turn cap ends it first.
THEOREM AbortIsAnnouncedHolds == Spec => []AbortIsAnnounced
  <1>1. IInv => AbortIsAnnounced
    BY DEF IInv
  <1> QED BY <1>1, Invariant, PTL

\* Steered inputs stand in the transcript in the order in which they were steered.
THEOREM SteersInOrderHolds == Spec => []SteersInOrder
  <1>1. ASSUME IInv PROVE SteersInOrder
    <2> SUFFICES ASSUME NEW i \in DOMAIN transcript, NEW j \in DOMAIN transcript,
                        NEW p \in DOMAIN steered, NEW q \in DOMAIN steered,
                        transcript[i] = User(steered[p]), transcript[j] = User(steered[q]), p < q
                 PROVE  i < j
      BY DEF SteersInOrder
    <2>1. /\ steered[p] \in Inputs /\ steered[q] \in Inputs
          /\ i \in Nat /\ j \in Nat /\ p \in Nat /\ q \in Nat
      BY <1>1, SMTT(30) DEF IInv, TypeOK
    <2>2. steered[p] # steered[q]
      BY <1>1 DEF IInv, InnerOrder, Once
    <2>3. i # j
      <3>1. User(steered[p]) # User(steered[q])
        <4>1. User(steered[p]).id = steered[p] /\ User(steered[q]).id = steered[q]
          BY <2>1, MessageKinds
        <4> QED BY <2>2, <4>1
      <3> QED BY <3>1
    <2>4. ~(j < i)
      <3> SUFFICES ASSUME j < i PROVE FALSE
        OBVIOUS
      <3>1. Precedes(steered[q], steered[p], steered)
        BY <1>1, <2>1 DEF IInv, InnerOrder, SaidInLine
      <3>2. q < p
        BY <3>1 DEF Precedes
      <3> QED BY <2>1, <3>2
    <2> QED BY <2>1, <2>3, <2>4
  <1> QED BY <1>1, Invariant, PTL

LEMMA AtMostOne ==
  ASSUME NEW E, \A i, j \in E : i = j
  PROVE  Cardinality(E) = IF E = {} THEN 0 ELSE 1
  <1>1. CASE E = {}
    BY <1>1, FS_EmptySet
  <1>2. CASE E # {}
    <2>1. PICK i : i \in E
      BY <1>2
    <2>2. E = {i}
      BY <2>1
    <2>3. Cardinality({i}) = 1
      BY FS_Singleton
    <2> QED BY <1>2, <2>2, <2>3
  <1> QED BY <1>1, <1>2

Holds(S, m) == IF m \in S THEN 1 ELSE 0

LEMMA CountOnce ==
  ASSUME NEW s \in Seq(Inputs), Once(s), NEW m
  PROVE  Cardinality({i \in DOMAIN s : s[i] = m}) = Holds(ToSet(s), m)
  <1> DEFINE E == {i \in DOMAIN s : s[i] = m}
  <1>1. \A i, j \in E : i = j
    <2> SUFFICES ASSUME NEW i \in DOMAIN s, NEW j \in DOMAIN s, s[i] = m, s[j] = m
                 PROVE  i = j
      OBVIOUS
    <2>1. ~(i < j) /\ ~(j < i)
      BY DEF Once
    <2>2. i \in Nat /\ j \in Nat
      OBVIOUS
    <2> QED BY <2>1, <2>2
  <1>2. E = {} <=> m \notin ToSet(s)
    BY DEF ToSet
  <1> HIDE DEF E
  <1>3. Cardinality(E) = IF E = {} THEN 0 ELSE 1
    BY <1>1, AtMostOne
  <1> QED BY <1>2, <1>3 DEF E, Holds

LEMMA InLineOnce ==
  ASSUME NEW s, NEW z, InLine(s, z)
  PROVE  Once(s)
  BY DEF InLine, Precedes, Once

LEMMA SaidOnce ==
  ASSUME NEW T \in Seq(Message), NEW z, SaidInLine(T, z), NEW m \in Inputs
  PROVE  Cardinality({i \in DOMAIN T : T[i] = User(m)}) = Holds(SaidSet(T), m)
  <1> DEFINE E == {i \in DOMAIN T : T[i] = User(m)}
  <1>1. \A i, j \in E : i = j
    <2> SUFFICES ASSUME NEW i \in DOMAIN T, NEW j \in DOMAIN T, T[i] = User(m), T[j] = User(m)
                 PROVE  i = j
      OBVIOUS
    <2>1. ~(i < j) /\ ~(j < i)
      BY DEF SaidInLine, Precedes
    <2>2. i \in Nat /\ j \in Nat
      OBVIOUS
    <2> QED BY <2>1, <2>2
  <1>2. E = {} <=> m \notin SaidSet(T)
    BY DEF SaidSet
  <1> HIDE DEF E
  <1>3. Cardinality(E) = IF E = {} THEN 0 ELSE 1
    BY <1>1, AtMostOne
  <1> QED BY <1>2, <1>3 DEF E, Holds

\* The places of an input, counted, are the places it is in.
LEMMA PlacesCounted ==
  ASSUME TypeOK, InnerOrder, NEW m \in Inputs
  PROVE  Places(m) = Holds(ToSet(steering), m) + Holds(ToSet(followUp), m)
                     + Holds(ToSet(pending), m) + Holds(ToSet(prompts), m)
                     + Holds(SaidSet(transcript), m) + Holds(returned, m)
  <1>1. /\ transcript \in Seq(Message) /\ prompts \in Seq(Inputs) /\ pending \in Seq(Inputs)
        /\ steering \in Seq(Inputs) /\ followUp \in Seq(Inputs)
    BY DEF TypeOK
  <1>2. Once(steering) /\ Once(followUp) /\ Once(pending) /\ Once(prompts)
        /\ SaidInLine(transcript, steered)
    BY InLineOnce DEF InnerOrder
  <1>3. /\ Cardinality({i \in DOMAIN steering : steering[i] = m}) = Holds(ToSet(steering), m)
        /\ Cardinality({i \in DOMAIN followUp : followUp[i] = m}) = Holds(ToSet(followUp), m)
        /\ Cardinality({i \in DOMAIN pending : pending[i] = m}) = Holds(ToSet(pending), m)
        /\ Cardinality({i \in DOMAIN prompts : prompts[i] = m}) = Holds(ToSet(prompts), m)
    BY <1>1, <1>2, CountOnce
  <1>4. Cardinality({i \in DOMAIN transcript : transcript[i] = User(m)}) = Holds(SaidSet(transcript), m)
    BY <1>1, <1>2, SaidOnce
  <1>5. (IF m \in returned THEN 1 ELSE 0) = Holds(returned, m)
    BY DEF Holds
  <1> QED BY <1>3, <1>4, <1>5 DEF Places

\* No two places share an input.
LEMMA PlacesDisjoint ==
  ASSUME PlacesApart
  PROVE  /\ SaidSet(transcript) \cap (ToSet(prompts) \cup ToSet(pending) \cup ToSet(steering)) = {}
         /\ ToSet(prompts) \cap (ToSet(pending) \cup ToSet(steering)) = {}
         /\ ToSet(pending) \cap ToSet(steering) = {}
         /\ ToSet(followUp) \cap (SaidSet(transcript) \cup ToSet(prompts) \cup ToSet(pending)
                                    \cup ToSet(steering)) = {}
         /\ returned \cap (SaidSet(transcript) \cup ToSet(prompts) \cup ToSet(pending)
                             \cup ToSet(steering) \cup ToSet(followUp)) = {}
  <1>1. \A X, Y, z : Ordered(X, Y, z) => X \cap Y = {}
    BY DEF Ordered, Precedes
  <1>2. /\ Ordered(SaidSet(transcript), ToSet(prompts), steered)
        /\ Ordered(SaidSet(transcript), ToSet(pending), steered)
        /\ Ordered(SaidSet(transcript), ToSet(steering), steered)
        /\ Ordered(ToSet(prompts), ToSet(pending), steered)
        /\ Ordered(ToSet(prompts), ToSet(steering), steered)
        /\ Ordered(ToSet(pending), ToSet(steering), steered)
    BY DEF PlacesApart, Apart
  <1>3. /\ SaidSet(transcript) \cap ToSet(prompts) = {} /\ SaidSet(transcript) \cap ToSet(pending) = {}
        /\ SaidSet(transcript) \cap ToSet(steering) = {} /\ ToSet(prompts) \cap ToSet(pending) = {}
        /\ ToSet(prompts) \cap ToSet(steering) = {} /\ ToSet(pending) \cap ToSet(steering) = {}
    BY <1>1, <1>2
  <1> QED BY <1>3 DEF PlacesApart, Apart

\* However polls, clears, retractions, aborts and failures interleave, an input is in
\* one place at most, once.
THEOREM InputsAtMostOnceHolds == Spec => []InputsAtMostOnce
  <1>1. ASSUME IInv PROVE InputsAtMostOnce
    <2> SUFFICES ASSUME NEW m \in accepted PROVE Places(m) <= 1
      BY DEF InputsAtMostOnce
    <2>1. m \in Inputs
      BY <1>1 DEF IInv, TypeOK
    <2>2. Places(m) = Holds(ToSet(steering), m) + Holds(ToSet(followUp), m)
                      + Holds(ToSet(pending), m) + Holds(ToSet(prompts), m)
                      + Holds(SaidSet(transcript), m) + Holds(returned, m)
      BY <1>1, <2>1, PlacesCounted DEF IInv
    <2> QED BY <1>1, <2>2, PlacesDisjoint DEF IInv, Holds
  <1> QED BY <1>1, Invariant, PTL

\* And until a run is cancelled or its sink fails, an accepted input is in exactly one
\* place: nothing is lost and nothing is duplicated.
THEOREM InputsConservedHolds == Spec => []InputsConserved
  <1>1. ASSUME IInv PROVE InputsConserved
    <2> SUFFICES ASSUME ~disturbed, NEW m \in accepted PROVE Places(m) = 1
      BY DEF InputsConserved
    <2>1. m \in Inputs /\ m \in Everywhere
      BY <1>1 DEF IInv, TypeOK, Conserved
    <2>2. Places(m) = Holds(ToSet(steering), m) + Holds(ToSet(followUp), m)
                      + Holds(ToSet(pending), m) + Holds(ToSet(prompts), m)
                      + Holds(SaidSet(transcript), m) + Holds(returned, m)
      BY <1>1, <2>1, PlacesCounted DEF IInv
    <2> QED BY <1>1, <2>1, <2>2, PlacesDisjoint DEF IInv, Holds, Everywhere
  <1> QED BY <1>1, Invariant, PTL

-----------------------------------------------------------------------------
(* Least elements.                                                          *)

\* A set of naturals has a least element: induction, without a predicate as parameter.
LEMMA LeastNat ==
  ASSUME NEW S, S \subseteq Nat, S # {}
  PROVE  \E m \in S : \A k \in S : m <= k
  <1>1. IsWellFoundedOn(OpToRel(<, Nat), Nat)
    BY NatLessThanWellFounded
  <1>2. PICK m \in S : \A k \in S : ~(<<k, m>> \in OpToRel(<, Nat))
    BY <1>1, WFMin
  <1>3. \A k \in S : ~(k < m)
    BY <1>2 DEF OpToRel
  <1> QED BY <1>3

-----------------------------------------------------------------------------
(* The transcript is the context.                                           *)

\* What Announced computes along the first n messages of s.
NextKept(s, f, n) == IF IsAside(s[n]) THEN f[n - 1] ELSE Append(f[n - 1], s[n])
Walk(s, f) == [n \in 0 .. Len(s) |-> IF n = 0 THEN <<>> ELSE NextKept(s, f, n)]

\* The recursion up to n.
WalkTo(s, f, n) ==
  /\ f[0] = <<>>
  /\ \A k \in 1 .. n : f[k] = NextKept(s, f, k)

\* The recursion has a solution: extend one that goes up to n - 1.
LEMMA WalkExists ==
  ASSUME NEW s \in Seq(Message)
  PROVE  \A n \in 0 .. Len(s) : \E f : WalkTo(s, f, n)
  <1> DEFINE Bad == {n \in 0 .. Len(s) : ~\E f : WalkTo(s, f, n)}
  <1>0. Len(s) \in Nat
    OBVIOUS
  <1> SUFFICES ASSUME Bad # {} PROVE FALSE
    OBVIOUS
  <1>1. Bad \subseteq Nat
    BY <1>0
  <1>2. PICK m \in Bad : \A k \in Bad : m <= k
    BY <1>1, LeastNat
  <1>3. CASE m = 0
    <2> DEFINE f == [k \in 0 .. 0 |-> <<>>]
    <2>1. WalkTo(s, f, 0)
      BY DEF WalkTo
    <2> QED BY <1>2, <1>3, <2>1
  <1>4. CASE m # 0
    <2>1. m \in Nat /\ m - 1 \in 0 .. Len(s) /\ m - 1 \notin Bad /\ m \in 1 .. Len(s)
      BY <1>0, <1>2, <1>4
    <2>2. PICK g : WalkTo(s, g, m - 1)
      BY <2>1
    <2> DEFINE f == [k \in 0 .. m |-> IF k < m THEN g[k] ELSE NextKept(s, g, m)]
    <2>3. \A k \in 0 .. (m - 1) : f[k] = g[k]
      BY <2>1
    <2>4. f[m] = NextKept(s, g, m)
      BY <2>1
    <2>5. \A k \in 1 .. m : NextKept(s, f, k) = NextKept(s, g, k)
      BY <2>1, <2>3 DEF NextKept
    <2> HIDE DEF f
    <2>6. f[0] = <<>>
      BY <2>1, <2>2, <2>3 DEF WalkTo
    <2>7. ASSUME NEW k \in 1 .. m PROVE f[k] = NextKept(s, f, k)
      <3>1. CASE k < m
        <4>1. k \in 1 .. (m - 1) /\ k \in 0 .. (m - 1)
          BY <2>1, <3>1
        <4>2. g[k] = NextKept(s, g, k)
          BY <2>2, <4>1 DEF WalkTo
        <4> QED BY <2>3, <2>5, <4>1, <4>2
      <3>2. CASE k = m
        BY <2>4, <2>5, <3>2
      <3> QED BY <2>1, <3>1, <3>2
    <2>8. WalkTo(s, f, m)
      BY <2>6, <2>7 DEF WalkTo
    <2> QED BY <1>2, <2>8
  <1> QED BY <1>3, <1>4

\* It has one only.
LEMMA WalkUnique ==
  ASSUME NEW s, NEW n \in Nat, NEW f, NEW g, WalkTo(s, f, n), WalkTo(s, g, n)
  PROVE  \A k \in 0 .. n : f[k] = g[k]
  <1> DEFINE Bad == {k \in 0 .. n : f[k] # g[k]}
  <1> SUFFICES ASSUME Bad # {} PROVE FALSE
    OBVIOUS
  <1>0. Bad \subseteq Nat
    OBVIOUS
  <1>1. PICK m \in Bad : \A k \in Bad : m <= k
    BY <1>0, LeastNat
  <1>2. CASE m = 0
    BY <1>1, <1>2 DEF WalkTo
  <1>3. CASE m # 0
    <2>1. m \in 1 .. n /\ m - 1 \in 0 .. n /\ m - 1 \notin Bad
      BY <1>1, <1>3
    <2>2. f[m] = NextKept(s, f, m) /\ g[m] = NextKept(s, g, m) /\ f[m - 1] = g[m - 1]
      BY <2>1 DEF WalkTo
    <2> QED BY <1>1, <2>2 DEF NextKept
  <1> QED BY <1>2, <1>3

\* Announced is where the solution ends.
LEMMA AnnouncedWalks ==
  ASSUME NEW s \in Seq(Message)
  PROVE  \E f : WalkTo(s, f, Len(s)) /\ Announced(s) = f[Len(s)]
  <1> DEFINE f == CHOOSE h : h = Walk(s, h)
  <1>1. Announced(s) = f[Len(s)]
    BY DEF Announced, Walk, NextKept
  <1>2. Len(s) \in Nat
    OBVIOUS
  <1>3. \E h : h = Walk(s, h)
    <2>1. PICK g : WalkTo(s, g, Len(s))
      BY <1>2, WalkExists
    <2> DEFINE h == [k \in 0 .. Len(s) |-> g[k]]
    <2>2. \A k \in 0 .. Len(s) : h[k] = g[k]
      OBVIOUS
    <2>3. ASSUME NEW k \in 0 .. Len(s)
          PROVE  g[k] = IF k = 0 THEN <<>> ELSE NextKept(s, h, k)
      <3>1. CASE k = 0
        BY <2>1, <3>1 DEF WalkTo
      <3>2. CASE k # 0
        <4>1. k \in 1 .. Len(s) /\ k - 1 \in 0 .. Len(s)
          BY <1>2, <3>2
        <4>2. g[k] = NextKept(s, g, k) /\ h[k - 1] = g[k - 1]
          BY <2>1, <2>2, <4>1 DEF WalkTo
        <4> QED BY <3>2, <4>2 DEF NextKept
      <3> QED BY <3>1, <3>2
    <2>4. h = Walk(s, h)
      BY <2>3 DEF Walk
    <2> QED BY <2>4
  <1>4. f = Walk(s, f)
    <2> HIDE DEF Walk
    <2> QED BY <1>3
  <1> HIDE DEF f
  <1>5. f[0] = <<>>
    BY <1>2, <1>4 DEF Walk
  <1>6. \A k \in 1 .. Len(s) : f[k] = NextKept(s, f, k)
    BY <1>2, <1>4 DEF Walk
  <1> QED BY <1>1, <1>5, <1>6 DEF WalkTo

LEMMA AnnouncedType ==
  ASSUME NEW s \in Seq(Message)
  PROVE  Announced(s) \in Seq(Message)
  <1>1. Len(s) \in Nat
    OBVIOUS
  <1>2. PICK f : WalkTo(s, f, Len(s)) /\ Announced(s) = f[Len(s)]
    BY AnnouncedWalks
  <1> DEFINE Bad == {k \in 0 .. Len(s) : f[k] \notin Seq(Message)}
  <1> SUFFICES ASSUME Bad # {} PROVE FALSE
    BY <1>1, <1>2
  <1>3. Bad \subseteq Nat
    BY <1>1
  <1>4. PICK m \in Bad : \A k \in Bad : m <= k
    BY <1>3, LeastNat
  <1>5. CASE m = 0
    <2>1. f[0] = <<>> /\ <<>> \in Seq(Message)
      BY <1>2 DEF WalkTo
    <2> QED BY <1>4, <1>5, <2>1
  <1>6. CASE m # 0
    <2>1. m \in 1 .. Len(s) /\ m - 1 \in 0 .. Len(s) /\ m - 1 \notin Bad
      BY <1>1, <1>4, <1>6
    <2>2. f[m] = NextKept(s, f, m) /\ f[m - 1] \in Seq(Message) /\ s[m] \in Message
      BY <1>2, <2>1 DEF WalkTo
    <2>3. Append(f[m - 1], s[m]) \in Seq(Message)
      BY <2>2
    <2> QED BY <1>4, <2>2, <2>3 DEF NextKept
  <1> QED BY <1>5, <1>6

LEMMA AnnouncedNothing == Announced(<<>>) = <<>>
  <1>1. <<>> \in Seq(Message) /\ Len(<<>>) = 0
    OBVIOUS
  <1>2. PICK f : WalkTo(<<>>, f, 0) /\ Announced(<<>>) = f[0]
    BY <1>1, AnnouncedWalks
  <1> QED BY <1>2 DEF WalkTo

\* The equations of the filter.
LEMMA AnnouncedAppend ==
  ASSUME NEW s \in Seq(Message), NEW m \in Message
  PROVE  Announced(Append(s, m)) = IF IsAside(m) THEN Announced(s) ELSE Append(Announced(s), m)
  <1> DEFINE t == Append(s, m)
             L == Len(s)
  <1>1. /\ t \in Seq(Message) /\ L \in Nat /\ Len(t) = L + 1 /\ t[L + 1] = m
        /\ \A k \in 1 .. L : t[k] = s[k]
    OBVIOUS
  <1>2. PICK f : WalkTo(s, f, L) /\ Announced(s) = f[L]
    BY <1>1, AnnouncedWalks
  <1>3. PICK g : WalkTo(t, g, L + 1) /\ Announced(t) = g[L + 1]
    BY <1>1, AnnouncedWalks
  <1> HIDE DEF t, L
  <1> DEFINE h == [k \in 0 .. L |-> g[k]]
  <1>4. \A k \in 0 .. L : h[k] = g[k]
    OBVIOUS
  <1> HIDE DEF h
  <1>6. h[0] = <<>>
    <2>1. g[0] = <<>> /\ 0 \in 0 .. L
      BY <1>1, <1>3 DEF WalkTo
    <2> QED BY <1>4, <2>1
  <1>7. ASSUME NEW k \in 1 .. L PROVE h[k] = NextKept(s, h, k)
    <2>1. k \in 1 .. (L + 1) /\ k \in 0 .. L /\ k - 1 \in 0 .. L
      BY <1>1
    <2>2. g[k] = NextKept(t, g, k)
      BY <1>3, <2>1 DEF WalkTo
    <2> QED BY <1>1, <1>4, <2>1, <2>2 DEF NextKept
  <1>8. WalkTo(s, h, L)
    BY <1>6, <1>7 DEF WalkTo
  <1>9. h[L] = f[L]
    BY <1>1, <1>2, <1>8, WalkUnique
  <1>10. g[L + 1] = NextKept(t, g, L + 1) /\ g[L] = f[L]
    <2>1. L + 1 \in 1 .. (L + 1) /\ L \in 0 .. L
      BY <1>1
    <2> QED BY <1>3, <1>4, <1>9, <2>1 DEF WalkTo
  <1>11. Announced(t) = IF IsAside(m) THEN Announced(s) ELSE Append(Announced(s), m)
    BY <1>1, <1>2, <1>3, <1>10 DEF NextKept
  <1> QED BY <1>11 DEF t

\* Facts about concatenation.
LEMMA ConcatAppend ==
  ASSUME NEW S, NEW a \in Seq(S), NEW b \in Seq(S), NEW x \in S
  PROVE  a \o Append(b, x) = Append(a \o b, x) /\ a \o b \in Seq(S)
  OBVIOUS

LEMMA ConcatNothing ==
  ASSUME NEW S, NEW a \in Seq(S)
  PROVE  a \o <<>> = a /\ <<>> \o a = a
  OBVIOUS

NoAside(t) == \A i \in DOMAIN t : ~IsAside(t[i])

LEMMA AnnouncedConcat ==
  ASSUME NEW s \in Seq(Message), NEW t \in Seq(Message), NoAside(t)
  PROVE  Announced(s \o t) = Announced(s) \o t
  <1> DEFINE P(k) == SubSeq(t, 1, k)
             Bad == {k \in 0 .. Len(t) : Announced(s \o P(k)) # Announced(s) \o P(k)}
  <1>1. Len(t) \in Nat /\ P(Len(t)) = t
    OBVIOUS
  <1>2. Announced(s) \in Seq(Message)
    BY AnnouncedType
  <1>a. ASSUME Bad = {} PROVE Announced(s \o t) = Announced(s) \o t
    <2>1. Len(t) \in 0 .. Len(t)
      BY <1>1
    <2>2. Announced(s \o P(Len(t))) = Announced(s) \o P(Len(t))
      BY <1>a, <2>1
    <2> QED BY <1>1, <2>2
  <1> SUFFICES ASSUME Bad # {} PROVE FALSE
    BY <1>a
  <1>b. Bad \subseteq Nat
    BY <1>1
  <1>3. PICK m \in Bad : \A k \in Bad : m <= k
    BY <1>b, LeastNat
  <1>4. CASE m = 0
    <2>1. P(0) = <<>>
      OBVIOUS
    <2>2. s \o P(0) = s /\ Announced(s) \o P(0) = Announced(s)
      BY <1>2, <2>1
    <2> QED BY <1>3, <1>4, <2>2
  <1>5. CASE m # 0
    <2>0. m \in 0 .. Len(t)
      OBVIOUS
    <2>1. m \in 1 .. Len(t) /\ m - 1 \in 0 .. Len(t) /\ m - 1 \notin Bad
      <3> HIDE DEF Bad
      <3> QED BY <1>1, <1>b, <1>3, <1>5, <2>0
    <2>2. Announced(s \o P(m - 1)) = Announced(s) \o P(m - 1)
      BY <2>1
    <2>3. t[m] \in Message /\ ~IsAside(t[m])
      BY <2>1 DEF NoAside
    <2>4. P(m - 1) \in Seq(Message) /\ P(m) = Append(P(m - 1), t[m])
      BY <2>1, <2>3
    <2> HIDE DEF P
    <2>5. s \o P(m) = Append(s \o P(m - 1), t[m]) /\ s \o P(m - 1) \in Seq(Message)
      <3> DEFINE A == P(m - 1)
      <3>1. A \in Seq(Message) /\ P(m) = Append(A, t[m])
        BY <2>4
      <3> HIDE DEF A
      <3>2. s \o Append(A, t[m]) = Append(s \o A, t[m]) /\ s \o A \in Seq(Message)
        BY <2>3, <3>1, ConcatAppend
      <3> QED BY <3>1, <3>2 DEF A
    <2>6. Announced(s) \o P(m) = Append(Announced(s) \o P(m - 1), t[m])
      BY <1>2, <2>3, <2>4, ConcatAppend
    <2>7. Announced(s \o P(m)) = Append(Announced(s \o P(m - 1)), t[m])
      BY <2>3, <2>5, AnnouncedAppend
    <2> QED BY <1>3, <2>2, <2>6, <2>7
  <1> QED BY <1>4, <1>5

\* What the run told its consumers is what it sends: the prompts are announced
\* before the first request, an aside never reaches the transcript, and a run that
\* goes on, or ends uncancelled, has no dead turn behind it.
Turned == {"stream", "tools", "prepare", "turnEnd"}
Closing == {"followUp", "final"}

Mirrored ==
  /\ NoAside(transcript)
  /\ pc \in Turned => prompts = <<>>
  /\ pc \in Turned \ {"stream"} => ~Died
  /\ pc \in Closing /\ ~cancelled => prompts = <<>> /\ ~Died
  /\ TranscriptIsContext

InFlight == {"start", "outer", "inner"} \cup Turned \cup Closing

\* No message of a user, a provider or a tool is an aside.
LEMMA NotAside ==
  /\ \A m \in Message : m.kind # "harness" => ~IsAside(m)
  /\ ~IsAside(Injected("nudge")) /\ ~IsAside(Injected("bounce")) /\ IsAside(Injected("aside"))
  <1>1. \A m : IsAside(m) => m.kind = "harness" /\ m.id = "aside"
    BY DEF IsAside, Injected
  <1>2. Injected("nudge").id = "nudge" /\ Injected("bounce").id = "bounce"
    BY DEF Injected
  <1> QED BY <1>1, <1>2 DEF IsAside

LEMMA NoAsideConcat ==
  ASSUME NEW s \in Seq(Message), NEW t \in Seq(Message), NoAside(s), NoAside(t)
  PROVE  NoAside(s \o t) /\ s \o t \in Seq(Message)
  BY DEF NoAside

LEMMA UsersNoAside ==
  ASSUME NEW s \in Seq(Inputs)
  PROVE  Users(s) \in Seq(Message) /\ NoAside(Users(s))
  <1>1. \A m \in Inputs : User(m) \in Message /\ ~IsAside(User(m))
    BY MessageKinds, NotAside
  <1> QED BY <1>1, UsersOf DEF NoAside

LEMMA ResultsNoAside ==
  ASSUME NEW n \in 0 .. MaxCalls
  PROVE  Results(n) \in Seq(Message) /\ NoAside(Results(n))
  <1>1. \A k \in 1 .. MaxCalls : ~IsAside(Result(k))
    BY MessageKinds, NotAside
  <1>2. n \in Nat /\ DOMAIN Results(n) = 1 .. n /\ 1 .. n \subseteq 1 .. MaxCalls
    BY AgentLoopAssumption DEF Results
  <1> QED BY <1>1, <1>2, ResultsOf DEF NoAside

LEMMA OneNoAside ==
  ASSUME NEW m \in Message, ~IsAside(m)
  PROVE  <<m>> \in Seq(Message) /\ NoAside(<<m>>)
  BY DEF NoAside

LEMMA AssistantNoAside ==
  ASSUME NEW stop \in Stops, NEW n \in 0 .. MaxCalls
  PROVE  Assistant(stop, n) \in Message /\ ~IsAside(Assistant(stop, n))
  BY MessageKinds, NotAside

\* Nor is what a failing sink was being told.
LEMMA AnnouncedNoAside ==
  ASSUME TypeOK, Replied, NEW said \in Announcing, pc # "idle"
  PROVE  said \in Seq(Message) /\ NoAside(said)
  <1>0. said \in Seq(Message)
    BY AnnouncedAreMessages
  <1>1. CASE pc = "inner"
    <2>1. prompts \in Seq(Inputs) /\ pending \in Seq(Inputs)
      BY DEF TypeOK
    <2>2. /\ Users(prompts) \in Seq(Message) /\ NoAside(Users(prompts))
          /\ Users(pending) \in Seq(Message) /\ NoAside(Users(pending))
      BY <2>1, UsersNoAside
    <2>3. said = Users(prompts) \o Users(pending)
      BY <1>1 DEF Announcing
    <2> QED BY <1>0, <2>2, <2>3, NoAsideConcat
  <1>2. CASE pc = "stream"
    <2>1. \/ \E stop \in Stops, n \in 0 .. MaxCalls : said = <<Assistant(stop, n)>>
          \/ said = <<Assistant("Length", 0), Injected("nudge")>>
      BY <1>2 DEF Announcing
    <2>2. /\ \A stop \in Stops, n \in 0 .. MaxCalls : ~IsAside(Assistant(stop, n))
          /\ ~IsAside(Assistant("Length", 0)) /\ ~IsAside(Injected("nudge"))
      BY AssistantNoAside, NotAside, TerminalKinds
    <2> QED BY <1>0, <2>1, <2>2 DEF NoAside
  <1>3. CASE pc = "tools"
    <2>1. said = Results(Current.calls) /\ Current.calls \in 0 .. MaxCalls
      BY <1>3 DEF Announcing, Replied
    <2> QED BY <2>1, ResultsNoAside
  <1>4. CASE pc = "turnEnd"
    <2>1. said = <<Injected("bounce")>> /\ Injected("bounce") \in Message
      BY <1>4, MessageKinds DEF Announcing
    <2> QED BY <2>1, NotAside, OneNoAside
  <1>5. CASE pc \notin {"inner", "stream", "tools", "turnEnd"}
    <2>1. said = <<>> \/ said = <<Assistant("Aborted", 0)>>
      BY <1>5 DEF Announcing
    <2>2. ~IsAside(Assistant("Aborted", 0))
      BY NotAside, TerminalKinds
    <2> QED BY <1>0, <2>1, <2>2 DEF NoAside
  <1> QED BY <1>1, <1>2, <1>3, <1>4, <1>5

\* What the last turn left behind, after more has been said.
Dead(m) == IsAssistant(m) /\ m.stop \in {"Error", "Aborted"}

LEMMA LastSaid ==
  ASSUME NEW T \in Seq(Message), NEW s \in Seq(Message), s # <<>>
  PROVE  T \o s # <<>> /\ Last(T \o s) = s[Len(s)]
  <1>1. /\ Len(T) \in Nat /\ Len(s) \in Nat /\ Len(s) > 0
        /\ Len(T \o s) = Len(T) + Len(s) /\ (T \o s)[Len(T) + Len(s)] = s[Len(s)]
    OBVIOUS
  <1>2. T \o s # <<>>
    BY <1>1
  <1> QED BY <1>1, <1>2 DEF Last

LEMMA StaysAlive ==
  ASSUME transcript \in Seq(Message), NEW s \in Seq(Message), transcript' = transcript \o s,
         s = <<>> => ~Died, s # <<>> => ~Dead(s[Len(s)])
  PROVE  ~Died'
  <1>1. CASE s = <<>>
    <2>1. transcript' = transcript
      BY <1>1, ConcatNothing
    <2> QED BY <1>1, <2>1 DEF Died
  <1>2. CASE s # <<>>
    <2>1. Last(transcript') = s[Len(s)]
      BY <1>2, LastSaid
    <2> QED BY <1>2, <2>1 DEF Died, Dead
  <1> QED BY <1>1, <1>2

\* Who speaks last and is not dead.
LEMMA AliveKinds ==
  /\ \A m \in Message : m.kind # "assistant" => ~Dead(m)
  /\ \A stop \in {"Stop", "Length"}, n \in 0 .. MaxCalls : ~Dead(Assistant(stop, n))
  BY MessageKinds DEF Dead, IsAssistant, Stops

LEMMA ResultsAlive ==
  ASSUME NEW n \in 0 .. MaxCalls, Results(n) # <<>>
  PROVE  ~Dead(Results(n)[Len(Results(n))])
  <1>1. /\ Results(n) \in Seq(Message) /\ Len(Results(n)) = n /\ n \in Nat
        /\ \A i \in 1 .. n : Results(n)[i] = Result(i)
    BY ResultsOf, AgentLoopAssumption
  <1> DEFINE s == Results(n)
  <1> HIDE DEF s
  <1>2. s \in Seq(Message) /\ Len(s) = n /\ s # <<>>
    BY <1>1 DEF s
  <1>3. n \in 1 .. n
    BY <1>1, <1>2
  <1>4. s[n] = Result(n)
    BY <1>1, <1>3 DEF s
  <1>5. Result(n) \in Message /\ Result(n).kind = "result"
    BY <1>3, MessageKinds
  <1> QED BY <1>2, <1>4, <1>5, AliveKinds DEF s

\* The end of a turn that died: its reply, and results only the context has.
LEMMA DeathKept ==
  ASSUME context \in Seq(Message), transcript \in Seq(Message),
         Announced(context) = transcript, prompts' = <<>>, pc' = "ended",
         NEW stop \in {"Error", "Aborted"}, NEW n \in 0 .. MaxCalls,
         context' = Append(context, Assistant(stop, n)) \o Results(n),
         transcript' = Append(transcript, Assistant(stop, n))
  PROVE  TranscriptIsContext'
  <1> DEFINE w == Assistant(stop, n)
             t == Results(n)
             c == Append(context, w)
  <1>1. w \in Message /\ ~IsAside(w) /\ IsAssistant(w) /\ w.stop = stop /\ w.calls = n
    BY AssistantNoAside, MessageKinds DEF Stops, IsAssistant
  <1>2. t \in Seq(Message) /\ NoAside(t)
    BY ResultsNoAside
  <1>3. context' = c \o t /\ transcript' = Append(transcript, w)
    OBVIOUS
  <1>4. t = Results(w.calls)
    BY <1>1
  <1> HIDE DEF w, t
  <1>5. c \in Seq(Message) /\ Announced(c) = Append(transcript, w)
    BY <1>1, AnnouncedAppend
  <1> HIDE DEF c
  <1>6. Announced(context') = transcript' \o t
    BY <1>2, <1>3, <1>5, AnnouncedConcat
  <1>7. transcript' # <<>> /\ Last(transcript') = w
    BY <1>1, <1>3 DEF Last
  <1>8. NotExecuted' = t
    BY <1>1, <1>4, <1>7 DEF NotExecuted, Died
  <1> QED BY <1>6, <1>8 DEF TranscriptIsContext

\* The end of a cancelled run: the terminal message joins both lists.
LEMMA CloseKept ==
  ASSUME context \in Seq(Message), transcript \in Seq(Message), prompts \in Seq(Inputs),
         Announced(context) = transcript \o Users(prompts), UNCHANGED prompts, pc' = "ended",
         context' = Append(context, Assistant("Aborted", 0)),
         transcript' = Append(transcript, Assistant("Aborted", 0))
  PROVE  TranscriptIsContext'
  <1> DEFINE w == Assistant("Aborted", 0)
             u == Users(prompts)
  <1>1. w \in Message /\ w.calls = 0 /\ ~IsAside(w)
    BY TerminalKinds, NotAside
  <1>2. u \in Seq(Message) /\ (prompts = <<>> => u = <<>>)
    BY UsersNoAside DEF Users
  <1>3. /\ context' = Append(context, w) /\ transcript' = Append(transcript, w)
        /\ Announced(context) = transcript \o u
    OBVIOUS
  <1>4. u = Users(prompts')
    OBVIOUS
  <1>5. Results(w.calls) = <<>>
    BY <1>1 DEF Results
  <1> HIDE DEF w, u
  <1>6. Announced(context') = Append(transcript \o u, w)
    BY <1>1, <1>3, AnnouncedAppend
  <1>7. Last(transcript') = w /\ Front(transcript') = transcript /\ transcript' \in Seq(Message)
    BY <1>1, <1>3 DEF Last, Front
  <1>8. CASE prompts = <<>>
    <2>1. Announced(context') = transcript'
      BY <1>2, <1>3, <1>6, <1>8, ConcatNothing
    <2>2. NotExecuted' = <<>>
      BY <1>5, <1>7 DEF NotExecuted
    <2> QED BY <1>7, <1>8, <2>1, <2>2, ConcatNothing DEF TranscriptIsContext
  <1>9. CASE prompts # <<>>
    <2>1. Append(transcript \o u, w) = (transcript \o u) \o <<w>>
      BY <1>1, <1>2
    <2> QED BY <1>4, <1>6, <1>7, <1>9, <2>1 DEF TranscriptIsContext
  <1> QED BY <1>8, <1>9

\* Every step keeps the two lists alike.
LEMMA MirroredStep ==
  ASSUME TypeOK, TypeOK', Replied, Mirrored, [Next]_vars
  PROVE  Mirrored'
  <1> USE DEF loopVars, agentVars, queueVars, runHistory, inputHistory
  <1>t. /\ context \in Seq(Message) /\ transcript \in Seq(Message)
        /\ prompts \in Seq(Inputs) /\ pending \in Seq(Inputs)
        /\ steering \in Seq(Inputs) /\ followUp \in Seq(Inputs)
    BY DEF TypeOK
  <1>m. /\ NoAside(transcript)
        /\ pc \in Turned => prompts = <<>>
        /\ pc \in Turned \ {"stream"} => ~Died
        /\ pc \in Closing /\ ~cancelled => prompts = <<>> /\ ~Died
        /\ pc \in InFlight => Announced(context) = transcript \o Users(prompts)
    BY DEF Mirrored, TranscriptIsContext, InFlight, Turned, Closing
  <1>e. Users(<<>>) = <<>>
    BY DEF Users
  <1>p. pc' \in InFlight \cup {"idle", "ended"}
    BY DEF TypeOK, Pcs, InFlight, Turned, Closing
  \* The run stays where it is, or moves without a message.
  <1>u. ASSUME UNCHANGED <<context, transcript, prompts>>,
               pc' \in InFlight => pc \in InFlight,
               pc' = "ended" => pc = "ended",
               pc' \in Turned => pc \in Turned,
               pc' \in Turned \ {"stream"} => pc \in Turned \ {"stream"},
               pc' \in Closing /\ ~cancelled' => pc = "turnEnd" \/ (pc \in Closing /\ ~cancelled)
        PROVE  Mirrored'
    <2>1. Died' = Died /\ NotExecuted' = NotExecuted
      BY <1>u DEF Died, NotExecuted
    <2>2. NoAside(transcript')
      BY <1>m, <1>u
    <2>3. TranscriptIsContext'
      <3>1. pc' \in InFlight => Announced(context') = transcript' \o Users(prompts')
        BY <1>m, <1>u
      <3>2. pc' = "ended" => (TranscriptIsContext /\ pc = "ended")
        BY <1>u DEF Mirrored
      <3> QED BY <1>p, <1>u, <2>1, <3>1, <3>2 DEF TranscriptIsContext
    <2>4. /\ pc' \in Turned => prompts' = <<>>
          /\ pc' \in Turned \ {"stream"} => ~Died'
          /\ pc' \in Closing /\ ~cancelled' => prompts' = <<>> /\ ~Died'
      BY <1>m, <1>u, <2>1 DEF Turned
    <2> QED BY <2>2, <2>3, <2>4 DEF Mirrored
  \* The same messages, none of them an aside, join both lists.
  <1>s. ASSUME NEW t \in Seq(Message), NoAside(t), pc \in InFlight, prompts = <<>>,
               context' = context \o t, transcript' = transcript \o t, UNCHANGED prompts,
               pc' # "ended", pc' # "inner" => ~Died'
        PROVE  Mirrored'
    <2>1. NoAside(transcript')
      BY <1>t, <1>m, <1>s, NoAsideConcat
    <2>2. Announced(context') = Announced(context) \o t
      BY <1>t, <1>s, AnnouncedConcat
    <2>a. Users(prompts) = <<>> /\ Users(prompts') = <<>>
      BY <1>e, <1>s
    <2>3. Announced(context) = transcript
      BY <1>t, <1>m, <1>s, <2>a, ConcatNothing
    <2>4. transcript' \o Users(prompts') = transcript'
      <3>1. transcript' \in Seq(Message)
        BY <1>t, <1>s
      <3> QED BY <2>a, <3>1, ConcatNothing
    <2>5. Announced(context') = transcript' \o Users(prompts')
      BY <1>s, <2>2, <2>3, <2>4
    <2>6. TranscriptIsContext'
      BY <1>s, <2>5 DEF TranscriptIsContext
    <2> QED BY <1>s, <2>1, <2>6 DEF Mirrored, Turned, Closing
  \* The run is over.
  <1>o. ASSUME pc' = "idle", NoAside(transcript')
        PROVE  Mirrored'
    BY <1>o DEF Mirrored, TranscriptIsContext, Turned, Closing
  \* It ends as it went on.
  <1>q. ASSUME UNCHANGED <<context, transcript, prompts>>, pc' = "ended", pc \in InFlight,
               prompts = <<>>, ~Died
        PROVE  Mirrored'
    <2>1. Announced(context) = transcript
      BY <1>t, <1>m, <1>e, <1>q, ConcatNothing
    <2>2. NotExecuted' = <<>>
      BY <1>q DEF NotExecuted, Died
    <2>3. TranscriptIsContext'
      <3>1. transcript' \o <<>> = transcript' /\ Announced(context') = transcript'
        BY <1>t, <1>q, <2>1, ConcatNothing
      <3> QED BY <1>q, <2>2, <3>1 DEF TranscriptIsContext
    <2> QED BY <1>m, <1>q, <2>3 DEF Mirrored, Turned, Closing
  <1>b. ASSUME NEW d \in Seq(Inputs), Begin(d)
        PROVE  Mirrored'
    <2>1. /\ context' = transcript \o Users(d) /\ pc' = "start" /\ prompts' = d
          /\ UNCHANGED transcript
      BY <1>b DEF Begin
    <2>2. Users(d) \in Seq(Message) /\ NoAside(Users(d))
      BY UsersNoAside
    <2>3. <<>> \in Seq(Message) /\ <<>> \o transcript = transcript
      BY <1>t
    <2>4. Announced(transcript) = transcript
      BY <1>t, <1>m, <2>3, AnnouncedConcat, AnnouncedNothing
    <2>5. Announced(transcript \o Users(d)) = transcript \o Users(d)
      <3> DEFINE u == Users(d)
      <3>1. u \in Seq(Message) /\ NoAside(u)
        BY <2>2
      <3> HIDE DEF u
      <3>2. Announced(transcript \o u) = Announced(transcript) \o u
        BY <1>t, <3>1, AnnouncedConcat
      <3> QED BY <2>4, <3>2 DEF u
    <2> QED BY <1>m, <2>1, <2>5 DEF Mirrored, TranscriptIsContext, Turned, Closing
  <1>1. ASSUME NEW m \in Inputs, Prompt(m)
        PROVE  Mirrored'
    <2>1. <<m>> \in Seq(Inputs) /\ Begin(<<m>>)
      BY <1>1 DEF Prompt
    <2> QED BY <1>b, <2>1
  <1>2. ASSUME NEW m \in Inputs, Steer(m) \/ FollowUp(m) \/ CancelSteer(m)
        PROVE  Mirrored'
    <2>1. UNCHANGED <<context, transcript, prompts, pc, cancelled>>
      BY <1>2 DEF Steer, FollowUp, CancelSteer
    <2> QED BY <1>u, <2>1
  <1>3. CASE Continue
    <2>1. \E d \in Seq(Inputs) : Begin(d)
      <3>1. <<>> \in Seq(Inputs)
        OBVIOUS
      <3>2. ASSUME NEW d \in Drains(steering) PROVE d \in Seq(Inputs)
        BY <1>t, DrainSplits
      <3>3. ASSUME NEW d \in Drains(followUp) PROVE d \in Seq(Inputs)
        BY <1>t, DrainSplits
      <3> QED BY <1>3, <3>1, <3>2, <3>3 DEF Continue
    <2> QED BY <1>b, <2>1
  <1>4. CASE ClearSteering \/ ClearFollowUp \/ Abort
    <2>1. UNCHANGED <<context, transcript, prompts, pc>> /\ (UNCHANGED cancelled \/ cancelled')
      BY <1>4 DEF ClearSteering, ClearFollowUp, Abort
    <2> QED BY <1>u, <2>1
  <1>5. CASE Reset
    <2>1. pc = "idle" /\ pc' = "idle" /\ transcript' = <<>>
      BY <1>5 DEF Reset
    <2> QED BY <1>o, <2>1 DEF NoAside
  <1>6. CASE MiddlewareFails
    <2>1. pc # "idle" /\ pc' = "idle"
      BY <1>6 DEF MiddlewareFails, Discard
    <2>2. PICK said \in Announcing :
            \E k \in 0 .. Len(said) : transcript' = transcript \o SubSeq(said, 1, k)
      BY <1>6 DEF MiddlewareFails
    <2>3. PICK k \in 0 .. Len(said) : transcript' = transcript \o SubSeq(said, 1, k)
      BY <2>2
    <2>4. said \in Seq(Message) /\ NoAside(said)
      BY <2>1, AnnouncedNoAside
    <2>5. SubSeq(said, 1, k) \in Seq(Message) /\ NoAside(SubSeq(said, 1, k))
      BY <2>4 DEF NoAside
    <2>6. NoAside(transcript')
      BY <1>t, <1>m, <2>3, <2>5, NoAsideConcat
    <2> QED BY <1>o, <2>1, <2>6
  <1>7. CASE Settle \/ TurnCapped
    <2>1. CASE Settle
      <3>1. pc' = "idle" /\ UNCHANGED transcript
        BY <2>1 DEF Settle, Discard
      <3> QED BY <1>m, <1>o, <3>1
    <2>2. CASE TurnCapped
      <3>1. pc = "turnEnd" /\ pc' = "ended" /\ UNCHANGED <<context, transcript, prompts>>
        BY <2>2 DEF TurnCapped, Goto
      <3> QED BY <1>m, <1>q, <3>1 DEF InFlight, Turned
    <2> QED BY <1>7, <2>1, <2>2
  <1>8. CASE Start \/ Outer \/ TurnSkipped \/ FollowUpPoll
    <2>1. /\ UNCHANGED <<context, transcript, prompts>> /\ pc \in InFlight
          /\ pc' \in InFlight \ Turned
          /\ pc' \in Closing => cancelled' \/ (pc \in Closing /\ UNCHANGED cancelled)
      BY <1>8 DEF Start, Outer, TurnSkipped, FollowUpPoll, Goto, InFlight, Turned, Closing
    <2>2. pc' # "ended"
      BY <2>1 DEF InFlight, Turned, Closing
    <2> QED BY <1>u, <2>1, <2>2
  <1>9. CASE TurnStart
    <2> DEFINE p == Users(prompts)
               q == Users(pending)
    <2>1. /\ pc = "inner" /\ pc' = "stream" /\ prompts' = <<>>
          /\ transcript' = transcript \o p \o q /\ context' = context \o q
      BY <1>9 DEF TurnStart, Goto
    <2>2. p \in Seq(Message) /\ NoAside(p) /\ q \in Seq(Message) /\ NoAside(q)
      BY <1>t, UsersNoAside
    <2>3. Announced(context) = transcript \o p
      BY <1>m, <2>1 DEF InFlight
    <2> HIDE DEF p, q
    <2>4. NoAside(transcript') /\ transcript' \in Seq(Message)
      BY <1>t, <1>m, <2>1, <2>2, NoAsideConcat
    <2>5. Announced(context') = Announced(context) \o q
      BY <1>t, <2>1, <2>2, AnnouncedConcat
    <2>6. Announced(context') = transcript' \o <<>>
      BY <2>1, <2>3, <2>4, <2>5
    <2> QED BY <1>e, <2>1, <2>4, <2>6 DEF Mirrored, TranscriptIsContext, Turned, Closing
  <1>10. ASSUME NEW stop \in {"Stop", "Length"}, NEW n \in 0 .. MaxCalls, Reply(stop, n)
         PROVE  Mirrored'
    <2> DEFINE w == Assistant(stop, n)
               v == IF n = 0 /\ stop = "Length" /\ escalations' <= 3 THEN <<Injected("nudge")>> ELSE <<>>
    <2>1. <<w>> \in Seq(Message) /\ NoAside(<<w>>)
      BY AssistantNoAside, OneNoAside DEF Stops
    <2>2. v \in Seq(Message) /\ NoAside(v)
      <3>1. <<Injected("nudge")>> \in Seq(Message) /\ NoAside(<<Injected("nudge")>>)
        BY MessageKinds, NotAside, OneNoAside
      <3>2. <<>> \in Seq(Message) /\ NoAside(<<>>)
        BY DEF NoAside
      <3> QED BY <3>1, <3>2
    <2>3. /\ context' = context \o (<<w>> \o v) /\ transcript' = transcript \o (<<w>> \o v)
          /\ pc = "stream" /\ pc' \in {"tools", "prepare"} /\ UNCHANGED prompts
      BY <1>10 DEF Reply
    <2>l. ~Dead(w) /\ (v # <<>> => ~Dead(v[Len(v)]))
      BY AliveKinds, MessageKinds
    <2> HIDE DEF w, v
    <2>4. (<<w>> \o v) \in Seq(Message) /\ NoAside(<<w>> \o v)
      BY <2>1, <2>2, NoAsideConcat
    <2>5. <<w>> \o v # <<>> /\ ~Dead((<<w>> \o v)[Len(<<w>> \o v)])
      <3>1. CASE v = <<>>
        BY <2>1, <2>l, <3>1
      <3>2. CASE v # <<>>
        <4>1. <<w>> \o v # <<>> /\ Last(<<w>> \o v) = v[Len(v)]
          BY <2>1, <2>2, <3>2, LastSaid
        <4> QED BY <2>l, <3>2, <4>1 DEF Last
      <3> QED BY <3>1, <3>2
    <2>6. ~Died'
      BY <1>t, <2>3, <2>4, <2>5, StaysAlive
    <2> QED BY <1>m, <1>s, <2>3, <2>4, <2>6 DEF InFlight, Turned
  <1>11. CASE Final
    <2>1. /\ pc = "final" /\ pc' = "ended" /\ UNCHANGED prompts /\ pc \in InFlight /\ pc \in Closing
          /\ Announced(context) = transcript \o Users(prompts)
      BY <1>11, <1>m DEF Final, Goto, InFlight, Closing
    <2>2. CASE cancelled
      <3> DEFINE w == Assistant("Aborted", 0)
      <3>1. context' = Append(context, w) /\ transcript' = Append(transcript, w)
        BY <1>11, <2>2 DEF Final
      <3>2. TranscriptIsContext'
        BY <1>t, <2>1, <3>1, CloseKept
      <3>3. w \in Message /\ ~IsAside(w)
        BY TerminalKinds, NotAside
      <3> HIDE DEF w
      <3>4. NoAside(transcript')
        BY <1>t, <1>m, <3>1, <3>3 DEF NoAside
      <3> QED BY <2>1, <3>2, <3>4 DEF Mirrored, Turned, Closing
    <2>3. CASE ~cancelled
      <3>1. UNCHANGED <<context, transcript>>
        BY <1>11, <2>3 DEF Final
      <3> QED BY <1>m, <1>q, <2>1, <2>3, <3>1
    <2> QED BY <2>2, <2>3
  <1>16. ASSUME NEW n \in 0 .. MaxCalls, StreamFails(n)
         PROVE  Mirrored'
    <2> DEFINE stop == IF cancelled THEN "Aborted" ELSE "Error"
               w == Assistant(stop, n)
    <2>1. /\ pc = "stream" /\ pc' = "ended" /\ UNCHANGED prompts
          /\ context' = Append(context, w) \o Results(n) /\ transcript' = Append(transcript, w)
      BY <1>16 DEF StreamFails, Goto
    <2>2. prompts = <<>> /\ Announced(context) = transcript
      BY <1>t, <1>m, <1>e, <2>1, ConcatNothing DEF InFlight, Turned
    <2>3. stop \in {"Error", "Aborted"} /\ w \in Message /\ ~IsAside(w)
      BY AssistantNoAside DEF Stops
    <2> HIDE DEF stop
    <2>4. TranscriptIsContext'
      BY <1>t, <2>1, <2>2, <2>3, DeathKept
    <2> HIDE DEF w
    <2>5. NoAside(transcript')
      BY <1>t, <1>m, <2>1, <2>3 DEF NoAside
    <2> QED BY <2>1, <2>4, <2>5 DEF Mirrored, Turned, Closing
  <1>12. ASSUME NEW terminate \in BOOLEAN, ToolsSettle(terminate)
         PROVE  Mirrored'
    <2> DEFINE t == Results(Current.calls)
    <2>1. /\ pc = "tools" /\ context' = context \o t /\ transcript' = transcript \o t
          /\ pc' = "prepare" /\ UNCHANGED prompts
      BY <1>12 DEF ToolsSettle, Goto
    <2>2. t \in Seq(Message) /\ NoAside(t)
      BY <2>1, ResultsNoAside DEF Replied
    <2>3. t # <<>> => ~Dead(t[Len(t)])
      BY <2>1, ResultsAlive DEF Replied
    <2> HIDE DEF t
    <2>4. ~Died
      BY <1>m, <2>1 DEF Turned
    <2>5. ~Died'
      BY <1>t, <2>1, <2>2, <2>3, <2>4, StaysAlive
    <2> QED BY <1>m, <1>s, <2>1, <2>2, <2>5 DEF InFlight, Turned
  <1>13. ASSUME NEW aside \in BOOLEAN, PrepareNextTurn(aside)
         PROVE  Mirrored'
    <2>1. pc = "prepare" /\ pc' = "turnEnd" /\ UNCHANGED <<transcript, prompts>>
      BY <1>13 DEF PrepareNextTurn, Goto
    <2>2. CASE aside
      <3> DEFINE w == Injected("aside")
      <3>1. w \in Message /\ IsAside(w) /\ context' = Append(context, w)
        BY <1>13, <2>2, MessageKinds, NotAside DEF PrepareNextTurn
      <3> HIDE DEF w
      <3>2. Announced(context') = Announced(context)
        BY <1>t, <3>1, AnnouncedAppend
      <3>3. TranscriptIsContext'
        BY <1>m, <2>1, <3>2 DEF TranscriptIsContext, InFlight, Turned
      <3>4. Died' = Died
        BY <2>1 DEF Died
      <3> QED BY <1>m, <2>1, <3>3, <3>4 DEF Mirrored, Turned, Closing
    <2>3. CASE ~aside
      <3>1. UNCHANGED context
        BY <1>13, <2>3 DEF PrepareNextTurn
      <3> QED BY <1>u, <2>1, <3>1 DEF InFlight, Turned, Closing
    <2> QED BY <2>2, <2>3
  <1>14. ASSUME NEW veto \in BOOLEAN, TurnEnd(veto)
         PROVE  Mirrored'
    <2>1. PICK t \in {<<Injected("bounce")>>, <<>>} :
            /\ context' = context \o t /\ transcript' = transcript \o t
            /\ pc = "turnEnd" /\ pc' \in {"inner", "followUp"} /\ UNCHANGED prompts
      BY <1>14 DEF TurnEnd, Goto
    <2>2. t \in Seq(Message) /\ NoAside(t)
      <3>1. <<Injected("bounce")>> \in Seq(Message) /\ NoAside(<<Injected("bounce")>>)
        BY MessageKinds, NotAside, OneNoAside
      <3>2. <<>> \in Seq(Message) /\ NoAside(<<>>)
        BY DEF NoAside
      <3> QED BY <2>1, <3>1, <3>2
    <2>3. t # <<>> => ~Dead(t[Len(t)])
      BY <2>1, AliveKinds, MessageKinds
    <2>4. ~Died
      BY <1>m, <2>1 DEF Turned
    <2>5. ~Died'
      BY <1>t, <2>1, <2>2, <2>3, <2>4, StaysAlive
    <2> QED BY <1>m, <1>s, <2>1, <2>2, <2>5 DEF InFlight, Turned
  <1>15. CASE UNCHANGED vars
    <2>1. UNCHANGED <<context, transcript, prompts, pc, cancelled>>
      BY <1>15 DEF vars
    <2> QED BY <1>u, <2>1
  <1> QED BY <1>1, <1>2, <1>3, <1>4, <1>5, <1>6, <1>7, <1>8, <1>9, <1>10, <1>11, <1>12, <1>13, <1>14, <1>15,
             <1>16
          DEF Next, Loop

\* Over the whole run, what the transcript lacks of the loop's context is the host's
\* asides, prompts not announced, and at the end the results of a dead turn's calls.
THEOREM TranscriptIsContextHolds == Spec => []TranscriptIsContext
  <1>1. Init => Mirrored
    BY DEF Init, Mirrored, NoAside, TranscriptIsContext, Turned, Closing
  <1>2. IInv /\ IInv' /\ Mirrored /\ [Next]_vars => Mirrored'
    BY MirroredStep DEF IInv
  <1>3. Mirrored => TranscriptIsContext
    BY DEF Mirrored
  <1> QED BY <1>1, <1>2, <1>3, Invariant, PTL DEF Spec

\* A cancelled run winds down, one step nearer to its end with every step.

-----------------------------------------------------------------------------
(* A cancelled run winds down.                                              *)

\* Between runs no token is cancelled.
IdleIsFresh == pc = "idle" => ~cancelled

LEMMA FreshStep ==
  ASSUME TypeOK, IdleIsFresh, [Next]_vars
  PROVE  IdleIsFresh'
  <1> USE DEF loopVars, agentVars, queueVars, runHistory, inputHistory
  <1>1. CASE \E m \in Inputs : Steer(m) \/ FollowUp(m) \/ CancelSteer(m)
    BY <1>1 DEF Steer, FollowUp, CancelSteer, IdleIsFresh
  <1>2. CASE ClearSteering \/ ClearFollowUp \/ Reset
    BY <1>2 DEF ClearSteering, ClearFollowUp, Reset, IdleIsFresh
  <1>3. CASE Abort
    BY <1>3 DEF Abort, IdleIsFresh
  <1>4. CASE Continue \/ \E m \in Inputs : Prompt(m)
    BY <1>4 DEF Continue, Prompt, Begin, IdleIsFresh
  <1>5. CASE MiddlewareFails \/ Settle
    BY <1>5 DEF MiddlewareFails, Settle, Discard, IdleIsFresh
  <1>6. CASE Start \/ Outer \/ TurnStart \/ TurnSkipped \/ TurnCapped \/ FollowUpPoll \/ Final
    BY <1>6 DEF Start, Outer, TurnStart, TurnSkipped, TurnCapped, FollowUpPoll, Final, Goto, IdleIsFresh
  <1>7. ASSUME NEW stop \in {"Stop", "Length"}, NEW n \in 0 .. MaxCalls, Reply(stop, n)
        PROVE  IdleIsFresh'
    <2>1. pc' \in {"tools", "prepare"}
      BY <1>7 DEF Reply
    <2> QED BY <2>1 DEF IdleIsFresh
  <1>8. CASE \/ \E n \in 0 .. MaxCalls : StreamFails(n)
             \/ \E terminate \in BOOLEAN : ToolsSettle(terminate)
             \/ \E aside \in BOOLEAN : PrepareNextTurn(aside)
             \/ \E veto \in BOOLEAN : TurnEnd(veto)
    <2>1. pc' \in {"ended", "prepare", "turnEnd", "followUp", "inner"}
      BY <1>8 DEF StreamFails, ToolsSettle, PrepareNextTurn, TurnEnd, Goto
    <2> QED BY <2>1 DEF IdleIsFresh
  <1>9. CASE UNCHANGED vars
    BY <1>9 DEF vars, IdleIsFresh
  <1> QED BY <1>1, <1>2, <1>3, <1>4, <1>5, <1>6, <1>7, <1>8, <1>9 DEF Next, Loop

WindsDown ==
  cancelled => \/ StepsLeft[pc'] < StepsLeft[pc]
               \/ pc' = pc /\ UNCHANGED <<cancelled, loopVars, transcript>>

\* The table of StepsLeft, and the moves of a cancelled run.
LEMMA Steps ==
  /\ StepsLeft["idle"] = 0 /\ StepsLeft["ended"] = 1 /\ StepsLeft["final"] = 2
  /\ StepsLeft["outer"] = 3 /\ StepsLeft["start"] = 4 /\ StepsLeft["followUp"] = 4
  /\ StepsLeft["inner"] = 5 /\ StepsLeft["turnEnd"] = 6 /\ StepsLeft["prepare"] = 7
  /\ StepsLeft["tools"] = 8 /\ StepsLeft["stream"] = 9
  BY DEF StepsLeft

LEMMA Nearer ==
  /\ StepsLeft["outer"] < StepsLeft["start"]
  /\ StepsLeft["final"] < StepsLeft["outer"]
  /\ StepsLeft["followUp"] < StepsLeft["inner"]
  /\ StepsLeft["tools"] < StepsLeft["stream"]
  /\ StepsLeft["prepare"] < StepsLeft["stream"]
  /\ StepsLeft["ended"] < StepsLeft["stream"]
  /\ StepsLeft["prepare"] < StepsLeft["tools"]
  /\ StepsLeft["turnEnd"] < StepsLeft["prepare"]
  /\ StepsLeft["followUp"] < StepsLeft["turnEnd"]
  /\ StepsLeft["inner"] < StepsLeft["turnEnd"]
  /\ StepsLeft["ended"] < StepsLeft["turnEnd"]
  /\ StepsLeft["final"] < StepsLeft["followUp"]
  /\ StepsLeft["outer"] < StepsLeft["followUp"]
  /\ StepsLeft["ended"] < StepsLeft["final"]
  /\ \A p \in Pcs \ {"idle"} : StepsLeft["idle"] < StepsLeft[p]
  BY Steps DEF Pcs

LEMMA DownStep ==
  ASSUME TypeOK, IdleIsFresh, [Next]_vars
  PROVE  WindsDown
  <1> SUFFICES ASSUME cancelled
               PROVE  \/ StepsLeft[pc'] < StepsLeft[pc]
                      \/ pc' = pc /\ UNCHANGED <<cancelled, loopVars, transcript>>
    BY DEF WindsDown
  <1> USE DEF agentVars
  <1>0. pc # "idle"
    BY DEF IdleIsFresh
  <1>1. CASE \E m \in Inputs : Steer(m) \/ FollowUp(m) \/ CancelSteer(m)
    BY <1>1 DEF Steer, FollowUp, CancelSteer
  <1>2. CASE ClearSteering \/ ClearFollowUp
    BY <1>2 DEF ClearSteering, ClearFollowUp
  <1>3. CASE Abort \/ Reset \/ Continue \/ \E m \in Inputs : Prompt(m)
    BY <1>0, <1>3 DEF Abort, Reset, Continue, Prompt
  <1>4. CASE MiddlewareFails \/ Settle
    <2>1. pc' = "idle" /\ pc \in Pcs \ {"idle"}
      BY <1>0, <1>4 DEF MiddlewareFails, Settle, Discard, TypeOK
    <2> QED BY <2>1, Nearer
  <1>5. CASE Start \/ Outer
    <2>1. (pc = "start" /\ pc' = "outer") \/ (pc = "outer" /\ pc' = "final")
      BY <1>5 DEF Start, Outer, Goto
    <2> QED BY <2>1, Nearer
  <1>6. CASE TurnStart \/ TurnSkipped
    <2>1. pc = "inner" /\ pc' = "followUp"
      BY <1>6 DEF TurnStart, TurnSkipped, Goto
    <2> QED BY <2>1, Nearer
  <1>7. ASSUME NEW stop \in {"Stop", "Length"}, NEW n \in 0 .. MaxCalls, Reply(stop, n)
        PROVE  StepsLeft[pc'] < StepsLeft[pc]
    <2>1. pc = "stream" /\ pc' \in {"tools", "prepare"}
      BY <1>7 DEF Reply
    <2> QED BY <2>1, Nearer
  <1>8. CASE \/ \E n \in 0 .. MaxCalls : StreamFails(n)
             \/ \E terminate \in BOOLEAN : ToolsSettle(terminate)
             \/ \E aside \in BOOLEAN : PrepareNextTurn(aside)
             \/ \E veto \in BOOLEAN : TurnEnd(veto)
    <2>1. \/ pc = "stream" /\ pc' = "ended"
          \/ pc = "tools" /\ pc' = "prepare"
          \/ pc = "prepare" /\ pc' = "turnEnd"
          \/ pc = "turnEnd" /\ pc' \in {"followUp", "inner"}
      BY <1>8 DEF StreamFails, ToolsSettle, PrepareNextTurn, TurnEnd, Goto
    <2> QED BY <2>1, Nearer
  <1>9. CASE TurnCapped \/ FollowUpPoll \/ Final
    <2>1. \/ pc = "turnEnd" /\ pc' = "ended"
          \/ pc = "followUp" /\ pc' \in {"final", "outer"}
          \/ pc = "final" /\ pc' = "ended"
      BY <1>9 DEF TurnCapped, FollowUpPoll, Final, Goto
    <2> QED BY <2>1, Nearer
  <1>10. CASE UNCHANGED vars
    BY <1>10 DEF vars
  <1> QED BY <1>1, <1>2, <1>3, <1>4, <1>5, <1>6, <1>7, <1>8, <1>9, <1>10 DEF Next, Loop

\* A cancelled run winds down, nearer to its end with every step.
THEOREM CancelWindsDownHolds == Spec => CancelWindsDown
  <1>1. Init => IdleIsFresh
    BY DEF Init, IdleIsFresh
  <1>2. TypeOK /\ IdleIsFresh /\ [Next]_vars => IdleIsFresh'
    BY FreshStep
  <1>3. TypeOK /\ IdleIsFresh /\ [Next]_vars => [WindsDown]_vars
    BY DownStep
  <1> QED BY <1>1, <1>2, <1>3, TypeCorrect, PTL DEF Spec, CancelWindsDown, WindsDown

=============================================================================
