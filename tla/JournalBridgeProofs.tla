------------------------ MODULE JournalBridgeProofs ------------------------
(* Proofs about JournalBridge: a bridge forwards in order and once, nothing *)
(* the seed folded is forwarded, one bridge of a session runs at a time,    *)
(* no row below a watermark is missing, and the state keeps its type.       *)
EXTENDS JournalBridge, FiniteSetTheorems, WellFoundedInduction, TLAPS

-----------------------------------------------------------------------------
(* The inductive invariant.  The bridges are compared with three facts of   *)
(* the journal: the rows still owed to the clients, the first row the relay *)
(* has not passed on, and whether the relay has lost rows it has not yet    *)
(* told of.                                                                 *)

Length == Len(journal)

\* State-bearing rows that the clients were promised and do not have.
Owed == {n \in 0 .. Length - 1 : Kind(n) = "state" /\ Recoverable(n) /\ ~Served(n)}

\* The next row the relay will pass on, unless it has lost some.
Frontier == Length - Len(relay.queue)

Feed == [queue : Seq(Int), lost : BOOLEAN, open : {"none", "open", "closed"}]
Bridge == [pc : Steps, feed : Feed, tail : Nat, next : Nat, end : Nat,
           stateOnly : BOOLEAN, aborted : BOOLEAN, sent : Seq(Int)]

Typed ==
  /\ journal \in Seq(Kinds)
  /\ deferred \in BOOLEAN /\ volatile \in Nat
  /\ deferred => volatile = Length
  /\ thread \in {"cold", "landing", "live"}
  /\ relay \in Feed
  /\ seeder \in [pc : {"idle", "reading", "folded", "returned", "done"}, rows : Nat]
  /\ seeds \in Int
  /\ forwarded \subseteq Nat
  /\ bridges \in [Bridges -> Bridge]
  /\ slot \in 0 .. MaxBridges
  /\ submits \in [Submits -> [pc : {"idle", "submitted", "taken", "done"}, resume : Int]]
  /\ ensures \in Nat

\* The relay holds the newest rows of the journal.
RelayInStep ==
  /\ Len(relay.queue) <= Length
  /\ \A i \in 1 .. Len(relay.queue) : relay.queue[i] = Length - Len(relay.queue) + i - 1

\* A receiver in terms of the frontier f and of a lag the relay has still to announce.
FeedInStep(feed, f, lag, len) ==
  /\ feed.open # "open" => feed.queue = << >>
  /\ \A i \in 1 .. Len(feed.queue) : feed.queue[i] # LAGGED => feed.queue[i] \in 0 .. len - 1
  /\ feed.open = "open" /\ ~feed.lost =>
       /\ \A i \in 1 .. Len(feed.queue) - 1 :
            feed.queue[i] # LAGGED /\ feed.queue[i + 1] # LAGGED
              => feed.queue[i + 1] = feed.queue[i] + 1
       /\ feed.queue # << >> /\ feed.queue[Len(feed.queue)] # LAGGED /\ ~lag
            => feed.queue[Len(feed.queue)] + 1 = f

\* No seed, no bridge; one receiver is held while the snapshot is read.
Idle == {"unborn", "held"}
Phases ==
  /\ seeder.pc \in {"idle", "reading", "folded"} =>
       /\ seeds = -1 /\ forwarded = {} /\ slot = 0
       /\ \A b \in Bridges : bridges[b].pc \in Idle
       /\ \A s \in Submits : submits[s].pc = "idle"
  /\ seeder.pc \notin {"idle", "reading", "folded"} => seeds \in 0 .. Length
  /\ seeder.rows <= Length
  /\ seeder.pc \in {"reading", "folded"} =>
       \E b \in Bridges : \A c \in Bridges : bridges[c].pc = "held" <=> c = b
  /\ seeder.pc \notin {"reading", "folded"} =>
       \A b \in Bridges : bridges[b].pc # "held"

\* The entry is the one bridge that is not on its way out.
SlotHoldsIt ==
  /\ slot # 0 => bridges[slot].pc \notin Idle /\ ~bridges[slot].aborted
  /\ \A b \in Bridges :
       bridges[b].pc \notin {"unborn", "held", "dead"} /\ ~bridges[b].aborted => b = slot

\* A point up to which a bridge may start: nothing below it is owed, and it
\* is within the journal (an empty one has cursor 0).
Reached(m, owed, len, folded) ==
  /\ m >= 1 /\ m >= folded
  /\ m <= len \/ (m = 1 /\ folded = 0)
  /\ \A n \in owed : n >= m

\* What the feed does not bring any more was served, or the replay still brings it.
Replaying == {"replay", "replayed"}
Receiving == {"recv", "received"}
FeedCovers(br, f, lag, owed) ==
  br.feed.open = "open" /\ ~br.feed.lost /\ br.pc \in Replaying \cup Receiving =>
    \A n \in owed :
      /\ br.feed.queue # << >> /\ br.feed.queue[1] # LAGGED /\ n < br.feed.queue[1]
           => br.pc \in Replaying /\ n < br.end
      /\ br.feed.queue = << >> /\ ~lag /\ n < f
           => br.pc \in Replaying /\ n < br.end

InOrder(sent) == \A i, j \in DOMAIN sent : i < j => sent[i] < sent[j]
UpTo(sent, m) == \A i \in DOMAIN sent : sent[i] <= m

\* A running or ended bridge.
Sound(br, f, lag, owed, len, folded) ==
  /\ InOrder(br.sent)
  /\ br.pc \notin Idle =>
       /\ Reached(br.tail + 1, owed, len, folded)
       /\ FeedCovers(br, f, lag, owed)
  /\ br.pc \notin {"replayed", "received"} => UpTo(br.sent, br.tail)
  /\ br.pc \in {"spawned", "reading", "replay", "replayed"} =>
       br.tail < br.next /\ Reached(br.next, owed, len, folded)
  /\ br.pc \in {"replayed", "received"} =>
       br.tail < br.next /\ UpTo(br.sent, br.next) /\ Reached(br.next + 1, owed, len, folded)
  /\ br.pc \in Replaying => br.end <= len
  /\ br.pc = "replayed" => br.next < br.end

\* A submit carries the point above the watermark of the bridge it aborted.
ResumeSound(sub, owed, len, folded) ==
  sub.pc = "taken" => sub.resume = -1 \/ Reached(sub.resume, owed, len, folded)

FeedsLive == \A b \in Bridges : bridges[b].feed.open = "open" => thread = "live"
FeedsInStep == \A b \in Bridges : FeedInStep(bridges[b].feed, Frontier, relay.lost, Length)
BridgesSound == \A b \in Bridges : Sound(bridges[b], Frontier, relay.lost, Owed, Length, seeds)
ResumesSound == \A s \in Submits : ResumeSound(submits[s], Owed, Length, seeds)

IInv ==
  /\ Typed
  /\ RelayInStep
  /\ thread = "live" <=> relay.open = "open"
  /\ FeedsLive
  /\ FeedsInStep
  /\ Phases
  /\ SlotHoldsIt
  /\ BridgesSound
  /\ ResumesSound
  /\ FoldedNotForwarded

-----------------------------------------------------------------------------
(* Receivers.                                                               *)

LEMMA PushCases ==
  ASSUME NEW feed \in Feed, NEW item \in Int, NEW window \in Nat \ {0}
  PROVE  /\ feed.open # "open" => Push(feed, item, window) = feed
         /\ feed.open = "open" /\ Len(feed.queue) < window =>
              Push(feed, item, window) = [feed EXCEPT !.queue = Append(feed.queue, item)]
         /\ feed.open = "open" /\ ~(Len(feed.queue) < window) =>
              /\ feed.queue # << >>
              /\ Push(feed, item, window)
                   = [feed EXCEPT !.queue = Append(Tail(feed.queue), item), !.lost = TRUE]
  <1>1. feed.queue \in Seq(Int)
    BY DEF Feed
  <1>2. ~(Len(feed.queue) < window) => feed.queue # << >>
    BY <1>1
  <1>3. CASE feed.open # "open"
    BY <1>3 DEF Push
  <1>4. CASE feed.open = "open" /\ Len(feed.queue) < window
    BY <1>4 DEF Push
  <1>5. CASE feed.open = "open" /\ ~(Len(feed.queue) < window)
    BY <1>2, <1>5 DEF Push
  <1> QED BY <1>3, <1>4, <1>5

LEMMA PushTyped ==
  ASSUME NEW feed \in Feed, NEW item \in Int, NEW window \in Nat \ {0}
  PROVE  Push(feed, item, window) \in Feed
  <1> DEFINE q == feed.queue
  <1>1. q \in Seq(Int)
    BY DEF Feed
  <1>2. Append(q, item) \in Seq(Int)
    BY <1>1
  <1>3. q # << >> => Append(Tail(q), item) \in Seq(Int)
    BY <1>1
  <1> HIDE DEF q
  <1>4. CASE feed.open # "open"
    <2>1. Push(feed, item, window) = feed
      BY <1>4, PushCases
    <2> QED BY <2>1
  <1>5. CASE feed.open = "open" /\ Len(q) < window
    <2>1. Push(feed, item, window) = [feed EXCEPT !.queue = Append(q, item)]
      BY <1>5, PushCases DEF q
    <2> QED BY <1>2, <2>1 DEF Feed
  <1>6. CASE feed.open = "open" /\ ~(Len(q) < window)
    <2>1. q # << >> /\ Push(feed, item, window) = [feed EXCEPT !.queue = Append(Tail(q), item), !.lost = TRUE]
      BY <1>6, PushCases DEF q
    <2> QED BY <1>3, <2>1 DEF Feed
  <1> QED BY <1>4, <1>5, <1>6

LEMMA EmptyLength ==
  ASSUME NEW S, NEW q \in Seq(S)
  PROVE  Len(q) \in Nat /\ (q = << >> <=> Len(q) = 0)
  OBVIOUS

\* The rest of a queue, element by element.
LEMMA Rest ==
  ASSUME NEW S, NEW q \in Seq(S), q # << >>
  PROVE  /\ Len(q) \in Nat /\ Len(q) >= 1 /\ Head(q) = q[1] /\ q[1] \in S
         /\ Tail(q) \in Seq(S) /\ Len(Tail(q)) = Len(q) - 1
         /\ \A i \in 1 .. Len(q) - 1 : Tail(q)[i] = q[i + 1]
  OBVIOUS

LEMMA Longer ==
  ASSUME NEW S, NEW q \in Seq(S), NEW x \in S
  PROVE  /\ Len(q) \in Nat /\ Append(q, x) \in Seq(S) /\ Len(Append(q, x)) = Len(q) + 1
         /\ \A i \in 1 .. Len(q) : Append(q, x)[i] = q[i] /\ q[i] \in S
         /\ Append(q, x)[Len(q) + 1] = x
  OBVIOUS

\* A row taken from the feed leaves a feed that goes on with the next row.
Popped(feed, rest, f, lag, len) ==
  /\ rest \in Feed /\ rest.open = feed.open /\ rest.lost = feed.lost
  /\ rest.queue = Tail(feed.queue)
  /\ FeedInStep(rest, f, lag, len)
  /\ feed.queue[1] # LAGGED => feed.queue[1] \in 0 .. len - 1
  /\ feed.open = "open" /\ ~feed.lost /\ feed.queue[1] # LAGGED =>
       /\ rest.queue # << >> /\ rest.queue[1] # LAGGED => rest.queue[1] = feed.queue[1] + 1
       /\ rest.queue = << >> /\ ~lag => f = feed.queue[1] + 1

LEMMA PopInStep ==
  ASSUME NEW feed \in Feed, NEW f \in Int, NEW lag, NEW len \in Nat,
         FeedInStep(feed, f, lag, len), feed.queue # << >>,
         NEW rest, rest = [feed EXCEPT !.queue = Tail(feed.queue)]
  PROVE  Popped(feed, rest, f, lag, len)
  <1> DEFINE q == feed.queue
             t == Tail(feed.queue)
  <1>1. q \in Seq(Int) /\ q # << >>
    BY DEF Feed
  <1>2. /\ Len(q) \in Nat /\ Len(q) >= 1 /\ q[1] \in Int
        /\ t \in Seq(Int) /\ Len(t) = Len(q) - 1
        /\ \A i \in 1 .. Len(q) - 1 : t[i] = q[i + 1]
    BY <1>1, Rest
  <1>3. rest.queue = t /\ rest.open = feed.open /\ rest.lost = feed.lost /\ rest \in Feed
    BY <1>2 DEF Feed
  <1>o. feed.open = "open"
    BY DEF FeedInStep
  <1>4. /\ \A i \in 1 .. Len(q) : q[i] # LAGGED => q[i] \in 0 .. len - 1
        /\ ~feed.lost =>
             /\ \A i \in 1 .. Len(q) - 1 : q[i] # LAGGED /\ q[i + 1] # LAGGED => q[i + 1] = q[i] + 1
             /\ q[Len(q)] # LAGGED /\ ~lag => q[Len(q)] + 1 = f
    BY <1>o DEF FeedInStep
  <1> HIDE DEF q, t
  <1>e. t = << >> <=> Len(q) = 1
    <2>1. Len(t) = Len(q) - 1 /\ Len(q) \in Nat
      BY <1>2
    <2>2. t = << >> <=> Len(t) = 0
      BY <1>2, EmptyLength
    <2> QED BY <2>1, <2>2
  <1>n. /\ Len(t) \in Nat /\ Len(t) = Len(q) - 1
        /\ \A i \in 1 .. Len(t) : i + 1 \in 1 .. Len(q) /\ t[i] = q[i + 1]
        /\ \A i \in 1 .. Len(t) - 1 : i \in 1 .. Len(t) /\ i + 1 \in 1 .. Len(t) /\ i + 1 \in 1 .. Len(q) - 1
    <2>1. /\ Len(q) \in Nat /\ Len(q) >= 1 /\ Len(t) = Len(q) - 1
          /\ \A i \in 1 .. Len(q) - 1 : t[i] = q[i + 1]
      BY <1>2
    <2> QED BY <2>1
  <1>5. \A i \in 1 .. Len(t) : t[i] # LAGGED => t[i] \in 0 .. len - 1
    BY <1>n, <1>4
  <1>6. ~feed.lost => \A i \in 1 .. Len(t) - 1 : t[i] # LAGGED /\ t[i + 1] # LAGGED => t[i + 1] = t[i] + 1
    BY <1>n, <1>4
  <1>7. ~feed.lost => (t # << >> /\ t[Len(t)] # LAGGED /\ ~lag => t[Len(t)] + 1 = f)
    <2>1. t # << >> => Len(t) \in 1 .. Len(t) /\ Len(t) + 1 = Len(q)
      BY <1>n, <1>2, <1>e
    <2> QED BY <1>n, <1>4, <2>1
  <1>8. FeedInStep(rest, f, lag, len)
    BY <1>3, <1>5, <1>6, <1>7, <1>o DEF FeedInStep
  <1>9. ~feed.lost /\ q[1] # LAGGED =>
          /\ t # << >> /\ t[1] # LAGGED => t[1] = q[1] + 1
          /\ t = << >> /\ ~lag => f = q[1] + 1
    <2>1. Len(q) \in Nat /\ Len(q) >= 1 /\ Len(t) = Len(q) - 1
      BY <1>2
    <2>2. t # << >> => 1 \in 1 .. Len(q) - 1 /\ 1 \in 1 .. Len(t)
      BY <1>e, <2>1
    <2>3. 1 \in 1 .. Len(t) => t[1] = q[1 + 1]
      BY <1>n
    <2> QED BY <1>2, <1>4, <1>e, <2>2, <2>3
  <1>10. q[1] # LAGGED => q[1] \in 0 .. len - 1
    BY <1>2, <1>4
  <1> QED BY <1>3, <1>8, <1>9, <1>10 DEF q, t, Popped

\* The relay passes on the row at the frontier, or the lag it has to announce.
PassesOn(item, f, lag, f2, len) ==
  \/ lag = FALSE /\ item = f /\ f \in 0 .. len - 1 /\ f2 = f + 1
  \/ lag = TRUE /\ item = LAGGED /\ f2 = f

\* What a receiver looks like after that.
Pushed(feed, g, item, f2, len) ==
  /\ g \in Feed /\ g.open = feed.open
  /\ FeedInStep(g, f2, FALSE, len)
  /\ g.open = "open" /\ ~g.lost =>
       /\ ~feed.lost /\ g.queue # << >>
       /\ feed.queue = << >> => g.queue[1] = item
       /\ feed.queue # << >> => g.queue[1] = feed.queue[1]

LEMMA PushInStep ==
  ASSUME NEW feed \in Feed, NEW item \in Int, NEW window \in Nat \ {0},
         NEW f \in Int, NEW f2 \in Int, NEW lag, NEW len \in Nat,
         PassesOn(item, f, lag, f2, len), FeedInStep(feed, f, lag, len),
         NEW g, g = Push(feed, item, window)
  PROVE  Pushed(feed, g, item, f2, len)
  <1> DEFINE q == feed.queue
  <1>1. q \in Seq(Int) /\ Len(q) \in Nat
    BY DEF Feed
  <1>2. item # LAGGED => item \in 0 .. len - 1 /\ item = f /\ f2 = f + 1 /\ lag = FALSE
    BY DEF PassesOn, LAGGED
  <1>3. /\ feed.open # "open" => q = << >>
        /\ \A i \in 1 .. Len(q) : q[i] # LAGGED => q[i] \in 0 .. len - 1
        /\ feed.open = "open" /\ ~feed.lost =>
             /\ \A i \in 1 .. Len(q) - 1 : q[i] # LAGGED /\ q[i + 1] # LAGGED => q[i + 1] = q[i] + 1
             /\ q # << >> /\ q[Len(q)] # LAGGED /\ ~lag => q[Len(q)] + 1 = f
    BY DEF FeedInStep
  <1>g. g \in Feed
    BY PushTyped
  <1> HIDE DEF q
  <1>4. CASE feed.open # "open"
    <2>1. g = feed
      BY <1>4, PushCases
    <2> QED BY <1>4, <1>g, <2>1 DEF FeedInStep, Pushed
  <1>5. CASE feed.open = "open" /\ Len(q) < window
    <2> DEFINE r == Append(q, item)
    <2>1. g = [feed EXCEPT !.queue = r]
      BY <1>5, PushCases DEF q
    <2>2. g.queue = r /\ g.open = "open" /\ g.lost = feed.lost
      BY <1>5, <2>1 DEF Feed
    <2>3. /\ Len(r) = Len(q) + 1 /\ r \in Seq(Int)
          /\ \A i \in 1 .. Len(q) : r[i] = q[i]
          /\ r[Len(q) + 1] = item
      BY <1>1, Longer
    <2> HIDE DEF r
    <2>4. \A i \in 1 .. Len(r) : i \in 1 .. Len(q) \/ i = Len(q) + 1
      BY <1>1, <2>3
    <2>5. \A i \in 1 .. Len(r) : r[i] # LAGGED => r[i] \in 0 .. len - 1
      BY <1>2, <1>3, <2>3, <2>4
    <2>6. ASSUME ~feed.lost, NEW i \in 1 .. Len(r) - 1, r[i] # LAGGED, r[i + 1] # LAGGED
          PROVE  r[i + 1] = r[i] + 1
      <3>1. i \in 1 .. Len(q) /\ r[i] = q[i] /\ Len(r) = Len(q) + 1 /\ i + 1 \in 1 .. Len(r)
        BY <1>1, <2>3
      <3>2. CASE i + 1 \in 1 .. Len(q)
        <4>1. i \in 1 .. Len(q) - 1 /\ r[i + 1] = q[i + 1]
          BY <1>1, <2>3, <3>1, <3>2
        <4> QED BY <1>3, <1>5, <2>6, <3>1, <4>1
      <3>3. CASE i + 1 = Len(q) + 1
        <4>1. i = Len(q) /\ r[i + 1] = item /\ q # << >>
          BY <1>1, <2>3, <3>1, <3>3
        <4>2. item = f /\ lag = FALSE
          BY <1>2, <2>6, <4>1
        <4>3. q[i] + 1 = f
          BY <1>3, <1>5, <2>6, <3>1, <4>1, <4>2
        <4> QED BY <3>1, <4>1, <4>2, <4>3
      <3> QED BY <2>4, <3>1, <3>2, <3>3
    <2>7. r # << >> /\ (r[Len(r)] # LAGGED => r[Len(r)] + 1 = f2)
      BY <1>1, <1>2, <2>3
    <2>8. FeedInStep(g, f2, FALSE, len)
      BY <2>2, <2>5, <2>6, <2>7 DEF FeedInStep
    <2>9. /\ q = << >> => r[1] = item
          /\ q # << >> => r[1] = q[1]
      <3>1. q = << >> => Len(q) = 0
        BY <1>1, EmptyLength
      <3>2. q # << >> => 1 \in 1 .. Len(q)
        BY <1>1, EmptyLength
      <3> QED BY <2>3, <3>1, <3>2
    <2> QED BY <1>g, <1>5, <2>2, <2>7, <2>8, <2>9 DEF q, Pushed
  <1>6. CASE feed.open = "open" /\ ~(Len(q) < window)
    <2> DEFINE t == Tail(q)
               r == Append(t, item)
    <2>1. q # << >> /\ g = [feed EXCEPT !.queue = r, !.lost = TRUE]
      BY <1>6, PushCases DEF q
    <2>2. g.queue = r /\ g.open = "open" /\ g.lost = TRUE
      BY <1>6, <2>1 DEF Feed
    <2>3. /\ t \in Seq(Int) /\ Len(t) = Len(q) - 1
          /\ \A i \in 1 .. Len(q) - 1 : t[i] = q[i + 1]
      BY <1>1, <2>1, Rest
    <2> HIDE DEF t
    <2>4. /\ Len(t) \in Nat /\ Len(r) = Len(t) + 1
          /\ \A i \in 1 .. Len(t) : r[i] = t[i]
          /\ r[Len(t) + 1] = item
      BY <2>3, Longer
    <2> HIDE DEF r
    <2>5. \A i \in 1 .. Len(r) : i \in 1 .. Len(t) \/ i = Len(t) + 1
      BY <2>4
    <2>6. \A i \in 1 .. Len(t) : i \in 1 .. Len(q) - 1 /\ i + 1 \in 1 .. Len(q) /\ r[i] = q[i + 1]
      BY <1>1, <2>3, <2>4
    <2>7. \A i \in 1 .. Len(r) : r[i] # LAGGED => r[i] \in 0 .. len - 1
      BY <1>2, <1>3, <2>4, <2>5, <2>6
    <2> QED BY <1>g, <1>6, <2>2, <2>7 DEF FeedInStep, Pushed
  <1> QED BY <1>4, <1>5, <1>6

LEMMA PushCovers ==
  ASSUME NEW br \in Bridge, NEW item \in Int, NEW window \in Nat \ {0},
         NEW f \in Int, NEW f2 \in Int, NEW lag, NEW len \in Nat, NEW owed,
         PassesOn(item, f, lag, f2, len), FeedInStep(br.feed, f, lag, len),
         FeedCovers(br, f, lag, owed),
         NEW r, r = [br EXCEPT !.feed = Push(br.feed, item, window)]
  PROVE  FeedCovers(r, f2, FALSE, owed)
  <1> DEFINE fd == br.feed
             g == Push(br.feed, item, window)
  <1>1. fd \in Feed /\ g = Push(fd, item, window) /\ FeedInStep(fd, f, lag, len) /\ fd = br.feed
    BY DEF Bridge
  <1> HIDE DEF fd, g
  <1>2. /\ g \in Feed /\ g.open = br.feed.open
        /\ g.open = "open" /\ ~g.lost =>
              /\ ~br.feed.lost /\ g.queue # << >>
              /\ br.feed.queue = << >> => g.queue[1] = item
              /\ br.feed.queue # << >> => g.queue[1] = br.feed.queue[1]
    <2>1. Pushed(fd, g, item, f2, len)
      BY <1>1, PushInStep
    <2> QED BY <1>1, <2>1 DEF Pushed
  <1>3. r.feed = g /\ r.pc = br.pc /\ r.end = br.end
    BY DEF Bridge, g
  <1>4. SUFFICES ASSUME g.open = "open", ~g.lost, br.pc \in Replaying \cup Receiving, NEW n \in owed,
                        g.queue[1] # LAGGED, n < g.queue[1]
                 PROVE  br.pc \in Replaying /\ n < br.end
    BY <1>2, <1>3 DEF FeedCovers
  <1>5. CASE br.feed.queue = << >>
    <2>1. item # LAGGED /\ g.queue[1] = item
      BY <1>2, <1>4, <1>5
    <2>2. item = f /\ lag = FALSE
      BY <2>1 DEF PassesOn
    <2> QED BY <1>2, <1>4, <1>5, <2>1, <2>2 DEF FeedCovers
  <1>6. CASE br.feed.queue # << >>
    BY <1>2, <1>4, <1>6 DEF FeedCovers
  <1> QED BY <1>5, <1>6

-----------------------------------------------------------------------------
(* A bridge that takes no step while the journal, the relay and the clients *)
(* move on.                                                                 *)

LEMMA ReachedShrinks ==
  ASSUME NEW m, NEW owed, NEW owed2, NEW len, NEW folded,
         Reached(m, owed, len, folded), owed2 \subseteq owed
  PROVE  Reached(m, owed2, len, folded)
  BY DEF Reached

LEMMA SoundShrinks ==
  ASSUME NEW br, NEW f, NEW lag, NEW owed, NEW owed2, NEW len, NEW folded,
         Sound(br, f, lag, owed, len, folded), owed2 \subseteq owed
  PROVE  Sound(br, f, lag, owed2, len, folded)
  <1>1. \A m : Reached(m, owed, len, folded) => Reached(m, owed2, len, folded)
    BY ReachedShrinks
  <1>2. FeedCovers(br, f, lag, owed) => FeedCovers(br, f, lag, owed2)
    BY DEF FeedCovers
  <1> QED BY <1>1, <1>2 DEF Sound

LEMMA SoundIdle ==
  ASSUME NEW br, br.pc \in Idle, InOrder(br.sent), UpTo(br.sent, br.tail),
         NEW f, NEW lag, NEW owed, NEW len, NEW folded
  PROVE  Sound(br, f, lag, owed, len, folded)
  BY DEF Sound, Idle, Replaying

LEMMA SoundIsIdle ==
  ASSUME NEW br, br.pc \in Idle, NEW f, NEW lag, NEW owed, NEW len, NEW folded,
         Sound(br, f, lag, owed, len, folded)
  PROVE  InOrder(br.sent) /\ UpTo(br.sent, br.tail)
  BY DEF Sound, Idle

\* A row is appended: the relay keeps its frontier, or loses rows.
Appends(f, lag, f2, lag2) == (f2 = f /\ lag2 = lag) \/ lag2 = TRUE

LEMMA ReachedAppend ==
  ASSUME NEW m \in Int, NEW owed, NEW owed2, NEW len \in Nat, NEW folded \in Int,
         Reached(m, owed, len, folded), owed2 \subseteq owed \cup {len},
         len = 0 /\ folded = 0 => owed2 \subseteq owed
  PROVE  Reached(m, owed2, len + 1, folded)
  <1>1. m >= 1 /\ m >= folded /\ (m <= len \/ (m = 1 /\ folded = 0)) /\ \A n \in owed : n >= m
    BY DEF Reached
  <1>2. m <= len + 1 \/ (m = 1 /\ folded = 0)
    BY <1>1
  <1>3. ASSUME NEW n \in owed2 PROVE n >= m
    <2>1. CASE n \in owed
      BY <1>1, <2>1
    <2>2. CASE n \notin owed
      <3>1. n = len /\ ~(len = 0 /\ folded = 0)
        BY <1>3, <2>2
      <3> QED BY <1>1, <3>1
    <2> QED BY <2>1, <2>2
  <1> QED BY <1>1, <1>2, <1>3 DEF Reached

LEMMA FeedAppend ==
  ASSUME NEW feed \in Feed, NEW f \in Int, NEW lag, NEW f2, NEW lag2, NEW len \in Nat,
         FeedInStep(feed, f, lag, len), Appends(f, lag, f2, lag2)
  PROVE  FeedInStep(feed, f2, lag2, len + 1)
  <1>1. feed.queue \in Seq(Int) /\ \A i \in 1 .. Len(feed.queue) : feed.queue[i] \in Int
    BY DEF Feed
  <1>2. \A i \in 1 .. Len(feed.queue) : feed.queue[i] # LAGGED => feed.queue[i] \in 0 .. (len + 1) - 1
    BY <1>1 DEF FeedInStep
  <1> QED BY <1>2 DEF FeedInStep, Appends

LEMMA CoversAppend ==
  ASSUME NEW br \in Bridge, NEW f \in Int, NEW lag, NEW f2, NEW lag2, NEW len \in Nat,
         NEW owed, NEW owed2, owed2 \subseteq owed \cup {len}, f <= len,
         FeedInStep(br.feed, f, lag, len), FeedCovers(br, f, lag, owed), Appends(f, lag, f2, lag2)
  PROVE  FeedCovers(br, f2, lag2, owed2)
  <1> SUFFICES ASSUME br.feed.open = "open", ~br.feed.lost, br.pc \in Replaying \cup Receiving,
                      NEW n \in owed2
               PROVE  /\ br.feed.queue # << >> /\ br.feed.queue[1] # LAGGED /\ n < br.feed.queue[1]
                           => br.pc \in Replaying /\ n < br.end
                      /\ br.feed.queue = << >> /\ ~lag2 /\ n < f2
                           => br.pc \in Replaying /\ n < br.end
    BY DEF FeedCovers
  <1>1. CASE n \in owed
    BY <1>1 DEF FeedCovers, Appends
  <1>2. CASE n = len
    <2>1. br.feed.queue \in Seq(Int)
      BY DEF Bridge, Feed
    <2>2. br.feed.queue # << >> => 1 \in 1 .. Len(br.feed.queue) /\ br.feed.queue[1] \in Int
      BY <2>1
    <2>3. br.feed.queue # << >> /\ br.feed.queue[1] # LAGGED => br.feed.queue[1] \in 0 .. len - 1
      BY <2>2 DEF FeedInStep
    <2>4. br.feed.queue # << >> /\ br.feed.queue[1] # LAGGED => ~(n < br.feed.queue[1])
      BY <1>2, <2>3
    <2>5. ~lag2 => ~(n < f2)
      BY <1>2 DEF Appends
    <2> QED BY <2>4, <2>5
  <1> QED BY <1>1, <1>2

LEMMA SoundAppend ==
  ASSUME NEW br \in Bridge, NEW f \in Int, NEW lag, NEW f2, NEW lag2, NEW len \in Nat,
         NEW folded \in Int,
         NEW owed, NEW owed2, owed2 \subseteq owed \cup {len}, f <= len,
         len = 0 /\ folded = 0 => owed2 \subseteq owed,
         FeedInStep(br.feed, f, lag, len), Sound(br, f, lag, owed, len, folded), Appends(f, lag, f2, lag2)
  PROVE  Sound(br, f2, lag2, owed2, len + 1, folded)
  <1>1. br.tail \in Nat /\ br.next \in Nat /\ br.end \in Nat
    BY DEF Bridge
  <1>2. \A m \in Int : Reached(m, owed, len, folded) => Reached(m, owed2, len + 1, folded)
    BY ReachedAppend
  <1>3. FeedCovers(br, f, lag, owed) => FeedCovers(br, f2, lag2, owed2)
    BY CoversAppend
  <1>4. br.tail + 1 \in Int /\ br.next \in Int /\ br.next + 1 \in Int /\ (br.end <= len => br.end <= len + 1)
    BY <1>1
  <1> QED BY <1>2, <1>3, <1>4 DEF Sound

\* A bridge after its receiver got the element.
Passed(br, r, f2, owed, len, folded) ==
  /\ r \in Bridge /\ r.pc = br.pc /\ r.tail = br.tail /\ r.aborted = br.aborted
  /\ r.feed.open = br.feed.open
  /\ FeedInStep(r.feed, f2, FALSE, len)
  /\ Sound(r, f2, FALSE, owed, len, folded)

\* The relay feeds it.
LEMMA SoundPush ==
  ASSUME NEW br \in Bridge, NEW item \in Int, NEW window \in Nat \ {0},
         NEW f \in Int, NEW f2 \in Int, NEW lag, NEW len \in Nat, NEW owed, NEW folded,
         PassesOn(item, f, lag, f2, len), FeedInStep(br.feed, f, lag, len),
         Sound(br, f, lag, owed, len, folded),
         NEW r, r = [br EXCEPT !.feed = Push(br.feed, item, window)]
  PROVE  Passed(br, r, f2, owed, len, folded)
  <1> DEFINE fd == br.feed
             g == Push(br.feed, item, window)
  <1>1. fd \in Feed /\ g = Push(fd, item, window) /\ FeedInStep(fd, f, lag, len) /\ fd = br.feed
    BY DEF Bridge
  <1> HIDE DEF fd, g
  <1>2. Pushed(fd, g, item, f2, len)
    BY <1>1, PushInStep
  <1>3. g \in Feed /\ g.open = br.feed.open /\ FeedInStep(g, f2, FALSE, len)
    BY <1>1, <1>2 DEF Pushed
  <1>4. /\ r.feed = g /\ r.pc = br.pc /\ r.tail = br.tail /\ r.aborted = br.aborted
        /\ r.sent = br.sent /\ r.next = br.next /\ r.end = br.end /\ r \in Bridge
    BY <1>3 DEF Bridge, g
  <1>5. FeedCovers(br, f, lag, owed) => FeedCovers(r, f2, FALSE, owed)
    BY PushCovers
  <1>6. Sound(r, f2, FALSE, owed, len, folded)
    BY <1>4, <1>5 DEF Sound
  <1> QED BY <1>3, <1>4, <1>6 DEF Passed

-----------------------------------------------------------------------------
(* The rows that are owed.                                                  *)

LEMMA OwedRows ==
  ASSUME Typed
  PROVE  /\ Length \in Nat /\ Owed \subseteq Nat
         /\ \A n \in Owed : n < Length
  <1>1. Length \in Nat
    BY DEF Typed, Length
  <1> QED BY <1>1 DEF Owed

LEMMA OwedSame ==
  ASSUME UNCHANGED <<journal, volatile, seeds, forwarded>>
  PROVE  Owed' = Owed
  BY DEF Owed, Length, Kind, Recoverable, Served

LEMMA OwedServes ==
  ASSUME UNCHANGED <<journal, volatile, seeds>>, NEW n, forwarded' = forwarded \cup Published(n)
  PROVE  Owed' \subseteq Owed /\ n \notin Owed'
  <1>1. Owed' \subseteq Owed
    BY DEF Owed, Length, Kind, Recoverable, Served
  <1>2. Kind(n) = "turn" => n \notin Owed'
    BY DEF Owed, Kind
  <1>3. Kind(n) # "turn" => n \notin Owed'
    BY DEF Owed, Served, Published
  <1> QED BY <1>1, <1>2, <1>3

LEMMA OwedAppend ==
  ASSUME Typed, NEW kind \in Kinds, journal' = Append(journal, kind),
         volatile' \in Nat, volatile' >= volatile, UNCHANGED <<seeds, forwarded>>
  PROVE  /\ Length' = Length + 1
         /\ Owed' \subseteq Owed \cup {Length}
         /\ Length = 0 /\ seeds = 0 => Owed' \subseteq Owed
  <1>1. /\ journal \in Seq(Kinds) /\ Length \in Nat /\ volatile \in Nat /\ Length = Len(journal)
    BY DEF Typed, Length
  <1>2. /\ Len(journal') = Length + 1
        /\ \A i \in 1 .. Length : journal'[i] = journal[i]
    BY <1>1, Longer
  <1>3. Length' = Length + 1
    BY <1>2 DEF Length
  <1>4. ASSUME NEW n \in Owed', n # Length PROVE n \in Owed
    <2>1. /\ n \in 0 .. Length /\ journal'[n + 1] = "state" /\ n >= volatile'
          /\ ~(n = 0 /\ seeds = 0) /\ ~(n < seeds \/ n \in forwarded)
      BY <1>1, <1>3, <1>4 DEF Owed, Kind, Recoverable, Served
    <2>2. n \in 0 .. Length - 1 /\ n + 1 \in 1 .. Length /\ n >= volatile
      BY <1>1, <1>4, <2>1
    <2>3. journal[n + 1] = "state"
      BY <1>2, <2>1, <2>2
    <2> QED BY <2>1, <2>2, <2>3 DEF Owed, Kind, Recoverable, Served
  <1>5. Length = 0 /\ seeds = 0 => Length \notin Owed'
    BY DEF Owed, Recoverable
  <1> QED BY <1>3, <1>4, <1>5

-----------------------------------------------------------------------------
(* One bridge takes a step of its own.                                      *)

\* What is asked of the record r that the bridge b has after its step.
Steps1(b, r) ==
  /\ r \in Bridge
  /\ r.pc # "held"
  /\ b = slot => r.pc \notin Idle /\ ~r.aborted
  /\ r.pc \notin {"unborn", "held", "dead"} /\ ~r.aborted => b = slot
  /\ r.feed.open = "open" => thread = "live"
  /\ FeedInStep(r.feed, Frontier, relay.lost, Length)

LEMMA MovedKeeps ==
  ASSUME IInv, NEW b \in Bridges, NEW r, Moved(b, r), bridges[b].pc \notin Idle,
         Steps1(b, r),
         forwarded' \subseteq Nat, \A n \in forwarded' : n >= seeds, Owed' \subseteq Owed,
         Sound(r, Frontier, relay.lost, Owed', Length, seeds)
  PROVE  IInv'
  <1>1. /\ bridges' = [bridges EXCEPT ![b] = r]
        /\ UNCHANGED <<journal, deferred, volatile, thread, relay, seeder, seeds, slot, submits, ensures>>
    BY DEF Moved, engine
  <1>2. bridges \in [Bridges -> Bridge]
    BY DEF IInv, Typed
  <1>3. bridges'[b] = r /\ \A c \in Bridges : c # b => bridges'[c] = bridges[c]
    BY <1>1, <1>2
  <1>4. Length' = Length /\ Frontier' = Frontier /\ relay' = relay
    BY <1>1 DEF Length, Frontier
  <1>5. Typed'
    <2>1. bridges' \in [Bridges -> Bridge]
      BY <1>1, <1>2 DEF Steps1
    <2> QED BY <1>1, <1>4, <2>1 DEF IInv, Typed
  <1>6. RelayInStep' /\ (thread = "live" <=> relay.open = "open")'
    BY <1>1, <1>4 DEF IInv, RelayInStep
  <1>7. FeedsLive'
    BY <1>1, <1>3 DEF IInv, FeedsLive, Steps1
  <1>8. FeedsInStep'
    BY <1>3, <1>4 DEF IInv, FeedsInStep, Steps1
  <1>9. Phases'
    <2>1. seeder.pc \notin {"idle", "reading", "folded"}
      BY DEF IInv, Phases
    <2>2. \A c \in Bridges : bridges'[c].pc # "held"
      BY <1>3, <2>1 DEF IInv, Phases, Steps1
    <2> QED BY <1>1, <1>4, <2>1, <2>2 DEF IInv, Phases
  <1>10. SlotHoldsIt'
    <2>1. slot \in 0 .. MaxBridges /\ slot' = slot
      BY <1>1 DEF IInv, Typed
    <2>2. slot # 0 => slot \in Bridges
      BY <2>1, BoundsAssumption DEF Bridges
    <2>3. slot # 0 => bridges'[slot].pc \notin Idle /\ ~bridges'[slot].aborted
      BY <1>3, <2>2 DEF IInv, SlotHoldsIt, Steps1
    <2> QED BY <1>3, <2>1, <2>3 DEF IInv, SlotHoldsIt, Steps1
  <1>11. BridgesSound'
    <2>1. ASSUME NEW c \in Bridges, c # b
          PROVE  Sound(bridges[c], Frontier, relay.lost, Owed', Length, seeds)
      BY SoundShrinks DEF IInv, BridgesSound
    <2> QED BY <1>1, <1>3, <1>4, <2>1 DEF BridgesSound
  <1>12. ResumesSound'
    <2>1. ASSUME NEW s \in Submits PROVE ResumeSound(submits[s], Owed', Length, seeds)
      BY ReachedShrinks DEF IInv, ResumesSound, ResumeSound
    <2> QED BY <1>1, <1>4, <2>1 DEF ResumesSound
  <1>13. FoldedNotForwarded'
    BY <1>1 DEF FoldedNotForwarded
  <1> QED BY <1>5, <1>6, <1>7, <1>8, <1>9, <1>10, <1>11, <1>12, <1>13 DEF IInv

\* What every step of a running bridge starts from.
LEMMA Running ==
  ASSUME IInv, NEW b \in Bridges, bridges[b].pc \notin Idle
  PROVE  /\ bridges[b] \in Bridge
         /\ bridges[b].tail \in Nat /\ bridges[b].next \in Nat /\ bridges[b].end \in Nat
         /\ bridges[b].feed \in Feed /\ bridges[b].sent \in Seq(Int)
         /\ Steps1(b, bridges[b])
         /\ Sound(bridges[b], Frontier, relay.lost, Owed, Length, seeds)
         /\ Length \in Nat /\ Frontier \in Int /\ Frontier <= Length /\ Owed \subseteq Nat
         /\ forwarded \subseteq Nat /\ seeds \in Nat
  <1>1. bridges[b] \in Bridge /\ Typed
    BY DEF IInv, Typed
  <1>2. /\ bridges[b].tail \in Nat /\ bridges[b].next \in Nat /\ bridges[b].end \in Nat
        /\ bridges[b].feed \in Feed /\ bridges[b].sent \in Seq(Int)
    BY <1>1 DEF Bridge
  <1>3. Length \in Nat /\ Owed \subseteq Nat
    BY <1>1, OwedRows
  <1>4. Frontier \in Int /\ Frontier <= Length
    <2>1. relay.queue \in Seq(Int)
      BY <1>1 DEF Typed, Feed
    <2>2. Len(relay.queue) \in Nat
      BY <2>1
    <2> QED BY <1>3, <2>2 DEF Frontier
  <1>5. seeder.pc \notin {"idle", "reading", "folded"}
    BY DEF IInv, Phases
  <1>6. seeds \in Nat /\ bridges[b].pc # "held"
    BY <1>3, <1>5 DEF IInv, Phases
  <1>7. Steps1(b, bridges[b])
    <2>1. b # 0
      BY BoundsAssumption DEF Bridges
    <2> QED BY <1>1, <1>6, <2>1 DEF IInv, SlotHoldsIt, FeedsLive, FeedsInStep, Steps1
  <1>8. Sound(bridges[b], Frontier, relay.lost, Owed, Length, seeds)
    BY DEF IInv, BridgesSound
  <1> QED BY <1>1, <1>2, <1>3, <1>4, <1>6, <1>7, <1>8 DEF Typed

\* A step that publishes nothing.
LEMMA QuietMove ==
  ASSUME IInv, NEW b \in Bridges, NEW r, Moved(b, r), bridges[b].pc \notin Idle, UNCHANGED host,
         Steps1(b, r), Sound(r, Frontier, relay.lost, Owed, Length, seeds)
  PROVE  IInv'
  <1>1. UNCHANGED <<journal, volatile, seeds, forwarded>>
    BY DEF Moved, engine, host
  <1>2. Owed' = Owed
    BY <1>1, OwedSame
  <1>3. forwarded' \subseteq Nat /\ \A n \in forwarded' : n >= seeds
    BY <1>1 DEF IInv, Typed, FoldedNotForwarded
  <1> QED BY <1>2, <1>3, MovedKeeps

\* A new receiver has nothing in it.
LEMMA EmptyReceivers ==
  /\ NoReceiver \in Feed /\ NoReceiver.queue = << >> /\ NoReceiver.lost = FALSE /\ NoReceiver.open = "none"
  /\ \A open \in {"none", "open", "closed"} :
       LET feed == [NoReceiver EXCEPT !.open = open]
       IN  feed \in Feed /\ feed.queue = << >> /\ feed.lost = FALSE /\ feed.open = open
  <1>1. << >> \in Seq(Int)
    OBVIOUS
  <1>2. NoReceiver \in Feed /\ NoReceiver.queue = << >> /\ NoReceiver.lost = FALSE /\ NoReceiver.open = "none"
    BY <1>1 DEF Feed, NoReceiver
  <1> QED BY <1>2 DEF Feed

LEMMA EmptyInStep ==
  ASSUME NEW feed, feed.queue = << >>, NEW f, NEW lag, NEW len
  PROVE  FeedInStep(feed, f, lag, len)
  <1>1. Len(feed.queue) = 0
    OBVIOUS
  <1> QED BY <1>1 DEF FeedInStep

LEMMA Subscribed ==
  ASSUME NEW f, NEW lag, NEW len
  PROVE  /\ Subscription \in Feed
         /\ Subscription.open = "open" => thread = "live"
         /\ FeedInStep(Subscription, f, lag, len)
  <1>4. /\ Subscription \in Feed /\ Subscription.queue = << >>
        /\ Subscription.open = "open" => thread = "live"
    <2>1. CASE thread = "live"
      BY <2>1, EmptyReceivers DEF Subscription, OpenReceiver
    <2>2. CASE thread = "landing"
      BY <2>2, EmptyReceivers DEF Subscription
    <2>3. CASE thread \notin {"live", "landing"}
      BY <2>3, EmptyReceivers DEF Subscription
    <2> QED BY <2>1, <2>2, <2>3
  <1>5. FeedInStep(Subscription, f, lag, len)
    BY <1>4, EmptyInStep
  <1> QED BY <1>4, <1>5

LEMMA SubscribeKeeps ==
  ASSUME IInv, NEW b \in Bridges, Subscribe(b)
  PROVE  IInv'
  <1> DEFINE br == bridges[b]
             g == IF br.feed.open = "none" THEN Subscription ELSE br.feed
             r == [br EXCEPT !.pc = "reading", !.feed = g]
  <1>1. br.pc = "spawned" /\ Moved(b, r) /\ UNCHANGED host
    BY DEF Subscribe
  <1>2. bridges[b].pc \notin Idle
    BY <1>1 DEF Idle
  <1>3. /\ br \in Bridge /\ br.feed \in Feed /\ Steps1(b, br)
        /\ Sound(br, Frontier, relay.lost, Owed, Length, seeds)
    BY <1>2, Running
  <1>4. g \in Feed /\ (g.open = "open" => thread = "live") /\ FeedInStep(g, Frontier, relay.lost, Length)
    <2>1. CASE br.feed.open # "none"
      BY <1>3, <2>1 DEF Steps1
    <2>2. CASE br.feed.open = "none"
      BY <2>2, Subscribed
    <2> QED BY <2>1, <2>2
  <1> HIDE DEF g
  <1>5. /\ r \in Bridge /\ r.pc = "reading" /\ r.feed = g /\ r.tail = br.tail /\ r.next = br.next
        /\ r.sent = br.sent /\ r.aborted = br.aborted
    BY <1>3, <1>4 DEF Bridge, Steps
  <1> HIDE DEF r
  <1>6. Steps1(b, r)
    BY <1>1, <1>3, <1>4, <1>5 DEF Steps1, Idle
  <1>7. Sound(r, Frontier, relay.lost, Owed, Length, seeds)
    BY <1>1, <1>3, <1>5 DEF Sound, FeedCovers, Replaying, Receiving, Idle
  <1> QED BY <1>1, <1>2, <1>6, <1>7, QuietMove

LEMMA ReplayReadKeeps ==
  ASSUME IInv, NEW b \in Bridges, ReplayRead(b)
  PROVE  IInv'
  <1> DEFINE br == bridges[b]
             r == [br EXCEPT !.pc = IF deferred THEN "recv" ELSE "replay", !.end = OnDisk]
  <1>1. br.pc = "reading" /\ Moved(b, r) /\ UNCHANGED host
    BY DEF ReplayRead
  <1>2. bridges[b].pc \notin Idle
    BY <1>1 DEF Idle
  <1>3. /\ br \in Bridge /\ br.feed \in Feed /\ Steps1(b, br) /\ br.tail \in Nat /\ br.next \in Nat
        /\ Sound(br, Frontier, relay.lost, Owed, Length, seeds)
        /\ Length \in Nat /\ Frontier \in Int /\ Frontier <= Length /\ Owed \subseteq Nat
    BY <1>2, Running
  <1>4. /\ OnDisk \in Nat /\ (~deferred => OnDisk = Length) /\ deferred \in BOOLEAN
        /\ deferred => Owed = {}
    <2>1. /\ deferred \in BOOLEAN /\ volatile \in Nat /\ (deferred => volatile = Length)
      BY DEF IInv, Typed
    <2>2. deferred => Owed = {}
      BY <1>3, <2>1 DEF Owed, Recoverable
    <2> QED BY <1>3, <2>1, <2>2 DEF OnDisk, Length
  <1>5. /\ r \in Bridge /\ r.pc = (IF deferred THEN "recv" ELSE "replay") /\ r.end = OnDisk
        /\ r.feed = br.feed /\ r.tail = br.tail /\ r.next = br.next
        /\ r.sent = br.sent /\ r.aborted = br.aborted
    BY <1>3, <1>4 DEF Bridge, Steps
  <1> HIDE DEF r
  <1>6. Steps1(b, r)
    BY <1>1, <1>3, <1>5 DEF Steps1, Idle
  <1>7. ~deferred => FeedCovers(r, Frontier, relay.lost, Owed)
    <2> SUFFICES ASSUME ~deferred, r.feed.open = "open", NEW n \in Owed
                 PROVE  n < r.end /\ r.pc \in Replaying
      BY DEF FeedCovers
    <2>1. Typed
      BY DEF IInv
    <2> QED BY <1>4, <1>5, <2>1, OwedRows DEF Replaying
  <1>8. deferred => FeedCovers(r, Frontier, relay.lost, Owed)
    BY <1>4 DEF FeedCovers
  <1>9. Sound(r, Frontier, relay.lost, Owed, Length, seeds)
    <2>1. r.pc \in {"recv", "replay"} /\ (r.pc = "replay" => r.end <= Length)
      BY <1>3, <1>4, <1>5
    <2>2. FeedCovers(r, Frontier, relay.lost, Owed)
      BY <1>4, <1>7, <1>8
    <2> QED BY <1>1, <1>3, <1>5, <2>1, <2>2 DEF Sound, Replaying, Idle
  <1> QED BY <1>1, <1>2, <1>6, <1>9, QuietMove

\* A row above everything that was sent is sent.
LEMMA SentGrows ==
  ASSUME NEW sent \in Seq(Int), NEW m \in Int, NEW n \in Int, InOrder(sent), UpTo(sent, m), m < n
  PROVE  InOrder(Append(sent, n)) /\ UpTo(Append(sent, n), n) /\ Append(sent, n) \in Seq(Int)
  <1> DEFINE t == Append(sent, n)
  <1>1. /\ Len(sent) \in Nat /\ t \in Seq(Int) /\ Len(t) = Len(sent) + 1
        /\ \A i \in 1 .. Len(sent) : t[i] = sent[i] /\ sent[i] \in Int
        /\ t[Len(sent) + 1] = n
    BY Longer
  <1>2. DOMAIN sent = 1 .. Len(sent) /\ DOMAIN t = 1 .. (Len(sent) + 1)
    BY <1>1
  <1> HIDE DEF t
  <1>3. ASSUME NEW i \in 1 .. Len(sent) PROVE sent[i] < n /\ t[i] = sent[i] /\ sent[i] \in Int
    <2>1. sent[i] \in Int /\ t[i] = sent[i]
      BY <1>1
    <2>2. sent[i] <= m
      BY <1>2 DEF UpTo
    <2> QED BY <2>1, <2>2
  <1>4. ASSUME NEW i \in DOMAIN t, NEW j \in DOMAIN t, i < j PROVE t[i] < t[j]
    <2>1. i \in 1 .. Len(sent)
      BY <1>1, <1>2, <1>4
    <2>2. CASE j \in 1 .. Len(sent)
      BY <1>1, <1>2, <1>4, <2>1, <2>2 DEF InOrder
    <2>3. CASE j = Len(sent) + 1
      BY <1>1, <1>3, <2>1, <2>3
    <2> QED BY <1>1, <1>2, <2>2, <2>3
  <1>5. ASSUME NEW i \in DOMAIN t PROVE t[i] <= n
    <2>1. i \in 1 .. Len(sent) \/ i = Len(sent) + 1
      BY <1>1, <1>2
    <2>2. CASE i \in 1 .. Len(sent)
      BY <1>3, <2>2
    <2>3. CASE i = Len(sent) + 1
      BY <1>1, <2>3
    <2> QED BY <2>1, <2>2, <2>3
  <1> QED BY <1>1, <1>4, <1>5 DEF InOrder, UpTo, t

LEMMA SoundUpTo ==
  ASSUME NEW sent \in Seq(Int), NEW m \in Int, NEW n \in Int, UpTo(sent, m), m <= n
  PROVE  UpTo(sent, n)
  <1>1. \A i \in DOMAIN sent : sent[i] \in Int
    OBVIOUS
  <1> QED BY <1>1 DEF UpTo

\* forward_entry, for a row n at which the bridge stands.
LEMMA ForwardKeeps ==
  ASSUME IInv, NEW b \in Bridges, bridges[b].pc \notin Idle, NEW br \in Bridge, NEW n \in Nat,
         ForwardEntry(b, br, n), Steps1(b, br),
         br.pc \in {"replayed", "received"}, br.next = n, br.tail < n, n < Length,
         InOrder(br.sent), UpTo(br.sent, br.tail),
         Reached(br.tail + 1, Owed, Length, seeds), Reached(n, Owed, Length, seeds),
         \A owed : owed \subseteq Owed /\ n \notin owed => FeedCovers(br, Frontier, relay.lost, owed),
         br.pc = "replayed" => br.end <= Length /\ n < br.end
  PROVE  IInv'
  <1> DEFINE r == IF Published(n) = {} THEN br ELSE [br EXCEPT !.sent = Append(@, n)]
  <1>1. Moved(b, r) /\ forwarded' = forwarded \cup Published(n)
    BY DEF ForwardEntry
  <1>2. UNCHANGED <<journal, volatile, seeds>>
    BY <1>1 DEF Moved, engine
  <1>3. Owed' \subseteq Owed /\ n \notin Owed'
    BY <1>1, <1>2, OwedServes
  <1>4. forwarded' \subseteq Nat /\ \A x \in forwarded' : x >= seeds
    <2>1. forwarded \subseteq Nat /\ \A x \in forwarded : x >= seeds
      BY DEF IInv, Typed, FoldedNotForwarded
    <2>2. n >= seeds /\ Published(n) \subseteq {n}
      BY DEF Reached, Published
    <2> QED BY <1>1, <2>1, <2>2
  <1>5. br.tail \in Nat /\ br.sent \in Seq(Int) /\ Length \in Nat /\ Owed \subseteq Nat /\ seeds \in Nat
    BY Running DEF Bridge
  <1>6. /\ InOrder(Append(br.sent, n)) /\ UpTo(Append(br.sent, n), n) /\ Append(br.sent, n) \in Seq(Int)
        /\ UpTo(br.sent, n)
    BY <1>5, SentGrows, SoundUpTo
  <1>7. /\ r \in Bridge /\ r.pc = br.pc /\ r.feed = br.feed /\ r.tail = br.tail /\ r.next = br.next
        /\ r.end = br.end /\ r.aborted = br.aborted /\ InOrder(r.sent) /\ UpTo(r.sent, n)
    <2>1. CASE Published(n) = {}
      BY <1>6, <2>1
    <2>2. CASE Published(n) # {}
      BY <1>6, <2>2 DEF Bridge
    <2> QED BY <2>1, <2>2
  <1> HIDE DEF r
  <1>8. Steps1(b, r)
    BY <1>7 DEF Steps1
  <1>9. FeedCovers(r, Frontier, relay.lost, Owed')
    <2>1. FeedCovers(br, Frontier, relay.lost, Owed')
      BY <1>3
    <2> QED BY <1>7, <2>1 DEF FeedCovers
  <1>10. Reached(n + 1, Owed', Length, seeds)
    <2>1. n >= 1 /\ n >= seeds /\ \A x \in Owed : x >= n
      BY DEF Reached
    <2>2. \A x \in Owed' : x >= n + 1
      BY <1>3, <1>5, <2>1
    <2> QED BY <1>5, <2>1, <2>2 DEF Reached
  <1>11. Reached(br.tail + 1, Owed', Length, seeds) /\ Reached(n, Owed', Length, seeds)
    BY <1>3, ReachedShrinks
  <1>12. Sound(r, Frontier, relay.lost, Owed', Length, seeds)
    BY <1>7, <1>9, <1>10, <1>11 DEF Sound, Replaying
  <1> QED BY <1>1, <1>3, <1>4, <1>8, <1>12, MovedKeeps

LEMMA ReplayRowKeeps ==
  ASSUME IInv, NEW b \in Bridges, ReplayRow(b)
  PROVE  IInv'
  <1> DEFINE br == bridges[b]
             n == bridges[b].next
  <1>1. br.pc = "replay" /\ n < br.end
    BY DEF ReplayRow
  <1>2. bridges[b].pc \notin Idle
    BY <1>1 DEF Idle
  <1>3. /\ br \in Bridge /\ br.feed \in Feed /\ Steps1(b, br) /\ br.tail \in Nat /\ n \in Nat /\ br.end \in Nat
        /\ Sound(br, Frontier, relay.lost, Owed, Length, seeds)
        /\ Length \in Nat /\ Owed \subseteq Nat /\ seeds \in Nat /\ Typed
    BY <1>2, Running DEF IInv
  <1>4. /\ InOrder(br.sent) /\ UpTo(br.sent, br.tail) /\ br.tail < n /\ br.end <= Length
        /\ Reached(br.tail + 1, Owed, Length, seeds) /\ Reached(n, Owed, Length, seeds)
        /\ FeedCovers(br, Frontier, relay.lost, Owed)
    BY <1>1, <1>2, <1>3 DEF Sound, Replaying
  <1>5. CASE Skipped(b)
    <2> DEFINE m == n + 1
               r == [br EXCEPT !.next = m]
    <2>1. Moved(b, r) /\ UNCHANGED host /\ m \in Nat /\ m = n + 1
      BY <1>3, <1>5 DEF ReplayRow
    <2> HIDE DEF m
    <2>2. /\ r \in Bridge /\ r.pc = "replay" /\ r.feed = br.feed /\ r.tail = br.tail /\ r.next = n + 1
          /\ r.end = br.end /\ r.aborted = br.aborted /\ r.sent = br.sent
      BY <1>1, <1>3, <2>1 DEF Bridge
    <2> HIDE DEF r
    <2>3. n \notin Owed
      BY <1>5 DEF Skipped, Owed
    <2>4. Reached(n + 1, Owed, Length, seeds)
      <3>1. n >= 1 /\ n >= seeds /\ \A x \in Owed : x >= n
        BY <1>4 DEF Reached
      <3>2. \A x \in Owed : x >= n + 1
        BY <1>3, <2>3, <3>1
      <3> QED BY <1>1, <1>3, <1>4, <3>1, <3>2 DEF Reached
    <2>5. Steps1(b, r)
      BY <1>1, <1>3, <2>2 DEF Steps1
    <2>6. FeedCovers(r, Frontier, relay.lost, Owed)
      BY <1>1, <1>4, <2>2 DEF FeedCovers
    <2>7. br.tail < n + 1
      BY <1>3, <1>4
    <2>8. Sound(r, Frontier, relay.lost, Owed, Length, seeds)
      BY <1>4, <2>2, <2>4, <2>6, <2>7 DEF Sound
    <2> QED BY <1>2, <2>1, <2>5, <2>8, QuietMove
  <1>6. CASE ~Skipped(b)
    <2> DEFINE r == [br EXCEPT !.pc = "replayed"]
    <2>1. ForwardEntry(b, r, n)
      BY <1>6 DEF ReplayRow
    <2>2. /\ r \in Bridge /\ r.pc = "replayed" /\ r.feed = br.feed /\ r.tail = br.tail /\ r.next = n
          /\ r.end = br.end /\ r.aborted = br.aborted /\ r.sent = br.sent
      BY <1>3 DEF Bridge, Steps
    <2> HIDE DEF r
    <2>3. Steps1(b, r)
      BY <1>1, <1>3, <2>2 DEF Steps1, Idle
    <2>4. ASSUME NEW owed, owed \subseteq Owed, n \notin owed PROVE FeedCovers(r, Frontier, relay.lost, owed)
      BY <1>1, <1>4, <2>2, <2>4 DEF FeedCovers, Replaying
    <2>5. n < Length
      BY <1>1, <1>3, <1>4
    <2> HIDE DEF n
    <2>6. n \in Nat /\ n < br.end
      BY <1>1, <1>3 DEF n
    <2> QED BY <1>2, <1>4, <2>1, <2>2, <2>3, <2>4, <2>5, <2>6, ForwardKeeps
  <1> QED BY <1>5, <1>6

LEMMA ReplayAccountKeeps ==
  ASSUME IInv, NEW b \in Bridges, ReplayAccount(b)
  PROVE  IInv'
  <1> DEFINE br == bridges[b]
             n == br.next
             top == Larger(br.tail, n)
             m == n + 1
             r == [[br EXCEPT !.tail = top] EXCEPT !.pc = "replay", !.next = m]
  <1>1. br.pc = "replayed" /\ Moved(b, r) /\ UNCHANGED host
    BY DEF ReplayAccount, Accounted
  <1>2. bridges[b].pc \notin Idle
    BY <1>1 DEF Idle
  <1>3. /\ br \in Bridge /\ br.feed \in Feed /\ Steps1(b, br)
        /\ br.tail \in Nat /\ br.next \in Nat /\ br.end \in Nat /\ br.sent \in Seq(Int)
        /\ Sound(br, Frontier, relay.lost, Owed, Length, seeds)
        /\ Length \in Nat /\ Frontier \in Int /\ Owed \subseteq Nat /\ seeds \in Nat
    BY <1>2, Running
  <1>4. /\ InOrder(br.sent) /\ UpTo(br.sent, n) /\ br.tail < n /\ n < br.end /\ br.end <= Length
        /\ Reached(n + 1, Owed, Length, seeds)
        /\ FeedCovers(br, Frontier, relay.lost, Owed)
    BY <1>1, <1>2, <1>3 DEF Sound, Replaying
  <1>5. top = n /\ m = n + 1 /\ m \in Nat
    BY <1>3, <1>4 DEF Larger
  <1> HIDE DEF top, m
  <1>6. /\ r \in Bridge /\ r.pc = "replay" /\ r.feed = br.feed /\ r.tail = n /\ r.next = n + 1
        /\ r.end = br.end /\ r.aborted = br.aborted /\ r.sent = br.sent
    BY <1>3, <1>5 DEF Bridge, Steps
  <1> HIDE DEF r
  <1>7. Steps1(b, r)
    BY <1>1, <1>3, <1>6 DEF Steps1, Idle
  <1>8. FeedCovers(r, Frontier, relay.lost, Owed)
    BY <1>1, <1>4, <1>6 DEF FeedCovers, Replaying
  <1>9. n < n + 1
    BY <1>3
  <1>10. Sound(r, Frontier, relay.lost, Owed, Length, seeds)
    BY <1>4, <1>6, <1>8, <1>9 DEF Sound
  <1> QED BY <1>1, <1>2, <1>7, <1>10, QuietMove

LEMMA ReplayEndKeeps ==
  ASSUME IInv, NEW b \in Bridges, ReplayEnd(b)
  PROVE  IInv'
  <1> DEFINE br == bridges[b]
             top == Larger(br.tail, CursorOf(br.end))
             r == [[br EXCEPT !.tail = top] EXCEPT !.pc = "recv", !.next = 0, !.end = 0,
                                                   !.stateOnly = FALSE]
  <1>1. br.pc = "replay" /\ br.next >= br.end /\ Moved(b, r) /\ UNCHANGED host
    BY DEF ReplayEnd, Accounted
  <1>2. bridges[b].pc \notin Idle
    BY <1>1 DEF Idle
  <1>3. /\ br \in Bridge /\ br.feed \in Feed /\ Steps1(b, br)
        /\ br.tail \in Nat /\ br.next \in Nat /\ br.end \in Nat /\ br.sent \in Seq(Int)
        /\ Sound(br, Frontier, relay.lost, Owed, Length, seeds)
        /\ Length \in Nat /\ Frontier \in Int /\ Owed \subseteq Nat /\ seeds \in Nat
    BY <1>2, Running
  <1>4. /\ InOrder(br.sent) /\ UpTo(br.sent, br.tail) /\ br.tail < br.next /\ br.end <= Length
        /\ Reached(br.tail + 1, Owed, Length, seeds) /\ Reached(br.next, Owed, Length, seeds)
        /\ FeedCovers(br, Frontier, relay.lost, Owed)
    BY <1>1, <1>2, <1>3 DEF Sound, Replaying
  <1>5. /\ top \in Nat /\ top >= br.tail
        /\ top = br.tail \/ (top = br.end - 1 /\ br.end >= 1)
    BY <1>3, SMTT(30) DEF Larger, CursorOf
  <1> HIDE DEF top
  <1>6. /\ r \in Bridge /\ r.pc = "recv" /\ r.feed = br.feed /\ r.tail = top
        /\ r.aborted = br.aborted /\ r.sent = br.sent
    BY <1>3, <1>5 DEF Bridge, Steps
  <1> HIDE DEF r
  <1>7. Steps1(b, r)
    BY <1>1, <1>3, <1>6 DEF Steps1, Idle
  <1>8. \A n \in Owed : n >= br.next /\ ~(n < br.end)
    BY <1>1, <1>3, <1>4 DEF Reached
  <1>9. FeedCovers(r, Frontier, relay.lost, Owed)
    BY <1>1, <1>4, <1>6, <1>8 DEF FeedCovers, Replaying, Receiving
  <1>10. Reached(top + 1, Owed, Length, seeds)
    <2>1. CASE top = br.tail
      BY <1>4, <2>1
    <2>2. CASE top = br.end - 1 /\ br.end >= 1
      <3>1. br.tail + 1 >= seeds
        BY <1>4 DEF Reached
      <3>2. top + 1 >= seeds /\ top + 1 >= 1 /\ top + 1 <= Length
        BY <1>3, <1>4, <1>5, <2>2, <3>1
      <3>3. \A n \in Owed : n >= top + 1
        BY <1>3, <1>8, <2>2
      <3> QED BY <3>2, <3>3 DEF Reached
    <2> QED BY <1>5, <2>1, <2>2
  <1>11. UpTo(br.sent, top)
    BY <1>3, <1>4, <1>5, SoundUpTo
  <1>12. Sound(r, Frontier, relay.lost, Owed, Length, seeds)
    BY <1>4, <1>6, <1>9, <1>10, <1>11 DEF Sound, Replaying
  <1> QED BY <1>1, <1>2, <1>7, <1>12, QuietMove

LEMMA ReceiveAccountKeeps ==
  ASSUME IInv, NEW b \in Bridges, ReceiveAccount(b)
  PROVE  IInv'
  <1> DEFINE br == bridges[b]
             n == br.next
             top == Larger(br.tail, n)
             r == [[br EXCEPT !.tail = top] EXCEPT !.pc = "recv", !.next = 0]
  <1>1. br.pc = "received" /\ Moved(b, r) /\ UNCHANGED host
    BY DEF ReceiveAccount, Accounted
  <1>2. bridges[b].pc \notin Idle
    BY <1>1 DEF Idle
  <1>3. /\ br \in Bridge /\ br.feed \in Feed /\ Steps1(b, br)
        /\ br.tail \in Nat /\ br.next \in Nat /\ br.end \in Nat /\ br.sent \in Seq(Int)
        /\ Sound(br, Frontier, relay.lost, Owed, Length, seeds)
        /\ Length \in Nat /\ Frontier \in Int /\ Owed \subseteq Nat /\ seeds \in Nat
    BY <1>2, Running
  <1>4. /\ InOrder(br.sent) /\ UpTo(br.sent, n) /\ br.tail < n
        /\ Reached(n + 1, Owed, Length, seeds)
        /\ FeedCovers(br, Frontier, relay.lost, Owed)
    BY <1>1, <1>2, <1>3 DEF Sound
  <1>5. top = n
    BY <1>3, <1>4 DEF Larger
  <1> HIDE DEF top
  <1>6. /\ r \in Bridge /\ r.pc = "recv" /\ r.feed = br.feed /\ r.tail = n
        /\ r.aborted = br.aborted /\ r.sent = br.sent
    BY <1>3, <1>5 DEF Bridge, Steps
  <1> HIDE DEF r
  <1>7. Steps1(b, r)
    BY <1>1, <1>3, <1>6 DEF Steps1, Idle
  <1>8. FeedCovers(r, Frontier, relay.lost, Owed)
    BY <1>1, <1>4, <1>6 DEF FeedCovers, Replaying, Receiving
  <1>9. Sound(r, Frontier, relay.lost, Owed, Length, seeds)
    BY <1>4, <1>6, <1>8 DEF Sound, Replaying
  <1> QED BY <1>1, <1>2, <1>7, <1>9, QuietMove

LEMMA ReceiveKeeps ==
  ASSUME IInv, NEW b \in Bridges, Receive(b)
  PROVE  IInv'
  <1> DEFINE br == bridges[b]
             q == br.feed.queue
             n == Head(q)
             g == [br.feed EXCEPT !.queue = Tail(q)]
             rest == [br EXCEPT !.feed = g]
  <1>1. /\ br.pc = "recv" /\ ~br.feed.lost /\ q # << >> /\ n # LAGGED
        /\ IF Stale(b, n)
           THEN UNCHANGED host /\ Moved(b, [br EXCEPT !.feed.queue = Tail(@)])
           ELSE ForwardEntry(b, [[br EXCEPT !.feed.queue = Tail(@)] EXCEPT !.pc = "received", !.next = n], n)
    BY DEF Receive
  <1>2. bridges[b].pc \notin Idle
    BY <1>1 DEF Idle
  <1>3. /\ br \in Bridge /\ br.feed \in Feed /\ Steps1(b, br)
        /\ br.tail \in Nat /\ br.next \in Nat /\ br.end \in Nat /\ br.sent \in Seq(Int)
        /\ Sound(br, Frontier, relay.lost, Owed, Length, seeds)
        /\ Length \in Nat /\ Frontier \in Int /\ Owed \subseteq Nat /\ seeds \in Nat
    BY <1>2, Running
  <1>r. [br EXCEPT !.feed.queue = Tail(@)] = rest
    BY <1>3 DEF Bridge, Feed
  <1>4. /\ InOrder(br.sent) /\ UpTo(br.sent, br.tail)
        /\ Reached(br.tail + 1, Owed, Length, seeds)
        /\ FeedCovers(br, Frontier, relay.lost, Owed)
    BY <1>1, <1>2, <1>3 DEF Sound
  <1>5. n = q[1] /\ br.feed.open = "open" /\ FeedInStep(br.feed, Frontier, relay.lost, Length)
    <2>1. q \in Seq(Int)
      BY <1>3 DEF Feed
    <2>2. n = q[1]
      BY <1>1, <2>1
    <2>3. FeedInStep(br.feed, Frontier, relay.lost, Length)
      BY <1>3 DEF Steps1
    <2>4. br.feed.open = "open"
      BY <1>1, <2>3 DEF FeedInStep
    <2> QED BY <2>2, <2>3, <2>4
  <1>6. /\ g \in Feed /\ g.open = "open" /\ g.lost = br.feed.lost
        /\ FeedInStep(g, Frontier, relay.lost, Length)
        /\ n \in 0 .. Length - 1
        /\ g.queue # << >> /\ g.queue[1] # LAGGED => g.queue[1] = n + 1
        /\ g.queue = << >> /\ ~relay.lost => Frontier = n + 1
    <2> DEFINE fd == br.feed
    <2>1. /\ fd \in Feed /\ g = [fd EXCEPT !.queue = Tail(fd.queue)] /\ fd.queue # << >>
          /\ FeedInStep(fd, Frontier, relay.lost, Length)
      BY <1>1, <1>3, <1>5
    <2> HIDE DEF fd, g
    <2>2. Popped(fd, g, Frontier, relay.lost, Length)
      BY <1>3, <2>1, PopInStep
    <2> QED BY <1>1, <1>5, <2>2 DEF Popped, fd
  <1> HIDE DEF g, n
  <1>7. \A x \in Owed : x >= n
    <2>1. \A x \in Owed : ~(x < n)
      BY <1>1, <1>4, <1>5 DEF FeedCovers, Replaying, Receiving
    <2>2. n \in Int /\ Owed \subseteq Int
      BY <1>3, <1>6
    <2> QED BY <2>1, <2>2
  <1>8. CASE Stale(b, n)
    <2>1. Moved(b, rest) /\ UNCHANGED host
      BY <1>1, <1>8, <1>r
    <2>2. n <= br.tail
      BY <1>8 DEF Stale
    <2>3. /\ rest \in Bridge /\ rest.pc = "recv" /\ rest.feed = g /\ rest.tail = br.tail
          /\ rest.aborted = br.aborted /\ rest.sent = br.sent
      BY <1>1, <1>3, <1>6 DEF Bridge
    <2> HIDE DEF rest
    <2>4. Steps1(b, rest)
      BY <1>1, <1>3, <1>5, <1>6, <2>3 DEF Steps1
    <2>5. \A x \in Owed : ~(x < n + 1)
      BY <1>3, <1>4, <1>6, <2>2 DEF Reached
    <2>6. FeedCovers(rest, Frontier, relay.lost, Owed)
      BY <1>6, <2>3, <2>5 DEF FeedCovers
    <2>7. Sound(rest, Frontier, relay.lost, Owed, Length, seeds)
      BY <1>4, <2>3, <2>6 DEF Sound, Replaying
    <2> QED BY <1>2, <2>1, <2>4, <2>7, QuietMove
  <1>9. CASE ~Stale(b, n)
    <2> DEFINE r == [rest EXCEPT !.pc = "received", !.next = n]
    <2>1. ForwardEntry(b, r, n)
      BY <1>1, <1>9, <1>r
    <2>2. n > br.tail /\ n \in Nat /\ n < Length /\ n >= 1
      BY <1>3, <1>6, <1>9 DEF Stale
    <2>3. /\ r \in Bridge /\ r.pc = "received" /\ r.feed = g /\ r.tail = br.tail /\ r.next = n
          /\ r.aborted = br.aborted /\ r.sent = br.sent
      BY <1>3, <1>6, <2>2 DEF Bridge, Steps
    <2> HIDE DEF r
    <2>4. Steps1(b, r)
      BY <1>1, <1>3, <1>5, <1>6, <2>3 DEF Steps1, Idle
    <2>5. Reached(n, Owed, Length, seeds)
      <3>1. br.tail + 1 >= seeds
        BY <1>4 DEF Reached
      <3>2. n >= seeds /\ n <= Length
        BY <1>3, <2>2, <3>1
      <3> QED BY <1>7, <2>2, <3>2 DEF Reached
    <2>6. ASSUME NEW owed, owed \subseteq Owed, n \notin owed PROVE FeedCovers(r, Frontier, relay.lost, owed)
      <3>1. \A x \in owed : ~(x < n + 1)
        BY <1>3, <1>7, <2>2, <2>6
      <3> QED BY <1>6, <2>3, <3>1 DEF FeedCovers
    <2>7. br.tail < n
      BY <1>3, <2>2
    <2> QED BY <1>2, <1>4, <2>1, <2>2, <2>3, <2>4, <2>5, <2>6, <2>7, ForwardKeeps
  <1> QED BY <1>8, <1>9

LEMMA ResyncKeeps ==
  ASSUME IInv, NEW b \in Bridges, Resync(b)
  PROVE  IInv'
  <1> DEFINE br == bridges[b]
             q == br.feed.queue
             g == [br.feed EXCEPT !.queue = Tail(q)]
             m == br.tail + 1
             r == [br EXCEPT !.pc = "reading", !.stateOnly = TRUE, !.next = m, !.feed = g]
  <1>1. /\ br.pc = "recv" /\ ~br.feed.lost /\ q # << >> /\ UNCHANGED host
        /\ Moved(b, [br EXCEPT !.pc = "reading", !.stateOnly = TRUE, !.next = m, !.feed.queue = Tail(@)])
    BY DEF Resync
  <1>2. bridges[b].pc \notin Idle
    BY <1>1 DEF Idle
  <1>3. /\ br \in Bridge /\ br.feed \in Feed /\ Steps1(b, br)
        /\ br.tail \in Nat /\ br.next \in Nat /\ br.end \in Nat /\ br.sent \in Seq(Int)
        /\ Sound(br, Frontier, relay.lost, Owed, Length, seeds)
        /\ Length \in Nat /\ Frontier \in Int /\ Owed \subseteq Nat /\ seeds \in Nat
    BY <1>2, Running
  <1>r. Moved(b, r)
    <2>1. [br EXCEPT !.pc = "reading", !.stateOnly = TRUE, !.next = m, !.feed.queue = Tail(@)] = r
      BY <1>3 DEF Bridge, Feed
    <2> QED BY <1>1, <2>1
  <1>4. /\ InOrder(br.sent) /\ UpTo(br.sent, br.tail) /\ Reached(m, Owed, Length, seeds)
    BY <1>1, <1>2, <1>3 DEF Sound
  <1>5. /\ g \in Feed /\ g.open = br.feed.open /\ FeedInStep(g, Frontier, relay.lost, Length)
    <2>1. FeedInStep(br.feed, Frontier, relay.lost, Length)
      BY <1>3 DEF Steps1
    <2> DEFINE fd == br.feed
    <2>2. /\ fd \in Feed /\ g = [fd EXCEPT !.queue = Tail(fd.queue)] /\ fd.queue # << >>
          /\ FeedInStep(fd, Frontier, relay.lost, Length)
      BY <1>1, <1>3, <2>1
    <2> HIDE DEF fd, g
    <2>3. Popped(fd, g, Frontier, relay.lost, Length)
      BY <1>3, <2>2, PopInStep
    <2> QED BY <2>3 DEF Popped, fd
  <1>6. m \in Nat /\ br.tail < m
    BY <1>3
  <1> HIDE DEF g, m
  <1>7. /\ r \in Bridge /\ r.pc = "reading" /\ r.feed = g /\ r.tail = br.tail /\ r.next = m
        /\ r.aborted = br.aborted /\ r.sent = br.sent
    BY <1>3, <1>5, <1>6 DEF Bridge, Steps
  <1> HIDE DEF r
  <1>8. Steps1(b, r)
    BY <1>1, <1>3, <1>5, <1>7 DEF Steps1, Idle
  <1>9. Reached(r.tail + 1, Owed, Length, seeds)
    BY <1>4, <1>7 DEF m
  <1>10. FeedCovers(r, Frontier, relay.lost, Owed)
    BY <1>7 DEF FeedCovers, Replaying, Receiving
  <1>11. Sound(r, Frontier, relay.lost, Owed, Length, seeds)
    BY <1>4, <1>6, <1>7, <1>9, <1>10 DEF Sound, Replaying
  <1> QED BY <1>1, <1>r, <1>2, <1>8, <1>11, QuietMove

LEMMA NothingSent == InOrder(<< >>) /\ \A m : UpTo(<< >>, m)
  <1>1. DOMAIN << >> = {}
    OBVIOUS
  <1> QED BY <1>1 DEF InOrder, UpTo

LEMMA UnbornFacts ==
  /\ Unborn \in Bridge /\ Unborn.pc = "unborn" /\ Unborn.feed = NoReceiver /\ Unborn.tail = 0
  /\ Unborn.next = 0 /\ Unborn.end = 0 /\ Unborn.sent = << >> /\ Unborn.aborted = FALSE
  <1>1. NoReceiver \in Feed /\ << >> \in Seq(Int)
    BY EmptyReceivers
  <1> QED BY <1>1 DEF Unborn, Bridge, Steps

\* A record without a receiver is in step with any feed.
LEMMA DeafInStep ==
  ASSUME NEW f, NEW lag, NEW len
  PROVE  FeedInStep(NoReceiver, f, lag, len) /\ NoReceiver.open = "none"
  BY EmptyReceivers, EmptyInStep

LEMMA UnbornSound ==
  ASSUME NEW f, NEW lag, NEW owed, NEW len, NEW folded
  PROVE  Sound(Unborn, f, lag, owed, len, folded)
  <1>1. Unborn.pc \in Idle /\ InOrder(Unborn.sent) /\ UpTo(Unborn.sent, Unborn.tail)
    BY UnbornFacts, NothingSent DEF Idle
  <1> QED BY <1>1, SoundIdle

\* What an ended task leaves.
LEMMA EndedFacts ==
  ASSUME NEW br \in Bridge, br.pc \notin Idle,
         NEW f, NEW lag, NEW owed, NEW len, NEW folded, Sound(br, f, lag, owed, len, folded)
  PROVE  /\ Ended(br) \in Bridge /\ Ended(br).feed = NoReceiver /\ Ended(br).aborted = FALSE
         /\ br.aborted => Ended(br).pc = "unborn"
         /\ ~br.aborted => Ended(br).pc = "dead"
         /\ Sound(Ended(br), f, lag, owed, len, folded)
  <1>1. br.tail \in Nat /\ br.aborted \in BOOLEAN /\ Reached(br.tail + 1, owed, len, folded)
    BY DEF Bridge, Sound
  <1>2. CASE br.aborted
    <2>1. Ended(br) = Unborn
      BY <1>2 DEF Ended
    <2> QED BY <1>2, <2>1, UnbornFacts, UnbornSound
  <1>3. CASE ~br.aborted
    <2> DEFINE r == [Unborn EXCEPT !.pc = "dead", !.tail = br.tail]
    <2>1. Ended(br) = r
      BY <1>3 DEF Ended
    <2>2. /\ r \in Bridge /\ r.pc = "dead" /\ r.tail = br.tail /\ r.feed = NoReceiver /\ r.aborted = FALSE
          /\ r.sent = << >>
      BY <1>1, UnbornFacts DEF Bridge, Steps
    <2> HIDE DEF r
    <2>3. FeedCovers(r, f, lag, owed)
      BY <2>2 DEF FeedCovers, Replaying, Receiving
    <2>4. Sound(r, f, lag, owed, len, folded)
      BY <1>1, <2>2, <2>3, NothingSent DEF Sound, Replaying
    <2> QED BY <1>3, <2>1, <2>2, <2>4
  <1> QED BY <1>1, <1>2, <1>3

LEMMA EndsKeeps ==
  ASSUME IInv, NEW b \in Bridges, Exit(b) \/ Cancelled(b)
  PROVE  IInv'
  <1> DEFINE br == bridges[b]
             r == Ended(br)
  <1>1. br.pc \in {"spawned", "reading", "recv"} /\ Moved(b, r) /\ UNCHANGED host
    BY DEF Exit, Cancelled
  <1>2. bridges[b].pc \notin Idle
    BY <1>1 DEF Idle
  <1>3. /\ br \in Bridge /\ br.feed \in Feed /\ Steps1(b, br)
        /\ br.tail \in Nat /\ br.next \in Nat /\ br.end \in Nat /\ br.sent \in Seq(Int)
        /\ Sound(br, Frontier, relay.lost, Owed, Length, seeds)
        /\ Length \in Nat /\ Frontier \in Int /\ Owed \subseteq Nat /\ seeds \in Nat
    BY <1>2, Running
  <1> HIDE DEF r
  <1>4. /\ r \in Bridge /\ r.feed = NoReceiver /\ r.aborted = FALSE
        /\ br.aborted => r.pc = "unborn"
        /\ ~br.aborted => r.pc = "dead"
        /\ Sound(r, Frontier, relay.lost, Owed, Length, seeds)
    BY <1>2, <1>3, EndedFacts DEF r
  <1>5. br.aborted \in BOOLEAN
    BY <1>3 DEF Bridge
  <1>6. Steps1(b, r)
    <2>1. FeedInStep(r.feed, Frontier, relay.lost, Length) /\ r.feed.open = "none"
      BY <1>4, DeafInStep
    <2>2. r.pc \in {"unborn", "dead"} /\ (b = slot => r.pc = "dead")
      BY <1>3, <1>4, <1>5 DEF Steps1
    <2> QED BY <1>4, <2>1, <2>2 DEF Steps1, Idle
  <1> QED BY <1>1, <1>2, <1>4, <1>6, QuietMove

LEMMA BridgeStepKeeps ==
  ASSUME IInv, NEW b \in Bridges, BridgeStep(b)
  PROVE  IInv'
  BY SubscribeKeeps, ReplayReadKeeps, ReplayRowKeeps, ReplayAccountKeeps, ReplayEndKeeps, ReceiveKeeps,
     ReceiveAccountKeeps, ResyncKeeps, EndsKeeps DEF BridgeStep

-----------------------------------------------------------------------------
(* Starting a bridge.                                                       *)

LEMMA FreshIsUnused ==
  ASSUME Unused # {}
  PROVE  Fresh \in Bridges /\ bridges[Fresh].pc = "unborn"
  <1> DEFINE T == Unused
  <1>1. T \subseteq Nat /\ T # {}
    BY BoundsAssumption DEF Unused, Bridges
  <1> HIDE DEF T
  <1>2. {p \in Nat \X Nat : p[1] < p[2]} = OpToRel(<, Nat)
    BY Zenon DEF OpToRel
  <1> DEFINE R == {p \in Nat \X Nat : p[1] < p[2]}
  <1>3. PICK x \in T : \A y \in T : ~(<<y, x>> \in R)
    <2>1. IsWellFoundedOn(R, Nat)
      BY <1>2, NatLessThanWellFounded, Zenon
    <2> HIDE DEF R
    <2> QED BY <1>1, <2>1, WFMin
  <1>4. ASSUME NEW y \in T PROVE x <= y
    <2>1. x \in Nat /\ y \in Nat
      BY <1>1
    <2>2. <<y, x>> \in Nat \X Nat
      BY <2>1
    <2>3. ~(<<y, x>>[1] < <<y, x>>[2])
      BY <1>3, <2>2, Zenon
    <2>4. ~(y < x)
      BY <2>3
    <2> QED BY <2>1, <2>4
  <1>5. \E c \in Unused : \A d \in Unused : c <= d
    BY <1>4 DEF T
  <1>6. Fresh \in Unused
    BY <1>5 DEF Fresh
  <1> QED BY <1>6 DEF Unused

LEMMA SpawnedFacts ==
  ASSUME NEW feed \in Feed, NEW resume \in Int, NEW f, NEW lag, NEW owed, NEW len \in Nat, NEW folded,
         Reached(resume, owed, len, folded)
  PROVE  /\ Spawned(feed, resume) \in Bridge /\ Spawned(feed, resume).pc = "spawned"
         /\ Spawned(feed, resume).feed = feed /\ Spawned(feed, resume).aborted = FALSE
         /\ Sound(Spawned(feed, resume), f, lag, owed, len, folded)
  <1> DEFINE t == IF resume = 0 THEN 0 ELSE resume - 1
             r == [Unborn EXCEPT !.pc = "spawned", !.feed = feed, !.tail = t, !.next = resume]
  <1>1. resume >= 1
    BY DEF Reached
  <1>2. t = resume - 1 /\ t \in Nat /\ resume \in Nat /\ t + 1 = resume /\ t < resume
    BY <1>1
  <1>3. Spawned(feed, resume) = r
    BY DEF Spawned
  <1> HIDE DEF t
  <1>4. /\ r \in Bridge /\ r.pc = "spawned" /\ r.feed = feed /\ r.aborted = FALSE /\ r.tail = t
        /\ r.next = resume /\ r.sent = << >>
    BY <1>2, UnbornFacts DEF Bridge, Steps
  <1> HIDE DEF r
  <1>5. FeedCovers(r, f, lag, owed)
    BY <1>4 DEF FeedCovers, Replaying, Receiving
  <1>6. Reached(r.tail + 1, owed, len, folded)
    BY <1>2, <1>4
  <1>7. Sound(r, f, lag, owed, len, folded)
    BY <1>2, <1>4, <1>5, <1>6, NothingSent DEF Sound, Replaying
  <1> QED BY <1>3, <1>4, <1>7

LEMMA SupersededFacts ==
  ASSUME NEW br \in Bridge, br.pc \notin Idle,
         NEW f, NEW lag, NEW owed, NEW len, NEW folded, Sound(br, f, lag, owed, len, folded),
         FeedInStep(br.feed, f, lag, len)
  PROVE  /\ Superseded(br) \in Bridge /\ Superseded(br).pc # "held"
         /\ Superseded(br).feed.open = "open" => br.feed.open = "open"
         /\ Superseded(br).pc = "unborn" \/ Superseded(br).aborted
         /\ FeedInStep(Superseded(br).feed, f, lag, len)
         /\ Sound(Superseded(br), f, lag, owed, len, folded)
  <1>1. CASE br.pc = "dead"
    <2>1. Superseded(br) = Unborn
      BY <1>1 DEF Superseded
    <2> QED BY <2>1, UnbornFacts, UnbornSound, DeafInStep
  <1>2. CASE br.pc # "dead"
    <2> DEFINE r == [br EXCEPT !.aborted = TRUE]
    <2>1. Superseded(br) = r
      BY <1>2 DEF Superseded
    <2>2. /\ r \in Bridge /\ r.pc = br.pc /\ r.feed = br.feed /\ r.aborted = TRUE /\ r.tail = br.tail
          /\ r.next = br.next /\ r.end = br.end /\ r.sent = br.sent
      BY DEF Bridge
    <2> HIDE DEF r
    <2>3. FeedCovers(br, f, lag, owed) => FeedCovers(r, f, lag, owed)
      BY <2>2 DEF FeedCovers
    <2>4. Sound(r, f, lag, owed, len, folded)
      BY <2>2, <2>3 DEF Sound
    <2> QED BY <2>1, <2>2, <2>4 DEF Idle
  <1> QED BY <1>1, <1>2

\* The bridges after a step that started one in the record b, or found one alive.
Started(b, owed, folded) ==
  /\ bridges' \in [Bridges -> Bridge] /\ slot' \in 0 .. MaxBridges
  /\ slot' # 0 => bridges'[slot'].pc \notin Idle /\ ~bridges'[slot'].aborted
  /\ \A c \in Bridges :
       bridges'[c].pc \notin {"unborn", "held", "dead"} /\ ~bridges'[c].aborted => c = slot'
  /\ \A c \in Bridges :
       /\ bridges'[c].pc = "held" <=> c # b /\ bridges[c].pc = "held"
       /\ bridges'[c].feed.open = "open" => thread = "live"
       /\ FeedInStep(bridges'[c].feed, Frontier, relay.lost, Length)
       /\ Sound(bridges'[c], Frontier, relay.lost, owed, Length, folded)

LEMMA StartCases ==
  ASSUME NEW b, NEW feed, NEW resume, NEW rows1, StartBridgeWithFeed(b, feed, resume, rows1)
  PROVE  IF (resume = -1 /\ Alive) \/ (feed = NoReceiver /\ thread = "cold")
         THEN bridges' = [bridges EXCEPT ![b] = Unborn] /\ slot' = slot
         ELSE LET from == IF resume = -1 THEN ResumePoint(rows1) ELSE resume IN
              /\ slot' = b
              /\ bridges' = [c \in Bridges |->
                   IF c = b THEN Spawned(feed, from)
                   ELSE IF c = slot THEN Superseded(bridges[c]) ELSE bridges[c]]
  BY DEF StartBridgeWithFeed

LEMMA StartKeeps ==
  ASSUME Typed, FeedsLive, FeedsInStep, SlotHoldsIt,
         NEW b \in Bridges, bridges[b].pc \in Idle, NEW feed \in Feed, NEW resume \in Int,
         NEW rows1 \in Nat, NEW owed, NEW folded,
         feed.open = "open" => thread = "live",
         FeedInStep(feed, Frontier, relay.lost, Length),
         \A c \in Bridges : c # b => Sound(bridges[c], Frontier, relay.lost, owed, Length, folded),
         slot = 0 => Reached(FirstBridgeResume(rows1), owed, Length, folded),
         resume # -1 => Reached(resume, owed, Length, folded),
         StartBridgeWithFeed(b, feed, resume, rows1)
  PROVE  Started(b, owed, folded)
  <1>1. /\ bridges \in [Bridges -> Bridge] /\ slot \in 0 .. MaxBridges /\ Length \in Nat
        /\ MaxBridges \in Nat /\ b \in 1 .. MaxBridges /\ Bridges = 1 .. MaxBridges
    BY OwedRows, BoundsAssumption DEF Typed, Bridges
  <1>2. b # slot
    BY <1>1 DEF SlotHoldsIt
  <1>3. slot # 0 => /\ slot \in Bridges /\ bridges[slot] \in Bridge /\ bridges[slot].pc \notin Idle
                    /\ bridges[slot].tail \in Nat
                    /\ Sound(bridges[slot], Frontier, relay.lost, owed, Length, folded)
    BY <1>1, <1>2 DEF SlotHoldsIt, Bridge
  <1>4. CASE (resume = -1 /\ Alive) \/ (feed = NoReceiver /\ thread = "cold")
    <2>1. bridges' = [bridges EXCEPT ![b] = Unborn] /\ slot' = slot
      BY <1>4 DEF StartBridgeWithFeed
    <2>2. bridges'[b] = Unborn /\ \A c \in Bridges : c # b => bridges'[c] = bridges[c]
      BY <1>1, <2>1
    <2>3. bridges' \in [Bridges -> Bridge]
      BY <1>1, <2>1, UnbornFacts
    <2>4. slot' # 0 => bridges'[slot'].pc \notin Idle /\ ~bridges'[slot'].aborted
      BY <1>2, <1>3, <2>1, <2>2 DEF SlotHoldsIt
    <2>5. ASSUME NEW c \in Bridges
          PROVE  /\ bridges'[c].pc \notin {"unborn", "held", "dead"} /\ ~bridges'[c].aborted => c = slot'
                 /\ bridges'[c].pc = "held" <=> c # b /\ bridges[c].pc = "held"
                 /\ bridges'[c].feed.open = "open" => thread = "live"
                 /\ FeedInStep(bridges'[c].feed, Frontier, relay.lost, Length)
                 /\ Sound(bridges'[c], Frontier, relay.lost, owed, Length, folded)
      <3>1. CASE c = b
        BY <2>2, <3>1, UnbornFacts, UnbornSound, DeafInStep
      <3>2. CASE c # b
        BY <2>1, <2>2, <3>2 DEF SlotHoldsIt, FeedsLive, FeedsInStep
      <3> QED BY <3>1, <3>2
    <2> QED BY <1>1, <2>1, <2>3, <2>4, <2>5 DEF Started
  <1>5. CASE ~((resume = -1 /\ Alive) \/ (feed = NoReceiver /\ thread = "cold"))
    <2> DEFINE from == IF resume = -1 THEN ResumePoint(rows1) ELSE resume
               new == Spawned(feed, from)
    <2>1. /\ slot' = b
          /\ bridges' = [c \in Bridges |->
               IF c = b THEN new ELSE IF c = slot THEN Superseded(bridges[c]) ELSE bridges[c]]
      BY <1>5, StartCases
    <2> HIDE DEF new
    <2>4. /\ bridges'[b] = new
          /\ slot # 0 => bridges'[slot] = Superseded(bridges[slot])
          /\ \A c \in Bridges : c # b /\ c # slot => bridges'[c] = bridges[c]
      BY <1>2, <1>3, <2>1
    <2>2. from \in Int /\ Reached(from, owed, Length, folded)
      <3>1. CASE resume # -1
        BY <3>1
      <3>2. CASE resume = -1 /\ slot = 0
        BY <3>2 DEF ResumePoint, FirstBridgeResume, CursorOf
      <3>3. CASE resume = -1 /\ slot # 0
        <4>1. from = bridges[slot].tail + 1
          BY <3>3 DEF ResumePoint, AboveWatermark
        <4> QED BY <1>3, <3>3, <4>1 DEF Sound
      <3> QED BY <3>1, <3>2, <3>3
    <2> HIDE DEF from
    <2>3. /\ new \in Bridge /\ new.pc = "spawned" /\ new.feed = feed /\ new.aborted = FALSE
          /\ Sound(new, Frontier, relay.lost, owed, Length, folded)
      BY <1>1, <2>2, SpawnedFacts DEF new
    <2>5. slot # 0 =>
            LET r == Superseded(bridges[slot]) IN
              /\ r \in Bridge /\ r.pc # "held"
              /\ r.feed.open = "open" => thread = "live"
              /\ r.pc = "unborn" \/ r.aborted
              /\ FeedInStep(r.feed, Frontier, relay.lost, Length)
              /\ Sound(r, Frontier, relay.lost, owed, Length, folded)
      <3>1. slot # 0 => /\ FeedInStep(bridges[slot].feed, Frontier, relay.lost, Length)
                        /\ bridges[slot].feed.open = "open" => thread = "live"
        BY <1>3 DEF FeedsLive, FeedsInStep
      <3> QED BY <1>3, <3>1, SupersededFacts
    <2>6. ASSUME NEW c \in Bridges
          PROVE  /\ bridges'[c] \in Bridge
                 /\ bridges'[c].pc \notin {"unborn", "held", "dead"} /\ ~bridges'[c].aborted => c = slot'
                 /\ bridges'[c].pc = "held" <=> c # b /\ bridges[c].pc = "held"
                 /\ bridges'[c].feed.open = "open" => thread = "live"
                 /\ FeedInStep(bridges'[c].feed, Frontier, relay.lost, Length)
                 /\ Sound(bridges'[c], Frontier, relay.lost, owed, Length, folded)
      <3>1. CASE c = b
        BY <2>1, <2>3, <2>4, <3>1
      <3>2. CASE c # b /\ c # slot
        BY <1>1, <2>4, <3>2 DEF SlotHoldsIt, FeedsLive, FeedsInStep
      <3>3. CASE c # b /\ c = slot
        <4>1. c # 0 /\ slot # 0
          BY <1>1, <3>3
        <4>2. bridges'[c] = Superseded(bridges[slot]) /\ bridges[c].pc # "held"
          BY <1>3, <2>4, <3>3, <4>1 DEF Idle
        <4> QED BY <2>5, <4>1, <4>2
      <3> QED BY <3>1, <3>2, <3>3
    <2>7. bridges' \in [Bridges -> Bridge]
      BY <2>1, <2>6
    <2>8. slot' \in 0 .. MaxBridges /\ bridges'[slot'].pc \notin Idle /\ ~bridges'[slot'].aborted
      BY <1>1, <2>1, <2>3, <2>4 DEF Idle
    <2> QED BY <2>6, <2>7, <2>8 DEF Started
  <1> QED BY <1>4, <1>5

-----------------------------------------------------------------------------
(* The journal and the relay stand still: seeding and commands.             *)

LEMMA Still ==
  ASSUME UNCHANGED engine
  PROVE  /\ UNCHANGED <<journal, deferred, volatile, thread, relay>>
         /\ Length' = Length /\ Frontier' = Frontier
  BY DEF engine, Length, Frontier

\* A step that starts a bridge, seeds and rows that are owed as they were.
LEMMA StartedKeeps ==
  ASSUME IInv, NEW b \in Bridges, bridges[b].pc = "unborn", Started(b, Owed, seeds),
         seeder.pc \notin {"idle", "reading", "folded"}, UNCHANGED <<engine, seeder, seeds, host>>,
         ensures' \in Nat,
         submits' \in [Submits -> [pc : {"idle", "submitted", "taken", "done"}, resume : Int]],
         \A s \in Submits : ResumeSound(submits'[s], Owed, Length, seeds)
  PROVE  IInv'
  <1>1. /\ UNCHANGED <<journal, deferred, volatile, thread, relay, seeder, seeds, forwarded>>
        /\ Length' = Length /\ Frontier' = Frontier
    BY Still DEF host
  <1>2. Owed' = Owed
    BY <1>1, OwedSame
  <1>3. Typed'
    BY <1>1 DEF IInv, Typed, Started
  <1>4. RelayInStep' /\ (thread = "live" <=> relay.open = "open")'
    BY <1>1 DEF IInv, RelayInStep
  <1>5. FeedsLive'
    BY <1>1 DEF FeedsLive, Started
  <1>6. FeedsInStep'
    BY <1>1 DEF FeedsInStep, Started
  <1>7. Phases'
    <2>1. \A c \in Bridges : bridges'[c].pc # "held"
      BY DEF IInv, Phases, Started
    <2> QED BY <1>1, <2>1 DEF IInv, Phases
  <1>8. SlotHoldsIt'
    BY DEF SlotHoldsIt, Started
  <1>9. BridgesSound'
    BY <1>1, <1>2 DEF BridgesSound, Started
  <1>10. ResumesSound'
    BY <1>1, <1>2 DEF ResumesSound
  <1>11. FoldedNotForwarded'
    BY <1>1 DEF IInv, FoldedNotForwarded
  <1> QED BY <1>3, <1>4, <1>5, <1>6, <1>7, <1>8, <1>9, <1>10, <1>11 DEF IInv

\* What first_bridge_resume derives from a seed.
LEMMA FirstReached ==
  ASSUME NEW rows1 \in Nat, NEW len \in Nat, rows1 <= len, NEW owed, owed \subseteq Nat,
         \A n \in owed : ~(n < rows1) /\ ~(n = 0 /\ rows1 = 0)
  PROVE  Reached(FirstBridgeResume(rows1), owed, len, rows1)
  BY DEF Reached, FirstBridgeResume, CursorOf

LEMMA OwedAboveSeed ==
  ASSUME Typed
  PROVE  \A n \in Owed : ~(n < seeds) /\ ~(n = 0 /\ seeds = 0)
  BY DEF Owed, Served, Recoverable

\* A command starts a bridge without a receiver of its own.
LEMMA CommandStarts ==
  ASSUME IInv, Unused # {}, seeder.pc \notin {"idle", "reading", "folded"}, NEW resume \in Int,
         resume # -1 => Reached(resume, Owed, Length, seeds),
         StartBridgeWithFeed(Fresh, NoReceiver, resume, seeds)
  PROVE  Started(Fresh, Owed, seeds)
  <1>1. Fresh \in Bridges /\ bridges[Fresh].pc \in Idle
    BY FreshIsUnused DEF Idle
  <1>2. /\ Typed /\ FeedsLive /\ FeedsInStep /\ SlotHoldsIt
        /\ \A c \in Bridges : Sound(bridges[c], Frontier, relay.lost, Owed, Length, seeds)
    BY DEF IInv, BridgesSound
  <1>3. Length \in Nat /\ Owed \subseteq Nat
    BY <1>2, OwedRows
  <1>4. seeds \in Nat /\ seeds <= Length
    BY <1>3 DEF IInv, Phases
  <1>5. Reached(FirstBridgeResume(seeds), Owed, Length, seeds)
    BY <1>2, <1>3, <1>4, OwedAboveSeed, FirstReached
  <1>6. /\ NoReceiver \in Feed /\ NoReceiver.open # "open"
        /\ FeedInStep(NoReceiver, Frontier, relay.lost, Length)
    BY EmptyReceivers, DeafInStep
  <1> DEFINE b == Fresh
             s == seeds
             feed == NoReceiver
  <1> HIDE DEF b, s, feed
  <1>7. StartBridgeWithFeed(b, feed, resume, s) /\ b \in Bridges /\ bridges[b].pc \in Idle
    BY <1>1 DEF b, s, feed
  <1>8. Started(b, Owed, s)
    BY <1>2, <1>4, <1>5, <1>6, <1>7, StartKeeps DEF s, feed
  <1> QED BY <1>8 DEF b, s

LEMMA EnsureBridgeKeeps ==
  ASSUME IInv, EnsureBridge
  PROVE  IInv'
  <1>1. /\ seeder.pc = "done" /\ Unused # {} /\ StartBridgeWithFeed(Fresh, NoReceiver, -1, seeds)
        /\ ensures > 0 /\ ensures' = ensures - 1 /\ UNCHANGED <<engine, seeder, seeds, host, submits>>
    BY DEF EnsureBridge
  <1>2. Started(Fresh, Owed, seeds)
    <2>1. -1 \in Int
      OBVIOUS
    <2> QED BY <1>1, <2>1, CommandStarts
  <1>3. Fresh \in Bridges /\ bridges[Fresh].pc = "unborn"
    BY <1>1, FreshIsUnused
  <1>4. ensures' \in Nat
    BY <1>1 DEF IInv, Typed
  <1>5. /\ submits' \in [Submits -> [pc : {"idle", "submitted", "taken", "done"}, resume : Int]]
        /\ \A s \in Submits : ResumeSound(submits'[s], Owed, Length, seeds)
    BY <1>1 DEF IInv, Typed, ResumesSound
  <1> QED BY <1>1, <1>2, <1>3, <1>4, <1>5, StartedKeeps

LEMMA RestartBridgeKeeps ==
  ASSUME IInv, NEW s \in Submits, RestartBridge(s)
  PROVE  IInv'
  <1>1. /\ submits[s].pc = "taken" /\ Unused # {}
        /\ StartBridgeWithFeed(Fresh, NoReceiver, submits[s].resume, seeds)
        /\ submits' = [submits EXCEPT ![s] = [pc |-> "done", resume |-> -1]]
        /\ UNCHANGED <<engine, seeder, seeds, host, ensures>>
    BY DEF RestartBridge
  <1>2. /\ submits \in [Submits -> [pc : {"idle", "submitted", "taken", "done"}, resume : Int]]
        /\ \A t \in Submits : ResumeSound(submits[t], Owed, Length, seeds)
        /\ ensures' \in Nat
    BY <1>1 DEF IInv, Typed, ResumesSound
  <1>3. seeder.pc \notin {"idle", "reading", "folded"}
    BY <1>1 DEF IInv, Phases
  <1>4. submits[s].resume \in Int /\ (submits[s].resume # -1 => Reached(submits[s].resume, Owed, Length, seeds))
    BY <1>1, <1>2 DEF ResumeSound
  <1>5. Started(Fresh, Owed, seeds)
    BY <1>1, <1>3, <1>4, CommandStarts
  <1>6. Fresh \in Bridges /\ bridges[Fresh].pc = "unborn"
    BY <1>1, FreshIsUnused
  <1>7. /\ submits' \in [Submits -> [pc : {"idle", "submitted", "taken", "done"}, resume : Int]]
        /\ \A t \in Submits : ResumeSound(submits'[t], Owed, Length, seeds)
    <2>1. /\ submits' \in [Submits -> [pc : {"idle", "submitted", "taken", "done"}, resume : Int]]
          /\ submits'[s].pc = "done" /\ \A t \in Submits : t # s => submits'[t] = submits[t]
      BY <1>1, <1>2
    <2> QED BY <1>2, <2>1 DEF ResumeSound
  <1> QED BY <1>1, <1>2, <1>3, <1>5, <1>6, <1>7, StartedKeeps

LEMMA TakeBridgeKeeps ==
  ASSUME IInv, NEW s \in Submits, TakeBridge(s)
  PROVE  IInv'
  <1> DEFINE from == IF slot = 0 THEN -1 ELSE AboveWatermark
  <1>1. /\ submits[s].pc = "submitted"
        /\ submits' = [submits EXCEPT ![s] = [pc |-> "taken", resume |-> from]]
        /\ slot = 0 => bridges' = bridges
        /\ slot # 0 => bridges' = [bridges EXCEPT ![slot] = Superseded(bridges[slot])]
        /\ slot' = 0 /\ UNCHANGED <<engine, seeder, seeds, host, ensures>>
    BY DEF TakeBridge
  <1>2. /\ UNCHANGED <<journal, deferred, volatile, thread, relay, seeder, seeds, forwarded, ensures>>
        /\ Length' = Length /\ Frontier' = Frontier
    BY <1>1, Still DEF host
  <1>3. Owed' = Owed
    BY <1>2, OwedSame
  <1>4. /\ bridges \in [Bridges -> Bridge] /\ slot \in 0 .. MaxBridges
        /\ submits \in [Submits -> [pc : {"idle", "submitted", "taken", "done"}, resume : Int]]
        /\ \A t \in Submits : ResumeSound(submits[t], Owed, Length, seeds)
        /\ \A c \in Bridges : /\ Sound(bridges[c], Frontier, relay.lost, Owed, Length, seeds)
                              /\ FeedInStep(bridges[c].feed, Frontier, relay.lost, Length)
                              /\ bridges[c].feed.open = "open" => thread = "live"
    BY DEF IInv, Typed, ResumesSound, BridgesSound, FeedsInStep, FeedsLive
  <1>5. seeder.pc \notin {"idle", "reading", "folded"}
    BY <1>1 DEF IInv, Phases
  <1>6. slot # 0 => slot \in Bridges /\ bridges[slot] \in Bridge /\ bridges[slot].pc \notin Idle
    <2>1. slot # 0 => slot \in Bridges
      BY <1>4, BoundsAssumption DEF Bridges
    <2> QED BY <1>4, <2>1 DEF IInv, SlotHoldsIt
  <1>7. slot # 0 =>
          LET r == Superseded(bridges[slot]) IN
            /\ r \in Bridge /\ r.pc # "held"
            /\ r.feed.open = "open" => thread = "live"
            /\ r.pc = "unborn" \/ r.aborted
            /\ FeedInStep(r.feed, Frontier, relay.lost, Length)
            /\ Sound(r, Frontier, relay.lost, Owed, Length, seeds)
    BY <1>4, <1>6, SupersededFacts
  <1>8. /\ slot # 0 => bridges'[slot] = Superseded(bridges[slot])
        /\ \A c \in Bridges : c # slot => bridges'[c] = bridges[c]
        /\ DOMAIN bridges' = Bridges /\ bridges' = [c \in Bridges |-> bridges'[c]]
    BY <1>1, <1>4, <1>6
  <1>9. ASSUME NEW c \in Bridges
        PROVE  /\ bridges'[c] \in Bridge
               /\ bridges'[c].pc \in {"unborn", "held", "dead"} \/ bridges'[c].aborted
               /\ bridges'[c].pc # "held"
               /\ bridges'[c].feed.open = "open" => thread = "live"
               /\ FeedInStep(bridges'[c].feed, Frontier, relay.lost, Length)
               /\ Sound(bridges'[c], Frontier, relay.lost, Owed, Length, seeds)
    <2>1. CASE c = slot
      <3>1. slot # 0
        BY <2>1, BoundsAssumption DEF Bridges
      <3>2. bridges'[c] = Superseded(bridges[slot])
        BY <1>8, <2>1, <3>1
      <3> QED BY <1>7, <3>1, <3>2
    <2>2. CASE c # slot
      <3>1. bridges'[c] = bridges[c] /\ bridges[c] \in Bridge /\ bridges[c].aborted \in BOOLEAN
        BY <1>4, <1>8, <2>2 DEF Bridge
      <3>2. bridges[c].pc # "held"
        BY <1>5 DEF IInv, Phases
      <3>3. bridges[c].pc \in {"unborn", "held", "dead"} \/ bridges[c].aborted
        BY <2>2 DEF IInv, SlotHoldsIt
      <3> QED BY <1>4, <3>1, <3>2, <3>3
    <2> QED BY <2>1, <2>2
  <1>10. from \in Int /\ (from # -1 => Reached(from, Owed, Length, seeds))
    <2>1. CASE slot = 0
      BY <2>1
    <2>2. CASE slot # 0
      <3>1. bridges[slot].tail \in Nat /\ Reached(bridges[slot].tail + 1, Owed, Length, seeds)
        BY <1>4, <1>6, <2>2 DEF Bridge, Sound
      <3> QED BY <2>2, <3>1 DEF AboveWatermark
    <2> QED BY <2>1, <2>2
  <1> HIDE DEF from
  <1>11. /\ submits' \in [Submits -> [pc : {"idle", "submitted", "taken", "done"}, resume : Int]]
         /\ \A t \in Submits : ResumeSound(submits'[t], Owed, Length, seeds)
    <2>1. /\ submits' \in [Submits -> [pc : {"idle", "submitted", "taken", "done"}, resume : Int]]
          /\ submits'[s].resume = from /\ \A t \in Submits : t # s => submits'[t] = submits[t]
      BY <1>1, <1>4, <1>10
    <2> QED BY <1>4, <1>10, <2>1 DEF ResumeSound
  <1>12. Typed'
    <2>1. bridges' \in [Bridges -> Bridge]
      <3>1. CASE slot = 0
        BY <1>1, <1>4, <3>1
      <3>2. CASE slot # 0
        <4> DEFINE r == Superseded(bridges[slot])
        <4>1. r \in Bridge /\ bridges' = [bridges EXCEPT ![slot] = r]
          BY <1>1, <1>7, <3>2
        <4> HIDE DEF r
        <4> QED BY <1>4, <4>1
      <3> QED BY <3>1, <3>2
    <2>2. slot' \in 0 .. MaxBridges
      BY <1>1, BoundsAssumption
    <2> QED BY <1>2, <1>11, <2>1, <2>2 DEF IInv, Typed
  <1>13. RelayInStep' /\ (thread = "live" <=> relay.open = "open")'
    BY <1>2 DEF IInv, RelayInStep
  <1>14. FeedsLive' /\ FeedsInStep' /\ BridgesSound' /\ ResumesSound'
    BY <1>2, <1>3, <1>9, <1>11 DEF FeedsLive, FeedsInStep, BridgesSound, ResumesSound
  <1>15. Phases'
    BY <1>2, <1>5, <1>9 DEF IInv, Phases
  <1>16. SlotHoldsIt'
    BY <1>1, <1>9 DEF SlotHoldsIt
  <1>17. FoldedNotForwarded'
    BY <1>2 DEF IInv, FoldedNotForwarded
  <1> QED BY <1>12, <1>13, <1>14, <1>15, <1>16, <1>17 DEF IInv

-----------------------------------------------------------------------------
(* The journal and the relay stand still: the seed.                         *)

LEMMA SeedSubscribeKeeps ==
  ASSUME IInv, SeedSubscribe
  PROVE  IInv'
  <1> DEFINE b == Fresh
             r == [Unborn EXCEPT !.pc = "held", !.feed = Subscription]
  <1>1. /\ seeder.pc = "idle" /\ seeder' = [seeder EXCEPT !.pc = "reading"]
        /\ Unused # {} /\ bridges' = [bridges EXCEPT ![b] = r]
        /\ UNCHANGED <<engine, seeds, host, slot, submits, ensures>>
    BY DEF SeedSubscribe
  <1>2. /\ UNCHANGED <<journal, deferred, volatile, thread, relay, seeds, forwarded, slot, submits, ensures>>
        /\ Length' = Length /\ Frontier' = Frontier
    BY <1>1, Still DEF host
  <1>3. Owed' = Owed
    BY <1>2, OwedSame
  <1>4. b \in Bridges
    BY <1>1, FreshIsUnused
  <1>5. /\ r \in Bridge /\ r.pc = "held" /\ r.feed = Subscription /\ r.sent = << >>
    <2>1. Subscription \in Feed
      BY Subscribed
    <2> QED BY <2>1, UnbornFacts DEF Bridge, Steps
  <1>6. /\ r.feed.open = "open" => thread = "live"
        /\ FeedInStep(r.feed, Frontier, relay.lost, Length)
        /\ Sound(r, Frontier, relay.lost, Owed, Length, seeds)
    <2>1. r.pc \in Idle /\ InOrder(r.sent) /\ UpTo(r.sent, r.tail)
      BY <1>5, NothingSent DEF Idle
    <2>2. Sound(r, Frontier, relay.lost, Owed, Length, seeds)
      BY <2>1, SoundIdle
    <2> QED BY <1>5, <2>2, Subscribed
  <1> HIDE DEF b, r
  <1>7. /\ bridges' \in [Bridges -> Bridge] /\ bridges'[b] = r
        /\ \A c \in Bridges : c # b => bridges'[c] = bridges[c]
    BY <1>1, <1>4, <1>5 DEF IInv, Typed
  <1>8. /\ seeder'.pc = "reading" /\ seeder'.rows = seeder.rows
        /\ seeder' \in [pc : {"idle", "reading", "folded", "returned", "done"}, rows : Nat]
    BY <1>1 DEF IInv, Typed
  <1>9. Typed'
    BY <1>2, <1>7, <1>8 DEF IInv, Typed
  <1>10. RelayInStep' /\ (thread = "live" <=> relay.open = "open")'
    BY <1>2 DEF IInv, RelayInStep
  <1>11. FeedsLive' /\ FeedsInStep' /\ BridgesSound'
    BY <1>2, <1>3, <1>6, <1>7 DEF IInv, FeedsLive, FeedsInStep, BridgesSound
  <1>12. ResumesSound' /\ FoldedNotForwarded'
    BY <1>2, <1>3 DEF IInv, ResumesSound, FoldedNotForwarded
  <1>13. Phases' /\ SlotHoldsIt'
    <2>1. /\ seeds = -1 /\ forwarded = {} /\ slot = 0 /\ seeder.rows <= Length
          /\ \A c \in Bridges : bridges[c].pc \in Idle /\ bridges[c].pc # "held"
          /\ \A s \in Submits : submits[s].pc = "idle"
      BY <1>1 DEF IInv, Phases
    <2>2. \A c \in Bridges : bridges'[c].pc \in Idle /\ (bridges'[c].pc = "held" <=> c = b)
      BY <1>5, <1>7, <2>1 DEF Idle
    <2>3. Phases'
      BY <1>2, <1>4, <1>8, <2>1, <2>2 DEF Phases
    <2>4. SlotHoldsIt'
      BY <1>2, <2>1, <2>2 DEF SlotHoldsIt, Idle
    <2> QED BY <2>3, <2>4
  <1> QED BY <1>9, <1>10, <1>11, <1>12, <1>13 DEF IInv

\* Only the step of the seed and the host's chat change.
LEMMA SeedMovesOn ==
  ASSUME IInv, UNCHANGED <<engine, seeds, forwarded, bridges, slot, submits, ensures>>,
         seeder' \in [pc : {"idle", "reading", "folded", "returned", "done"}, rows : Nat],
         seeder'.rows <= Length,
         \/ seeder.pc = "reading" /\ seeder'.pc = "folded"
         \/ seeder.pc = "returned" /\ seeder'.pc = "done"
  PROVE  IInv'
  <1>1. /\ UNCHANGED <<journal, deferred, volatile, thread, relay>>
        /\ Length' = Length /\ Frontier' = Frontier
    BY Still
  <1>2. Owed' = Owed
    BY <1>1, OwedSame
  <1>3. Typed'
    BY <1>1 DEF IInv, Typed
  <1>4. RelayInStep' /\ (thread = "live" <=> relay.open = "open")'
    BY <1>1 DEF IInv, RelayInStep
  <1>5. FeedsLive' /\ FeedsInStep' /\ BridgesSound' /\ ResumesSound'
    BY <1>1, <1>2 DEF IInv, FeedsLive, FeedsInStep, BridgesSound, ResumesSound
  <1>6. SlotHoldsIt' /\ FoldedNotForwarded'
    BY DEF IInv, SlotHoldsIt, FoldedNotForwarded
  <1>7. Phases'
    BY <1>1 DEF IInv, Phases
  <1> QED BY <1>3, <1>4, <1>5, <1>6, <1>7 DEF IInv

LEMMA SeedSnapshotKeeps ==
  ASSUME IInv, SeedSnapshot
  PROVE  IInv'
  <1> DEFINE n == IF bridges[Held].feed.open # "none" /\ thread = "live" THEN Len(journal) ELSE OnDisk
  <1>1. Length \in Nat
    BY OwedRows DEF IInv
  <1>2. n \in Nat /\ n <= Length
    BY <1>1 DEF OnDisk, Length
  <1>3. /\ seeder.pc = "reading" /\ seeder' = [seeder EXCEPT !.pc = "folded", !.rows = n]
        /\ UNCHANGED <<engine, seeds, host, bridges, slot, submits, ensures>>
    BY DEF SeedSnapshot
  <1> HIDE DEF n
  <1>4. /\ seeder' \in [pc : {"idle", "reading", "folded", "returned", "done"}, rows : Nat]
        /\ seeder'.pc = "folded" /\ seeder'.rows = n
    BY <1>2, <1>3 DEF IInv, Typed
  <1>5. forwarded' = forwarded
    BY <1>3 DEF host
  <1> QED BY <1>2, <1>3, <1>4, <1>5, SeedMovesOn

LEMMA EnsureSessionKeeps ==
  ASSUME IInv, EnsureSession
  PROVE  IInv'
  <1>1. /\ seeder.pc = "returned" /\ seeder' = [seeder EXCEPT !.pc = "done"]
        /\ UNCHANGED <<engine, seeds, forwarded, bridges, slot, submits, ensures>>
    BY DEF EnsureSession
  <1>2. /\ seeder' \in [pc : {"idle", "reading", "folded", "returned", "done"}, rows : Nat]
        /\ seeder'.pc = "done" /\ seeder'.rows = seeder.rows /\ seeder.rows <= Length
    BY <1>1 DEF IInv, Typed, Phases
  <1> QED BY <1>1, <1>2, SeedMovesOn

\* The seed is installed: its rows are owed to nobody any more, and the held
\* receiver becomes the feed of the first bridge.
LEMMA SeedInstallKeeps ==
  ASSUME IInv, SeedInstall
  PROVE  IInv'
  <1> DEFINE n == seeder.rows
             b == Held
             feed == bridges[b].feed
             owed == Owed'
  <1>1. /\ seeder.pc = "folded" /\ seeder' = [seeder EXCEPT !.pc = "returned"]
        /\ seeds' = n /\ forwarded' = forwarded
        /\ StartBridgeWithFeed(b, feed, -1, n)
        /\ UNCHANGED <<engine, submits, ensures>>
    BY DEF SeedInstall
  <1>2. /\ UNCHANGED <<journal, deferred, volatile, thread, relay>>
        /\ Length' = Length /\ Frontier' = Frontier
    BY <1>1, Still
  <1>3. /\ Typed /\ FeedsLive /\ FeedsInStep /\ SlotHoldsIt /\ Phases /\ BridgesSound /\ RelayInStep
        /\ thread = "live" <=> relay.open = "open"
    BY DEF IInv
  <1>4. n \in Nat /\ Length \in Nat /\ n <= Length
    BY <1>3, OwedRows DEF Typed, Phases
  <1>5. /\ seeds = -1 /\ forwarded = {} /\ slot = 0
        /\ \A c \in Bridges : bridges[c].pc \in Idle
        /\ \A s \in Submits : submits[s].pc = "idle"
    BY <1>1, <1>3 DEF Phases
  <1>6. b \in Bridges /\ \A c \in Bridges : bridges[c].pc = "held" <=> c = b
    <2>1. PICK h \in Bridges : \A c \in Bridges : bridges[c].pc = "held" <=> c = h
      BY <1>1, <1>3 DEF Phases
    <2>2. Held \in Bridges /\ bridges[Held].pc = "held"
      BY <2>1 DEF Held
    <2> QED BY <2>1, <2>2
  <1>7. owed \subseteq Nat /\ \A x \in owed : ~(x < n) /\ ~(x = 0 /\ n = 0)
    <2>1. owed \subseteq 0 .. Length - 1 /\ \A x \in owed : ~(x < n) /\ ~(x = 0 /\ n = 0)
      BY <1>1, <1>2 DEF Owed, Served, Recoverable
    <2> QED BY <1>4, <2>1
  <1>8. Reached(FirstBridgeResume(n), owed, Length, n)
    <2> HIDE DEF n, owed
    <2> QED BY <1>4, <1>7, FirstReached
  <1>9. /\ feed \in Feed
        /\ feed.open = "open" => thread = "live"
        /\ FeedInStep(feed, Frontier, relay.lost, Length)
    <2>1. bridges[b] \in Bridge
      BY <1>3, <1>6 DEF Typed
    <2> QED BY <1>3, <1>6, <2>1 DEF Bridge, FeedsLive, FeedsInStep
  <1>10. \A c \in Bridges : Sound(bridges[c], Frontier, relay.lost, owed, Length, n)
    <2>1. ASSUME NEW c \in Bridges PROVE InOrder(bridges[c].sent) /\ UpTo(bridges[c].sent, bridges[c].tail)
      <3>1. Sound(bridges[c], Frontier, relay.lost, Owed, Length, seeds)
        BY <1>3 DEF BridgesSound
      <3> QED BY <1>5, <3>1, SoundIsIdle
    <2> QED BY <1>5, <2>1, SoundIdle
  <1> HIDE DEF n, b, feed, owed
  <1>11. Started(b, owed, n)
    <2>1. -1 \in Int
      OBVIOUS
    <2>2. bridges[b].pc \in Idle
      BY <1>5, <1>6
    <2> QED BY <1>1, <1>3, <1>4, <1>6, <1>8, <1>9, <1>10, <2>1, <2>2, StartKeeps
  <1>12. /\ seeder'.pc = "returned" /\ seeder'.rows = seeder.rows
         /\ seeder' \in [pc : {"idle", "reading", "folded", "returned", "done"}, rows : Nat]
    BY <1>1, <1>3 DEF Typed
  <1>13. Typed'
    BY <1>1, <1>2, <1>3, <1>4, <1>11, <1>12 DEF Typed, Started
  <1>14. RelayInStep' /\ (thread = "live" <=> relay.open = "open")'
    BY <1>2, <1>3 DEF RelayInStep
  <1>15. FeedsLive' /\ FeedsInStep' /\ SlotHoldsIt'
    BY <1>2, <1>11 DEF FeedsLive, FeedsInStep, SlotHoldsIt, Started
  <1>16. BridgesSound'
    BY <1>1, <1>2, <1>11 DEF BridgesSound, Started, owed
  <1>17. ResumesSound' /\ FoldedNotForwarded'
    BY <1>1, <1>5 DEF ResumesSound, ResumeSound, FoldedNotForwarded
  <1>18. Phases'
    <2>1. \A c \in Bridges : bridges'[c].pc # "held"
      BY <1>6, <1>11 DEF Started
    <2>2. seeds' \in 0 .. Length /\ seeder'.rows <= Length
      BY <1>1, <1>4, <1>12 DEF n
    <2> QED BY <1>2, <1>12, <2>1, <2>2 DEF Phases
  <1> QED BY <1>13, <1>14, <1>15, <1>16, <1>17, <1>18 DEF IInv

-----------------------------------------------------------------------------
(* The engine.                                                              *)

\* A thread that gets an engine: its channel is empty, and no receiver is open.
LEMMA EngineKeeps ==
  ASSUME IInv, Engine, UNCHANGED <<rows, seeder, seeds, host, bridges, slot, ensures>>,
         submits' \in [Submits -> [pc : {"idle", "submitted", "taken", "done"}, resume : Int]],
         \A s \in Submits : ResumeSound(submits'[s], Owed, Length, seeds),
         seeder.pc \in {"idle", "reading", "folded"} => UNCHANGED submits
  PROVE  IInv'
  <1>1. UNCHANGED <<journal, deferred, volatile, seeder, seeds, forwarded, bridges, slot, ensures>>
    BY DEF rows, host
  <1>2. Length' = Length /\ Owed' = Owed
    BY <1>1, OwedSame DEF Length
  <1>3. /\ Typed /\ FeedsLive /\ FeedsInStep /\ SlotHoldsIt /\ Phases /\ BridgesSound /\ RelayInStep
        /\ FoldedNotForwarded /\ (thread = "live" <=> relay.open = "open")
    BY DEF IInv
  <1>4. /\ thread' = "live" /\ relay' \in Feed /\ relay'.open = "open"
        /\ thread = "live" => relay' = relay
        /\ thread # "live" => relay'.queue = << >> /\ relay'.lost = FALSE
    <2>1. OpenReceiver \in Feed /\ OpenReceiver.open = "open" /\ OpenReceiver.queue = << >> /\ OpenReceiver.lost = FALSE
      BY EmptyReceivers DEF OpenReceiver
    <2> QED BY <1>3, <2>1 DEF Engine, Typed
  <1>5. Typed'
    BY <1>1, <1>2, <1>3, <1>4 DEF Typed
  <1>6. RelayInStep' /\ (thread = "live" <=> relay.open = "open")'
    <2>1. Length \in Nat
      BY <1>3, OwedRows
    <2>2. CASE thread = "live"
      BY <1>2, <1>3, <1>4, <2>2 DEF RelayInStep
    <2>3. CASE thread # "live"
      BY <1>2, <1>4, <2>1, <2>3 DEF RelayInStep
    <2> QED BY <1>4, <2>2, <2>3
  <1>7. FeedsLive'
    BY <1>1, <1>4 DEF FeedsLive
  <1>8. FeedsInStep' /\ BridgesSound'
    <2>1. CASE thread = "live"
      <3>1. Frontier' = Frontier
        BY <1>2, <1>4, <2>1 DEF Frontier
      <3> QED BY <1>1, <1>2, <1>3, <1>4, <2>1, <3>1 DEF FeedsInStep, BridgesSound
    <2>2. CASE thread # "live"
      <3>1. ASSUME NEW c \in Bridges, NEW f, NEW lag
            PROVE  /\ FeedInStep(bridges[c].feed, f, lag, Length)
                   /\ Sound(bridges[c], f, lag, Owed, Length, seeds)
        <4>1. /\ bridges[c].feed.open # "open"
              /\ FeedInStep(bridges[c].feed, Frontier, relay.lost, Length)
              /\ Sound(bridges[c], Frontier, relay.lost, Owed, Length, seeds)
          BY <1>3, <2>2 DEF FeedsLive, FeedsInStep, BridgesSound
        <4>2. FeedInStep(bridges[c].feed, f, lag, Length)
          BY <4>1 DEF FeedInStep
        <4>3. Sound(bridges[c], f, lag, Owed, Length, seeds)
          BY <4>1 DEF Sound, FeedCovers
        <4> QED BY <4>2, <4>3
      <3> QED BY <1>1, <1>2, <3>1 DEF FeedsInStep, BridgesSound
    <2> QED BY <2>1, <2>2
  <1>9. ResumesSound' /\ FoldedNotForwarded' /\ SlotHoldsIt'
    BY <1>1, <1>2, <1>3 DEF ResumesSound, FoldedNotForwarded, SlotHoldsIt
  <1>10. Phases'
    BY <1>1, <1>2, <1>3 DEF Phases
  <1> QED BY <1>5, <1>6, <1>7, <1>8, <1>9, <1>10 DEF IInv

LEMMA OpenSessionKeeps ==
  ASSUME IInv, OpenSession
  PROVE  IInv'
  <1>1. Engine /\ UNCHANGED <<rows, seeder, seeds, host, bridges, slot, submits, ensures>>
    BY DEF OpenSession
  <1>2. /\ submits' \in [Submits -> [pc : {"idle", "submitted", "taken", "done"}, resume : Int]]
        /\ \A s \in Submits : ResumeSound(submits'[s], Owed, Length, seeds)
    BY <1>1 DEF IInv, Typed, ResumesSound
  <1> QED BY <1>1, <1>2, EngineKeeps

LEMMA SubmitKeeps ==
  ASSUME IInv, NEW s \in Submits, Submit(s)
  PROVE  IInv'
  <1>1. /\ Engine /\ seeder.pc = "done" /\ submits' = [submits EXCEPT ![s].pc = "submitted"]
        /\ UNCHANGED <<rows, seeder, seeds, host, bridges, slot, ensures>>
    BY DEF Submit
  <1>2. /\ submits \in [Submits -> [pc : {"idle", "submitted", "taken", "done"}, resume : Int]]
        /\ \A t \in Submits : ResumeSound(submits[t], Owed, Length, seeds)
    BY DEF IInv, Typed, ResumesSound
  <1>3. /\ submits' \in [Submits -> [pc : {"idle", "submitted", "taken", "done"}, resume : Int]]
        /\ submits'[s].pc = "submitted" /\ \A t \in Submits : t # s => submits'[t] = submits[t]
    BY <1>1, <1>2
  <1>4. \A t \in Submits : ResumeSound(submits'[t], Owed, Length, seeds)
    BY <1>2, <1>3 DEF ResumeSound
  <1> QED BY <1>1, <1>3, <1>4, EngineKeeps

\* The relay's own receiver after an append.
Relayed(feed, g, len) ==
  /\ g \in Feed /\ g.open = "open"
  /\ Len(g.queue) <= len + 1
  /\ \A i \in 1 .. Len(g.queue) : g.queue[i] = len + 1 - Len(g.queue) + i - 1
  /\ Appends(len - Len(feed.queue), feed.lost, len + 1 - Len(g.queue), g.lost)

LEMMA RelayAppend ==
  ASSUME NEW feed \in Feed, feed.open = "open", NEW len \in Nat, NEW window \in Nat \ {0},
         Len(feed.queue) <= len,
         \A i \in 1 .. Len(feed.queue) : feed.queue[i] = len - Len(feed.queue) + i - 1,
         NEW g, g = Push(feed, len, window)
  PROVE  Relayed(feed, g, len)
  <1> DEFINE q == feed.queue
  <1>1. q \in Seq(Int) /\ Len(q) \in Nat
    BY DEF Feed
  <1>2. len \in Int /\ g \in Feed
    BY PushTyped
  <1>3. CASE Len(q) < window
    <2> DEFINE r == Append(q, len)
    <2>1. g = [feed EXCEPT !.queue = r]
      BY <1>2, <1>3, PushCases
    <2>2. g.queue = r /\ g.open = "open" /\ g.lost = feed.lost
      BY <2>1 DEF Feed
    <2>3. /\ Len(r) = Len(q) + 1
          /\ \A i \in 1 .. Len(q) : r[i] = q[i]
          /\ r[Len(q) + 1] = len
      BY <1>1, <1>2, Longer
    <2>4. \A i \in 1 .. Len(q) : q[i] = len - Len(q) + i - 1
      OBVIOUS
    <2>5. Len(q) <= len
      OBVIOUS
    <2> HIDE DEF r, q
    <2>6. \A i \in 1 .. Len(r) : i \in 1 .. Len(q) \/ i = Len(q) + 1
      BY <1>1, <2>3
    <2>7. \A i \in 1 .. Len(r) : r[i] = len + 1 - Len(r) + i - 1
      BY <1>1, <2>3, <2>4, <2>6
    <2>8. Len(r) <= len + 1 /\ len + 1 - Len(r) = len - Len(q)
      BY <1>1, <2>3, <2>5
    <2> QED BY <1>2, <2>2, <2>7, <2>8 DEF Appends, Relayed, q
  <1>4. CASE ~(Len(q) < window)
    <2> DEFINE t == Tail(q)
               r == Append(t, len)
    <2>1. q # << >> /\ g = [feed EXCEPT !.queue = r, !.lost = TRUE]
      BY <1>2, <1>4, PushCases
    <2>2. g.queue = r /\ g.open = "open" /\ g.lost = TRUE
      BY <2>1 DEF Feed
    <2>3. /\ Len(q) >= 1 /\ t \in Seq(Int) /\ Len(t) = Len(q) - 1
          /\ \A i \in 1 .. Len(q) - 1 : t[i] = q[i + 1]
      BY <1>1, <2>1, Rest
    <2>4. \A i \in 1 .. Len(q) : q[i] = len - Len(q) + i - 1
      OBVIOUS
    <2>5. Len(q) <= len
      OBVIOUS
    <2> HIDE DEF t, q
    <2>6. /\ Len(t) \in Nat /\ Len(r) = Len(t) + 1
          /\ \A i \in 1 .. Len(t) : r[i] = t[i]
          /\ r[Len(t) + 1] = len
      BY <1>2, <2>3, Longer
    <2> HIDE DEF r
    <2>7. Len(r) = Len(q) /\ \A i \in 1 .. Len(r) : i = Len(q) \/ (i \in 1 .. Len(q) - 1 /\ i + 1 \in 1 .. Len(q))
      <3>1. Len(r) = Len(q)
        <4>1. Len(t) = Len(q) - 1 /\ Len(r) = Len(t) + 1 /\ Len(q) \in Nat
          BY <1>1, <2>3, <2>6
        <4> QED BY <4>1
      <3>2. Len(q) \in Nat /\ Len(q) >= 1
        BY <1>1, <2>3
      <3> QED BY <3>1, <3>2
    <2>8. ASSUME NEW i \in 1 .. Len(r) PROVE r[i] = len + 1 - Len(r) + i - 1
      <3>1. CASE i = Len(q)
        BY <1>1, <2>3, <2>6, <2>7, <3>1
      <3>2. CASE i \in 1 .. Len(q) - 1 /\ i + 1 \in 1 .. Len(q)
        <4>1. r[i] = q[i + 1]
          BY <1>1, <2>3, <2>6, <3>2
        <4>2. q[i + 1] = len - Len(q) + (i + 1) - 1
          BY <2>4, <3>2
        <4> QED BY <1>1, <2>7, <3>2, <4>1, <4>2
      <3> QED BY <2>7, <3>1, <3>2
    <2>9. Len(r) <= len + 1
      BY <1>1, <2>5, <2>7
    <2> QED BY <1>2, <2>2, <2>8, <2>9 DEF Appends, Relayed
  <1> QED BY <1>3, <1>4 DEF Relayed

LEMMA AppendEntryKeeps ==
  ASSUME IInv, NEW kind \in Kinds, NEW durable \in BOOLEAN, AppendEntry(kind, durable)
  PROVE  IInv'
  <1>1. /\ thread = "live" /\ journal' = Append(journal, kind)
        /\ deferred' = (deferred /\ ~durable)
        /\ volatile' = IF deferred' THEN volatile + 1 ELSE volatile
        /\ relay' = Push(relay, Length, RelayWindow)
        /\ UNCHANGED <<thread, seeder, seeds, forwarded, bridges, slot, submits, ensures>>
    BY DEF AppendEntry, Length, host
  <1>2. /\ Typed /\ FeedsLive /\ FeedsInStep /\ SlotHoldsIt /\ Phases /\ BridgesSound /\ RelayInStep
        /\ ResumesSound /\ FoldedNotForwarded /\ (thread = "live" <=> relay.open = "open")
    BY DEF IInv
  <1>3. /\ deferred \in BOOLEAN /\ volatile \in Nat /\ (deferred => volatile = Length)
        /\ relay \in Feed /\ seeds \in Int /\ bridges \in [Bridges -> Bridge] /\ Length \in Nat
        /\ submits \in [Submits -> [pc : {"idle", "submitted", "taken", "done"}, resume : Int]]
    BY <1>2, OwedRows DEF Typed
  <1>4. volatile' \in Nat /\ volatile' >= volatile
    BY <1>1, <1>3
  <1>5. /\ Length' = Length + 1
        /\ Owed' \subseteq Owed \cup {Length}
        /\ Length = 0 /\ seeds = 0 => Owed' \subseteq Owed
    BY <1>1, <1>2, <1>4, OwedAppend
  <1>6. RelayWindow \in Nat \ {0}
    BY BoundsAssumption
  <1>7. /\ relay' \in Feed /\ relay'.open = "open"
        /\ Len(relay'.queue) <= Length + 1
        /\ \A i \in 1 .. Len(relay'.queue) : relay'.queue[i] = Length + 1 - Len(relay'.queue) + i - 1
        /\ Appends(Length - Len(relay.queue), relay.lost, Length + 1 - Len(relay'.queue), relay'.lost)
    <2> DEFINE len == Length
               g == relay'
    <2>1. /\ relay.open = "open" /\ Len(relay.queue) <= len /\ len \in Nat
          /\ \A i \in 1 .. Len(relay.queue) : relay.queue[i] = len - Len(relay.queue) + i - 1
          /\ g = Push(relay, len, RelayWindow)
      BY <1>1, <1>2, <1>3 DEF RelayInStep
    <2> HIDE DEF len, g
    <2>2. Relayed(relay, g, len)
      BY <1>3, <1>6, <2>1, RelayAppend
    <2> QED BY <2>2 DEF Relayed, len, g
  <1>l. Len(relay'.queue) \in Nat
    <2>1. relay'.queue \in Seq(Int)
      BY <1>7 DEF Feed
    <2> QED BY <2>1
  <1>8. Appends(Frontier, relay.lost, Frontier', relay'.lost)
    <2>1. Frontier = Length - Len(relay.queue) /\ Frontier' = Length' - Len(relay'.queue)
      BY DEF Frontier
    <2>2. Length' = Length + 1
      BY <1>5
    <2>3. Frontier' = Length + 1 - Len(relay'.queue)
      BY <1>3, <1>l, <2>1, <2>2
    <2> QED BY <1>7, <2>1, <2>3
  <1>9. Frontier \in Int /\ Frontier <= Length
    <2>1. relay.queue \in Seq(Int)
      BY <1>3 DEF Feed
    <2>2. Len(relay.queue) \in Nat
      BY <2>1
    <2> QED BY <1>3, <2>2 DEF Frontier
  <1>10. Typed'
    <2>1. journal' \in Seq(Kinds)
      BY <1>1, <1>2 DEF Typed
    <2>2. deferred' \in BOOLEAN /\ (deferred' => volatile' = Length')
      BY <1>1, <1>3, <1>5
    <2> QED BY <1>1, <1>2, <1>4, <1>7, <2>1, <2>2 DEF Typed
  <1>11. RelayInStep' /\ (thread = "live" <=> relay.open = "open")'
    <2>1. Length' = Length + 1
      BY <1>5
    <2>2. /\ Len(relay'.queue) <= Length'
          /\ \A i \in 1 .. Len(relay'.queue) : relay'.queue[i] = Length' - Len(relay'.queue) + i - 1
      <3> DEFINE q == relay'.queue
                 len == Length
      <3>1. /\ Len(q) \in Nat /\ len \in Nat /\ Len(q) <= len + 1
            /\ \A i \in 1 .. Len(q) : q[i] = len + 1 - Len(q) + i - 1
        BY <1>3, <1>7, <1>l
      <3>2. Length' = len + 1
        BY <2>1
      <3> HIDE DEF q, len
      <3>3. Len(q) <= Length'
        BY <3>1, <3>2
      <3>4. \A i \in 1 .. Len(q) : q[i] = Length' - Len(q) + i - 1
        BY <3>1, <3>2
      <3> QED BY <3>3, <3>4 DEF q
    <2>3. RelayInStep'
      BY <2>2 DEF RelayInStep
    <2> QED BY <1>1, <1>7, <2>3
  <1>12. FeedsLive' /\ SlotHoldsIt' /\ FoldedNotForwarded'
    BY <1>1, <1>2 DEF FeedsLive, SlotHoldsIt, FoldedNotForwarded
  <1>13. Phases'
    BY <1>1, <1>2, <1>3, <1>5 DEF Phases, Typed
  <1> DEFINE f == Frontier
             f2 == Frontier'
             lag == relay.lost
             lag2 == relay'.lost
             owed == Owed
             owed2 == Owed'
             len == Length
  <1>14. /\ Appends(f, lag, f2, lag2) /\ f \in Int /\ f <= len /\ len \in Nat
         /\ owed2 \subseteq owed \cup {len} /\ (len = 0 /\ seeds = 0 => owed2 \subseteq owed)
         /\ \A c \in Bridges : /\ bridges[c] \in Bridge /\ bridges[c].feed \in Feed
                               /\ FeedInStep(bridges[c].feed, f, lag, len)
                               /\ Sound(bridges[c], f, lag, owed, len, seeds)
    BY <1>2, <1>3, <1>5, <1>8, <1>9 DEF FeedsInStep, BridgesSound, Bridge
  <1>15. Length' = len + 1
    BY <1>5
  <1> HIDE DEF f, f2, lag, lag2, owed, owed2, len
  <1>16. \A c \in Bridges : FeedInStep(bridges[c].feed, f2, lag2, len + 1)
    BY <1>14, FeedAppend
  <1>17. \A c \in Bridges : Sound(bridges[c], f2, lag2, owed2, len + 1, seeds)
    BY <1>3, <1>14, SoundAppend
  <1>18. FeedsInStep' /\ BridgesSound'
    BY <1>1, <1>15, <1>16, <1>17 DEF FeedsInStep, BridgesSound, f2, lag2, owed2
  <1>19. ResumesSound'
    <2>1. ASSUME NEW s \in Submits PROVE ResumeSound(submits[s], owed2, len + 1, seeds)
      <3>1. ResumeSound(submits[s], owed, len, seeds) /\ submits[s].resume \in Int
        BY <1>2, <1>3 DEF ResumesSound, owed, len
      <3>2. Reached(submits[s].resume, owed, len, seeds) => Reached(submits[s].resume, owed2, len + 1, seeds)
        BY <1>3, <1>14, <3>1, ReachedAppend
      <3> QED BY <3>1, <3>2 DEF ResumeSound
    <2> QED BY <1>1, <1>15, <2>1 DEF ResumesSound, owed2
  <1> QED BY <1>10, <1>11, <1>12, <1>13, <1>18, <1>19 DEF IInv

LEMMA RelayKeeps ==
  ASSUME IInv, Relay
  PROVE  IInv'
  <1> DEFINE item == IF relay.lost THEN LAGGED ELSE Head(relay.queue)
             q == relay.queue
  <1>1. /\ relay.lost \/ q # << >>
        /\ bridges' = [c \in Bridges |-> [bridges[c] EXCEPT !.feed = Push(bridges[c].feed, item, FeedWindow)]]
        /\ relay.lost => relay' = [relay EXCEPT !.lost = FALSE]
        /\ ~relay.lost => relay' = [relay EXCEPT !.queue = Tail(q)]
        /\ UNCHANGED <<journal, deferred, volatile, thread, seeder, seeds, forwarded, slot, submits, ensures>>
    BY DEF Relay, rows, host
  <1>2. /\ Typed /\ FeedsLive /\ FeedsInStep /\ SlotHoldsIt /\ Phases /\ BridgesSound /\ RelayInStep
        /\ ResumesSound /\ FoldedNotForwarded /\ (thread = "live" <=> relay.open = "open")
    BY DEF IInv
  <1>3. relay \in Feed /\ bridges \in [Bridges -> Bridge] /\ Length \in Nat
    BY <1>2, OwedRows DEF Typed
  <1>4. q \in Seq(Int) /\ Len(q) \in Nat /\ relay.lost \in BOOLEAN
    BY <1>3 DEF Feed
  <1>5. Owed' = Owed /\ Length' = Length
    BY <1>1, OwedSame DEF Length
  <1>6. Len(q) <= Length /\ \A i \in 1 .. Len(q) : q[i] = Length - Len(q) + i - 1
    BY <1>2 DEF RelayInStep
  <1>7. /\ relay' \in Feed /\ relay'.open = relay.open /\ relay'.lost = FALSE
        /\ PassesOn(item, Frontier, relay.lost, Frontier', Length) /\ item \in Int
        /\ Len(relay'.queue) <= Length
        /\ \A i \in 1 .. Len(relay'.queue) : relay'.queue[i] = Length - Len(relay'.queue) + i - 1
    <2>1. CASE relay.lost
      <3>1. relay' \in Feed /\ relay'.open = relay.open /\ relay'.lost = FALSE /\ relay'.queue = q
        BY <1>1, <1>3, <2>1 DEF Feed
      <3>2. Frontier' = Frontier
        BY <1>5, <3>1 DEF Frontier
      <3>3. item = LAGGED /\ item \in Int
        BY <2>1 DEF LAGGED
      <3> QED BY <1>6, <2>1, <3>1, <3>2, <3>3, <1>4 DEF PassesOn
    <2>2. CASE ~relay.lost
      <3> DEFINE t == Tail(q)
      <3>1. q # << >>
        BY <1>1, <2>2
      <3>2. /\ Len(q) >= 1 /\ Head(q) = q[1] /\ t \in Seq(Int) /\ Len(t) = Len(q) - 1
            /\ \A i \in 1 .. Len(q) - 1 : t[i] = q[i + 1]
        BY <1>4, <3>1, Rest
      <3>3. /\ relay' \in Feed /\ relay'.open = relay.open /\ relay'.lost = FALSE /\ relay'.queue = t
        <4>1. relay' = [relay EXCEPT !.queue = t]
          BY <1>1, <2>2
        <4>2. relay.lost = FALSE
          BY <1>4, <2>2
        <4> QED BY <1>3, <3>2, <4>1, <4>2 DEF Feed
      <3>4. item = q[1]
        BY <2>2, <3>2
      <3>5. Frontier = Length - Len(q) /\ Frontier' = Length - Len(t)
        BY <1>5, <3>3 DEF Frontier
      <3>6. 1 \in 1 .. Len(q)
        BY <1>4, <3>2
      <3>7. q[1] = Length - Len(q)
        <4>1. q[1] = Length - Len(q) + 1 - 1
          BY <1>6, <3>6
        <4> QED BY <1>3, <1>4, <4>1
      <3> HIDE DEF q, t, item
      <3>8. /\ item = Frontier /\ Frontier \in 0 .. Length - 1 /\ Frontier' = Frontier + 1 /\ item \in Int
        BY <1>3, <1>4, <1>6, <3>2, <3>4, <3>5, <3>7
      <3>9. Len(t) <= Length
        BY <1>3, <1>4, <1>6, <3>2
      <3>10. ASSUME NEW i \in 1 .. Len(t) PROVE t[i] = Length - Len(t) + i - 1
        <4>1. i \in 1 .. Len(q) - 1 /\ i + 1 \in 1 .. Len(q) /\ t[i] = q[i + 1]
          BY <1>4, <3>2
        <4>2. q[i + 1] = Length - Len(q) + (i + 1) - 1
          BY <1>6, <4>1
        <4> QED BY <1>3, <1>4, <3>2, <4>1, <4>2
      <3>11. relay.lost = FALSE
        BY <1>4, <2>2
      <3> QED BY <3>3, <3>8, <3>9, <3>10, <3>11 DEF PassesOn
    <2> QED BY <1>4, <2>1, <2>2
  <1> HIDE DEF item, q
  <1>8. Frontier \in Int /\ Frontier' \in Int
    <2>1. relay'.queue \in Seq(Int)
      BY <1>7 DEF Feed
    <2>2. Len(relay'.queue) \in Nat
      BY <2>1
    <2> QED BY <1>3, <1>4, <1>5, <2>2 DEF Frontier, q
  <1> DEFINE f == Frontier
             f2 == Frontier'
             lag == relay.lost
             owed == Owed
             len == Length
             New(c) == [bridges[c] EXCEPT !.feed = Push(bridges[c].feed, item, FeedWindow)]
  <1>9. ASSUME NEW c \in Bridges
        PROVE  /\ New(c) \in Bridge /\ New(c).pc = bridges[c].pc /\ New(c).tail = bridges[c].tail
               /\ New(c).aborted = bridges[c].aborted /\ New(c).feed.open = bridges[c].feed.open
               /\ FeedInStep(New(c).feed, Frontier', FALSE, Length)
               /\ Sound(New(c), Frontier', FALSE, Owed, Length, seeds)
    <2> DEFINE br == bridges[c]
               r == New(c)
    <2>1. /\ br \in Bridge /\ FeedInStep(br.feed, f, lag, len) /\ Sound(br, f, lag, owed, len, seeds)
          /\ r = [br EXCEPT !.feed = Push(br.feed, item, FeedWindow)]
      BY <1>2, <1>3 DEF FeedsInStep, BridgesSound
    <2>2. /\ f \in Int /\ f2 \in Int /\ len \in Nat /\ item \in Int /\ PassesOn(item, f, lag, f2, len)
          /\ FeedWindow \in Nat \ {0}
      BY <1>3, <1>7, <1>8, BoundsAssumption
    <2> HIDE DEF f, f2, lag, owed, len, br, r, New
    <2>3. Passed(br, r, f2, owed, len, seeds)
      BY <2>1, <2>2, SoundPush
    <2> QED BY <2>3 DEF Passed, f2, owed, len, br, r
  <1>10. bridges' = [c \in Bridges |-> New(c)]
    BY <1>1
  <1> HIDE DEF New
  <1>11. bridges' \in [Bridges -> Bridge] /\ \A c \in Bridges : bridges'[c] = New(c)
    BY <1>9, <1>10
  <1>12. Typed'
    BY <1>1, <1>2, <1>5, <1>7, <1>11 DEF Typed
  <1>13. RelayInStep' /\ (thread = "live" <=> relay.open = "open")'
    BY <1>1, <1>2, <1>5, <1>7 DEF RelayInStep
  <1>14. FeedsLive'
    <2>1. \A c \in Bridges : bridges'[c].feed.open = bridges[c].feed.open
      BY <1>9, <1>11
    <2> QED BY <1>1, <1>2, <2>1 DEF FeedsLive
  <1>15. FeedsInStep' /\ BridgesSound'
    BY <1>1, <1>5, <1>7, <1>9, <1>11 DEF FeedsInStep, BridgesSound
  <1>16. ResumesSound' /\ FoldedNotForwarded'
    BY <1>1, <1>2, <1>5 DEF ResumesSound, FoldedNotForwarded
  <1>17. \A c \in Bridges : bridges'[c].pc = bridges[c].pc /\ bridges'[c].aborted = bridges[c].aborted
    BY <1>9, <1>11
  <1>18. Phases'
    <2>1. CASE seeder.pc \in {"idle", "reading", "folded"}
      <3>1. \A c \in Bridges : bridges'[c].pc \in Idle <=> bridges[c].pc \in Idle
        BY <1>17
      <3>2. (\E b \in Bridges : \A c \in Bridges : bridges[c].pc = "held" <=> c = b) =>
              \E b \in Bridges : \A c \in Bridges : bridges'[c].pc = "held" <=> c = b
        BY <1>17
      <3>3. (\A c \in Bridges : bridges[c].pc # "held") => \A c \in Bridges : bridges'[c].pc # "held"
        BY <1>17
      <3> QED BY <1>1, <1>2, <1>5, <2>1, <3>1, <3>2, <3>3 DEF Phases
    <2>2. CASE seeder.pc \notin {"idle", "reading", "folded"}
      BY <1>1, <1>2, <1>5, <1>17, <2>2 DEF Phases
    <2> QED BY <2>1, <2>2
  <1>19. SlotHoldsIt'
    <2>1. slot # 0 => slot \in Bridges
      BY <1>2, BoundsAssumption DEF Typed, Bridges
    <2>2. slot' = slot
      BY <1>1
    <2>3. slot # 0 => bridges'[slot].pc \notin Idle /\ ~bridges'[slot].aborted
      BY <1>2, <1>17, <2>1 DEF SlotHoldsIt
    <2>4. \A c \in Bridges :
            bridges'[c].pc \notin {"unborn", "held", "dead"} /\ ~bridges'[c].aborted => c = slot
      BY <1>2, <1>17 DEF SlotHoldsIt
    <2> QED BY <2>2, <2>3, <2>4 DEF SlotHoldsIt
  <1> QED BY <1>12, <1>13, <1>14, <1>15, <1>16, <1>18, <1>19 DEF IInv

-----------------------------------------------------------------------------
(* The invariant, and what it gives.                                        *)

LEMMA InitIsSound ==
  ASSUME Init
  PROVE  IInv
  <1>1. PICK n \in InitialRows : journal = [i \in 1 .. n |-> "state"]
    BY DEF Init
  <1>2. n \in Nat
    BY BoundsAssumption
  <1>3. journal \in Seq(Kinds) /\ Length = n
    BY <1>1, <1>2 DEF Kinds, Length
  <1>4. /\ relay \in Feed /\ relay.queue = << >> /\ relay.lost = FALSE
        /\ thread = "live" <=> relay.open = "open"
    <2>1. /\ OpenReceiver \in Feed /\ OpenReceiver.queue = << >> /\ OpenReceiver.lost = FALSE
          /\ OpenReceiver.open = "open"
      BY EmptyReceivers DEF OpenReceiver
    <2>2. /\ NoReceiver \in Feed /\ NoReceiver.queue = << >> /\ NoReceiver.lost = FALSE
          /\ NoReceiver.open = "none"
      BY EmptyReceivers
    <2> QED BY <2>1, <2>2 DEF Init
  <1>5. bridges \in [Bridges -> Bridge] /\ \A b \in Bridges : bridges[b] = Unborn
    BY UnbornFacts DEF Init
  <1>6. /\ submits \in [Submits -> [pc : {"idle", "submitted", "taken", "done"}, resume : Int]]
        /\ \A s \in Submits : submits[s].pc = "idle"
    BY DEF Init
  <1>7. /\ seeder.pc = "idle" /\ seeder.rows = 0
        /\ seeder \in [pc : {"idle", "reading", "folded", "returned", "done"}, rows : Nat]
        /\ seeds = -1 /\ forwarded = {} /\ slot = 0 /\ slot \in 0 .. MaxBridges /\ ensures \in Nat
    BY BoundsAssumption DEF Init
  <1>8. /\ thread \in {"cold", "landing", "live"} /\ deferred \in BOOLEAN
        /\ volatile \in Nat /\ (deferred => volatile = Length)
    BY <1>2, <1>3, BoundsAssumption DEF Init, Length
  <1>9. Typed
    BY <1>3, <1>4, <1>5, <1>6, <1>7, <1>8 DEF Typed
  <1>10. RelayInStep
    <2>1. Len(relay.queue) = 0
      BY <1>4
    <2> QED BY <1>2, <1>3, <2>1 DEF RelayInStep
  <1>11. FeedsLive /\ FeedsInStep /\ BridgesSound
    BY <1>5, UnbornFacts, DeafInStep, UnbornSound DEF FeedsLive, FeedsInStep, BridgesSound
  <1>12. ResumesSound /\ FoldedNotForwarded
    BY <1>6, <1>7 DEF ResumesSound, ResumeSound, FoldedNotForwarded
  <1>13. Phases /\ SlotHoldsIt
    <2>1. \A b \in Bridges : bridges[b].pc = "unborn"
      BY <1>5, UnbornFacts
    <2> QED BY <1>2, <1>3, <1>6, <1>7, <2>1 DEF Phases, SlotHoldsIt, Idle
  <1> QED BY <1>4, <1>9, <1>10, <1>11, <1>12, <1>13 DEF IInv

LEMMA NextKeeps ==
  ASSUME IInv, [Next]_vars
  PROVE  IInv'
  <1>1. CASE \E kind \in Kinds, durable \in BOOLEAN : AppendEntry(kind, durable)
    BY <1>1, AppendEntryKeeps
  <1>2. CASE Relay
    BY <1>2, RelayKeeps
  <1>3. CASE OpenSession
    BY <1>3, OpenSessionKeeps
  <1>4. CASE SeedSubscribe
    BY <1>4, SeedSubscribeKeeps
  <1>5. CASE SeedStep
    BY <1>5, SeedSnapshotKeeps, SeedInstallKeeps, EnsureSessionKeeps DEF SeedStep
  <1>6. CASE EnsureBridge
    BY <1>6, EnsureBridgeKeeps
  <1>7. CASE \E s \in Submits : Submit(s) \/ SubmitStep(s)
    BY <1>7, SubmitKeeps, TakeBridgeKeeps, RestartBridgeKeeps DEF SubmitStep
  <1>8. CASE \E b \in Bridges : BridgeStep(b)
    BY <1>8, BridgeStepKeeps
  <1>9. CASE UNCHANGED vars
    <2>1. /\ UNCHANGED <<journal, deferred, volatile, thread, relay, seeder, seeds, forwarded, bridges,
                         slot, submits, ensures>>
          /\ Length' = Length /\ Frontier' = Frontier
      BY <1>9 DEF vars, Length, Frontier
    <2>2. Owed' = Owed
      BY <2>1, OwedSame
    <2>3. Typed' /\ RelayInStep' /\ (thread = "live" <=> relay.open = "open")' /\ FeedsLive'
      BY <2>1 DEF IInv, Typed, RelayInStep, FeedsLive
    <2>4. FeedsInStep' /\ BridgesSound' /\ ResumesSound'
      BY <2>1, <2>2 DEF IInv, FeedsInStep, BridgesSound, ResumesSound
    <2>5. Phases' /\ SlotHoldsIt' /\ FoldedNotForwarded'
      BY <2>1 DEF IInv, Phases, SlotHoldsIt, FoldedNotForwarded
    <2> QED BY <2>3, <2>4, <2>5 DEF IInv
  <1> QED BY <1>1, <1>2, <1>3, <1>4, <1>5, <1>6, <1>7, <1>8, <1>9 DEF Next

\* The strengthened invariant holds in every reachable state: relay, feeds,
\* watermarks and resume points agree on the rows still owed to the clients
\* (run_bridge, replay_journal, start_bridge_with_feed).
THEOREM BridgesInStep == Spec => []IInv
  BY InitIsSound, NextKeeps, PTL DEF Spec

\* Nothing below a watermark is missing, for any journal, windows and number
\* of bridges, submits and commands (Cursor, replay_journal,
\* force_bridge_restart).
THEOREM NoGapHolds == Spec => []NoGap
  <1>1. IInv => NoGap
    <2> SUFFICES ASSUME IInv, NEW b \in Bridges, bridges[b].pc \notin {"unborn", "held"},
                        NEW n \in 0 .. Len(journal) - 1, n <= bridges[b].tail, Kind(n) = "state",
                        Recoverable(n), ~Served(n)
                 PROVE  FALSE
      BY DEF NoGap
    <2>1. n \in Owed
      BY DEF Owed, Length
    <2>2. bridges[b].pc \notin Idle
      BY DEF Idle
    <2>3. n >= bridges[b].tail + 1 /\ bridges[b].tail \in Nat
      BY <2>1, <2>2, Running DEF Sound, Reached
    <2> QED BY <2>3
  <1> QED BY <1>1, BridgesInStep, PTL

\* One bridge forwards a row once and in order, whatever its replay, its
\* resyncs and the buffered feed have in common (run_bridge).
THEOREM ForwardsOnceInOrderHolds == Spec => []ForwardsOnceInOrder
  <1>1. IInv => ForwardsOnceInOrder
    BY DEF IInv, BridgesSound, Sound, InOrder, ForwardsOnceInOrder
  <1> QED BY <1>1, BridgesInStep, PTL

\* A row the seed folded is never forwarded on top of it, by the first bridge
\* or by any later one (first_bridge_resume, force_bridge_restart).
THEOREM FoldedNotForwardedHolds == Spec => []FoldedNotForwarded
  <1>1. IInv => FoldedNotForwarded
    BY DEF IInv
  <1> QED BY <1>1, BridgesInStep, PTL

\* At most one bridge of the session is not on its way out, however many
\* submits restart it at once (start_bridge_with_feed, force_bridge_restart).
THEOREM SingleBridgeHolds == Spec => []SingleBridge
  <1>1. IInv => SingleBridge
    <2> SUFFICES ASSUME IInv PROVE SingleBridge
      OBVIOUS
    <2> DEFINE S == {b \in Bridges : /\ bridges[b].pc \notin {"unborn", "held", "dead"}
                                     /\ ~bridges[b].aborted}
    <2>1. S \subseteq {slot}
      BY DEF IInv, SlotHoldsIt
    <2> HIDE DEF S
    <2>2. IsFiniteSet({slot}) /\ Cardinality({slot}) = 1
      BY FS_Singleton
    <2>3. Cardinality(S) <= Cardinality({slot})
      BY <2>1, <2>2, FS_Subset
    <2>4. Cardinality(S) <= 1
      BY <2>2, <2>3
    <2> QED BY <2>4 DEF SingleBridge, S
  <1> QED BY <1>1, BridgesInStep, PTL

-----------------------------------------------------------------------------
(* Types.  Beside the invariant: everything the clients were sent is a row  *)
(* of the journal, and a bridge that is not running has no watermark.       *)

WithinAt(br, sent) ==
  /\ \A i \in DOMAIN br.sent : br.sent[i] \in sent
  /\ br.pc \in Idle => br.tail = 0

Within ==
  /\ Length <= MaxRows /\ volatile <= Length
  /\ chat \subseteq 0 .. Length - 1 /\ forwarded \subseteq 0 .. Length - 1
  /\ \A b \in Bridges : WithinAt(bridges[b], forwarded)

LEMMA WithinUnborn ==
  ASSUME NEW sent
  PROVE  WithinAt(Unborn, sent)
  <1>1. DOMAIN << >> = {}
    OBVIOUS
  <1> QED BY <1>1, UnbornFacts DEF WithinAt

LEMMA WithinSpawned ==
  ASSUME NEW feed, NEW resume, NEW sent
  PROVE  WithinAt(Spawned(feed, resume), sent)
  <1>1. DOMAIN << >> = {}
    OBVIOUS
  <1>2. Spawned(feed, resume).sent = << >> /\ Spawned(feed, resume).pc = "spawned"
    BY DEF Spawned, Unborn
  <1> QED BY <1>1, <1>2 DEF WithinAt, Idle

LEMMA WithinSuperseded ==
  ASSUME NEW br \in Bridge, NEW sent, WithinAt(br, sent)
  PROVE  WithinAt(Superseded(br), sent)
  <1>1. CASE br.pc = "dead"
    BY <1>1, WithinUnborn DEF Superseded
  <1>2. CASE br.pc # "dead"
    <2> DEFINE r == [br EXCEPT !.aborted = TRUE]
    <2>1. r.sent = br.sent /\ r.pc = br.pc /\ r.tail = br.tail
      BY DEF Bridge
    <2> HIDE DEF r
    <2>2. WithinAt(r, sent)
      BY <2>1 DEF WithinAt
    <2>3. Superseded(br) = r
      BY <1>2 DEF Superseded, r
    <2> QED BY <2>2, <2>3
  <1> QED BY <1>1, <1>2

LEMMA WithinEnded ==
  ASSUME NEW br, NEW sent
  PROVE  WithinAt(Ended(br), sent)
  <1>1. CASE br.aborted
    BY <1>1, WithinUnborn DEF Ended
  <1>2. CASE ~br.aborted
    <2> DEFINE r == [Unborn EXCEPT !.pc = "dead", !.tail = br.tail]
    <2>1. r.sent = << >> /\ r.pc = "dead"
      BY DEF Unborn
    <2>2. DOMAIN << >> = {}
      OBVIOUS
    <2> HIDE DEF r
    <2>3. WithinAt(r, sent)
      BY <2>1, <2>2 DEF WithinAt, Idle
    <2>4. Ended(br) = r
      BY <1>2 DEF Ended, r
    <2> QED BY <2>3, <2>4
  <1> QED BY <1>1, <1>2

LEMMA WithinStart ==
  ASSUME IInv, \A c \in Bridges : WithinAt(bridges[c], forwarded),
         NEW b, NEW feed, NEW resume, NEW rows1, StartBridgeWithFeed(b, feed, resume, rows1)
  PROVE  \A c \in Bridges : WithinAt(bridges'[c], forwarded)
  <1>1. bridges \in [Bridges -> Bridge]
    BY DEF IInv, Typed
  <1>2. CASE (resume = -1 /\ Alive) \/ (feed = NoReceiver /\ thread = "cold")
    <2>1. bridges' = [bridges EXCEPT ![b] = Unborn]
      BY <1>2 DEF StartBridgeWithFeed
    <2>2. \A c \in Bridges : bridges'[c] = bridges[c] \/ bridges'[c] = Unborn
      BY <1>1, <2>1
    <2> QED BY <2>2, WithinUnborn
  <1>3. CASE ~((resume = -1 /\ Alive) \/ (feed = NoReceiver /\ thread = "cold"))
    <2> DEFINE from == IF resume = -1 THEN ResumePoint(rows1) ELSE resume
    <2>1. bridges' = [c \in Bridges |->
                        IF c = b THEN Spawned(feed, from)
                        ELSE IF c = slot THEN Superseded(bridges[c]) ELSE bridges[c]]
      BY <1>3 DEF StartBridgeWithFeed
    <2> HIDE DEF from
    <2>2. \A c \in Bridges : \/ bridges'[c] = Spawned(feed, from)
                             \/ bridges'[c] = Superseded(bridges[c])
                             \/ bridges'[c] = bridges[c]
      BY <2>1
    <2> QED BY <1>1, <2>2, WithinSpawned, WithinSuperseded
  <1> QED BY <1>2, <1>3

\* A step of a bridge that publishes nothing.
LEMMA WithinQuiet ==
  ASSUME IInv, Within, NEW b \in Bridges, NEW r, Moved(b, r), UNCHANGED host, WithinAt(r, forwarded)
  PROVE  Within'
  <1>1. /\ bridges' = [bridges EXCEPT ![b] = r]
        /\ UNCHANGED <<journal, volatile, chat, forwarded>> /\ Length' = Length
    BY DEF Moved, engine, host, Length
  <1>2. \A c \in Bridges : bridges'[c] = r \/ bridges'[c] = bridges[c]
    BY <1>1 DEF IInv, Typed
  <1> QED BY <1>1, <1>2 DEF Within

\* One that publishes the row n, from the record br of the bridge.
LEMMA WithinForward ==
  ASSUME IInv, Within, NEW b \in Bridges, NEW br \in Bridge, NEW n \in 0 .. Length - 1,
         ForwardEntry(b, br, n), WithinAt(br, forwarded)
  PROVE  Within'
  <1> DEFINE r == IF Published(n) = {} THEN br ELSE [br EXCEPT !.sent = Append(@, n)]
  <1>1. /\ chat' = chat \cup Published(n) /\ forwarded' = forwarded \cup Published(n) /\ Moved(b, r)
    BY DEF ForwardEntry
  <1>2. WithinAt(r, forwarded')
    <2>1. CASE Published(n) = {}
      BY <1>1, <2>1 DEF WithinAt
    <2>2. CASE Published(n) # {}
      <3> DEFINE t == Append(br.sent, n)
                 x == [br EXCEPT !.sent = t]
      <3>1. br.sent \in Seq(Int) /\ n \in Int
        BY DEF Bridge
      <3>2. /\ Len(br.sent) \in Nat /\ t \in Seq(Int) /\ Len(t) = Len(br.sent) + 1
            /\ \A i \in 1 .. Len(br.sent) : t[i] = br.sent[i]
            /\ t[Len(br.sent) + 1] = n
        BY <3>1, Longer
      <3>3. DOMAIN t = 1 .. (Len(br.sent) + 1) /\ DOMAIN br.sent = 1 .. Len(br.sent)
        BY <3>1, <3>2
      <3>4. forwarded' = forwarded \cup {n}
        BY <1>1, <2>2 DEF Published
      <3> HIDE DEF t
      <3>5. ASSUME NEW i \in DOMAIN t PROVE t[i] \in forwarded'
        <4>1. CASE i \in 1 .. Len(br.sent)
          BY <3>2, <3>3, <3>4, <4>1 DEF WithinAt
        <4>2. CASE i = Len(br.sent) + 1
          BY <3>2, <3>4, <4>2
        <4> QED BY <3>2, <3>3, <4>1, <4>2
      <3>6. x.sent = t /\ x.pc = br.pc /\ x.tail = br.tail
        BY DEF Bridge
      <3>7. r = x
        BY <2>2 DEF t
      <3> QED BY <3>5, <3>6, <3>7 DEF WithinAt
    <2> QED BY <2>1, <2>2
  <1> HIDE DEF r
  <1>3. /\ bridges' = [bridges EXCEPT ![b] = r] /\ UNCHANGED <<journal, volatile>> /\ Length' = Length
    BY <1>1 DEF Moved, engine, Length
  <1>4. \A c \in Bridges : bridges'[c] = r \/ bridges'[c] = bridges[c]
    BY <1>3 DEF IInv, Typed
  <1>5. Published(n) \subseteq {n}
    BY DEF Published
  <1>6. \A c \in Bridges : WithinAt(bridges[c], forwarded')
    BY <1>1 DEF Within, WithinAt
  <1> QED BY <1>1, <1>2, <1>3, <1>4, <1>5, <1>6 DEF Within

LEMMA BridgeStepWithin ==
  ASSUME IInv, Within, NEW b \in Bridges, BridgeStep(b)
  PROVE  Within'
  <1> DEFINE br == bridges[b]
  <1>1. br.pc \notin Idle
    BY DEF BridgeStep, Subscribe, ReplayRead, ReplayRow, ReplayAccount, ReplayEnd, Receive,
           ReceiveAccount, Resync, Exit, Cancelled, Idle
  <1>2. /\ br \in Bridge /\ br.feed \in Feed /\ Steps1(b, br) /\ br.next \in Nat /\ br.end \in Nat
        /\ Length \in Nat /\ Sound(br, Frontier, relay.lost, Owed, Length, seeds)
    BY <1>1, Running
  <1>3. WithinAt(br, forwarded)
    BY DEF Within
  <1>4. ASSUME NEW r, r.sent = br.sent, r.pc \notin Idle
        PROVE  WithinAt(r, forwarded)
    BY <1>3, <1>4 DEF WithinAt
  <1>5. CASE Subscribe(b)
    <2> DEFINE r == [br EXCEPT !.pc = "reading", !.feed = IF @.open = "none" THEN Subscription ELSE @]
    <2>1. Moved(b, r) /\ UNCHANGED host
      BY <1>5 DEF Subscribe
    <2>2. r.sent = br.sent /\ r.pc = "reading"
      BY <1>2 DEF Bridge
    <2> HIDE DEF r
    <2> QED BY <1>4, <2>1, <2>2, WithinQuiet DEF Idle
  <1>6. CASE ReplayRead(b)
    <2> DEFINE pc == IF deferred THEN "recv" ELSE "replay"
               r == [br EXCEPT !.pc = pc, !.end = OnDisk]
    <2>1. Moved(b, r) /\ UNCHANGED host
      BY <1>6 DEF ReplayRead
    <2>2. r.sent = br.sent /\ r.pc = pc /\ pc \notin Idle
      BY <1>2 DEF Bridge, Idle
    <2> HIDE DEF r
    <2> QED BY <1>4, <2>1, <2>2, WithinQuiet
  <1>7. CASE ReplayRow(b)
    <2>1. br.pc = "replay" /\ br.next < br.end
      BY <1>7 DEF ReplayRow
    <2>2. br.next \in 0 .. Length - 1
      <3>1. br.end <= Length
        BY <1>2, <2>1 DEF Sound, Replaying
      <3> QED BY <1>2, <2>1, <3>1
    <2>3. CASE Skipped(b)
      <3> DEFINE r == [br EXCEPT !.next = @ + 1]
      <3>1. Moved(b, r) /\ UNCHANGED host
        BY <1>7, <2>3 DEF ReplayRow
      <3>2. r.sent = br.sent /\ r.pc = "replay"
        BY <1>2, <2>1 DEF Bridge
      <3> HIDE DEF r
      <3> QED BY <1>4, <3>1, <3>2, WithinQuiet DEF Idle
    <2>4. CASE ~Skipped(b)
      <3> DEFINE r == [br EXCEPT !.pc = "replayed"]
      <3>1. ForwardEntry(b, r, br.next)
        BY <1>7, <2>4 DEF ReplayRow
      <3>2. r.sent = br.sent /\ r.pc = "replayed" /\ r \in Bridge
        BY <1>2 DEF Bridge, Steps
      <3> HIDE DEF r
      <3>3. WithinAt(r, forwarded)
        BY <1>4, <3>2 DEF Idle
      <3> QED BY <2>2, <3>1, <3>2, <3>3, WithinForward
    <2> QED BY <2>3, <2>4
  <1>8. CASE ReplayAccount(b)
    <2> DEFINE r == [Accounted(br, br.next) EXCEPT !.pc = "replay", !.next = @ + 1]
    <2>1. Moved(b, r) /\ UNCHANGED host
      BY <1>8 DEF ReplayAccount
    <2>2. r.sent = br.sent /\ r.pc = "replay"
      BY <1>2 DEF Bridge, Accounted
    <2> HIDE DEF r
    <2> QED BY <1>4, <2>1, <2>2, WithinQuiet DEF Idle
  <1>9. CASE ReplayEnd(b)
    <2> DEFINE r == [Accounted(br, CursorOf(br.end))
                       EXCEPT !.pc = "recv", !.next = 0, !.end = 0, !.stateOnly = FALSE]
    <2>1. Moved(b, r) /\ UNCHANGED host
      BY <1>9 DEF ReplayEnd
    <2>2. r.sent = br.sent /\ r.pc = "recv"
      BY <1>2 DEF Bridge, Accounted
    <2> HIDE DEF r
    <2> QED BY <1>4, <2>1, <2>2, WithinQuiet DEF Idle
  <1>10. CASE Receive(b)
    <2> DEFINE q == br.feed.queue
               n == Head(q)
               rest == [br EXCEPT !.feed.queue = Tail(@)]
    <2>1. /\ br.pc = "recv" /\ q # << >> /\ n # LAGGED
          /\ IF Stale(b, n) THEN UNCHANGED host /\ Moved(b, rest)
             ELSE ForwardEntry(b, [rest EXCEPT !.pc = "received", !.next = n], n)
      BY <1>10 DEF Receive
    <2>2. q \in Seq(Int)
      BY <1>2 DEF Feed
    <2>3. n \in 0 .. Length - 1
      <3>1. 1 \in 1 .. Len(q) /\ n = q[1]
        BY <2>1, <2>2
      <3>2. FeedInStep(br.feed, Frontier, relay.lost, Length)
        BY <1>2 DEF Steps1
      <3> QED BY <2>1, <3>1, <3>2 DEF FeedInStep
    <2>4. /\ rest.sent = br.sent /\ rest.pc = "recv" /\ rest \in Bridge
      <3>1. Tail(q) \in Seq(Int)
        BY <2>1, <2>2
      <3>2. [br.feed EXCEPT !.queue = Tail(q)] \in Feed
        BY <1>2, <3>1 DEF Feed
      <3>3. rest = [br EXCEPT !.feed = [br.feed EXCEPT !.queue = Tail(q)]]
        BY <1>2 DEF Bridge, Feed
      <3> QED BY <1>2, <2>1, <3>2, <3>3 DEF Bridge
    <2> HIDE DEF rest, n
    <2>5. CASE Stale(b, n)
      BY <1>4, <2>1, <2>4, <2>5, WithinQuiet DEF Idle
    <2>6. CASE ~Stale(b, n)
      <3> DEFINE r == [rest EXCEPT !.pc = "received", !.next = n]
      <3>1. r.sent = br.sent /\ r.pc = "received" /\ r \in Bridge
        <4>1. n \in Nat /\ "received" \in Steps
          BY <1>2, <2>3 DEF Steps
        <4> QED BY <2>4, <4>1 DEF Bridge
      <3>2. ForwardEntry(b, r, n)
        BY <2>1, <2>6
      <3> HIDE DEF r
      <3>3. WithinAt(r, forwarded)
        BY <1>4, <3>1 DEF Idle
      <3> QED BY <2>3, <3>1, <3>2, <3>3, WithinForward
    <2> QED BY <2>5, <2>6
  <1>11. CASE ReceiveAccount(b)
    <2> DEFINE r == [Accounted(br, br.next) EXCEPT !.pc = "recv", !.next = 0]
    <2>1. Moved(b, r) /\ UNCHANGED host
      BY <1>11 DEF ReceiveAccount
    <2>2. r.sent = br.sent /\ r.pc = "recv"
      BY <1>2 DEF Bridge, Accounted
    <2> HIDE DEF r
    <2> QED BY <1>4, <2>1, <2>2, WithinQuiet DEF Idle
  <1>12. CASE Resync(b)
    <2> DEFINE r == [br EXCEPT !.pc = "reading", !.stateOnly = TRUE,
                       !.next = br.tail + 1, !.feed.queue = Tail(@)]
    <2>1. Moved(b, r) /\ UNCHANGED host
      BY <1>12 DEF Resync
    <2>2. r.sent = br.sent /\ r.pc = "reading"
      BY <1>2 DEF Bridge
    <2> HIDE DEF r
    <2> QED BY <1>4, <2>1, <2>2, WithinQuiet DEF Idle
  <1>13. CASE Exit(b) \/ Cancelled(b)
    <2>1. Moved(b, Ended(br)) /\ UNCHANGED host
      BY <1>13 DEF Exit, Cancelled
    <2> QED BY <2>1, WithinEnded, WithinQuiet
  <1> QED BY <1>5, <1>6, <1>7, <1>8, <1>9, <1>10, <1>11, <1>12, <1>13 DEF BridgeStep

LEMMA InitWithin ==
  ASSUME Init
  PROVE  Within
  <1>1. PICK n \in InitialRows : journal = [i \in 1 .. n |-> "state"]
    BY DEF Init
  <1>2. n \in Nat /\ n <= MaxRows
    BY BoundsAssumption
  <1>3. Length = n
    BY <1>1, <1>2 DEF Length
  <1>4. \A b \in Bridges : bridges[b] = Unborn
    BY DEF Init
  <1>5. volatile <= Length
    BY <1>2, <1>3 DEF Init, Length
  <1> QED BY <1>2, <1>3, <1>4, <1>5, WithinUnborn DEF Init, Within

LEMMA NextWithin ==
  ASSUME IInv, Within, [Next]_vars
  PROVE  Within'
  <1>1. /\ bridges \in [Bridges -> Bridge] /\ journal \in Seq(Kinds) /\ Length \in Nat /\ volatile \in Nat
        /\ MaxRows \in Nat
    BY OwedRows, BoundsAssumption DEF IInv, Typed
  <1>2. \A b \in Bridges : WithinAt(bridges[b], forwarded)
    BY DEF Within
  <1>3. CASE \E kind \in Kinds, durable \in BOOLEAN : AppendEntry(kind, durable)
    <2>1. PICK kind \in Kinds, durable \in BOOLEAN : AppendEntry(kind, durable)
      BY <1>3
    <2>2. /\ journal' = Append(journal, kind) /\ Length < MaxRows
          /\ volatile' = volatile \/ volatile' = volatile + 1
          /\ UNCHANGED <<chat, forwarded, bridges>>
      BY <2>1 DEF AppendEntry, Length, host
    <2>3. Length' = Length + 1
      BY <1>1, <2>2 DEF Length
    <2>4. Length' <= MaxRows /\ volatile' <= Length'
      BY <1>1, <2>2, <2>3 DEF Within
    <2>5. 0 .. Length - 1 \subseteq 0 .. Length' - 1
      BY <1>1, <2>3
    <2> QED BY <2>2, <2>4, <2>5 DEF Within
  <1>4. CASE Relay
    <2> DEFINE item == IF relay.lost THEN LAGGED ELSE Head(relay.queue)
    <2>1. /\ bridges' = [b \in Bridges |-> [bridges[b] EXCEPT !.feed = Push(@, item, FeedWindow)]]
          /\ UNCHANGED <<journal, volatile, chat, forwarded>> /\ Length' = Length
      BY <1>4 DEF Relay, rows, host, Length
    <2> HIDE DEF item
    <2>2. \A b \in Bridges : /\ bridges'[b].sent = bridges[b].sent /\ bridges'[b].pc = bridges[b].pc
                             /\ bridges'[b].tail = bridges[b].tail
      BY <1>1, <2>1 DEF Bridge
    <2>3. \A b \in Bridges : WithinAt(bridges'[b], forwarded)
      BY <1>2, <2>2 DEF WithinAt
    <2> QED BY <2>1, <2>3 DEF Within
  <1>5. CASE OpenSession \/ SeedSnapshot \/ UNCHANGED vars \/ \E s \in Submits : Submit(s)
    <2>1. UNCHANGED <<journal, volatile, chat, forwarded, bridges>> /\ Length' = Length
      BY <1>5 DEF OpenSession, SeedSnapshot, Submit, vars, rows, engine, host, Length
    <2> QED BY <2>1 DEF Within
  <1>6. CASE SeedSubscribe
    <2> DEFINE r == [Unborn EXCEPT !.pc = "held", !.feed = Subscription]
    <2>1. /\ bridges' = [bridges EXCEPT ![Fresh] = r]
          /\ UNCHANGED <<journal, volatile, chat, forwarded>> /\ Length' = Length
      BY <1>6 DEF SeedSubscribe, engine, host, Length
    <2>2. WithinAt(r, forwarded)
      <3>1. r.sent = << >> /\ r.tail = 0 /\ DOMAIN << >> = {}
        BY DEF Unborn
      <3> HIDE DEF r
      <3> QED BY <3>1 DEF WithinAt
    <2> HIDE DEF r
    <2>3. \A b \in Bridges : bridges'[b] = r \/ bridges'[b] = bridges[b]
      BY <1>1, <2>1
    <2> QED BY <1>2, <2>1, <2>2, <2>3 DEF Within
  <1>7. CASE SeedInstall
    <2>1. /\ chat' = 0 .. seeder.rows - 1 /\ UNCHANGED <<journal, volatile, forwarded>>
          /\ Length' = Length
      BY <1>7 DEF SeedInstall, engine, Length
    <2>2. seeder.rows \in Nat /\ seeder.rows <= Length
      BY DEF IInv, Typed, Phases
    <2>3. \A c \in Bridges : WithinAt(bridges'[c], forwarded)
      BY <1>2, <1>7, WithinStart DEF SeedInstall
    <2> QED BY <1>1, <2>1, <2>2, <2>3 DEF Within
  <1>8. CASE EnsureSession
    <2>1. /\ chat' = 0 .. seeds - 1 /\ UNCHANGED <<journal, volatile, forwarded, bridges>>
          /\ Length' = Length
      BY <1>8 DEF EnsureSession, engine, Length
    <2>2. seeds \in 0 .. Length
      BY <1>8 DEF EnsureSession, IInv, Phases
    <2> QED BY <1>1, <2>1, <2>2 DEF Within
  <1>9. CASE EnsureBridge \/ \E s \in Submits : RestartBridge(s)
    <2>1. UNCHANGED <<journal, volatile, chat, forwarded>> /\ Length' = Length
      BY <1>9 DEF EnsureBridge, RestartBridge, engine, host, Length
    <2>2. \A c \in Bridges : WithinAt(bridges'[c], forwarded)
      <3>1. CASE EnsureBridge
        BY <1>2, <3>1, WithinStart DEF EnsureBridge
      <3>2. CASE \E s \in Submits : RestartBridge(s)
        BY <1>2, <3>2, WithinStart DEF RestartBridge
      <3> QED BY <1>9, <3>1, <3>2
    <2> QED BY <2>1, <2>2 DEF Within
  <1>10. CASE \E s \in Submits : TakeBridge(s)
    <2>1. UNCHANGED <<journal, volatile, chat, forwarded>> /\ Length' = Length
      BY <1>10 DEF TakeBridge, engine, host, Length
    <2>2. bridges' = bridges \/ bridges' = [bridges EXCEPT ![slot] = Superseded(@)]
      BY <1>10 DEF TakeBridge
    <2>3. \A c \in Bridges : bridges'[c] = bridges[c] \/ bridges'[c] = Superseded(bridges[c])
      BY <1>1, <2>2
    <2>4. \A c \in Bridges : WithinAt(bridges'[c], forwarded)
      BY <1>1, <1>2, <2>3, WithinSuperseded
    <2> QED BY <2>1, <2>4 DEF Within
  <1>11. CASE \E b \in Bridges : BridgeStep(b)
    BY <1>11, BridgeStepWithin
  <1> QED BY <1>3, <1>4, <1>5, <1>6, <1>7, <1>8, <1>9, <1>10, <1>11 DEF Next, SeedStep, SubmitStep

\* The receivers hold rows of the journal and lag marks.
LEMMA ReceiverTyped ==
  ASSUME NEW feed \in Feed, NEW len \in Nat, len <= MaxRows, MaxRows \in Nat,
         \A i \in 1 .. Len(feed.queue) : feed.queue[i] # LAGGED => feed.queue[i] \in 0 .. len - 1
  PROVE  feed \in Receiver
  <1> DEFINE q == feed.queue
  <1>1. q \in Seq(Int)
    BY DEF Feed
  <1>2. q = [i \in 1 .. Len(q) |-> q[i]] /\ Len(q) \in Nat
    BY <1>1
  <1>3. \A i \in 1 .. Len(q) : q[i] \in Rows \cup {LAGGED}
    BY DEF Rows
  <1>4. q \in Seq(Rows \cup {LAGGED})
    BY <1>2, <1>3
  <1> QED BY <1>4 DEF Feed, Receiver

\* The state keeps its type: a row is broadcast, replayed and forwarded only
\* once the journal has it, and no cursor, seed or watermark runs ahead of it
\* (run_bridge, Cursor, first_bridge_resume).
THEOREM TypeCorrect == Spec => []TypeOK
  <1>1. Init => IInv /\ Within
    BY InitIsSound, InitWithin
  <1>2. IInv /\ Within /\ [Next]_vars => (IInv /\ Within)'
    BY NextKeeps, NextWithin
  <1>3. IInv /\ Within => TypeOK
    <2> SUFFICES ASSUME IInv, Within PROVE TypeOK
      OBVIOUS
    <2>1. /\ Typed /\ Phases /\ RelayInStep /\ FeedsInStep /\ Length \in Nat /\ Length = Len(journal)
          /\ MaxRows \in Nat /\ Length <= MaxRows
      BY OwedRows, BoundsAssumption DEF IInv, Length, Within
    <2>2. relay \in Receiver
      <3>1. relay \in Feed /\ Len(relay.queue) \in Nat
        BY <2>1 DEF Typed, Feed
      <3>2. \A i \in 1 .. Len(relay.queue) : relay.queue[i] \in 0 .. Length - 1
        <4> DEFINE k == Len(relay.queue)
        <4>1. k \in Nat /\ k <= Length /\ \A i \in 1 .. k : relay.queue[i] = Length - k + i - 1
          BY <2>1, <3>1 DEF RelayInStep
        <4> HIDE DEF k
        <4>2. \A i \in 1 .. k : relay.queue[i] \in 0 .. Length - 1
          BY <2>1, <4>1
        <4> QED BY <4>2 DEF k
      <3> QED BY <2>1, <3>1, <3>2, ReceiverTyped
    <2>3. ASSUME NEW b \in Bridges
          PROVE  /\ bridges[b].pc \in Steps /\ bridges[b].feed \in Receiver /\ bridges[b].tail \in Nat
                 /\ bridges[b].tail = 0 \/ bridges[b].tail < Len(journal)
                 /\ bridges[b].sent \in Seq(forwarded)
      <3>1. /\ bridges[b] \in Bridge /\ bridges[b].pc \in Steps /\ bridges[b].feed \in Feed
            /\ bridges[b].tail \in Nat /\ bridges[b].sent \in Seq(Int)
        BY <2>1 DEF Typed, Bridge
      <3>2. bridges[b].feed \in Receiver
        BY <2>1, <3>1, ReceiverTyped DEF FeedsInStep, FeedInStep
      <3>3. bridges[b].tail = 0 \/ bridges[b].tail < Len(journal)
        <4>1. CASE bridges[b].pc \in Idle
          BY <4>1 DEF Within, WithinAt
        <4>2. CASE bridges[b].pc \notin Idle
          <5>1. Reached(bridges[b].tail + 1, Owed, Length, seeds)
            BY <4>2 DEF IInv, BridgesSound, Sound
          <5> QED BY <2>1, <3>1, <5>1 DEF Reached
        <4> QED BY <4>1, <4>2
      <3>4. bridges[b].sent \in Seq(forwarded)
        <4> DEFINE t == bridges[b].sent
        <4>1. t = [i \in 1 .. Len(t) |-> t[i]] /\ Len(t) \in Nat /\ DOMAIN t = 1 .. Len(t)
          BY <3>1
        <4>2. \A i \in 1 .. Len(t) : t[i] \in forwarded
          BY <4>1 DEF Within, WithinAt
        <4> HIDE DEF t
        <4>3. t \in Seq(forwarded)
          BY <4>1, <4>2
        <4> QED BY <4>3 DEF t
      <3> QED BY <3>1, <3>2, <3>3, <3>4
    <2>4. volatile \in 0 .. Len(journal) /\ chat \cup forwarded \subseteq 0 .. Len(journal) - 1
      BY <2>1 DEF Typed, Within
    <2>5. /\ seeder.pc \in {"idle", "reading", "folded", "returned", "done"}
          /\ seeder.rows \in 0 .. Len(journal) /\ seeds \in -1 .. Len(journal)
      BY <2>1 DEF Typed, Phases
    <2> QED BY <2>1, <2>2, <2>3, <2>4, <2>5 DEF Typed, TypeOK
  <1> QED BY <1>1, <1>2, <1>3, PTL DEF Spec
============================================================================
