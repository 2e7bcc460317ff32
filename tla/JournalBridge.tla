--------------------------- MODULE JournalBridge ---------------------------
(* How the rows of one session's journal reach the AHP host                 *)
(* (manox-ahp-runtime, ahp/backend.rs).  A seed subscribes to the thread's  *)
(* journal feed, folds a snapshot into the host's chat and starts a bridge: *)
(* a task that replays the durable rows above its resume point and then     *)
(* forwards the feed.  Commands make sure that a bridge runs, a submit      *)
(* aborts it and starts another one above its watermark.                    *)
(*                                                                          *)
(* A row is its position in the journal (its seq) and its kind: a "state"   *)
(* row carries a fact a client cannot miss, a "delta" row a streamed chunk, *)
(* a "turn" row is a user row or a turn start, which the bridge skips since *)
(* the client's own dispatch expressed it.                                  *)
EXTENDS Integers, Sequences, FiniteSets

CONSTANTS MaxRows,          \* bound: rows the journal may reach
          FeedWindow,       \* capacity of a bridge's receiver
          RelayWindow,      \* capacity of the relay's receiver
          MaxBridges,       \* bound: bridge tasks that exist at one time
          Submits,          \* the dispatches of chat/turnStarted
          MaxEnsures,       \* bound: commands that ensure a bridge
          InitialThreads,   \* the states the thread may be found in
          InitialRows       \* how many rows its journal may then have

ASSUME BoundsAssumption ==
    /\ {MaxRows, MaxBridges, MaxEnsures} \subseteq Nat
    /\ {FeedWindow, RelayWindow} \subseteq Nat \ {0}
    /\ MaxBridges > 0
    /\ InitialThreads \subseteq {"cold", "landing", "live"}
    /\ InitialRows \subseteq 0 .. MaxRows

VARIABLES journal,    \* the kinds of the rows, in seq order (seq 0 first)
          deferred,   \* no file yet: the rows live in memory only
          volatile,   \* how many rows were appended in that time
          thread,     \* "cold": not open, "landing": no engine, "live"
          relay,      \* the engine's relay: the receiver it reads
          seeder,     \* the first subscription: its step, what it read
          seeds,      \* rows folded into the cached seed, -1: none
          chat,       \* rows in the host's chat state
          forwarded,  \* rows published to the host by any bridge
          bridges,    \* the bridge tasks
          slot,       \* the bridge the session's entry holds, 0: none
          submits,    \* where each submit is
          ensures     \* commands left

vars == <<journal, deferred, volatile, thread, relay, seeder, seeds, chat,
          forwarded, bridges, slot, submits, ensures>>

rows == <<journal, deferred, volatile>>
engine == <<journal, deferred, volatile, thread, relay>>
host == <<chat, forwarded>>

Kinds == {"state", "delta", "turn"}
Rows == 0 .. MaxRows - 1
LAGGED == -1                        \* JournalFeed::Lagged, sent in band
Bridges == 1 .. MaxBridges
Kind(n) == journal[n + 1]

Larger(a, b) == IF a >= b THEN a ELSE b

(* A receiver of a bounded broadcast channel.  A full one drops its oldest  *)
(* element, which its owner learns from the next recv.                      *)
Receiver == [queue : Seq(Rows \cup {LAGGED}), lost : BOOLEAN,
             open : {"none", "open", "closed"}]
NoReceiver == [queue |-> << >>, lost |-> FALSE, open |-> "none"]
OpenReceiver == [NoReceiver EXCEPT !.open = "open"]

Push(feed, item, window) ==
    IF feed.open # "open" THEN feed
    ELSE IF Len(feed.queue) < window
    THEN [feed EXCEPT !.queue = Append(@, item)]
    ELSE [feed EXCEPT !.queue = Append(Tail(@), item), !.lost = TRUE]

(* subscribe_journal_feed: a thread without an engine yields a channel that *)
(* is closed from the start.                                                *)
Subscription ==
    CASE thread = "live"    -> OpenReceiver
      [] thread = "landing" -> [NoReceiver EXCEPT !.open = "closed"]
      [] OTHER              -> NoReceiver

(* The last seq of n rows; an empty journal answers 0 too.                  *)
CursorOf(n) == IF n = 0 THEN 0 ELSE n - 1

(* What a cold read finds: nothing before the session has a file.           *)
OnDisk == IF deferred THEN 0 ELSE Len(journal)

Unborn == [pc |-> "unborn", feed |-> NoReceiver, tail |-> 0, next |-> 0,
           end |-> 0, stateOnly |-> FALSE, aborted |-> FALSE, sent |-> << >>]

Init ==
    /\ journal \in {[i \in 1 .. n |-> "state"] : n \in InitialRows}
    /\ thread \in InitialThreads
    /\ deferred \in BOOLEAN
    /\ journal = << >> => deferred
    /\ deferred => \/ thread = "live"
                   \/ thread = "landing" /\ journal = << >>
    /\ volatile = IF deferred THEN Len(journal) ELSE 0
    /\ relay = IF thread = "live" THEN OpenReceiver ELSE NoReceiver
    /\ seeder = [pc |-> "idle", rows |-> 0]
    /\ seeds = -1
    /\ chat = {}
    /\ forwarded = {}
    /\ bridges = [b \in Bridges |-> Unborn]
    /\ slot = 0
    /\ submits = [s \in Submits |-> [pc |-> "idle", resume |-> -1]]
    /\ ensures = MaxEnsures

-----------------------------------------------------------------------------
(* The engine: appends and the relay of its storage broadcast.              *)

(* One append.  A deferred session keeps the row in memory unless the entry *)
(* is marked durable, which writes the file with every row before it.       *)
AppendEntry(kind, durable) ==
    /\ thread = "live"
    /\ Len(journal) < MaxRows
    /\ kind = "delta" => ~durable
    /\ journal' = Append(journal, kind)
    /\ deferred' = (deferred /\ ~durable)
    /\ volatile' = IF deferred' THEN volatile + 1 ELSE volatile
    /\ relay' = Push(relay, Len(journal), RelayWindow)
    /\ UNCHANGED <<thread, seeder, seeds, host, bridges, slot, submits, ensures>>

(* The relay turns its own lag into an element of the feed.                 *)
Relay ==
    /\ relay.lost \/ relay.queue # << >>
    /\ LET item == IF relay.lost THEN LAGGED ELSE Head(relay.queue)
       IN  bridges' = [b \in Bridges |->
             [bridges[b] EXCEPT !.feed = Push(@, item, FeedWindow)]]
    /\ relay' = IF relay.lost THEN [relay EXCEPT !.lost = FALSE]
                              ELSE [relay EXCEPT !.queue = Tail(@)]
    /\ UNCHANGED <<rows, thread, seeder, seeds, host, slot, submits, ensures>>

(* A command that needs the session gives its thread an engine, with a      *)
(* channel of its own.                                                      *)
Engine ==
    /\ thread' = "live"
    /\ relay' = IF thread = "live" THEN relay ELSE OpenReceiver

OpenSession ==
    /\ thread # "live"
    /\ Engine
    /\ UNCHANGED <<rows, seeder, seeds, host, bridges, slot, submits, ensures>>

-----------------------------------------------------------------------------
(* Starting a bridge.                                                       *)

(* The entry holds a task that has not finished.                            *)
Alive == slot # 0 /\ bridges[slot].pc # "dead"

(* Mutant: the seed's tail row is forwarded again.                          *)
FirstBridgeResumeMutant(folded) == CursorOf(folded)

(* One past the tail the seed folded.                                       *)
FirstBridgeResume(folded) == CursorOf(folded) + 1

(* One past the watermark of the bridge in the slot.                        *)
AboveWatermark == bridges[slot].tail + 1

(* Where a bridge resumes that was given no seq of its own.                 *)
ResumePoint(folded) ==
    IF slot = 0 THEN FirstBridgeResume(folded) ELSE AboveWatermark

Unused == {b \in Bridges : bridges[b].pc = "unborn"}
Fresh == CHOOSE b \in Unused : \A c \in Unused : b <= c

(* A task that ended leaves its watermark to the entry that holds it; an    *)
(* aborted one has none.                                                    *)
Ended(bridge) == IF bridge.aborted THEN Unborn
                 ELSE [Unborn EXCEPT !.pc = "dead", !.tail = bridge.tail]

Spawned(feed, resume) ==
    [Unborn EXCEPT !.pc = "spawned", !.feed = feed,
                   !.tail = IF resume = 0 THEN 0 ELSE resume - 1,
                   !.next = resume]

(* Mutant: the task that held the entry is not aborted.                     *)
SupersededMutant(bridge) == bridge

(* The entry is removed and its task aborted.                               *)
Superseded(bridge) == IF bridge.pc = "dead" THEN Unborn
                      ELSE [bridge EXCEPT !.aborted = TRUE]

(* start_bridge_with_feed, under the lock on the bridges: resume -1 derives *)
(* the point, and returns when the bridge is alive.  b is the task it       *)
(* spawns, feed the receiver the caller holds, folded the rows of the seed. *)
(* A cold session has nothing to bridge.                                    *)
StartBridgeWithFeed(b, feed, resume, folded) ==
    IF \/ resume = -1 /\ Alive
       \/ feed = NoReceiver /\ thread = "cold"
    THEN /\ bridges' = [bridges EXCEPT ![b] = Unborn]
         /\ slot' = slot
    ELSE /\ bridges' = [c \in Bridges |->
              IF c = b
              THEN Spawned(feed, IF resume = -1 THEN ResumePoint(folded)
                                                ELSE resume)
              ELSE IF c = slot THEN Superseded(bridges[c]) ELSE bridges[c]]
         /\ slot' = b

-----------------------------------------------------------------------------
(* Seeding (seeded) and the host's own installation of what it returned     *)
(* (ensure_session).                                                        *)

(* The feed is subscribed before the snapshot is read; the receiver is kept *)
(* in the record of the bridge that will own it.                            *)
SeedSubscribe ==
    /\ seeder.pc = "idle"
    /\ seeds = -1
    /\ Unused # {}
    /\ seeder' = [seeder EXCEPT !.pc = "reading"]
    /\ bridges' = [bridges EXCEPT ![Fresh] =
                     [Unborn EXCEPT !.pc = "held", !.feed = Subscription]]
    /\ UNCHANGED <<engine, seeds, host, slot, submits, ensures>>

Held == CHOOSE b \in Bridges : bridges[b].pc = "held"

(* The snapshot: the engine's memory when the thread was open and has one,  *)
(* the file otherwise.                                                      *)
SeedSnapshot ==
    /\ seeder.pc = "reading"
    /\ LET hasEngine == bridges[Held].feed.open # "none" /\ thread = "live"
       IN  seeder' = [seeder EXCEPT !.pc = "folded",
                        !.rows = IF hasEngine THEN Len(journal) ELSE OnDisk]
    /\ UNCHANGED <<engine, seeds, host, bridges, slot, submits, ensures>>

(* The seed is cached, installed as the host's chat, and bridged.           *)
SeedInstall ==
    /\ seeder.pc = "folded"
    /\ seeds' = seeder.rows
    /\ chat' = 0 .. seeder.rows - 1
    /\ forwarded' = forwarded
    /\ StartBridgeWithFeed(Held, bridges[Held].feed, -1, seeder.rows)
    /\ seeder' = [seeder EXCEPT !.pc = "returned"]
    /\ UNCHANGED <<engine, submits, ensures>>

(* ensure_session: the chat of the seed it was answered with replaces the   *)
(* host's.                                                                  *)
EnsureSession ==
    /\ seeder.pc = "returned"
    /\ chat' = 0 .. seeds - 1
    /\ forwarded' = forwarded
    /\ seeder' = [seeder EXCEPT !.pc = "done"]
    /\ UNCHANGED <<engine, seeds, bridges, slot, submits, ensures>>

-----------------------------------------------------------------------------
(* The dispatches that start bridges.  Both need the seeded channel.        *)

(* A command that opened the session makes sure a bridge runs; with a live  *)
(* one it changes nothing.                                                  *)
EnsureBridge ==
    /\ ensures > 0
    /\ seeder.pc = "done"
    /\ thread = "live"
    /\ ~Alive
    /\ Unused # {}
    /\ StartBridgeWithFeed(Fresh, NoReceiver, -1, seeds)
    /\ ensures' = ensures - 1
    /\ UNCHANGED <<engine, seeder, seeds, host, submits>>

(* A submit materializes the engine ...                                     *)
Submit(s) ==
    /\ submits[s].pc = "idle"
    /\ seeder.pc = "done"
    /\ Engine
    /\ submits' = [submits EXCEPT ![s].pc = "submitted"]
    /\ UNCHANGED <<rows, seeder, seeds, host, bridges, slot, ensures>>

(* ... takes the entry, aborts its task and reads the watermark ...         *)
TakeBridge(s) ==
    /\ submits[s].pc = "submitted"
    /\ submits' = [submits EXCEPT ![s] = [pc |-> "taken",
                     resume |-> IF slot = 0 THEN -1 ELSE AboveWatermark]]
    /\ bridges' = IF slot = 0 THEN bridges
                  ELSE [bridges EXCEPT ![slot] = Superseded(@)]
    /\ slot' = 0
    /\ UNCHANGED <<engine, seeder, seeds, host, ensures>>

(* ... and starts the next bridge above it.                                 *)
RestartBridge(s) ==
    /\ submits[s].pc = "taken"
    /\ Unused # {}
    /\ StartBridgeWithFeed(Fresh, NoReceiver, submits[s].resume, seeds)
    /\ submits' = [submits EXCEPT ![s] = [pc |-> "done", resume |-> -1]]
    /\ UNCHANGED <<engine, seeder, seeds, host, ensures>>

-----------------------------------------------------------------------------
(* A bridge task.                                                           *)

Moved(b, record) ==
    /\ bridges' = [bridges EXCEPT ![b] = record]
    /\ UNCHANGED <<engine, seeder, seeds, slot, submits, ensures>>

(* Cursor::accounted.                                                       *)
Accounted(bridge, seq) == [bridge EXCEPT !.tail = Larger(@, seq)]

(* forward_entry: user rows and turn starts are not published.              *)
Published(n) == IF Kind(n) = "turn" THEN {} ELSE {n}

ForwardEntry(b, bridge, n) ==
    /\ chat' = chat \cup Published(n)
    /\ forwarded' = forwarded \cup Published(n)
    /\ Moved(b, IF Published(n) = {} THEN bridge
                ELSE [bridge EXCEPT !.sent = Append(@, n)])

(* Mutant: a bridge without a receiver never gets one, alive but deaf.      *)
SubscribeMutant(b) ==
    /\ bridges[b].pc = "spawned"
    /\ Moved(b, [bridges[b] EXCEPT !.pc = "reading"])
    /\ UNCHANGED host

(* The first poll: a bridge without a receiver subscribes before it reads.  *)
Subscribe(b) ==
    /\ bridges[b].pc = "spawned"
    /\ Moved(b, [bridges[b] EXCEPT !.pc = "reading",
                   !.feed = IF @.open = "none" THEN Subscription ELSE @])
    /\ UNCHANGED host

(* replay_journal: the cold read ...                                        *)
ReplayRead(b) ==
    /\ bridges[b].pc = "reading"
    /\ Moved(b, [bridges[b] EXCEPT !.pc = IF deferred THEN "recv" ELSE "replay",
                                   !.end = OnDisk])
    /\ UNCHANGED host

(* ... every row at and above the resume point, or only the state-bearing   *)
(* ones, without a point at which the task could be stopped ...             *)
Skipped(b) == bridges[b].stateOnly /\ Kind(bridges[b].next) = "delta"

ReplayRow(b) ==
    /\ bridges[b].pc = "replay"
    /\ bridges[b].next < bridges[b].end
    /\ IF Skipped(b)
       THEN UNCHANGED host /\ Moved(b, [bridges[b] EXCEPT !.next = @ + 1])
       ELSE ForwardEntry(b, [bridges[b] EXCEPT !.pc = "replayed"],
                         bridges[b].next)

ReplayAccount(b) ==
    /\ bridges[b].pc = "replayed"
    /\ Moved(b, [Accounted(bridges[b], bridges[b].next)
                   EXCEPT !.pc = "replay", !.next = @ + 1])
    /\ UNCHANGED host

(* ... and the cursor of the file, whatever was forwarded.                  *)
ReplayEnd(b) ==
    /\ bridges[b].pc = "replay"
    /\ bridges[b].next >= bridges[b].end
    /\ Moved(b, [Accounted(bridges[b], CursorOf(bridges[b].end))
                   EXCEPT !.pc = "recv", !.next = 0, !.end = 0,
                          !.stateOnly = FALSE])
    /\ UNCHANGED host

(* Mutant: the row at the tail passes.                                      *)
StaleMutant(b, n) == n < bridges[b].tail

(* The live loop.  What a replay forwarded is filtered out of the feed.     *)
Stale(b, n) == n <= bridges[b].tail

Receive(b) ==
    LET bridge == bridges[b]
        n == Head(bridge.feed.queue)
        rest == [bridge EXCEPT !.feed.queue = Tail(@)]
    IN  /\ bridge.pc = "recv"
        /\ ~bridge.feed.lost
        /\ bridge.feed.queue # << >>
        /\ n # LAGGED
        /\ IF Stale(b, n)
           THEN UNCHANGED host /\ Moved(b, rest)
           ELSE ForwardEntry(b, [rest EXCEPT !.pc = "received", !.next = n], n)

ReceiveAccount(b) ==
    /\ bridges[b].pc = "received"
    /\ Moved(b, [Accounted(bridges[b], bridges[b].next)
                   EXCEPT !.pc = "recv", !.next = 0])
    /\ UNCHANGED host

(* Mutant: the lag is skipped and the rows of the gap with it.              *)
ResyncMutant(b) ==
    LET bridge == bridges[b] IN
    /\ bridge.pc = "recv"
    /\ ~bridge.feed.lost
    /\ bridge.feed.queue # << >>
    /\ Head(bridge.feed.queue) = LAGGED
    /\ Moved(b, [bridge EXCEPT !.feed.queue = Tail(@)])
    /\ UNCHANGED host

(* The relay lagged: the state-bearing rows of the gap are read back.       *)
Resync(b) ==
    LET bridge == bridges[b] IN
    /\ bridge.pc = "recv"
    /\ ~bridge.feed.lost
    /\ bridge.feed.queue # << >>
    /\ Head(bridge.feed.queue) = LAGGED
    /\ Moved(b, [bridge EXCEPT !.pc = "reading", !.stateOnly = TRUE,
                   !.next = bridge.tail + 1, !.feed.queue = Tail(@)])
    /\ UNCHANGED host

(* Any error of recv ends the task: a closed feed, and a receiver that the  *)
(* feed has outrun.                                                         *)
Exit(b) ==
    LET feed == bridges[b].feed IN
    /\ bridges[b].pc = "recv"
    /\ feed.lost \/ (feed.open = "closed" /\ feed.queue = << >>)
    /\ Moved(b, Ended(bridges[b]))
    /\ UNCHANGED host

(* An aborted task ends at the next await that has to wait.  One that runs  *)
(* on another worker goes on until then.                                    *)
Cancelled(b) ==
    /\ bridges[b].aborted
    /\ bridges[b].pc \in {"spawned", "reading", "recv"}
    /\ Moved(b, Ended(bridges[b]))
    /\ UNCHANGED host

BridgeStep(b) ==
    \/ Subscribe(b)
    \/ ReplayRead(b)
    \/ ReplayRow(b)
    \/ ReplayAccount(b)
    \/ ReplayEnd(b)
    \/ Receive(b)
    \/ ReceiveAccount(b)
    \/ Resync(b)
    \/ Exit(b)
    \/ Cancelled(b)

SeedStep == SeedSnapshot \/ SeedInstall \/ EnsureSession
SubmitStep(s) == TakeBridge(s) \/ RestartBridge(s)

Next ==
    \/ \E kind \in Kinds, durable \in BOOLEAN : AppendEntry(kind, durable)
    \/ Relay
    \/ OpenSession
    \/ SeedSubscribe
    \/ SeedStep
    \/ EnsureBridge
    \/ \E s \in Submits : Submit(s) \/ SubmitStep(s)
    \/ \E b \in Bridges : BridgeStep(b)

Spec == Init /\ [][Next]_vars

(* Tasks that can run are polled: the bridges, the relay, and the threads   *)
(* that seed and dispatch.                                                  *)
Fairness ==
    /\ WF_vars(Relay)
    /\ WF_vars(SeedStep)
    /\ \A s \in Submits : WF_vars(SubmitStep(s))
    /\ \A b \in Bridges : WF_vars(BridgeStep(b))

FairSpec == Spec /\ Fairness

-----------------------------------------------------------------------------
(* Properties.                                                              *)

Steps == {"unborn", "held", "spawned", "reading", "replay", "replayed", "recv",
          "received", "dead"}

(* The state keeps its type: a row is broadcast, replayed and forwarded     *)
(* only once the journal has it, and no cursor runs ahead of the journal    *)
(* (an empty one has cursor 0).                                             *)
TypeOK ==
    /\ journal \in Seq(Kinds) /\ Len(journal) <= MaxRows
    /\ deferred \in BOOLEAN /\ volatile \in 0 .. Len(journal)
    /\ thread \in {"cold", "landing", "live"}
    /\ relay \in Receiver
    /\ seeder.pc \in {"idle", "reading", "folded", "returned", "done"}
    /\ seeder.rows \in 0 .. Len(journal)
    /\ seeds \in -1 .. Len(journal)
    /\ chat \cup forwarded \subseteq 0 .. Len(journal) - 1
    /\ slot \in 0 .. MaxBridges
    /\ \A b \in Bridges :
         /\ bridges[b].pc \in Steps
         /\ bridges[b].feed \in Receiver
         /\ bridges[b].tail \in Nat
         /\ bridges[b].tail = 0 \/ bridges[b].tail < Len(journal)
         /\ bridges[b].sent \in Seq(forwarded)

(* A row is with the clients when the seed folded it or a bridge forwarded  *)
(* it.                                                                      *)
Served(n) == n < seeds \/ n \in forwarded

(* Two kinds of row have no such guarantee: those that were in memory only  *)
(* when a receiver was given up, and the first row of a journal that was    *)
(* empty when it was seeded, since cursor 0 says both "row 0" and "none".   *)
Recoverable(n) == n >= volatile /\ ~(n = 0 /\ seeds = 0)

(* Nothing below a watermark is missing: a state-bearing row that any       *)
(* bridge accounts for, and so any later bridge resumes above, was folded   *)
(* or forwarded, whatever lagged, exited or was aborted (Cursor,            *)
(* replay_journal, force_bridge_restart).                                   *)
NoGap ==
    \A b \in Bridges : bridges[b].pc \notin {"unborn", "held"} =>
        \A n \in 0 .. Len(journal) - 1 :
            n <= bridges[b].tail /\ Kind(n) = "state" /\ Recoverable(n)
                => Served(n)

(* One bridge forwards a row once and in order: replay, resync and the      *)
(* buffered feed overlap, and the filter on the tail removes the overlap    *)
(* (run_bridge).                                                            *)
ForwardsOnceInOrder ==
    \A b \in Bridges : LET sent == bridges[b].sent IN
        \A i, j \in DOMAIN sent : i < j => sent[i] < sent[j]

(* A row the seed folded into the state a subscriber was answered with is   *)
(* never forwarded on top of it (first_bridge_resume).                      *)
FoldedNotForwarded ==
    \A n \in forwarded : n >= seeds

(* At most one bridge of the session is not on its way out: whatever held   *)
(* the slot is aborted, also when two submits restart it at once            *)
(* (start_bridge_with_feed, force_bridge_restart).                          *)
SingleBridge ==
    Cardinality({b \in Bridges : /\ bridges[b].pc \notin {"unborn", "held", "dead"}
                                 /\ ~bridges[b].aborted}) <= 1

(* No bridge is left to forward anything, and no restart is under way.      *)
NoBridge ==
    /\ ~Alive
    /\ \A s \in Submits : submits[s].pc \notin {"submitted", "taken"}

(* Every state-bearing row there is has reached the clients of the session. *)
CaughtUp ==
    \A n \in 0 .. Len(journal) - 1 :
        Kind(n) = "state" /\ Recoverable(n) => Served(n)

(* The clients of a seeded session catch up again and again with the        *)
(* journal, unless the bridge exited and nothing has restarted it           *)
(* (run_bridge, relay, restarts).                                           *)
CatchesUpUnlessExited == []<>(seeder.pc # "done" \/ CaughtUp \/ NoBridge)

(* What the comment on bridge says of a lag: the missed rows are read back  *)
(* and forwarded, so the clients of a running session always catch up.      *)
LagIsResynced == []<>(seeder.pc # "done" \/ CaughtUp)

(* What the comment on seed_session says: seeding is no second source of    *)
(* truth, so the host's chat keeps what was published to its clients.       *)
ChatKeepsForwarded == forwarded \subseteq chat
=============================================================================
