---------------------------- MODULE SubagentRuns ----------------------------
(***************************************************************************)
(* The runs of sub-agents: the runtime's table of live runs with its       *)
(* capacity permits (manox-harness, ext/subagent/runtime.rs), the drive    *)
(* task of one activation (spawn.rs), the registry of a child's live faces *)
(* (feeds.rs), and the host's side of it: dispatch, the settlement         *)
(* delivery with its net, the observer's exactly-once marker               *)
(* (manox-agent, subagent.rs) and the Steer arms (steer_bus.rs).           *)
(*                                                                         *)
(* One run id may have several activations: a settled run is continued     *)
(* under the same id.  The table, the marker, the watchdog and the faces   *)
(* are keyed by the id, so every step below that acts on the id may meet   *)
(* an activation other than its own.                                       *)
(***************************************************************************)
EXTENDS Integers, FiniteSets, Sequences

CONSTANTS
    Dispatchers,    \* calls of the dispatch tool that may be under way at once
    Capacity,       \* the number of runs that may be active at once
    Modes,          \* "net": background with a wall-clock budget, and so a net;
                    \* "bare": background without one; "foreground"
    Prior,          \* runs that were dispatched, settled and reported before
    MaxIds,         \* bound: run ids minted
    MaxActs         \* bound: activations started

ASSUME SubagentAssumption ==
    /\ Capacity \in Nat \ {0}
    /\ Modes \subseteq {"net", "bare", "foreground"}
    /\ MaxIds \in Nat \ {0}
    /\ Prior \in 0 .. MaxIds /\ Prior <= MaxActs /\ Modes # {}
    /\ MaxActs \in Nat \ {0}

Ids == 1 .. MaxIds

VARIABLES
    minted,     \* run ids handed out so far (run_seq)
    permits,    \* free permits of the capacity semaphore
    table,      \* the live table: the activation of each id, 0 for none
    call,       \* the dispatch calls: pc, run id, mode, activation
    runs,       \* the activations, in the order they were started
    face,       \* the activation whose faces are registered for each id, or 0
    settledOnce,\* the observer: ids whose settlement has landed
    watch,      \* the observer: ids with a live watchdog
    kinds,      \* the observer: ids it can continue
    rows,       \* run/settled rows written for each id
    forgotten   \* ids whose entry a net has dropped (history)

vars == <<minted, permits, table, call, runs, face, settledOnce, watch, kinds,
          rows, forgotten>>

Acts == 1 .. Len(runs)
OfId(id) == {a \in Acts : runs[a].id = id}

Idle == [pc |-> "idle", id |-> 0, mode |-> "none", act |-> 0]

\* The child is driven; "disposed" once its dispose token is cancelled, which
\* only the drive loop reads.
Driven(a) == runs[a].drive \in {"running", "disposed"}

Disposed(drive) == IF drive = "running" THEN "disposed" ELSE drive

\* The result future of an activation has resolved.
Resolved(a) == runs[a].drive \in {"sent", "done"}

TypeOK ==
    /\ minted \in 0 .. MaxIds
    /\ permits \in 0 .. Capacity
    /\ table \in [Ids -> 0 .. MaxActs]
    /\ call \in [Dispatchers ->
                   [pc : {"idle", "starting", "registering", "started", "waiting"},
                    id : 0 .. MaxIds, mode : Modes \union {"none"}, act : 0 .. MaxActs]]
    /\ runs \in Seq([id : Ids, mode : Modes,
                     drive : {"running", "disposed", "settled", "sent", "done"},
                     watcher : {"none", "waiting", "done"},
                     delivery : {"none", "waiting", "fired", "done"}])
    /\ Len(runs) <= MaxActs
    /\ face \in [Ids -> 0 .. MaxActs]
    /\ settledOnce \subseteq Ids /\ watch \subseteq Ids
    /\ kinds \subseteq Ids /\ forgotten \subseteq Ids
    /\ rows \in [Ids -> 0 .. MaxActs]

\* A run that is over in every respect.
Over(id) == [id |-> id, mode |-> CHOOSE mode \in Modes : TRUE, drive |-> "done",
             watcher |-> "done", delivery |-> "done"]

Init ==
    /\ minted = Prior
    /\ permits = Capacity
    /\ table = [id \in Ids |-> 0]
    /\ call = [d \in Dispatchers |-> Idle]
    /\ runs = [id \in 1 .. Prior |-> Over(id)]
    /\ face = [id \in Ids |-> 0]
    /\ settledOnce = 1 .. Prior /\ kinds = 1 .. Prior
    /\ watch = {} /\ forgotten = {}
    /\ rows = [id \in Ids |-> IF id <= Prior THEN 1 ELSE 0]

------------------------------------------------------------------------------
(* Helpers: one per operation of the table, the observer, the registry.     *)

\* Dropping an entry drops the permit inside it; a missing key is a no-op.
Remove(id) ==
    /\ table' = [table EXCEPT ![id] = 0]
    /\ permits' = IF table[id] = 0 THEN permits ELSE permits + 1

\* Mutant: every settlement lands a row.
OnSettledMutant(id) ==
    /\ settledOnce' = settledOnce \union {id}
    /\ watch' = watch \ {id}
    /\ rows' = [rows EXCEPT ![id] = @ + 1]

\* SubagentRunObserver::on_settled: only the first settlement of an epoch
\* lands its row and retires the watchdog (a settled id has none left).
OnSettled(id) ==
    /\ settledOnce' = settledOnce \union {id}
    /\ watch' = watch \ {id}
    /\ rows' = [rows EXCEPT ![id] = IF id \in settledOnce THEN @ ELSE @ + 1]

observer == <<settledOnce, watch, kinds, rows>>

\* SubagentRunObserver::on_start: a new activation opens a new epoch.
OnStart(id) ==
    /\ settledOnce' = settledOnce \ {id}
    /\ kinds' = kinds \union {id}
    /\ watch' = watch \union {id}
    /\ UNCHANGED rows

------------------------------------------------------------------------------
(* A dispatch call: runtime.start_gated, then the tail of dispatch.         *)

\* The gates of start_gated: a permit is taken before the provider is asked.
\* With no permit left the call is refused and nothing changes.
Reserve(d, id, mode) ==
    /\ call[d] = Idle
    /\ permits > 0
    /\ permits' = permits - 1
    /\ call' = [call EXCEPT ![d] = [pc |-> "starting", id |-> id, mode |-> mode,
                                    act |-> 0]]
    /\ UNCHANGED <<table, runs, face, observer, forgotten>>

Dispatch(d, mode) ==
    /\ minted < MaxIds
    /\ minted' = minted + 1
    /\ Reserve(d, minted', mode)

\* Steer to a run id: refused unless the observer knows it and it is not in
\* the live table.
Continue(d, id, mode) ==
    /\ id \in kinds
    /\ table[id] = 0
    /\ Reserve(d, id, mode)
    /\ UNCHANGED minted

\* The provider fails or times out while it builds the child's session, or the
\* turn's cancel drops the call there: the permit drops with it.
StartFails(d) ==
    /\ call[d].pc = "starting"
    /\ permits' = permits + 1
    /\ call' = [call EXCEPT ![d] = Idle]
    /\ UNCHANGED <<minted, table, runs, face, observer, forgotten>>

\* The provider starts the child: faces registered under a new activation,
\* observer told, drive task spawned.
ProviderStarts(d) ==
    LET a == Len(runs) + 1
        id == call[d].id IN
    /\ call[d].pc = "starting"
    /\ a <= MaxActs
    /\ runs' = Append(runs, [id |-> id, mode |-> call[d].mode, drive |-> "running",
                             watcher |-> "none", delivery |-> "none"])
    /\ face' = [face EXCEPT ![id] = a]
    /\ OnStart(id)
    /\ call' = [call EXCEPT ![d].pc = "registering", ![d].act = a]
    /\ UNCHANGED <<minted, permits, table, forgotten>>

\* Mutant: no second look at the table: the entry of the first run is overwritten,
\* and its permit with it.
RegisterMutant(d) ==
    LET id == call[d].id
        a == call[d].act IN
    /\ call[d].pc = "registering"
    /\ table' = [table EXCEPT ![id] = a]
    /\ permits' = IF table[id] = 0 THEN permits ELSE permits + 1
    /\ runs' = [runs EXCEPT ![a].watcher = "waiting"]
    /\ call' = [call EXCEPT ![d].pc = "started"]
    /\ UNCHANGED <<minted, face, observer, forgotten>>

\* The atomic re-check and insert.  A conflict disposes the run just started
\* and returns, which drops the permit; otherwise the settle watcher starts.
Register(d) ==
    LET id == call[d].id
        a == call[d].act IN
    /\ call[d].pc = "registering"
    /\ \/ /\ table[id] # 0
          /\ runs' = [runs EXCEPT ![a].drive = Disposed(@)]
          /\ permits' = permits + 1
          /\ call' = [call EXCEPT ![d] = Idle]
          /\ UNCHANGED table
       \/ /\ table[id] = 0
          /\ table' = [table EXCEPT ![id] = a]
          /\ runs' = [runs EXCEPT ![a].watcher = "waiting"]
          /\ call' = [call EXCEPT ![d].pc = "started"]
          /\ UNCHANGED permits
    /\ UNCHANGED <<minted, face, observer, forgotten>>

\* The run/started or run/continued row is written; a background run gets its
\* settlement delivery and the call returns, a foreground one is awaited.
Started(d) ==
    LET a == call[d].act IN
    /\ call[d].pc = "started"
    /\ IF call[d].mode = "foreground"
         THEN /\ call' = [call EXCEPT ![d].pc = "waiting"]
              /\ UNCHANGED runs
         ELSE /\ call' = [call EXCEPT ![d] = Idle]
              /\ runs' = [runs EXCEPT ![a].delivery = "waiting"]
    /\ UNCHANGED <<minted, permits, table, face, observer, forgotten>>

\* The foreground wait ends with the result: the observation state of the id
\* is retired and the call returns.
ForegroundEnds(d) ==
    /\ call[d].pc = "waiting"
    /\ Resolved(call[d].act)
    /\ watch' = watch \ {call[d].id}
    /\ call' = [call EXCEPT ![d] = Idle]
    /\ UNCHANGED <<minted, permits, table, runs, face, settledOnce, kinds, rows,
                   forgotten>>

\* The wait is promoted to the background: a delivery with no net.
Promote(d) ==
    /\ call[d].pc = "waiting"
    /\ runs' = [runs EXCEPT ![call[d].act].delivery = "waiting"]
    /\ call' = [call EXCEPT ![d] = Idle]
    /\ UNCHANGED <<minted, permits, table, face, observer, forgotten>>

\* The tool runner drops the wait of a call whose signal is cancelled: nothing
\* is retired.
AbandonWait(d) ==
    /\ call[d].pc = "waiting"
    /\ runs[call[d].act].drive = "disposed"
    /\ call' = [call EXCEPT ![d] = Idle]
    /\ UNCHANGED <<minted, permits, table, runs, face, observer, forgotten>>

\* The dispatching turn is cancelled: its signal is the dispose token of its
\* foreground run, and still is when the run has been promoted.
CancelTurn(a) ==
    /\ runs[a].mode = "foreground"
    /\ runs[a].drive = "running"
    /\ runs' = [runs EXCEPT ![a].drive = "disposed"]
    /\ UNCHANGED <<minted, permits, table, call, face, observer, forgotten>>

------------------------------------------------------------------------------
(* The drive task of activation a.                                          *)

\* drive_run ends (prompt done, disposed, budget, stall, panic) and tells the
\* observer.
DriveSettles(a) ==
    /\ Driven(a)
    /\ runs' = [runs EXCEPT ![a].drive = "settled"]
    /\ OnSettled(runs[a].id)
    /\ UNCHANGED <<minted, permits, table, call, face, kinds, forgotten>>

SendsResult(a) ==
    /\ runs[a].drive = "settled"
    /\ runs' = [runs EXCEPT ![a].drive = "sent"]
    /\ UNCHANGED <<minted, permits, table, call, face, observer, forgotten>>

\* Mutant: the guard removes the faces of the id.
DropsFacesMutant(a) ==
    /\ runs[a].drive = "sent"
    /\ runs' = [runs EXCEPT ![a].drive = "done"]
    /\ face' = [face EXCEPT ![runs[a].id] = 0]
    /\ UNCHANGED <<minted, permits, table, call, observer, forgotten>>

\* The guard drops: only faces registered under this activation are removed.
DropsFaces(a) ==
    /\ runs[a].drive = "sent"
    /\ runs' = [runs EXCEPT ![a].drive = "done"]
    /\ face' = [face EXCEPT ![runs[a].id] = IF @ = a THEN 0 ELSE @]
    /\ UNCHANGED <<minted, permits, table, call, observer, forgotten>>

------------------------------------------------------------------------------
(* The settle watcher and the settlement delivery of activation a.          *)

\* Mutant: the permit is given back by the watcher itself, not by the entry it drops.
WatcherEndsMutant(a) ==
    /\ runs[a].watcher = "waiting"
    /\ Resolved(a)
    /\ table' = [table EXCEPT ![runs[a].id] = 0]
    /\ permits' = permits + 1
    /\ runs' = [runs EXCEPT ![a].watcher = "done"]
    /\ UNCHANGED <<minted, call, face, observer, forgotten>>

\* The watcher removes the entry of the ID, whichever activation it names.
WatcherEnds(a) ==
    /\ runs[a].watcher = "waiting"
    /\ Resolved(a)
    /\ Remove(runs[a].id)
    /\ runs' = [runs EXCEPT ![a].watcher = "done"]
    /\ UNCHANGED <<minted, call, face, observer, forgotten>>

\* Mutant: the run is disposed but keeps its entry.
NetFiresMutant(a) ==
    /\ runs[a].delivery = "waiting"
    /\ runs[a].mode = "net"
    /\ ~Resolved(a)
    /\ runs' = [runs EXCEPT ![a].drive = Disposed(@), ![a].delivery = "fired"]
    /\ UNCHANGED <<minted, permits, table, call, face, observer, forgotten>>

\* The net expires with no result: dispose the run, forget its id.
NetFires(a) ==
    LET id == runs[a].id IN
    /\ runs[a].delivery = "waiting"
    /\ runs[a].mode = "net"
    /\ ~Resolved(a)
    /\ Remove(id)
    /\ runs' = [runs EXCEPT ![a].drive = Disposed(@), ![a].delivery = "fired"]
    /\ forgotten' = forgotten \union {id}
    /\ UNCHANGED <<minted, call, face, observer>>

\* The result is composed and sent to the owner; retire drops the id's
\* observation state.
Delivers(a) ==
    /\ runs[a].delivery = "waiting"
    /\ Resolved(a)
    /\ watch' = watch \ {runs[a].id}
    /\ runs' = [runs EXCEPT ![a].delivery = "done"]
    /\ UNCHANGED <<minted, permits, table, call, face, settledOnce, kinds, rows,
                   forgotten>>

\* After its net has fired, the delivery first lands the settlement that the
\* drive has not landed.
NetDelivers(a) ==
    /\ runs[a].delivery = "fired"
    /\ OnSettled(runs[a].id)
    /\ runs' = [runs EXCEPT ![a].delivery = "done"]
    /\ UNCHANGED <<minted, permits, table, call, face, kinds, forgotten>>

\* Steer Abort, and each step of interrupt_all_runs: cancels the dispose token
\* in the table's entry.
Abort(id) ==
    /\ table[id] # 0
    /\ runs[table[id]].drive = "running"
    /\ runs' = [runs EXCEPT ![table[id]].drive = "disposed"]
    /\ UNCHANGED <<minted, permits, table, call, face, observer, forgotten>>

------------------------------------------------------------------------------
Next ==
    \/ \E d \in Dispatchers :
         \/ \E mode \in Modes : Dispatch(d, mode)
         \/ \E id \in Ids, mode \in Modes : Continue(d, id, mode)
         \/ StartFails(d)
         \/ ProviderStarts(d)
         \/ Register(d)
         \/ Started(d)
         \/ ForegroundEnds(d)
         \/ Promote(d)
         \/ AbandonWait(d)
    \/ \E a \in Acts :
         \/ CancelTurn(a)
         \/ DriveSettles(a)
         \/ SendsResult(a)
         \/ DropsFaces(a)
         \/ WatcherEnds(a)
         \/ NetFires(a)
         \/ Delivers(a)
         \/ NetDelivers(a)
    \/ \E id \in Ids : Abort(id)

\* The settle watcher and the delivery task run, and the net's timer expires.
\* Nothing is assumed of the drive: a child may hang for ever.
Fairness ==
    \A a \in Prior + 1 .. MaxActs :
      /\ WF_vars(a \in Acts /\ WatcherEnds(a))
      /\ WF_vars(a \in Acts /\ (NetFires(a) \/ Delivers(a) \/ NetDelivers(a)))

Spec == Init /\ [][Next]_vars /\ Fairness

------------------------------------------------------------------------------
(* Properties.                                                              *)

\* Every permit is free, in a table entry or with a call on its way to one: no
\* refusal, failed start, forget, watcher or late settlement leaks a slot or
\* gives one back twice, in any order they come.
SlotsConserved ==
    permits + Cardinality({id \in Ids : table[id] # 0})
            + Cardinality({d \in Dispatchers :
                             call[d].pc \in {"starting", "registering"}})
      = Capacity

\* A child that still runs can be stopped: it is being registered, or it is the
\* one the table names for its id, or it has been disposed already (the loser
\* of two continuations of one id).  Ids dropped by a net are excepted.
NoStray ==
    \A a \in Acts :
      (runs[a].drive = "running" /\ runs[a].id \notin forgotten) =>
         \/ \E d \in Dispatchers : call[d].act = a /\ call[d].pc = "registering"
         \/ table[runs[a].id] = a

\* No id has more run/settled rows than activations, whoever settles it: the
\* drive, a net and then the drive that recovers, the loser of a race.
RowsPerActivation ==
    \A id \in Ids : rows[id] <= Cardinality(OfId(id))

\* The newest activation of an id can be reached by guidance and by its bridge
\* until its result is out, whenever the drive of an older one comes to exit.
NewestHasFaces ==
    \A id \in Ids : \A a \in OfId(id) :
      (~Resolved(a) /\ \A b \in OfId(id) : b <= a) => face[id] = a

\* A budgeted background run is reported, its slot comes back and its durable
\* run/settled row lands (or the id has been reopened), even if its drive never
\* settles: the settlement net.
NetCovers ==
    \A a \in Prior + 1 .. MaxActs :
      (a \in Acts /\ runs[a].delivery = "waiting" /\ runs[a].mode = "net") ~>
        /\ a \in Acts /\ runs[a].delivery = "done"
        /\ table[runs[a].id] # a
        /\ runs[a].id \in settledOnce \/ \E b \in OfId(runs[a].id) : b > a
=============================================================================
