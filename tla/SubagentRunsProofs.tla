------------------------- MODULE SubagentRunsProofs -------------------------
(***************************************************************************)
(* The safety of the sub-agent runs for any number of dispatch calls, run  *)
(* ids, activations and slots.  The inductive invariant adds to the stated *)
(* properties what a dispatch call knows of the activation it started, that*)
(* the table names activations of its own ids, that a settle watcher still *)
(* waiting belongs to the activation the table names, and that an id whose *)
(* newest epoch has not settled yet has a row to spare.                    *)
(***************************************************************************)
EXTENDS SubagentRuns, FiniteSetTheorems, TLAPS

Activation == [id : Ids, mode : Modes,
               drive : {"running", "disposed", "settled", "sent", "done"},
               watcher : {"none", "waiting", "done"},
               delivery : {"none", "waiting", "fired", "done"}]

Call == [pc : {"idle", "starting", "registering", "started", "waiting"},
         id : 0 .. MaxIds, mode : Modes \union {"none"}, act : 0 .. MaxActs]

Booked == {id \in Ids : table[id] # 0}
Reserving == {d \in Dispatchers : call[d].pc \in {"starting", "registering"}}

\* A call past its start owns one activation of its id, and owns it alone.
CallsOwn ==
  \A d \in Dispatchers :
    /\ call[d].pc = "idle" => call[d] = Idle
    /\ call[d].pc # "idle" => call[d].id \in Ids /\ call[d].mode \in Modes
    /\ call[d].pc = "starting" => call[d].act = 0
    /\ call[d].pc \in {"registering", "started", "waiting"} =>
         /\ call[d].act \in Acts
         /\ runs[call[d].act].id = call[d].id
         /\ \A e \in Dispatchers \ {d} : call[e].act # call[d].act

\* The table names activations of its own ids.
TableNames ==
  \A id \in Ids : table[id] # 0 => table[id] \in Acts /\ runs[table[id]].id = id

\* A watcher that waits is that of the activation the table names, unless a
\* net has dropped the entry.
WatchersOwn ==
  \A a \in Acts :
    runs[a].watcher = "waiting" /\ runs[a].id \notin forgotten =>
      table[runs[a].id] = a

\* An id that is open has one activation more than rows.
RowsToSpare ==
  \A id \in Ids :
    rows[id] + (IF id \in settledOnce \/ OfId(id) = {} THEN 0 ELSE 1)
      <= Cardinality(OfId(id))

IInv ==
  /\ TypeOK
  /\ CallsOwn
  /\ TableNames
  /\ WatchersOwn
  /\ IsFiniteSet(Reserving)
  /\ SlotsConserved
  /\ NoStray
  /\ RowsToSpare
  /\ NewestHasFaces

------------------------------------------------------------------------------
(* Facts about single operators.                                            *)

\* The activations of an id are finitely many, and no more than there are.
LEMMA OfIdFinite ==
  ASSUME runs \in Seq(Activation), NEW id
  PROVE  /\ IsFiniteSet(OfId(id)) /\ Cardinality(OfId(id)) \in Nat
         /\ Cardinality(OfId(id)) <= Len(runs)
  <1>1. Len(runs) \in Nat
    OBVIOUS
  <1>2. IsFiniteSet(Acts) /\ Cardinality(Acts) = Len(runs)
    BY <1>1, FS_Interval, SMTT(30) DEF Acts
  <1>3. OfId(id) \subseteq Acts
    BY DEF OfId
  <1> QED
    BY <1>1, <1>2, <1>3, FS_Subset, FS_CardinalityType

\* The entries of the table are finitely many.
LEMMA BookedFinite == IsFiniteSet(Booked) /\ Cardinality(Booked) \in Nat
  <1>1. IsFiniteSet(Ids)
    BY FS_Interval, SubagentAssumption DEF Ids
  <1> QED
    BY <1>1, FS_Subset, FS_CardinalityType DEF Booked

LEMMA SlotsAreSets ==
  SlotsConserved <=> permits + Cardinality(Booked) + Cardinality(Reserving) = Capacity
  BY DEF SlotsConserved, Booked, Reserving

------------------------------------------------------------------------------
LEMMA InitIInv == Init => IInv
  <1> SUFFICES ASSUME Init PROVE IInv
    OBVIOUS
  <1> USE SubagentAssumption DEF Init
  <1>1. \A id \in 1 .. Prior : Over(id) \in Activation
    <2>1. (CHOOSE mode \in Modes : TRUE) \in Modes
      OBVIOUS
    <2> QED BY <2>1 DEF Over, Activation, Ids
  <1>2. runs \in Seq(Activation) /\ Len(runs) = Prior
    BY <1>1
  <1>3. TypeOK
    <2>1. \A d \in Dispatchers : call[d] \in Call
      BY DEF Idle, Call
    <2>2. call \in [Dispatchers -> Call]
      BY <2>1
    <2>3. rows \in [Ids -> 0 .. MaxActs] /\ table \in [Ids -> 0 .. MaxActs] /\ face \in [Ids -> 0 .. MaxActs]
      BY DEF Ids
    <2>4. settledOnce \subseteq Ids /\ kinds \subseteq Ids
      BY DEF Ids
    <2>5. minted \in 0 .. MaxIds /\ permits \in 0 .. Capacity
      OBVIOUS
    <2> QED BY <2>2, <2>3, <2>4, <2>5, <1>2 DEF TypeOK, Call, Activation
  <1>4. CallsOwn
    BY DEF CallsOwn, Idle
  <1>5. TableNames
    BY DEF TableNames
  <1>6. WatchersOwn /\ NoStray /\ NewestHasFaces
    BY <1>2 DEF WatchersOwn, NoStray, NewestHasFaces, Acts, OfId, Over, Resolved
  <1>7. Reserving = {} /\ Booked = {}
    BY DEF Reserving, Booked, Idle
  <1>8. IsFiniteSet(Reserving) /\ SlotsConserved
    BY <1>7, FS_EmptySet, SlotsAreSets
  <1>9. RowsToSpare
    <2> SUFFICES ASSUME NEW id \in Ids
                 PROVE  rows[id] + (IF id \in settledOnce \/ OfId(id) = {} THEN 0 ELSE 1)
                          <= Cardinality(OfId(id))
      BY DEF RowsToSpare
    <2>1. CASE id <= Prior
      <3>1. OfId(id) = {id}
        BY <2>1, <1>2 DEF OfId, Acts, Over, Ids
      <3>2. rows[id] = 1 /\ id \in settledOnce
        BY <2>1 DEF Ids
      <3>3. Cardinality({id}) = 1
        BY FS_Singleton
      <3> QED BY <3>1, <3>2, <3>3
    <2>2. CASE ~(id <= Prior)
      <3>1. OfId(id) = {}
        BY <2>2, <1>2 DEF OfId, Acts, Over, Ids
      <3>2. rows[id] = 0
        BY <2>2 DEF Ids
      <3>3. Cardinality({}) = 0
        BY FS_EmptySet
      <3> QED BY <3>1, <3>2, <3>3
    <2> QED BY <2>1, <2>2
  <1> QED BY <1>3, <1>4, <1>5, <1>6, <1>8, <1>9 DEF IInv

------------------------------------------------------------------------------
(* What the steps do to the activations.                                    *)

\* No activation is lost, renamed or restarted, and a result stays out.
Kept ==
  /\ Len(runs') = Len(runs)
  /\ \A a \in Acts :
       /\ runs'[a].id = runs[a].id
       /\ runs'[a].drive = "running" => runs[a].drive = "running"
       /\ Resolved(a) => Resolved(a)'

LEMMA ActsTyped ==
  ASSUME IInv
  PROVE  /\ runs \in Seq(Activation) /\ Len(runs) \in Nat /\ Len(runs) <= MaxActs
         /\ \A a \in Acts : runs[a] \in Activation
  <1>1. runs \in Seq(Activation) /\ Len(runs) <= MaxActs
    BY DEF IInv, TypeOK, Activation
  <1> QED BY <1>1 DEF Acts

\* One activation is replaced by a record that may take its place.
LEMMA ReplaceKeeps ==
  ASSUME runs \in Seq(Activation), NEW a \in Acts, NEW r \in Activation,
         runs' = [runs EXCEPT ![a] = r],
         r.id = runs[a].id,
         r.drive = "running" => runs[a].drive = "running",
         runs[a].drive \in {"sent", "done"} => r.drive \in {"sent", "done"}
  PROVE  Kept /\ runs' \in Seq(Activation)
  <1>1. Len(runs) \in Nat /\ a \in 1 .. Len(runs)
    BY DEF Acts
  <1>2. runs' \in Seq(Activation) /\ Len(runs') = Len(runs)
    BY <1>1
  <1>3. \A b \in 1 .. Len(runs) : runs'[b] = IF b = a THEN r ELSE runs[b]
    BY <1>1
  <1> QED
    BY <1>2, <1>3 DEF Kept, Acts, Resolved

\* The steps of calls and tasks other than a start.
Others ==
  \/ \E d \in Dispatchers :
       \/ \E mode \in Modes : Dispatch(d, mode)
       \/ \E id \in Ids, mode \in Modes : Continue(d, id, mode)
       \/ StartFails(d) \/ Register(d) \/ Started(d)
       \/ ForegroundEnds(d) \/ Promote(d) \/ AbandonWait(d)
  \/ \E a \in Acts :
       \/ CancelTurn(a) \/ DriveSettles(a) \/ SendsResult(a) \/ DropsFaces(a)
       \/ WatcherEnds(a) \/ NetFires(a) \/ Delivers(a) \/ NetDelivers(a)
  \/ \E id \in Ids : Abort(id)

\* Every step other than a start keeps the activations.
LEMMA OthersKeep ==
  ASSUME IInv, Others
  PROVE  Kept /\ runs' \in Seq(Activation)
  <1>1. runs \in Seq(Activation) /\ \A a \in Acts : runs[a] \in Activation
    BY ActsTyped
  <1>2. CASE UNCHANGED runs
    BY <1>1, <1>2 DEF Kept, Resolved, Acts
  <1>3. ASSUME NEW d \in Dispatchers, Register(d) \/ Started(d) \/ Promote(d)
        PROVE  Kept /\ runs' \in Seq(Activation)
    <2>1. call[d].act \in Acts
      BY <1>3 DEF IInv, CallsOwn, Register, Started, Promote
    <2> DEFINE a == call[d].act
    <2>2. runs[a] \in Activation
      BY <1>1, <2>1
    <2>3. \/ UNCHANGED runs
          \/ runs' = [runs EXCEPT ![a] = [runs[a] EXCEPT !.drive = Disposed(@)]]
          \/ runs' = [runs EXCEPT ![a] = [runs[a] EXCEPT !.watcher = "waiting"]]
          \/ runs' = [runs EXCEPT ![a] = [runs[a] EXCEPT !.delivery = "waiting"]]
      BY <1>3 DEF Register, Started, Promote
    <2> QED BY <1>1, <1>2, <2>1, <2>2, <2>3, ReplaceKeeps, SMTT(30) DEF Activation, Disposed
  <1>4. ASSUME NEW a \in Acts,
               CancelTurn(a) \/ DriveSettles(a) \/ SendsResult(a) \/ DropsFaces(a)
        PROVE  Kept /\ runs' \in Seq(Activation)
    <2>1. runs[a] \in Activation
      BY <1>1
    <2>2. PICK drive \in {"disposed", "settled", "sent", "done"} :
            /\ runs' = [runs EXCEPT ![a] = [runs[a] EXCEPT !.drive = drive]]
            /\ runs[a].drive \in {"sent", "done"} => drive \in {"sent", "done"}
      BY <1>4 DEF CancelTurn, DriveSettles, Driven, SendsResult, DropsFaces
    <2> QED BY <1>1, <2>1, <2>2, ReplaceKeeps DEF Activation, Disposed
  <1>5. ASSUME NEW a \in Acts,
               WatcherEnds(a) \/ NetFires(a) \/ Delivers(a) \/ NetDelivers(a)
        PROVE  Kept /\ runs' \in Seq(Activation)
    <2>1. runs[a] \in Activation
      BY <1>1
    <2> DEFINE watched == [runs[a] EXCEPT !.watcher = "done"]
               reported == [runs[a] EXCEPT !.delivery = "done"]
               netted == [runs[a] EXCEPT !.drive = Disposed(@), !.delivery = "fired"]
    <2>2. \E r \in {watched, reported, netted} : runs' = [runs EXCEPT ![a] = r]
      BY <1>5 DEF WatcherEnds, NetFires, Delivers, NetDelivers
    <2>3. \A r \in {watched, reported, netted} :
            /\ r \in Activation
            /\ r.id = runs[a].id
            /\ r.drive = "running" => runs[a].drive = "running"
            /\ runs[a].drive \in {"sent", "done"} => r.drive \in {"sent", "done"}
      BY <2>1 DEF Activation, Disposed
    <2> HIDE DEF watched, reported, netted
    <2> QED BY <1>1, <2>2, <2>3, ReplaceKeeps
  <1>6. ASSUME NEW id \in Ids, Abort(id)
        PROVE  Kept /\ runs' \in Seq(Activation)
    <2>1. table[id] \in Acts
      BY <1>6 DEF IInv, TableNames, Abort
    <2>2. runs[table[id]] \in Activation
      BY <1>1, <2>1
    <2>3. runs' = [runs EXCEPT ![table[id]] = [runs[table[id]] EXCEPT !.drive = "disposed"]]
      BY <1>6 DEF Abort
    <2>4. runs[table[id]].drive = "running"
      BY <1>6 DEF Abort
    <2> QED BY <1>1, <2>1, <2>2, <2>3, <2>4, ReplaceKeeps DEF Activation
  <1> QED
    BY <1>2, <1>3, <1>4, <1>5, <1>6
    DEF Others, Dispatch, Continue, Reserve, StartFails, ForegroundEnds, AbandonWait

\* A start appends one activation and changes no other.
LEMMA StartAppends ==
  ASSUME IInv, NEW d \in Dispatchers, ProviderStarts(d)
  PROVE  /\ runs' \in Seq(Activation)
         /\ Len(runs') = Len(runs) + 1
         /\ \A a \in Acts : runs'[a] = runs[a]
         /\ runs'[Len(runs) + 1].id = call[d].id
         /\ runs'[Len(runs) + 1].drive = "running"
         /\ runs'[Len(runs) + 1].watcher = "none"
         /\ call[d].id \in Ids /\ call[d].mode \in Modes
  <1>1. runs \in Seq(Activation) /\ Len(runs) \in Nat
    BY DEF IInv, TypeOK, Activation
  <1>2. call[d].id \in Ids /\ call[d].mode \in Modes
    BY DEF ProviderStarts, IInv, CallsOwn
  <1> DEFINE new == [id |-> call[d].id, mode |-> call[d].mode, drive |-> "running",
                     watcher |-> "none", delivery |-> "none"]
  <1>3. new \in Activation
    BY <1>2 DEF Activation
  <1>4. runs' = Append(runs, new)
    BY DEF ProviderStarts
  <1> HIDE DEF new
  <1>5. /\ runs' \in Seq(Activation)
        /\ Len(runs') = Len(runs) + 1
        /\ \A a \in Acts : runs'[a] = runs[a]
        /\ runs'[Len(runs) + 1] = new
    BY <1>1, <1>3, <1>4 DEF Acts
  <1>6. new.id = call[d].id /\ new.drive = "running" /\ new.watcher = "none"
    BY DEF new
  <1> QED
    BY <1>2, <1>5, <1>6

LEMMA NextSplits == Next <=> Others \/ \E d \in Dispatchers : ProviderStarts(d)
  BY DEF Next, Others

------------------------------------------------------------------------------
(* The shape of the state: its types, the bounds of permits and rows aside. *)

Shape ==
  /\ minted \in 0 .. MaxIds
  /\ permits \in Nat
  /\ table \in [Ids -> 0 .. MaxActs]
  /\ call \in [Dispatchers -> Call]
  /\ runs \in Seq(Activation) /\ Len(runs) <= MaxActs
  /\ face \in [Ids -> 0 .. MaxActs]
  /\ settledOnce \subseteq Ids /\ watch \subseteq Ids
  /\ kinds \subseteq Ids /\ forgotten \subseteq Ids
  /\ rows \in [Ids -> Nat]

\* The bounds of permits and rows follow from the invariants about them.
LEMMA ShapeBounds ==
  ASSUME Shape, IsFiniteSet(Reserving), SlotsConserved, RowsToSpare
  PROVE  TypeOK
  <1> USE SubagentAssumption
  <1>1. permits \in 0 .. Capacity
    <2>1. Cardinality(Booked) \in Nat /\ Cardinality(Reserving) \in Nat
      BY BookedFinite, FS_CardinalityType
    <2> QED BY <2>1, SlotsAreSets DEF Shape
  <1>2. rows \in [Ids -> 0 .. MaxActs]
    <2>1. ASSUME NEW id \in Ids PROVE rows[id] \in 0 .. MaxActs
      <3>1. Cardinality(OfId(id)) \in Nat /\ Cardinality(OfId(id)) <= MaxActs
        <4>1. runs \in Seq(Activation) /\ Len(runs) \in Nat /\ Len(runs) <= MaxActs
          BY DEF Shape
        <4> QED BY <4>1, OfIdFinite
      <3>2. rows[id] \in Nat
        BY DEF Shape
      <3> QED BY <3>1, <3>2 DEF RowsToSpare
    <2> QED BY <2>1 DEF Shape
  <1> QED BY <1>1, <1>2 DEF Shape, TypeOK, Call, Activation

LEMMA TypesHaveShape ==
  ASSUME TypeOK
  PROVE  Shape
  BY SubagentAssumption DEF TypeOK, Shape, Call, Activation

LEMMA ShapeStep ==
  ASSUME IInv, [Next]_vars
  PROVE  Shape'
  <1> USE SubagentAssumption
  <1>1. Shape /\ CallsOwn /\ TableNames
    BY TypesHaveShape DEF IInv
  <1>2. CASE UNCHANGED vars
    BY <1>1, <1>2 DEF Shape, vars
  <1>3. ASSUME NEW d \in Dispatchers, ProviderStarts(d)
        PROVE  Shape'
    <2>1. runs' \in Seq(Activation) /\ Len(runs') = Len(runs) + 1 /\ call[d].id \in Ids
      BY <1>3, StartAppends
    <2>2. Len(runs) + 1 \in 0 .. MaxActs /\ Len(runs) \in Nat
      BY <1>1, <1>3 DEF ProviderStarts, Shape
    <2>3. call' \in [Dispatchers -> Call]
      <3> DEFINE c == [call[d] EXCEPT !.pc = "registering", !.act = Len(runs) + 1]
      <3>1. call' = [call EXCEPT ![d] = c]
        BY <1>3 DEF ProviderStarts
      <3>2. c \in Call
        BY <1>1, <2>2 DEF Shape, Call
      <3> HIDE DEF c
      <3> QED BY <1>1, <3>1, <3>2 DEF Shape
    <2>4. face' \in [Ids -> 0 .. MaxActs]
      BY <1>1, <1>3, <2>2 DEF ProviderStarts, Shape
    <2> QED BY <1>1, <1>3, <2>1, <2>2, <2>3, <2>4 DEF ProviderStarts, OnStart, Shape
  <1>4. CASE Others
    <2>1. runs' \in Seq(Activation) /\ Len(runs') <= MaxActs
      BY <1>1, <1>4, OthersKeep DEF Kept, Shape
    <2>2. ASSUME NEW d \in Dispatchers, NEW id \in Ids, NEW mode \in Modes, Reserve(d, id, mode),
                 minted' \in 0 .. MaxIds
          PROVE  Shape'
      <3>1. call' \in [Dispatchers -> Call]
        <4> DEFINE new == [pc |-> "starting", id |-> id, mode |-> mode, act |-> 0]
        <4>1. call' = [call EXCEPT ![d] = new]
          BY <2>2 DEF Reserve
        <4>2. new \in Call
          <5>1. id \in 0 .. MaxIds /\ 0 \in 0 .. MaxActs
            BY DEF Ids
          <5> QED BY <5>1 DEF Call
        <4> HIDE DEF new
        <4> QED BY <1>1, <4>1, <4>2 DEF Shape
      <3> QED BY <1>1, <2>1, <2>2, <3>1 DEF Reserve, Shape, observer
    <2>3. ASSUME NEW d \in Dispatchers, NEW mode \in Modes, Dispatch(d, mode)
          PROVE  Shape'
      <3>1. minted' \in Ids /\ minted' \in 0 .. MaxIds
        BY <1>1, <2>3 DEF Dispatch, Shape, Ids
      <3> QED BY <2>2, <2>3, <3>1 DEF Dispatch
    <2>4. ASSUME NEW d \in Dispatchers, NEW id \in Ids, NEW mode \in Modes, Continue(d, id, mode)
          PROVE  Shape'
      BY <1>1, <2>2, <2>4 DEF Continue, Shape
    <2>5. ASSUME NEW d \in Dispatchers, StartFails(d) \/ ForegroundEnds(d) \/ Promote(d) \/ AbandonWait(d)
          PROVE  Shape'
      <3>1. Idle \in Call
        BY DEF Idle, Call
      <3>2. call' \in [Dispatchers -> Call]
        BY <1>1, <2>5, <3>1 DEF StartFails, ForegroundEnds, Promote, AbandonWait, Shape
      <3> QED
        BY <1>1, <2>1, <2>5, <3>2
        DEF StartFails, ForegroundEnds, Promote, AbandonWait, Shape, observer
    <2>6. ASSUME NEW d \in Dispatchers, Register(d) \/ Started(d)
          PROVE  Shape'
      <3>1. Idle \in Call
        BY DEF Idle, Call
      <3>2. call' \in [Dispatchers -> Call]
        <4>1. call[d] \in Call
          BY <1>1 DEF Shape
        <4>2. \A pc \in {"started", "waiting"} : [call[d] EXCEPT !.pc = pc] \in Call
          BY <4>1 DEF Call
        <4>3. \/ call' = [call EXCEPT ![d] = Idle]
              \/ \E pc \in {"started", "waiting"} :
                    call' = [call EXCEPT ![d] = [call[d] EXCEPT !.pc = pc]]
          BY <2>6 DEF Register, Started
        <4> QED BY <1>1, <3>1, <4>2, <4>3 DEF Shape
      <3>3. call[d].id \in Ids /\ call[d].act \in 0 .. MaxActs
        BY <1>1, <2>6, SMTT(30) DEF Register, Started, Shape, CallsOwn, Acts
      <3> QED
        <4>1. table' \in [Ids -> 0 .. MaxActs]
          BY <1>1, <2>6, <3>3 DEF Register, Started, Shape
        <4>2. permits' \in Nat
          BY <1>1, <2>6 DEF Register, Started, Shape
        <4>3. UNCHANGED <<minted, face, observer, forgotten>>
          BY <2>6 DEF Register, Started
        <4> QED BY <1>1, <2>1, <3>2, <4>1, <4>2, <4>3 DEF Shape, observer
    <2>7. ASSUME NEW a \in Acts,
                 \/ CancelTurn(a) \/ DriveSettles(a) \/ SendsResult(a) \/ DropsFaces(a)
                 \/ WatcherEnds(a) \/ NetFires(a) \/ Delivers(a) \/ NetDelivers(a)
          PROVE  Shape'
      <3>1. runs[a].id \in Ids
        BY ActsTyped DEF Activation
      <3>2. CASE CancelTurn(a) \/ SendsResult(a) \/ Delivers(a)
        BY <1>1, <2>1, <3>1, <3>2 DEF CancelTurn, SendsResult, Delivers, Shape, observer
      <3>3. CASE DriveSettles(a) \/ NetDelivers(a)
        <4>1. OnSettled(runs[a].id)
          BY <3>3 DEF DriveSettles, NetDelivers
        <4>2. /\ rows' \in [Ids -> Nat]
              /\ settledOnce' \subseteq Ids /\ watch' \subseteq Ids
          BY <1>1, <3>1, <4>1 DEF OnSettled, Shape
        <4>3. UNCHANGED <<minted, permits, table, call, face, kinds, forgotten>>
          BY <3>3 DEF DriveSettles, NetDelivers
        <4> QED BY <1>1, <2>1, <4>2, <4>3 DEF Shape
      <3>4. CASE DropsFaces(a)
        BY <1>1, <2>1, <3>1, <3>4, SMTT(30) DEF DropsFaces, Shape, observer
      <3>5. CASE WatcherEnds(a) \/ NetFires(a)
        <4>1. Remove(runs[a].id) /\ forgotten' \subseteq Ids
          BY <1>1, <3>1, <3>5 DEF WatcherEnds, NetFires, Shape
        <4>2. permits' \in Nat
          BY <1>1, <4>1 DEF Remove, Shape
        <4>4. table' \in [Ids -> 0 .. MaxActs]
          <5>1. table \in [Ids -> 0 .. MaxActs] /\ 0 \in 0 .. MaxActs
            BY <1>1 DEF Shape
          <5>2. table' = [table EXCEPT ![runs[a].id] = 0]
            BY <4>1 DEF Remove
          <5> QED BY <5>1, <5>2
        <4>3. UNCHANGED <<minted, call, face, observer>>
          BY <3>5 DEF WatcherEnds, NetFires
        <4> QED BY <1>1, <2>1, <4>1, <4>2, <4>3, <4>4 DEF Shape, observer
      <3> QED BY <2>7, <3>2, <3>3, <3>4, <3>5
    <2>8. ASSUME NEW id \in Ids, Abort(id)
          PROVE  Shape'
      BY <1>1, <2>1, <2>8 DEF Abort, Shape, observer
    <2> QED BY <1>4, <2>3, <2>4, <2>5, <2>6, <2>7, <2>8 DEF Others
  <1> QED BY <1>2, <1>3, <1>4, NextSplits

------------------------------------------------------------------------------
(* The dispatch calls.                                                      *)

\* What a step other than a start may do to one call.
Moves(e) ==
  \/ call'[e] = call[e]
  \/ call'[e] = Idle
  \/ /\ call'[e].pc = "starting" /\ call'[e].act = 0
     /\ call'[e].id \in Ids /\ call'[e].mode \in Modes
  \/ /\ call[e].pc \in {"registering", "started"}
     /\ call'[e].pc \in {"started", "waiting"}
     /\ call'[e].id = call[e].id /\ call'[e].mode = call[e].mode
     /\ call'[e].act = call[e].act

LEMMA OthersMove ==
  ASSUME IInv, Others, NEW e \in Dispatchers
  PROVE  Moves(e)
  <1>1. Shape /\ call \in [Dispatchers -> Call] /\ call[e] \in Call
    BY TypesHaveShape DEF IInv, Shape
  <1>2. CASE UNCHANGED call
    BY <1>2 DEF Moves
  <1>3. ASSUME NEW d \in Dispatchers, NEW id \in Ids, NEW mode \in Modes, Reserve(d, id, mode)
        PROVE  Moves(e)
    BY <1>1, <1>3 DEF Reserve, Moves
  <1>4. ASSUME NEW d \in Dispatchers, NEW mode \in Modes, Dispatch(d, mode)
        PROVE  Moves(e)
    <2>1. minted' \in Ids
      BY <1>1, <1>4, SubagentAssumption DEF Dispatch, Shape, Ids
    <2> QED BY <1>3, <1>4, <2>1 DEF Dispatch
  <1>5. ASSUME NEW d \in Dispatchers, NEW id \in Ids, NEW mode \in Modes, Continue(d, id, mode)
        PROVE  Moves(e)
    BY <1>3, <1>5 DEF Continue
  <1>6. ASSUME NEW d \in Dispatchers,
               StartFails(d) \/ ForegroundEnds(d) \/ Promote(d) \/ AbandonWait(d)
        PROVE  Moves(e)
    BY <1>1, <1>6 DEF StartFails, ForegroundEnds, Promote, AbandonWait, Moves
  <1>7. ASSUME NEW d \in Dispatchers, Register(d) \/ Started(d)
        PROVE  Moves(e)
    <2>1. CASE e # d
      BY <1>1, <1>7, <2>1 DEF Register, Started, Moves
    <2>2. CASE e = d
      BY <1>1, <1>7, <2>2 DEF Register, Started, Moves, Call
    <2> QED BY <2>1, <2>2
  <1> QED
    BY <1>2, <1>4, <1>5, <1>6, <1>7
    DEF Others, CancelTurn, DriveSettles, SendsResult, DropsFaces, WatcherEnds, NetFires,
        Delivers, NetDelivers, Abort

LEMMA CallsOwnStep ==
  ASSUME IInv, [Next]_vars
  PROVE  CallsOwn'
  <1>1. Shape /\ CallsOwn /\ call \in [Dispatchers -> Call] /\ Len(runs) \in Nat
    BY TypesHaveShape DEF IInv, Shape
  <1>2. CASE UNCHANGED vars
    BY <1>1, <1>2 DEF CallsOwn, vars, Acts
  <1>3. CASE Others
    <2>1. \A e \in Dispatchers : Moves(e)
      BY <1>3, OthersMove
    <2>2. Acts' = Acts /\ \A a \in Acts : runs'[a].id = runs[a].id
      BY <1>3, OthersKeep DEF Kept, Acts
    <2>3. \A e \in Dispatchers : call'[e].act # 0 => call'[e].act = call[e].act
      BY <2>1 DEF Moves, Idle
    <2>4. ASSUME NEW d \in Dispatchers
          PROVE  /\ call'[d].pc = "idle" => call'[d] = Idle
                 /\ call'[d].pc # "idle" => call'[d].id \in Ids /\ call'[d].mode \in Modes
                 /\ call'[d].pc = "starting" => call'[d].act = 0
                 /\ call'[d].pc \in {"registering", "started", "waiting"} =>
                      /\ call[d].pc \in {"registering", "started", "waiting"}
                      /\ call'[d].act = call[d].act /\ call'[d].id = call[d].id
      BY <1>1, <2>1 DEF Moves, CallsOwn, Idle
    <2>5. ASSUME NEW d \in Dispatchers, call'[d].pc \in {"registering", "started", "waiting"}
          PROVE  /\ call'[d].act \in Acts
                 /\ runs'[call'[d].act].id = call'[d].id
                 /\ \A e \in Dispatchers \ {d} : call'[e].act # call'[d].act
      <3>1. /\ call[d].act \in Acts /\ runs[call[d].act].id = call[d].id
            /\ \A e \in Dispatchers \ {d} : call[e].act # call[d].act
        BY <1>1, <2>4, <2>5 DEF CallsOwn
      <3>2. call[d].act # 0
        BY <3>1 DEF Acts
      <3> QED BY <2>2, <2>3, <2>4, <2>5, <3>1, <3>2
    <2> QED BY <2>2, <2>4, <2>5 DEF CallsOwn
  <1>4. ASSUME NEW d \in Dispatchers, ProviderStarts(d)
        PROVE  CallsOwn'
    <2> DEFINE new == Len(runs) + 1
    <2>1. /\ Len(runs') = new /\ runs'[new].id = call[d].id
          /\ \A a \in Acts : runs'[a] = runs[a]
          /\ call[d].id \in Ids /\ call[d].mode \in Modes
      BY <1>4, StartAppends
    <2>2. Acts' = Acts \union {new} /\ new \notin Acts /\ new # 0
      BY <1>1, <2>1 DEF Acts
    <2>3. /\ \A e \in Dispatchers \ {d} : call'[e] = call[e]
          /\ call'[d].pc = "registering" /\ call'[d].act = new
          /\ call'[d].id = call[d].id /\ call'[d].mode = call[d].mode
      BY <1>1, <1>4 DEF ProviderStarts, Call
    <2>4. \A e \in Dispatchers : call[e].act \in Acts \union {0}
      <3>1. \A e \in Dispatchers : call[e].pc \in {"idle", "starting", "registering", "started", "waiting"}
        BY <1>1 DEF Call
      <3> QED BY <1>1, <3>1 DEF CallsOwn, Idle
    <2> HIDE DEF new
    <2>5. ASSUME NEW e \in Dispatchers \ {d}
          PROVE  /\ call'[e].pc = "idle" => call'[e] = Idle
                 /\ call'[e].pc # "idle" => call'[e].id \in Ids /\ call'[e].mode \in Modes
                 /\ call'[e].pc = "starting" => call'[e].act = 0
                 /\ call'[e].pc \in {"registering", "started", "waiting"} =>
                      /\ call'[e].act \in Acts'
                      /\ runs'[call'[e].act].id = call'[e].id
                      /\ \A f \in Dispatchers \ {e} : call'[f].act # call'[e].act
      BY <1>1, <2>1, <2>2, <2>3, <2>4 DEF CallsOwn
    <2>6. /\ call'[d].act \in Acts' /\ runs'[call'[d].act].id = call'[d].id
          /\ \A f \in Dispatchers \ {d} : call'[f].act # call'[d].act
      BY <2>1, <2>2, <2>3, <2>4
    <2> QED BY <2>1, <2>3, <2>5, <2>6 DEF CallsOwn
  <1> QED BY <1>2, <1>3, <1>4, NextSplits

------------------------------------------------------------------------------
(* The table and the watchers.                                              *)

LEMMA TableNamesStep ==
  ASSUME IInv, [Next]_vars
  PROVE  TableNames'
  <1>1. Shape /\ TableNames /\ CallsOwn /\ table \in [Ids -> 0 .. MaxActs] /\ Len(runs) \in Nat
    BY TypesHaveShape DEF IInv, Shape
  <1>2. \A a \in Acts : a \in Acts' /\ runs'[a].id = runs[a].id
    <2>1. CASE UNCHANGED vars
      BY <2>1 DEF vars, Acts
    <2>2. CASE Others
      BY <2>2, OthersKeep DEF Kept, Acts
    <2>3. ASSUME NEW d \in Dispatchers, ProviderStarts(d)
          PROVE  \A a \in Acts : a \in Acts' /\ runs'[a].id = runs[a].id
      BY <1>1, <2>3, StartAppends DEF Acts
    <2> QED BY <2>1, <2>2, <2>3, NextSplits
  <1>3. ASSUME NEW i \in Ids, table'[i] # 0
        PROVE  \/ table'[i] = table[i]
               \/ table'[i] \in Acts /\ runs[table'[i]].id = i
    <2>1. CASE UNCHANGED table
      BY <2>1
    <2>2. ASSUME NEW d \in Dispatchers, Register(d)
          PROVE  \/ table'[i] = table[i]
                 \/ table'[i] \in Acts /\ runs[table'[i]].id = i
      <3>1. call[d].act \in Acts /\ runs[call[d].act].id = call[d].id /\ call[d].id \in Ids
        BY <1>1, <2>2 DEF Register, CallsOwn
      <3> QED BY <1>1, <2>2, <3>1 DEF Register
    <2>3. ASSUME NEW a \in Acts, WatcherEnds(a) \/ NetFires(a)
          PROVE  table'[i] = table[i]
      BY <1>1, <1>3, <2>3 DEF WatcherEnds, NetFires, Remove
    <2> QED
      BY <2>1, <2>2, <2>3
      DEF Next, vars, Dispatch, Continue, Reserve, StartFails, ProviderStarts, Started,
          ForegroundEnds, Promote, AbandonWait, CancelTurn, DriveSettles, SendsResult,
          DropsFaces, Delivers, NetDelivers, Abort
  <1> QED BY <1>1, <1>2, <1>3 DEF TableNames

\* A change of the drive or of the delivery leaves the watchers alone.
LEMMA WatchersKept ==
  ASSUME IInv, NEW a \in Acts, NEW drive, NEW delivery,
         \/ runs' = [runs EXCEPT ![a].drive = drive]
         \/ runs' = [runs EXCEPT ![a].delivery = delivery]
  PROVE  \A b \in Acts : runs'[b].watcher = runs[b].watcher
  <1>1. runs \in Seq(Activation) /\ runs[a] \in Activation /\ a \in 1 .. Len(runs)
    BY ActsTyped DEF Acts
  <1> DEFINE driven == [runs[a] EXCEPT !.drive = drive]
             reported == [runs[a] EXCEPT !.delivery = delivery]
  <1>2. driven.watcher = runs[a].watcher /\ reported.watcher = runs[a].watcher
    BY <1>1 DEF Activation
  <1>3. \E r \in {driven, reported} : runs' = [runs EXCEPT ![a] = r]
    OBVIOUS
  <1> HIDE DEF driven, reported
  <1> QED BY <1>1, <1>2, <1>3 DEF Acts

\* Only Register and WatcherEnds touch a watcher.
LEMMA WatchersOwnStep ==
  ASSUME IInv, [Next]_vars
  PROVE  WatchersOwn'
  <1>1. /\ Shape /\ TableNames /\ CallsOwn /\ WatchersOwn
        /\ table \in [Ids -> 0 .. MaxActs] /\ Len(runs) \in Nat
        /\ runs \in Seq(Activation) /\ \A a \in Acts : runs[a] \in Activation
    BY TypesHaveShape, ActsTyped DEF IInv, Shape
  <1>2. \A a \in Acts : runs[a].id \in Ids
    BY <1>1 DEF Activation
  <1>3. ASSUME NEW d \in Dispatchers, ProviderStarts(d)
        PROVE  WatchersOwn'
    <2>1. Acts' = Acts \union {Len(runs) + 1} /\ \A a \in Acts : runs'[a] = runs[a]
      BY <1>1, <1>3, StartAppends DEF Acts
    <2>2. runs'[Len(runs) + 1].watcher = "none"
      BY <1>3, StartAppends
    <2> QED BY <1>1, <1>3, <2>1, <2>2 DEF WatchersOwn, ProviderStarts
  <1>4. CASE Others
    <2>1. Acts' = Acts /\ \A a \in Acts : runs'[a].id = runs[a].id
      BY <1>4, OthersKeep DEF Kept, Acts
    <2>2. ASSUME UNCHANGED <<table, forgotten>>, \A a \in Acts : runs'[a].watcher = runs[a].watcher
          PROVE  WatchersOwn'
      BY <1>1, <2>1, <2>2 DEF WatchersOwn
    <2>3. ASSUME NEW d \in Dispatchers, Register(d)
          PROVE  WatchersOwn'
      <3> DEFINE a == call[d].act
                 id == call[d].id
      <3>1. a \in Acts /\ runs[a].id = id /\ id \in Ids
        BY <1>1, <2>3 DEF Register, CallsOwn
      <3>2. CASE table[id] # 0
        <4>1. UNCHANGED <<table, forgotten>> /\ runs' = [runs EXCEPT ![a].drive = Disposed(@)]
          BY <2>3, <3>2 DEF Register
        <4>2. \A b \in Acts : runs'[b].watcher = runs[b].watcher
          BY <1>1, <3>1, <4>1 DEF Activation, Acts
        <4> QED BY <2>2, <4>1, <4>2
      <3>3. CASE table[id] = 0
        <4>1. /\ table' = [table EXCEPT ![id] = a] /\ forgotten' = forgotten
              /\ runs' = [runs EXCEPT ![a].watcher = "waiting"]
          BY <2>3, <3>3 DEF Register
        <4>3. forgotten' = forgotten
          BY <4>1
        <4>2. ASSUME NEW b \in Acts, runs'[b].watcher = "waiting", runs'[b].id \notin forgotten'
              PROVE  table'[runs'[b].id] = b
          <5>1. CASE b = a
            BY <1>1, <2>1, <3>1, <4>1, <5>1
          <5>2. CASE b # a
            <6>1. runs'[b] = runs[b]
              BY <1>1, <3>1, <4>1, <5>2 DEF Acts
            <6>4. b # 0
              BY DEF Acts
            <6>5. runs[b].watcher = "waiting" /\ runs[b].id \notin forgotten
              BY <4>2, <4>3, <6>1
            <6>2. table[runs[b].id] = b
              BY <1>1, <6>5 DEF WatchersOwn
            <6>3. runs[b].id # id
              BY <3>3, <6>2, <6>4
            <6> QED BY <1>1, <1>2, <4>1, <6>1, <6>2, <6>3
          <5> QED BY <5>1, <5>2
        <4> QED BY <2>1, <4>2 DEF WatchersOwn
      <3> QED BY <3>2, <3>3
    <2>4. ASSUME NEW a \in Acts, WatcherEnds(a) \/ NetFires(a)
          PROVE  WatchersOwn'
      <3> DEFINE id == runs[a].id
      <3>1. table' = [table EXCEPT ![id] = 0] /\ forgotten \subseteq forgotten'
        BY <2>4 DEF WatcherEnds, NetFires, Remove
      <3>2. ASSUME NEW b \in Acts, runs'[b].watcher = "waiting", runs'[b].id \notin forgotten'
            PROVE  table'[runs'[b].id] = b
        <4>1. /\ runs[b].watcher = "waiting"
              /\ WatcherEnds(a) => b # a
          BY <1>1, <2>4, <3>2, SMTT(30) DEF WatcherEnds, NetFires, Activation, Acts
        <4>2. table[runs[b].id] = b
          BY <1>1, <2>1, <3>1, <3>2, <4>1 DEF WatchersOwn
        <4>3. runs[b].id # id
          <5>1. CASE WatcherEnds(a)
            <6>1. runs[a].watcher = "waiting" /\ forgotten' = forgotten
              BY <5>1 DEF WatcherEnds
            <6> QED BY <1>1, <2>1, <3>2, <4>1, <4>2, <5>1, <6>1 DEF WatchersOwn
          <5>2. CASE NetFires(a)
            BY <2>1, <3>2, <5>2 DEF NetFires
          <5> QED BY <2>4, <5>1, <5>2
        <4> QED BY <1>1, <1>2, <2>1, <3>1, <4>2, <4>3
      <3> QED BY <2>1, <3>2 DEF WatchersOwn
    <2>5. ASSUME NEW d \in Dispatchers, Started(d) \/ Promote(d)
          PROVE  WatchersOwn'
      <3>1. call[d].act \in Acts
        BY <1>1, <2>5 DEF Started, Promote, CallsOwn
      <3>2. \A b \in Acts : runs'[b].watcher = runs[b].watcher
        <4>1. UNCHANGED runs \/ runs' = [runs EXCEPT ![call[d].act].delivery = "waiting"]
          BY <2>5 DEF Started, Promote
        <4> QED BY <3>1, <4>1, WatchersKept
      <3> QED BY <2>2, <2>5, <3>2 DEF Started, Promote
    <2>6. ASSUME NEW a \in Acts,
                 \/ CancelTurn(a) \/ DriveSettles(a) \/ SendsResult(a) \/ DropsFaces(a)
                 \/ Delivers(a) \/ NetDelivers(a)
          PROVE  WatchersOwn'
      <3>1. \A b \in Acts : runs'[b].watcher = runs[b].watcher
        <4>1. \/ \E drive : runs' = [runs EXCEPT ![a].drive = drive]
              \/ runs' = [runs EXCEPT ![a].delivery = "done"]
          BY <2>6
          DEF CancelTurn, DriveSettles, SendsResult, DropsFaces, Delivers, NetDelivers
        <4> QED BY <4>1, WatchersKept
      <3> QED
        BY <2>2, <2>6, <3>1
        DEF CancelTurn, DriveSettles, SendsResult, DropsFaces, Delivers, NetDelivers
    <2>7. ASSUME NEW id \in Ids, Abort(id)
          PROVE  WatchersOwn'
      <3>1. table[id] \in Acts
        BY <1>1, <2>7 DEF Abort, TableNames
      <3>2. \A b \in Acts : runs'[b].watcher = runs[b].watcher
        BY <1>1, <2>7, <3>1 DEF Abort, Activation, Acts
      <3> QED BY <2>2, <2>7, <3>2 DEF Abort
    <2>8. CASE UNCHANGED <<runs, table, forgotten>>
      BY <2>2, <2>8
    <2> QED
      BY <1>4, <2>3, <2>4, <2>5, <2>6, <2>7, <2>8
      DEF Others, Dispatch, Continue, Reserve, StartFails, ForegroundEnds, AbandonWait
  <1>5. CASE UNCHANGED vars
    BY <1>1, <1>5 DEF WatchersOwn, vars, Acts
  <1> QED BY <1>3, <1>4, <1>5, NextSplits

------------------------------------------------------------------------------
(* The slots.                                                               *)

\* Dropping the entry of an id gives back the slot in it, if there is one.
LEMMA RemoveKeepsSlots ==
  ASSUME Shape, NEW id \in Ids, Remove(id)
  PROVE  permits' + Cardinality(Booked') = permits + Cardinality(Booked)
  <1>1. Cardinality(Booked) \in Nat /\ IsFiniteSet(Booked) /\ permits \in Nat
    BY BookedFinite DEF Shape
  <1>2. Booked' = Booked \ {id}
    BY DEF Remove, Booked, Shape
  <1>3. CASE table[id] = 0
    BY <1>1, <1>2, <1>3 DEF Remove, Booked
  <1>4. CASE table[id] # 0
    <2>1. id \in Booked
      BY <1>4 DEF Booked
    <2>2. Cardinality(Booked \ {id}) = Cardinality(Booked) - 1
      BY <1>1, <2>1, FS_RemoveElement
    <2> QED BY <1>1, <1>2, <1>4, <2>2 DEF Remove
  <1> QED BY <1>3, <1>4

LEMMA SlotsStep ==
  ASSUME IInv, [Next]_vars
  PROVE  IsFiniteSet(Reserving') /\ SlotsConserved'
  <1>1. /\ Shape /\ CallsOwn /\ IsFiniteSet(Reserving) /\ call \in [Dispatchers -> Call]
        /\ table \in [Ids -> 0 .. MaxActs] /\ permits \in Nat
    BY TypesHaveShape DEF IInv, Shape
  <1>2. permits + Cardinality(Booked) + Cardinality(Reserving) = Capacity
    BY SlotsAreSets DEF IInv
  <1>3. /\ IsFiniteSet(Booked) /\ Cardinality(Booked) \in Nat /\ Cardinality(Booked') \in Nat
        /\ Cardinality(Reserving) \in Nat
    <2>1. Cardinality(Booked) \in Nat /\ IsFiniteSet(Booked)
      BY BookedFinite
    <2>2. Booked' \subseteq Ids /\ IsFiniteSet(Ids)
      BY FS_Interval, SubagentAssumption DEF Booked, Ids
    <2> QED BY <1>1, <2>1, <2>2, FS_Subset, FS_CardinalityType
  <1>4. SlotsConserved' <=> permits' + Cardinality(Booked') + Cardinality(Reserving') = Capacity
    BY DEF SlotsConserved, Booked, Reserving
  <1>5. ASSUME UNCHANGED <<permits, table>>, Reserving' = Reserving
        PROVE  IsFiniteSet(Reserving') /\ SlotsConserved'
    BY <1>1, <1>2, <1>4, <1>5 DEF Booked
  <1>6. CASE UNCHANGED <<permits, table, call>>
    BY <1>5, <1>6 DEF Reserving
  <1>7. ASSUME NEW d \in Dispatchers, NEW id, NEW mode, Reserve(d, id, mode)
        PROVE  IsFiniteSet(Reserving') /\ SlotsConserved'
    <2>1. Reserving' = Reserving \union {d} /\ d \notin Reserving
      BY <1>1, <1>7 DEF Reserve, Reserving, Idle
    <2>2. IsFiniteSet(Reserving') /\ Cardinality(Reserving') = Cardinality(Reserving) + 1
      BY <1>1, <2>1, FS_AddElement
    <2>3. permits' = permits - 1 /\ Booked' = Booked
      BY <1>7 DEF Reserve, Booked
    <2> QED BY <1>1, <1>2, <1>3, <1>4, <2>2, <2>3
  <1>8. ASSUME NEW d \in Dispatchers, StartFails(d) \/ Register(d)
        PROVE  IsFiniteSet(Reserving') /\ SlotsConserved'
    <2>1. Reserving' = Reserving \ {d} /\ d \in Reserving
      BY <1>1, <1>8 DEF StartFails, Register, Reserving, Idle, Call
    <2>2. IsFiniteSet(Reserving') /\ Cardinality(Reserving') = Cardinality(Reserving) - 1
      BY <1>1, <2>1, FS_RemoveElement
    <2>3. permits' + Cardinality(Booked') = permits + Cardinality(Booked) + 1
      <3>1. CASE permits' = permits + 1 /\ UNCHANGED table
        BY <1>1, <1>3, <3>1 DEF Booked
      <3>2. CASE Register(d) /\ table[call[d].id] = 0
        <4>1. call[d].id \in Ids /\ call[d].act # 0
          BY <1>1, <3>2 DEF Register, CallsOwn, Acts
        <4>2. Booked' = Booked \union {call[d].id} /\ call[d].id \notin Booked /\ permits' = permits
          BY <1>1, <3>2, <4>1 DEF Register, Booked
        <4>3. Cardinality(Booked') = Cardinality(Booked) + 1
          BY <1>3, <4>2, FS_AddElement
        <4> QED BY <1>1, <1>3, <4>2, <4>3
      <3> QED BY <1>8, <3>1, <3>2 DEF StartFails, Register
    <2> QED BY <1>1, <1>2, <1>3, <1>4, <2>2, <2>3
  <1>9. ASSUME NEW d \in Dispatchers,
               \/ ProviderStarts(d) \/ Started(d) \/ ForegroundEnds(d) \/ Promote(d)
               \/ AbandonWait(d)
        PROVE  IsFiniteSet(Reserving') /\ SlotsConserved'
    <2>1. Reserving' = Reserving
      <3>1. CASE ProviderStarts(d)
        BY <1>1, <3>1 DEF ProviderStarts, Reserving, Call
      <3>2. CASE Started(d)
        BY <1>1, <3>2 DEF Started, Reserving, Call, Idle
      <3>3. CASE ForegroundEnds(d) \/ Promote(d) \/ AbandonWait(d)
        BY <1>1, <3>3 DEF ForegroundEnds, Promote, AbandonWait, Reserving, Idle
      <3> QED BY <1>9, <3>1, <3>2, <3>3
    <2> QED
      BY <1>5, <1>9, <2>1 DEF ProviderStarts, Started, ForegroundEnds, Promote, AbandonWait
  <1>10. ASSUME NEW a \in Acts, WatcherEnds(a) \/ NetFires(a)
         PROVE  IsFiniteSet(Reserving') /\ SlotsConserved'
    <2>1. runs[a].id \in Ids
      BY ActsTyped DEF Activation
    <2>2. Remove(runs[a].id) /\ UNCHANGED call
      BY <1>10 DEF WatcherEnds, NetFires
    <2>3. permits' + Cardinality(Booked') = permits + Cardinality(Booked)
      BY <1>1, <2>1, <2>2, RemoveKeepsSlots
    <2>4. Reserving' = Reserving
      BY <2>2 DEF Reserving
    <2>5. permits' \in Nat
      BY <1>1, <2>2 DEF Remove
    <2> QED BY <1>1, <1>2, <1>3, <1>4, <2>3, <2>4, <2>5
  <1> QED
    BY <1>6, <1>7, <1>8, <1>9, <1>10
    DEF Next, vars, Dispatch, Continue, CancelTurn, DriveSettles, SendsResult, DropsFaces,
        Delivers, NetDelivers, Abort

------------------------------------------------------------------------------
(* No stray child, no row too many, the newest has its faces.               *)

LEMMA NoStrayStep ==
  ASSUME IInv, [Next]_vars
  PROVE  NoStray'
  <1>1. /\ Shape /\ TableNames /\ CallsOwn /\ WatchersOwn /\ NoStray
        /\ table \in [Ids -> 0 .. MaxActs] /\ call \in [Dispatchers -> Call]
        /\ Len(runs) \in Nat /\ runs \in Seq(Activation)
        /\ \A a \in Acts : runs[a].id \in Ids
    BY TypesHaveShape, ActsTyped DEF IInv, Shape, Activation
  <1>2. CASE UNCHANGED vars
    BY <1>1, <1>2 DEF NoStray, vars, Acts
  <1>3. ASSUME NEW d \in Dispatchers, ProviderStarts(d)
        PROVE  NoStray'
    <2>1. Acts' = Acts \union {Len(runs) + 1} /\ \A a \in Acts : runs'[a] = runs[a]
      BY <1>1, <1>3, StartAppends DEF Acts
    <2>2. call'[d].pc = "registering" /\ call'[d].act = Len(runs) + 1
      BY <1>1, <1>3 DEF ProviderStarts, Call
    <2>3. \A e \in Dispatchers : call[e].pc = "registering" => call'[e] = call[e]
      BY <1>1, <1>3 DEF ProviderStarts
    <2>4. UNCHANGED <<table, forgotten>>
      BY <1>3 DEF ProviderStarts
    <2>5. ASSUME NEW a \in Acts, runs'[a].drive = "running", runs'[a].id \notin forgotten'
          PROVE  \/ \E e \in Dispatchers : call'[e].act = a /\ call'[e].pc = "registering"
                 \/ table'[runs'[a].id] = a
      <3>1. \/ \E e \in Dispatchers : call[e].act = a /\ call[e].pc = "registering"
            \/ table[runs[a].id] = a
        BY <1>1, <2>1, <2>4, <2>5 DEF NoStray
      <3> QED BY <2>1, <2>3, <2>4, <3>1
    <2> QED BY <2>1, <2>2, <2>5 DEF NoStray
  <1>4. CASE Others
    <2>1. /\ Acts' = Acts
          /\ \A a \in Acts : /\ runs'[a].id = runs[a].id
                             /\ runs'[a].drive = "running" => runs[a].drive = "running"
      BY <1>4, OthersKeep DEF Kept, Acts
    <2>7. SUFFICES ASSUME NEW a \in Acts', runs'[a].drive = "running",
                          runs'[a].id \notin forgotten'
                   PROVE  \/ \E d \in Dispatchers : call'[d].act = a /\ call'[d].pc = "registering"
                          \/ table'[runs'[a].id] = a
      BY DEF NoStray
    <2>2. /\ a \in Acts /\ runs[a].drive = "running" /\ runs'[a].id = runs[a].id
          /\ runs[a].id \notin forgotten'
      <3>1. a \in Acts
        BY <2>1, <2>7
      <3>2. runs'[a].id = runs[a].id
        BY <2>1, <3>1
      <3>3. runs[a].drive = "running"
        BY <2>1, <2>7, <3>1
      <3> QED BY <2>7, <3>1, <3>2, <3>3
    <2>8. runs[a].id \in Ids
      BY <1>1, <2>2
    <2>9. table \in [Ids -> 0 .. MaxActs]
      BY <1>1
    <2>3. forgotten \subseteq forgotten'
      BY <1>4
      DEF Others, Dispatch, Continue, Reserve, StartFails, Register, Started, ForegroundEnds,
          Promote, AbandonWait, CancelTurn, DriveSettles, SendsResult, DropsFaces, WatcherEnds,
          NetFires, Delivers, NetDelivers, Abort
    <2>4. \/ \E d \in Dispatchers : call[d].act = a /\ call[d].pc = "registering"
          \/ table[runs[a].id] = a
      BY <1>1, <2>2, <2>3 DEF NoStray
    <2>5. ASSUME NEW d \in Dispatchers, call[d].act = a, call[d].pc = "registering"
          PROVE  call'[d] = call[d] \/ table'[runs[a].id] = a
      <3>1. runs[a].id = call[d].id
        BY <1>1, <2>5 DEF CallsOwn
      <3>2. CASE UNCHANGED call
        BY <3>2
      <3>4. CASE Register(d)
        <4>1. CASE table[call[d].id] # 0
          <5>1. runs' = [runs EXCEPT ![a].drive = Disposed(@)]
            BY <2>5, <3>4, <4>1 DEF Register
          <5>2. runs[a] \in Activation /\ a \in 1 .. Len(runs)
            BY <2>2, ActsTyped DEF Acts
          <5>3. runs'[a].drive = Disposed(runs[a].drive)
            BY <1>1, <5>1, <5>2 DEF Activation
          <5> QED BY <2>7, <5>3 DEF Disposed
        <4>2. CASE table[call[d].id] = 0
          <5>1. table' = [table EXCEPT ![call[d].id] = a]
            BY <2>5, <3>4, <4>2 DEF Register
          <5> QED BY <2>8, <2>9, <3>1, <5>1
        <4> QED BY <4>1, <4>2
      <3>5. ASSUME NEW e \in Dispatchers, e # d, Register(e) \/ Started(e)
            PROVE  call'[d] = call[d]
        BY <1>1, <3>5 DEF Register, Started
      <3>6. ASSUME NEW e \in Dispatchers, NEW id, NEW mode, Reserve(e, id, mode)
            PROVE  call'[d] = call[d]
        BY <1>1, <2>5, <3>6 DEF Reserve, Idle
      <3>7. ASSUME NEW e \in Dispatchers,
                   StartFails(e) \/ ForegroundEnds(e) \/ Promote(e) \/ AbandonWait(e)
            PROVE  call'[d] = call[d]
        BY <1>1, <2>5, <3>7 DEF StartFails, ForegroundEnds, Promote, AbandonWait
      <3>8. ~Started(d)
        BY <2>5 DEF Started
      <3> QED
        BY <1>4, <3>2, <3>4, <3>5, <3>6, <3>7, <3>8
        DEF Others, Dispatch, Continue, CancelTurn, DriveSettles, SendsResult, DropsFaces,
          WatcherEnds, NetFires, Delivers, NetDelivers, Abort
    <2>6. ASSUME table[runs[a].id] = a
          PROVE  table'[runs[a].id] = a
      <3>1. CASE UNCHANGED table
        BY <2>6, <3>1
      <3>2. ASSUME NEW d \in Dispatchers, Register(d)
            PROVE  table'[runs[a].id] = a
        <4>1. a # 0
          BY <2>2 DEF Acts
        <4>2. CASE UNCHANGED table
          BY <2>6, <4>2
        <4>3. CASE /\ table[call[d].id] = 0
                   /\ table' = [table EXCEPT ![call[d].id] = call[d].act]
          <5>1. call[d].id # runs[a].id
            BY <2>6, <4>1, <4>3
          <5> QED BY <2>6, <2>8, <2>9, <4>3, <5>1
        <4> QED BY <3>2, <4>2, <4>3 DEF Register
      <3>3. ASSUME NEW b \in Acts, WatcherEnds(b) \/ NetFires(b)
            PROVE  table'[runs[a].id] = a
        <4>1. runs[b].id # runs[a].id
          <5>1. CASE WatcherEnds(b)
            <6>1. runs[b].watcher = "waiting" /\ Resolved(b) /\ forgotten' = forgotten
              BY <5>1 DEF WatcherEnds
            <6>2. a # b
              BY <2>2, <6>1 DEF Resolved
            <6> QED BY <1>1, <2>2, <2>6, <6>1, <6>2 DEF WatchersOwn
          <5>2. CASE NetFires(b)
            BY <2>2, <5>2 DEF NetFires
          <5> QED BY <3>3, <5>1, <5>2
        <4>2. table' = [table EXCEPT ![runs[b].id] = 0]
          BY <3>3 DEF WatcherEnds, NetFires, Remove
        <4> QED BY <2>6, <2>8, <2>9, <4>1, <4>2
      <3> QED
        BY <1>4, <3>1, <3>2, <3>3
        DEF Others, Dispatch, Continue, Reserve, StartFails, Started, ForegroundEnds,
          Promote, AbandonWait, CancelTurn, DriveSettles, SendsResult, DropsFaces,
          Delivers, NetDelivers, Abort
    <2> QED BY <2>2, <2>4, <2>5, <2>6
  <1> QED BY <1>2, <1>3, <1>4, NextSplits

LEMMA RowsStep ==
  ASSUME IInv, [Next]_vars
  PROVE  RowsToSpare'
  <1>1. /\ Shape /\ RowsToSpare /\ rows \in [Ids -> Nat] /\ Len(runs) \in Nat
        /\ \A a \in Acts : runs[a].id \in Ids
        /\ runs \in Seq(Activation)
    BY TypesHaveShape, ActsTyped DEF IInv, Shape, Activation
  <1>2. CASE UNCHANGED vars
    BY <1>1, <1>2 DEF RowsToSpare, vars, OfId, Acts
  <1>3. SUFFICES ASSUME NEW id \in Ids, Next
                 PROVE  rows'[id] + (IF id \in settledOnce' \/ OfId(id)' = {} THEN 0 ELSE 1)
                          <= Cardinality(OfId(id)')
    BY <1>2 DEF RowsToSpare
  <1>4. /\ rows[id] + (IF id \in settledOnce \/ OfId(id) = {} THEN 0 ELSE 1)
             <= Cardinality(OfId(id))
        /\ IsFiniteSet(OfId(id)) /\ Cardinality(OfId(id)) \in Nat /\ rows[id] \in Nat
    BY <1>1, OfIdFinite DEF RowsToSpare
  <1>5. ASSUME NEW d \in Dispatchers, ProviderStarts(d)
        PROVE  rows'[id] + (IF id \in settledOnce' \/ OfId(id)' = {} THEN 0 ELSE 1)
                 <= Cardinality(OfId(id)')
    <2> DEFINE new == Len(runs) + 1
    <2>1. Acts' = Acts \union {new} /\ new \notin Acts /\ \A a \in Acts : runs'[a] = runs[a]
      BY <1>1, <1>5, StartAppends DEF Acts
    <2>2. runs'[new].id = call[d].id
      BY <1>5, StartAppends
    <2>3. settledOnce' = settledOnce \ {call[d].id} /\ rows' = rows
      BY <1>5 DEF ProviderStarts, OnStart
    <2> HIDE DEF new
    <2>4. CASE id = call[d].id
      <3>1. OfId(id)' = OfId(id) \union {new} /\ new \notin OfId(id)
        BY <2>1, <2>2, <2>4 DEF OfId
      <3>2. Cardinality(OfId(id)') = Cardinality(OfId(id)) + 1
        BY <1>4, <3>1, FS_AddElement
      <3> QED BY <1>4, <2>3, <3>2
    <2>5. CASE id # call[d].id
      <3>1. OfId(id)' = OfId(id)
        BY <2>1, <2>2, <2>5 DEF OfId
      <3> QED BY <1>4, <2>3, <2>5, <3>1
    <2> QED BY <2>4, <2>5
  <1>6. CASE Others
    <2>1. OfId(id)' = OfId(id)
      BY <1>6, OthersKeep DEF Kept, Acts, OfId
    <2>2. CASE UNCHANGED <<rows, settledOnce>>
      BY <1>4, <2>1, <2>2
    <2>3. ASSUME NEW a \in Acts, DriveSettles(a) \/ NetDelivers(a)
          PROVE  rows'[id] + (IF id \in settledOnce' \/ OfId(id)' = {} THEN 0 ELSE 1)
                   <= Cardinality(OfId(id)')
      <3>1. OnSettled(runs[a].id) /\ runs[a].id \in Ids
        BY <1>1, <2>3 DEF DriveSettles, NetDelivers
      <3>2. CASE id = runs[a].id
        <4>1. OfId(id) # {}
          BY <3>2 DEF OfId
        <4>2. /\ id \in settledOnce'
              /\ rows'[id] = IF id \in settledOnce THEN rows[id] ELSE rows[id] + 1
          BY <1>1, <3>1, <3>2 DEF OnSettled
        <4> QED BY <1>4, <2>1, <4>1, <4>2
      <3>3. CASE id # runs[a].id
        <4>1. rows'[id] = rows[id] /\ (id \in settledOnce' <=> id \in settledOnce)
          BY <1>1, <3>1, <3>3 DEF OnSettled
        <4> QED BY <1>4, <2>1, <4>1
      <3> QED BY <3>2, <3>3
    <2> QED
      BY <1>6, <2>2, <2>3
      DEF Others, Dispatch, Continue, Reserve, StartFails, Register, Started, ForegroundEnds,
          Promote, AbandonWait, CancelTurn, SendsResult, DropsFaces, WatcherEnds,
          NetFires, Delivers, Abort, observer
  <1> QED BY <1>3, <1>5, <1>6, NextSplits

LEMMA FacesStep ==
  ASSUME IInv, [Next]_vars
  PROVE  NewestHasFaces'
  <1>1. /\ Shape /\ NewestHasFaces /\ face \in [Ids -> 0 .. MaxActs] /\ Len(runs) \in Nat
        /\ \A a \in Acts : runs[a].id \in Ids
    BY TypesHaveShape, ActsTyped DEF IInv, Shape, Activation
  <1>2. CASE UNCHANGED vars
    BY <1>1, <1>2 DEF NewestHasFaces, vars, OfId, Acts, Resolved
  <1>3. SUFFICES ASSUME Next, NEW id \in Ids, NEW a \in OfId(id)', ~Resolved(a)',
                        \A b \in OfId(id)' : b <= a
                 PROVE  face'[id] = a
    BY <1>2 DEF NewestHasFaces
  <1>4. ASSUME NEW d \in Dispatchers, ProviderStarts(d)
        PROVE  face'[id] = a
    <2> DEFINE new == Len(runs) + 1
    <2>1. /\ Acts' = Acts \union {new} /\ new \notin Acts /\ \A b \in Acts : b < new
          /\ \A b \in Acts : runs'[b] = runs[b]
      BY <1>1, <1>4, StartAppends DEF Acts
    <2>2. runs'[new].id = call[d].id /\ call[d].id \in Ids
      BY <1>4, StartAppends
    <2>3. face' = [face EXCEPT ![call[d].id] = new]
      BY <1>4 DEF ProviderStarts
    <2>4. new \in Nat /\ Acts \subseteq Nat
      BY <1>1 DEF Acts
    <2> HIDE DEF new
    <2>5. CASE id = call[d].id
      <3>1. new \in OfId(id)'
        BY <2>1, <2>2, <2>5 DEF OfId
      <3>2. a = new
        <4>1. a \in Acts' /\ new <= a
          BY <1>3, <3>1 DEF OfId
        <4>2. a \in Acts \/ a = new
          BY <2>1, <4>1
        <4>3. a \in Acts => a \in Nat /\ a < new
          BY <2>1, <2>4
        <4>4. a \in Acts => FALSE
          BY <2>4, <4>1, <4>3
        <4> QED BY <4>2, <4>4
      <3> QED BY <1>1, <2>3, <2>5, <3>2
    <2>6. CASE id # call[d].id
      <3>1. OfId(id)' = OfId(id)
        BY <2>1, <2>2, <2>6 DEF OfId
      <3>2. a \in Acts /\ ~Resolved(a)
        BY <1>3, <2>1, <3>1 DEF OfId, Resolved
      <3> QED BY <1>1, <1>3, <2>3, <2>6, <3>1, <3>2 DEF NewestHasFaces
    <2> QED BY <2>5, <2>6
  <1>5. CASE Others
    <2>1. OfId(id)' = OfId(id)
      BY <1>5, OthersKeep DEF Kept, Acts, OfId
    <2>2. a \in Acts /\ runs[a].id = id /\ ~Resolved(a)
      BY <1>3, <1>5, <2>1, OthersKeep DEF OfId, Kept
    <2>3. face[id] = a
      BY <1>1, <1>3, <2>1, <2>2 DEF NewestHasFaces
    <2>4. CASE UNCHANGED face
      BY <2>3, <2>4
    <2>5. ASSUME NEW b \in Acts, DropsFaces(b)
          PROVE  face'[id] = a
      <3>1. a # b
        BY <2>2, <2>5 DEF DropsFaces, Resolved
      <3> QED BY <1>1, <2>3, <2>5, <3>1 DEF DropsFaces
    <2> QED
      BY <1>5, <2>4, <2>5
      DEF Others, Dispatch, Continue, Reserve, StartFails, Register, Started, ForegroundEnds,
          Promote, AbandonWait, CancelTurn, DriveSettles, SendsResult, WatcherEnds,
          NetFires, Delivers, NetDelivers, Abort
  <1> QED BY <1>3, <1>4, <1>5, NextSplits

------------------------------------------------------------------------------
LEMMA NextIInv == IInv /\ [Next]_vars => IInv'
  <1> SUFFICES ASSUME IInv, [Next]_vars PROVE IInv'
    OBVIOUS
  <1>1. Shape' /\ CallsOwn' /\ TableNames' /\ WatchersOwn'
    BY ShapeStep, CallsOwnStep, TableNamesStep, WatchersOwnStep
  <1>2. IsFiniteSet(Reserving)' /\ SlotsConserved' /\ NoStray'
    BY SlotsStep, NoStrayStep
  <1>3. RowsToSpare' /\ NewestHasFaces'
    BY RowsStep, FacesStep
  <1>4. TypeOK'
    BY <1>1, <1>2, <1>3, ShapeBounds, PTL
  <1> QED BY <1>1, <1>2, <1>3, <1>4 DEF IInv

LEMMA Invariance == Spec => []IInv
  BY InitIInv, NextIInv, PTL DEF Spec

\* Type correctness of the sub-agent model.
THEOREM TypeCorrect == Spec => []TypeOK
  <1>1. IInv => TypeOK BY DEF IInv
  <1> QED BY <1>1, Invariance, PTL

\* For any capacity and any number of calls, ids and activations, no slot leaks
\* and none is given back twice: Remove drops the permit inside the entry.
THEOREM SlotsConservedHolds == Spec => []SlotsConserved
  <1>1. IInv => SlotsConserved BY DEF IInv
  <1> QED BY <1>1, Invariance, PTL

\* A running child can always be stopped through its id, ids dropped by a net
\* aside: the re-check of start_gated and the settle watcher never take the
\* entry of another activation.
THEOREM NoStrayHolds == Spec => []NoStray
  <1>1. IInv => NoStray BY DEF IInv
  <1> QED BY <1>1, Invariance, PTL

\* No id has more run/settled rows than activations: on_settled lands one row
\* per epoch, whoever comes first.
THEOREM RowsPerActivationHolds == Spec => []RowsPerActivation
  <1>1. IInv => RowsPerActivation
    <2> SUFFICES ASSUME IInv, NEW id \in Ids
                 PROVE  rows[id] <= Cardinality(OfId(id))
      BY DEF RowsPerActivation
    <2>1. rows[id] \in Nat /\ Cardinality(OfId(id)) \in Nat
      BY TypesHaveShape, ActsTyped, OfIdFinite DEF IInv, Shape
    <2> QED BY <2>1 DEF IInv, RowsToSpare
  <1> QED BY <1>1, Invariance, PTL

\* The newest activation of an id keeps its faces until its result is out: the
\* guard of an older one removes only what it registered.
THEOREM NewestHasFacesHolds == Spec => []NewestHasFaces
  <1>1. IInv => NewestHasFaces BY DEF IInv
  <1> QED BY <1>1, Invariance, PTL
=============================================================================
