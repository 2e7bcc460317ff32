------------------------- MODULE SessionLeaseProofs -------------------------
(***************************************************************************)
(* The safety of the session lease for any number of processes, threads    *)
(* and removals of the lock file.  The inductive invariant adds to the     *)
(* stated properties where a thread's references come from: a thread       *)
(* between its flock and its insert owns the entry alone, the registry     *)
(* points at an entry somebody holds, and inodes are numbered by removals. *)
(***************************************************************************)
EXTENDS SessionLease, TLAPS

\* Inodes are handed out one per removal, and threads only know created ones.
Numbering ==
  /\ disk <= created
  /\ disk # 0 => created <= wipes + 1
  /\ disk = 0 => created <= wipes
  /\ \A t \in Threads : fd[t] <= created /\ lease[t] <= created

\* What a thread's position says of its descriptor and its reference.
Positions ==
  \A t \in Threads :
    /\ lease[t] # 0 <=> pc[t] = "held"
    /\ pc[t] \in {"flock", "identify", "insert"} => fd[t] # 0

\* A thread between flock and insert owns the entry, and owns it alone.
WindowIsExclusive ==
  \A t \in Threads : InWindow(t) =>
    /\ flock[fd[t]] = ProcessOf[t]
    /\ \A u \in Threads \ {t} : lease[u] # fd[t] /\ ~(InWindow(u) /\ fd[u] = fd[t])

\* The weak reference in the registry is alive: some thread holds its entry.
RegistryIsLive ==
  \A p \in Processes : registry[p] # 0 =>
    \E t \in Threads : ProcessOf[t] = p /\ lease[t] = registry[p]

\* On a lock file that was there and stays, every identity in use is the same
\* and a process that holds the lease has it in its registry.
UntouchedAt(t) ==
  existed /\ wipes = 0 =>
    /\ disk = 1
    /\ created = 1
    /\ pc[t] = "lookup" => onDisk[t] = 1
    /\ pc[t] = "insert" => ident[1] = 1
    /\ lease[t] # 0 => ident[1] = 1 /\ registry[ProcessOf[t]] = 1

Untouched == \A t \in Threads : UntouchedAt(t)

\* A lease is a flock of its process on the inode of its entry.
LeaseIsLocked ==
  \A t \in Threads : lease[t] # 0 => flock[lease[t]] = ProcessOf[t]

IInv ==
  /\ TypeOK
  /\ Numbering
  /\ Positions
  /\ LeaseIsLocked
  /\ WindowIsExclusive
  /\ RegistryIsLive
  /\ Untouched
  /\ NoOrphanFlock

USE DEF Goto

\* The initial states satisfy the invariant.
LEMMA InitIInv == Init => IInv
  <1> SUFFICES ASSUME Init PROVE IInv
    OBVIOUS
  <1> USE LeaseAssumption DEF Init
  <1>1. TypeOK BY DEF TypeOK, Inodes, PCs
  <1>2. Numbering /\ Positions BY DEF Numbering, Positions
  <1>3. LeaseIsLocked /\ NoOrphanFlock BY DEF LeaseIsLocked, NoOrphanFlock
  <1>4. WindowIsExclusive /\ RegistryIsLive
    BY DEF WindowIsExclusive, RegistryIsLive, InWindow
  <1>5. Untouched BY DEF Untouched, UntouchedAt
  <1> QED BY <1>1, <1>2, <1>3, <1>4, <1>5 DEF IInv

\* Two leases name one inode only if they belong to one process.
LEMMA SharersAreTwins ==
  ASSUME IInv, NEW t \in Threads, NEW u \in Threads,
         lease[t] # 0, lease[u] = lease[t]
  PROVE  ProcessOf[u] = ProcessOf[t]
  BY DEF IInv, LeaseIsLocked

\* Every step keeps the types.
LEMMA TypeStep ==
  ASSUME IInv, [Next]_vars
  PROVE  TypeOK'
  <1> USE LeaseAssumption DEF IInv, TypeOK, Numbering, Positions, Inodes, PCs
  <1>1. ASSUME NEW t \in Threads, Acquire(t)
        PROVE  TypeOK'
    BY <1>1 DEF Acquire
  <1>2. ASSUME NEW t \in Threads, JoinStat(t)
        PROVE  TypeOK'
    BY <1>2 DEF JoinStat
  <1>3. ASSUME NEW t \in Threads, JoinLookup(t)
        PROVE  TypeOK'
    <2>1. ProcessOf[t] \in Processes /\ registry[ProcessOf[t]] \in 0 .. (MaxWipes + 1)
      OBVIOUS
    <2>2. CASE Joinable(t)
      BY <1>3, <2>1, <2>2 DEF JoinLookup
    <2>3. CASE ~Joinable(t)
      <3>1. pc' \in [Threads -> PCs]
        BY <1>3, <2>3 DEF JoinLookup
      <3>2. registry' \in [Processes -> 0 .. (MaxWipes + 1)]
        BY <1>3, <2>1, <2>3 DEF JoinLookup
      <3>3. onDisk' \in [Threads -> 0 .. (MaxWipes + 1)] /\ lease' = lease
        BY <1>3, <2>3 DEF JoinLookup
      <3>4. UNCHANGED <<existed, disk, created, wipes, flock, ident, recheck, fd>>
        BY <1>3 DEF JoinLookup
      <3> HIDE DEF Inodes, PCs
      <3> QED BY <3>1, <3>2, <3>3, <3>4
    <2> QED BY <2>2, <2>3
  <1>4. ASSUME NEW t \in Threads, Open(t)
        PROVE  TypeOK'
    BY <1>4, SMTT(30) DEF Open
  <1>5. ASSUME NEW t \in Threads, OpenFails(t)
        PROVE  TypeOK'
    BY <1>5 DEF OpenFails
  <1>6. ASSUME NEW t \in Threads, Flock(t)
        PROVE  TypeOK'
    BY <1>6 DEF Flock
  <1>7. ASSUME NEW t \in Threads, Retry(t)
        PROVE  TypeOK'
    BY <1>7 DEF Retry
  <1>8. ASSUME NEW t \in Threads, BudgetSpent(t)
        PROVE  TypeOK'
    BY <1>8 DEF BudgetSpent
  <1>9. ASSUME NEW t \in Threads, Identify(t)
        PROVE  TypeOK'
    BY <1>9 DEF Identify
  <1>10. ASSUME NEW t \in Threads, Insert(t)
        PROVE  TypeOK'
    BY <1>10 DEF Insert
  <1>11. ASSUME NEW t \in Threads, GiveUp(t)
        PROVE  TypeOK'
    BY <1>11 DEF GiveUp
  <1>12. ASSUME NEW t \in Threads, Drop(t)
        PROVE  TypeOK'
    <2>1. ProcessOf[t] \in Processes /\ lease[t] \in Inodes
      BY <1>12 DEF Drop
    <2>2. CASE LastReference(t)
      <3>1. flock' = [flock EXCEPT ![lease[t]] = NoProcess]
        BY <1>12, <2>2 DEF Drop
      <3>2. registry' \in [Processes -> 0 .. (MaxWipes + 1)]
        <4>1. CASE registry[ProcessOf[t]] = lease[t]
          <5>1. registry' = [registry EXCEPT ![ProcessOf[t]] = 0]
            BY <1>12, <2>2, <4>1 DEF Drop
          <5> QED BY <5>1
        <4>2. CASE registry[ProcessOf[t]] # lease[t]
          BY <1>12, <2>2, <4>2 DEF Drop
        <4> QED BY <4>1, <4>2
      <3> QED BY <1>12, <2>1, <3>1, <3>2, SMTT(30) DEF Drop
    <2>3. CASE ~LastReference(t)
      BY <1>12, <2>1, <2>3 DEF Drop
    <2> QED BY <2>2, <2>3
  <1>13. ASSUME NEW p \in Processes, Crash(p)
        PROVE  TypeOK'
    BY <1>13 DEF Crash
  <1>14. CASE Wipe
    BY <1>14 DEF Wipe
  <1>15. CASE UNCHANGED vars
    BY <1>15 DEF vars
  <1> QED
    BY <1>1, <1>2, <1>3, <1>4, <1>5, <1>6, <1>7, <1>8, <1>9, <1>10, <1>11, <1>12, <1>13, <1>14, <1>15
    DEF Next, AcquireStep

\* Every step keeps the numbering of inodes.
LEMMA NumberingStep ==
  ASSUME IInv, [Next]_vars
  PROVE  Numbering'
  <1> USE LeaseAssumption DEF IInv, TypeOK, Numbering, RegistryIsLive
  <1>1. ASSUME NEW t \in Threads, Acquire(t)
        PROVE  Numbering'
    BY <1>1 DEF Acquire
  <1>2. ASSUME NEW t \in Threads, JoinStat(t)
        PROVE  Numbering'
    BY <1>2 DEF JoinStat
  <1>3. ASSUME NEW t \in Threads, JoinLookup(t)
        PROVE  Numbering'
    BY <1>3 DEF JoinLookup, Joinable
  <1>4. ASSUME NEW t \in Threads, Open(t)
        PROVE  Numbering'
    BY <1>4 DEF Open
  <1>5. ASSUME NEW t \in Threads, OpenFails(t)
        PROVE  Numbering'
    BY <1>5 DEF OpenFails
  <1>6. ASSUME NEW t \in Threads, Flock(t)
        PROVE  Numbering'
    BY <1>6 DEF Flock
  <1>7. ASSUME NEW t \in Threads, Retry(t)
        PROVE  Numbering'
    BY <1>7 DEF Retry
  <1>8. ASSUME NEW t \in Threads, BudgetSpent(t)
        PROVE  Numbering'
    BY <1>8 DEF BudgetSpent
  <1>9. ASSUME NEW t \in Threads, Identify(t)
        PROVE  Numbering'
    BY <1>9 DEF Identify
  <1>10. ASSUME NEW t \in Threads, Insert(t)
        PROVE  Numbering'
    BY <1>10 DEF Insert
  <1>11. ASSUME NEW t \in Threads, GiveUp(t)
        PROVE  Numbering'
    BY <1>11 DEF GiveUp
  <1>12. ASSUME NEW t \in Threads, Drop(t)
        PROVE  Numbering'
    BY <1>12 DEF Drop, LastReference
  <1>13. ASSUME NEW p \in Processes, Crash(p)
        PROVE  Numbering'
    BY <1>13 DEF Crash
  <1>14. CASE Wipe
    BY <1>14 DEF Wipe
  <1>15. CASE UNCHANGED vars
    BY <1>15 DEF vars
  <1> QED
    BY <1>1, <1>2, <1>3, <1>4, <1>5, <1>6, <1>7, <1>8, <1>9, <1>10, <1>11, <1>12, <1>13, <1>14, <1>15
    DEF Next, AcquireStep

\* Every step keeps positions and references together.
LEMMA PositionsStep ==
  ASSUME IInv, [Next]_vars
  PROVE  Positions'
  <1> USE LeaseAssumption DEF IInv, TypeOK, Numbering, Positions
  <1>1. ASSUME NEW t \in Threads, Acquire(t)
        PROVE  Positions'
    BY <1>1 DEF Acquire
  <1>2. ASSUME NEW t \in Threads, JoinStat(t)
        PROVE  Positions'
    BY <1>2 DEF JoinStat
  <1>3. ASSUME NEW t \in Threads, JoinLookup(t)
        PROVE  Positions'
    BY <1>3 DEF JoinLookup, Joinable
  <1>4. ASSUME NEW t \in Threads, Open(t)
        PROVE  Positions'
    BY <1>4 DEF Open
  <1>5. ASSUME NEW t \in Threads, OpenFails(t)
        PROVE  Positions'
    BY <1>5 DEF OpenFails
  <1>6. ASSUME NEW t \in Threads, Flock(t)
        PROVE  Positions'
    BY <1>6 DEF Flock
  <1>7. ASSUME NEW t \in Threads, Retry(t)
        PROVE  Positions'
    BY <1>7 DEF Retry
  <1>8. ASSUME NEW t \in Threads, BudgetSpent(t)
        PROVE  Positions'
    BY <1>8 DEF BudgetSpent
  <1>9. ASSUME NEW t \in Threads, Identify(t)
        PROVE  Positions'
    BY <1>9 DEF Identify
  <1>10. ASSUME NEW t \in Threads, Insert(t)
        PROVE  Positions'
    BY <1>10 DEF Insert
  <1>11. ASSUME NEW t \in Threads, GiveUp(t)
        PROVE  Positions'
    BY <1>11 DEF GiveUp
  <1>12. ASSUME NEW t \in Threads, Drop(t)
        PROVE  Positions'
    BY <1>12 DEF Drop, LastReference
  <1>13. ASSUME NEW p \in Processes, Crash(p)
        PROVE  Positions'
    BY <1>13 DEF Crash
  <1>14. CASE Wipe
    BY <1>14 DEF Wipe
  <1>15. CASE UNCHANGED vars
    BY <1>15 DEF vars
  <1> QED
    BY <1>1, <1>2, <1>3, <1>4, <1>5, <1>6, <1>7, <1>8, <1>9, <1>10, <1>11, <1>12, <1>13, <1>14, <1>15
    DEF Next, AcquireStep

\* No step takes the flock from under a lease.
LEMMA FencedStep ==
  ASSUME IInv, [Next]_vars, NEW x \in Threads, lease'[x] # 0
  PROVE  flock'[lease'[x]] = ProcessOf[x]
  <1> USE LeaseAssumption DEF IInv, TypeOK, Positions, LeaseIsLocked, WindowIsExclusive, InWindow, Inodes
  <1>1. ASSUME NEW t \in Threads, Acquire(t)
        PROVE  flock'[lease'[x]] = ProcessOf[x]
    BY <1>1 DEF Acquire
  <1>2. ASSUME NEW t \in Threads, JoinStat(t)
        PROVE  flock'[lease'[x]] = ProcessOf[x]
    BY <1>2 DEF JoinStat
  <1>3. ASSUME NEW t \in Threads, JoinLookup(t)
        PROVE  flock'[lease'[x]] = ProcessOf[x]
    <2>1. CASE Joinable(t)
      <3>1. PICK w \in Threads : ProcessOf[w] = ProcessOf[t] /\ lease[w] = registry[ProcessOf[t]]
        BY <2>1 DEF Joinable, RegistryIsLive
      <3>2. lease' = [lease EXCEPT ![t] = lease[w]] /\ lease[w] # 0 /\ pc' = [pc EXCEPT ![t] = "held"]
        BY <1>3, <2>1, <3>1 DEF JoinLookup, Joinable
      <3>3. UNCHANGED <<flock, fd>>
        BY <1>3 DEF JoinLookup
      <3> QED BY <3>1, <3>2, <3>3
    <2>2. CASE ~Joinable(t)
      <3>1. lease' = lease /\ UNCHANGED <<flock, fd>>
        BY <1>3, <2>2 DEF JoinLookup
      <3>2. pc' = [pc EXCEPT ![t] = "refused"] \/ pc' = [pc EXCEPT ![t] = "open"]
        BY <1>3, <2>2 DEF JoinLookup
      <3> QED BY <3>1, <3>2
    <2> QED BY <2>1, <2>2
  <1>4. ASSUME NEW t \in Threads, Open(t)
        PROVE  flock'[lease'[x]] = ProcessOf[x]
    BY <1>4 DEF Open
  <1>5. ASSUME NEW t \in Threads, OpenFails(t)
        PROVE  flock'[lease'[x]] = ProcessOf[x]
    BY <1>5 DEF OpenFails
  <1>6. ASSUME NEW t \in Threads, Flock(t)
        PROVE  flock'[lease'[x]] = ProcessOf[x]
    BY <1>6 DEF Flock
  <1>7. ASSUME NEW t \in Threads, Retry(t)
        PROVE  flock'[lease'[x]] = ProcessOf[x]
    BY <1>7 DEF Retry
  <1>8. ASSUME NEW t \in Threads, BudgetSpent(t)
        PROVE  flock'[lease'[x]] = ProcessOf[x]
    BY <1>8 DEF BudgetSpent
  <1>9. ASSUME NEW t \in Threads, Identify(t)
        PROVE  flock'[lease'[x]] = ProcessOf[x]
    <2>1. CASE disk # 0
      <3>1. pc' = [pc EXCEPT ![t] = "insert"] /\ UNCHANGED <<flock, fd, lease>>
        BY <1>9, <2>1 DEF Identify
      <3>2. pc[t] = "identify"
        BY <1>9 DEF Identify
      <3> QED BY <3>1, <3>2
    <2>2. CASE disk = 0
      <3>1. pc' = [pc EXCEPT ![t] = "idle"] /\ fd' = [fd EXCEPT ![t] = 0] /\ lease' = lease
        BY <1>9, <2>2 DEF Identify
      <3>2. flock' = [flock EXCEPT ![fd[t]] = NoProcess] /\ pc[t] = "identify"
        BY <1>9, <2>2 DEF Identify
      <3> QED BY <3>1, <3>2
    <2> QED BY <2>1, <2>2
  <1>10. ASSUME NEW t \in Threads, Insert(t)
        PROVE  flock'[lease'[x]] = ProcessOf[x]
    BY <1>10 DEF Insert
  <1>11. ASSUME NEW t \in Threads, GiveUp(t)
        PROVE  flock'[lease'[x]] = ProcessOf[x]
    BY <1>11 DEF GiveUp
  <1>12. ASSUME NEW t \in Threads, Drop(t)
        PROVE  flock'[lease'[x]] = ProcessOf[x]
    <2>1. CASE LastReference(t)
      BY <1>12, <2>1 DEF Drop, LastReference
    <2>2. CASE ~LastReference(t)
      BY <1>12, <2>2 DEF Drop
    <2> QED BY <2>1, <2>2
  <1>13. ASSUME NEW p \in Processes, Crash(p)
        PROVE  flock'[lease'[x]] = ProcessOf[x]
    BY <1>13 DEF Crash
  <1>14. CASE Wipe
    BY <1>14 DEF Wipe
  <1>15. CASE UNCHANGED vars
    BY <1>15 DEF vars
  <1> QED
    BY <1>1, <1>2, <1>3, <1>4, <1>5, <1>6, <1>7, <1>8, <1>9, <1>10, <1>11, <1>12, <1>13, <1>14, <1>15
    DEF Next, AcquireStep

\* A thread in its window keeps the flock.
LEMMA WindowLockStep ==
  ASSUME IInv, [Next]_vars, NEW x \in Threads, InWindow(x)'
  PROVE  flock'[fd'[x]] = ProcessOf[x]
  <1> USE LeaseAssumption DEF IInv, TypeOK, Positions, LeaseIsLocked, WindowIsExclusive, InWindow, Inodes
  <1>1. ASSUME NEW t \in Threads, Acquire(t)
        PROVE  flock'[fd'[x]] = ProcessOf[x]
    BY <1>1 DEF Acquire
  <1>2. ASSUME NEW t \in Threads, JoinStat(t)
        PROVE  flock'[fd'[x]] = ProcessOf[x]
    BY <1>2 DEF JoinStat
  <1>3. ASSUME NEW t \in Threads, JoinLookup(t)
        PROVE  flock'[fd'[x]] = ProcessOf[x]
    <2>1. CASE Joinable(t)
      <3>1. PICK w \in Threads : ProcessOf[w] = ProcessOf[t] /\ lease[w] = registry[ProcessOf[t]]
        BY <2>1 DEF Joinable, RegistryIsLive
      <3>2. lease' = [lease EXCEPT ![t] = lease[w]] /\ lease[w] # 0 /\ pc' = [pc EXCEPT ![t] = "held"]
        BY <1>3, <2>1, <3>1 DEF JoinLookup, Joinable
      <3>3. UNCHANGED <<flock, fd>>
        BY <1>3 DEF JoinLookup
      <3> QED BY <3>1, <3>2, <3>3
    <2>2. CASE ~Joinable(t)
      <3>1. lease' = lease /\ UNCHANGED <<flock, fd>>
        BY <1>3, <2>2 DEF JoinLookup
      <3>2. pc' = [pc EXCEPT ![t] = "refused"] \/ pc' = [pc EXCEPT ![t] = "open"]
        BY <1>3, <2>2 DEF JoinLookup
      <3> QED BY <3>1, <3>2
    <2> QED BY <2>1, <2>2
  <1>4. ASSUME NEW t \in Threads, Open(t)
        PROVE  flock'[fd'[x]] = ProcessOf[x]
    BY <1>4 DEF Open
  <1>5. ASSUME NEW t \in Threads, OpenFails(t)
        PROVE  flock'[fd'[x]] = ProcessOf[x]
    BY <1>5 DEF OpenFails
  <1>6. ASSUME NEW t \in Threads, Flock(t)
        PROVE  flock'[fd'[x]] = ProcessOf[x]
    BY <1>6 DEF Flock
  <1>7. ASSUME NEW t \in Threads, Retry(t)
        PROVE  flock'[fd'[x]] = ProcessOf[x]
    BY <1>7 DEF Retry
  <1>8. ASSUME NEW t \in Threads, BudgetSpent(t)
        PROVE  flock'[fd'[x]] = ProcessOf[x]
    BY <1>8 DEF BudgetSpent
  <1>9. ASSUME NEW t \in Threads, Identify(t)
        PROVE  flock'[fd'[x]] = ProcessOf[x]
    <2>1. CASE disk # 0
      <3>1. pc' = [pc EXCEPT ![t] = "insert"] /\ UNCHANGED <<flock, fd, lease>>
        BY <1>9, <2>1 DEF Identify
      <3>2. pc[t] = "identify"
        BY <1>9 DEF Identify
      <3> QED BY <3>1, <3>2
    <2>2. CASE disk = 0
      <3>1. pc' = [pc EXCEPT ![t] = "idle"] /\ fd' = [fd EXCEPT ![t] = 0] /\ lease' = lease
        BY <1>9, <2>2 DEF Identify
      <3>2. flock' = [flock EXCEPT ![fd[t]] = NoProcess] /\ pc[t] = "identify"
        BY <1>9, <2>2 DEF Identify
      <3> QED BY <3>1, <3>2
    <2> QED BY <2>1, <2>2
  <1>10. ASSUME NEW t \in Threads, Insert(t)
        PROVE  flock'[fd'[x]] = ProcessOf[x]
    BY <1>10 DEF Insert
  <1>11. ASSUME NEW t \in Threads, GiveUp(t)
        PROVE  flock'[fd'[x]] = ProcessOf[x]
    BY <1>11 DEF GiveUp
  <1>12. ASSUME NEW t \in Threads, Drop(t)
        PROVE  flock'[fd'[x]] = ProcessOf[x]
    <2>1. CASE LastReference(t)
      BY <1>12, <2>1 DEF Drop, LastReference
    <2>2. CASE ~LastReference(t)
      BY <1>12, <2>2 DEF Drop
    <2> QED BY <2>1, <2>2
  <1>13. ASSUME NEW p \in Processes, Crash(p)
        PROVE  flock'[fd'[x]] = ProcessOf[x]
    BY <1>13 DEF Crash
  <1>14. CASE Wipe
    BY <1>14 DEF Wipe
  <1>15. CASE UNCHANGED vars
    BY <1>15 DEF vars
  <1> QED
    BY <1>1, <1>2, <1>3, <1>4, <1>5, <1>6, <1>7, <1>8, <1>9, <1>10, <1>11, <1>12, <1>13, <1>14, <1>15
    DEF Next, AcquireStep

\* No step brings a second thread to the entry of a window.
LEMMA WindowStep ==
  ASSUME IInv, [Next]_vars, NEW x \in Threads, InWindow(x)', NEW y \in Threads, y # x
  PROVE  lease'[y] # fd'[x] /\ ~(InWindow(y)' /\ fd'[y] = fd'[x])
  <1> USE LeaseAssumption DEF IInv, TypeOK, Positions, LeaseIsLocked, WindowIsExclusive, InWindow, Inodes
  <1>1. ASSUME NEW t \in Threads, Acquire(t)
        PROVE  lease'[y] # fd'[x] /\ ~(InWindow(y)' /\ fd'[y] = fd'[x])
    BY <1>1 DEF Acquire
  <1>2. ASSUME NEW t \in Threads, JoinStat(t)
        PROVE  lease'[y] # fd'[x] /\ ~(InWindow(y)' /\ fd'[y] = fd'[x])
    BY <1>2 DEF JoinStat
  <1>3. ASSUME NEW t \in Threads, JoinLookup(t)
        PROVE  lease'[y] # fd'[x] /\ ~(InWindow(y)' /\ fd'[y] = fd'[x])
    <2>1. CASE Joinable(t)
      <3>1. PICK w \in Threads : ProcessOf[w] = ProcessOf[t] /\ lease[w] = registry[ProcessOf[t]]
        BY <2>1 DEF Joinable, RegistryIsLive
      <3>2. lease' = [lease EXCEPT ![t] = lease[w]] /\ lease[w] # 0 /\ pc' = [pc EXCEPT ![t] = "held"]
        BY <1>3, <2>1, <3>1 DEF JoinLookup, Joinable
      <3>3. UNCHANGED <<flock, fd>>
        BY <1>3 DEF JoinLookup
      <3> QED BY <3>1, <3>2, <3>3
    <2>2. CASE ~Joinable(t)
      <3>1. lease' = lease /\ UNCHANGED <<flock, fd>>
        BY <1>3, <2>2 DEF JoinLookup
      <3>2. pc' = [pc EXCEPT ![t] = "refused"] \/ pc' = [pc EXCEPT ![t] = "open"]
        BY <1>3, <2>2 DEF JoinLookup
      <3> QED BY <3>1, <3>2, ZenonT(30)
    <2> QED BY <2>1, <2>2
  <1>4. ASSUME NEW t \in Threads, Open(t)
        PROVE  lease'[y] # fd'[x] /\ ~(InWindow(y)' /\ fd'[y] = fd'[x])
    BY <1>4 DEF Open
  <1>5. ASSUME NEW t \in Threads, OpenFails(t)
        PROVE  lease'[y] # fd'[x] /\ ~(InWindow(y)' /\ fd'[y] = fd'[x])
    BY <1>5 DEF OpenFails
  <1>6. ASSUME NEW t \in Threads, Flock(t)
        PROVE  lease'[y] # fd'[x] /\ ~(InWindow(y)' /\ fd'[y] = fd'[x])
    BY <1>6, SMTT(30) DEF Flock
  <1>7. ASSUME NEW t \in Threads, Retry(t)
        PROVE  lease'[y] # fd'[x] /\ ~(InWindow(y)' /\ fd'[y] = fd'[x])
    BY <1>7 DEF Retry
  <1>8. ASSUME NEW t \in Threads, BudgetSpent(t)
        PROVE  lease'[y] # fd'[x] /\ ~(InWindow(y)' /\ fd'[y] = fd'[x])
    BY <1>8 DEF BudgetSpent
  <1>9. ASSUME NEW t \in Threads, Identify(t)
        PROVE  lease'[y] # fd'[x] /\ ~(InWindow(y)' /\ fd'[y] = fd'[x])
    <2>1. CASE disk # 0
      <3>1. pc' = [pc EXCEPT ![t] = "insert"] /\ UNCHANGED <<flock, fd, lease>>
        BY <1>9, <2>1 DEF Identify
      <3>2. pc[t] = "identify"
        BY <1>9 DEF Identify
      <3> QED BY <3>1, <3>2
    <2>2. CASE disk = 0
      <3>1. pc' = [pc EXCEPT ![t] = "idle"] /\ fd' = [fd EXCEPT ![t] = 0] /\ lease' = lease
        BY <1>9, <2>2 DEF Identify
      <3>2. flock' = [flock EXCEPT ![fd[t]] = NoProcess] /\ pc[t] = "identify"
        BY <1>9, <2>2 DEF Identify
      <3> QED BY <3>1, <3>2
    <2> QED BY <2>1, <2>2
  <1>10. ASSUME NEW t \in Threads, Insert(t)
        PROVE  lease'[y] # fd'[x] /\ ~(InWindow(y)' /\ fd'[y] = fd'[x])
    BY <1>10 DEF Insert
  <1>11. ASSUME NEW t \in Threads, GiveUp(t)
        PROVE  lease'[y] # fd'[x] /\ ~(InWindow(y)' /\ fd'[y] = fd'[x])
    BY <1>11 DEF GiveUp
  <1>12. ASSUME NEW t \in Threads, Drop(t)
        PROVE  lease'[y] # fd'[x] /\ ~(InWindow(y)' /\ fd'[y] = fd'[x])
    <2>1. CASE LastReference(t)
      BY <1>12, <2>1 DEF Drop, LastReference
    <2>2. CASE ~LastReference(t)
      BY <1>12, <2>2 DEF Drop
    <2> QED BY <2>1, <2>2
  <1>13. ASSUME NEW p \in Processes, Crash(p)
        PROVE  lease'[y] # fd'[x] /\ ~(InWindow(y)' /\ fd'[y] = fd'[x])
    BY <1>13 DEF Crash
  <1>14. CASE Wipe
    BY <1>14 DEF Wipe
  <1>15. CASE UNCHANGED vars
    BY <1>15 DEF vars
  <1> QED
    BY <1>1, <1>2, <1>3, <1>4, <1>5, <1>6, <1>7, <1>8, <1>9, <1>10, <1>11, <1>12, <1>13, <1>14, <1>15
    DEF Next, AcquireStep

\* Every step leaves the registry with live entries only.
LEMMA RegistryStep ==
  ASSUME IInv, [Next]_vars, NEW q \in Processes, registry'[q] # 0
  PROVE  \E w \in Threads : ProcessOf[w] = q /\ lease'[w] = registry'[q]
  <1> USE LeaseAssumption DEF IInv, TypeOK, Positions, RegistryIsLive
  <1>1. ASSUME NEW t \in Threads, Acquire(t)
        PROVE  \E w \in Threads : ProcessOf[w] = q /\ lease'[w] = registry'[q]
    BY <1>1 DEF Acquire
  <1>2. ASSUME NEW t \in Threads, JoinStat(t)
        PROVE  \E w \in Threads : ProcessOf[w] = q /\ lease'[w] = registry'[q]
    BY <1>2 DEF JoinStat
  <1>3. ASSUME NEW t \in Threads, JoinLookup(t)
        PROVE  \E w \in Threads : ProcessOf[w] = q /\ lease'[w] = registry'[q]
    <2>1. lease[t] = 0
      BY <1>3 DEF JoinLookup
    <2>2. CASE Joinable(t)
      BY <1>3, <2>1, <2>2 DEF JoinLookup
    <2>3. CASE ~Joinable(t)
      BY <1>3, <2>3 DEF JoinLookup
    <2> QED BY <2>2, <2>3
  <1>4. ASSUME NEW t \in Threads, Open(t)
        PROVE  \E w \in Threads : ProcessOf[w] = q /\ lease'[w] = registry'[q]
    BY <1>4 DEF Open
  <1>5. ASSUME NEW t \in Threads, OpenFails(t)
        PROVE  \E w \in Threads : ProcessOf[w] = q /\ lease'[w] = registry'[q]
    BY <1>5 DEF OpenFails
  <1>6. ASSUME NEW t \in Threads, Flock(t)
        PROVE  \E w \in Threads : ProcessOf[w] = q /\ lease'[w] = registry'[q]
    BY <1>6 DEF Flock
  <1>7. ASSUME NEW t \in Threads, Retry(t)
        PROVE  \E w \in Threads : ProcessOf[w] = q /\ lease'[w] = registry'[q]
    BY <1>7 DEF Retry
  <1>8. ASSUME NEW t \in Threads, BudgetSpent(t)
        PROVE  \E w \in Threads : ProcessOf[w] = q /\ lease'[w] = registry'[q]
    BY <1>8 DEF BudgetSpent
  <1>9. ASSUME NEW t \in Threads, Identify(t)
        PROVE  \E w \in Threads : ProcessOf[w] = q /\ lease'[w] = registry'[q]
    BY <1>9 DEF Identify
  <1>10. ASSUME NEW t \in Threads, Insert(t)
        PROVE  \E w \in Threads : ProcessOf[w] = q /\ lease'[w] = registry'[q]
    BY <1>10 DEF Insert
  <1>11. ASSUME NEW t \in Threads, GiveUp(t)
        PROVE  \E w \in Threads : ProcessOf[w] = q /\ lease'[w] = registry'[q]
    BY <1>11 DEF GiveUp
  <1>12. ASSUME NEW t \in Threads, Drop(t)
        PROVE  \E w \in Threads : ProcessOf[w] = q /\ lease'[w] = registry'[q]
    <2>1. registry'[q] = registry[q] /\ lease' = [lease EXCEPT ![t] = 0]
      BY <1>12 DEF Drop
    <2>2. PICK w \in Threads : ProcessOf[w] = q /\ lease[w] = registry[q]
      BY <2>1
    <2>3. CASE w # t
      BY <2>1, <2>2, <2>3
    <2>4. CASE w = t
      <3>1. ~LastReference(t)
        BY <1>12, <2>1, <2>2, <2>4 DEF Drop
      <3>2. PICK u \in Threads \ {t} : lease[u] = lease[t]
        BY <3>1 DEF LastReference
      <3>3. ProcessOf[u] = q
        BY <2>1, <2>2, <2>4, <3>2, SharersAreTwins
      <3> QED BY <2>1, <2>2, <2>4, <3>2, <3>3
    <2> QED BY <2>3, <2>4
  <1>13. ASSUME NEW p \in Processes, Crash(p)
        PROVE  \E w \in Threads : ProcessOf[w] = q /\ lease'[w] = registry'[q]
    BY <1>13 DEF Crash
  <1>14. CASE Wipe
    BY <1>14 DEF Wipe
  <1>15. CASE UNCHANGED vars
    BY <1>15 DEF vars
  <1> QED
    BY <1>1, <1>2, <1>3, <1>4, <1>5, <1>6, <1>7, <1>8, <1>9, <1>10, <1>11, <1>12, <1>13, <1>14, <1>15
    DEF Next, AcquireStep

\* Every step leaves a holder for each flock.
LEMMA NoOrphanStep ==
  ASSUME IInv, [Next]_vars,
         NEW n \in Inodes, flock'[n] # NoProcess
  PROVE  \E w \in Threads : ProcessOf[w] = flock'[n] /\ (lease'[w] = n \/ (InWindow(w)' /\ fd'[w] = n))
  <1> USE LeaseAssumption DEF IInv, TypeOK, Positions, NoOrphanFlock, InWindow, Inodes
  <1>1. ASSUME NEW t \in Threads, Acquire(t)
        PROVE  \E w \in Threads : ProcessOf[w] = flock'[n] /\ (lease'[w] = n \/ (InWindow(w)' /\ fd'[w] = n))
    BY <1>1 DEF Acquire
  <1>2. ASSUME NEW t \in Threads, JoinStat(t)
        PROVE  \E w \in Threads : ProcessOf[w] = flock'[n] /\ (lease'[w] = n \/ (InWindow(w)' /\ fd'[w] = n))
    BY <1>2 DEF JoinStat
  <1>3. ASSUME NEW t \in Threads, JoinLookup(t)
        PROVE  \E w \in Threads : ProcessOf[w] = flock'[n] /\ (lease'[w] = n \/ (InWindow(w)' /\ fd'[w] = n))
    <2>1. lease[t] = 0 /\ ~InWindow(t) /\ UNCHANGED <<flock, fd>>
      BY <1>3 DEF JoinLookup
    <2>2. PICK w \in Threads : ProcessOf[w] = flock[n] /\ (lease[w] = n \/ (InWindow(w) /\ fd[w] = n))
      BY <2>1
    <2>3. w # t /\ lease'[w] = lease[w] /\ pc'[w] = pc[w]
      BY <1>3, <2>1, <2>2, SMTT(30) DEF JoinLookup
    <2> QED BY <2>1, <2>2, <2>3
  <1>4. ASSUME NEW t \in Threads, Open(t)
        PROVE  \E w \in Threads : ProcessOf[w] = flock'[n] /\ (lease'[w] = n \/ (InWindow(w)' /\ fd'[w] = n))
    BY <1>4 DEF Open
  <1>5. ASSUME NEW t \in Threads, OpenFails(t)
        PROVE  \E w \in Threads : ProcessOf[w] = flock'[n] /\ (lease'[w] = n \/ (InWindow(w)' /\ fd'[w] = n))
    BY <1>5 DEF OpenFails
  <1>6. ASSUME NEW t \in Threads, Flock(t)
        PROVE  \E w \in Threads : ProcessOf[w] = flock'[n] /\ (lease'[w] = n \/ (InWindow(w)' /\ fd'[w] = n))
    <2>1. CASE n = fd[t]
      <3>1. ProcessOf[t] = flock'[n] /\ pc'[t] = "identify" /\ fd'[t] = n
        BY <1>6, <2>1 DEF Flock
      <3> QED BY <3>1
    <2>2. CASE n # fd[t]
      <3>1. PICK w \in Threads : ProcessOf[w] = flock[n] /\ (lease[w] = n \/ (InWindow(w) /\ fd[w] = n))
        BY <1>6, <2>2 DEF Flock
      <3>2. lease[t] = 0 /\ pc[t] = "flock" /\ n # 0
        <4>1. pc[t] = "flock"
          BY <1>6 DEF Flock
        <4> QED BY <4>1
      <3>3. w # t
        BY <3>1, <3>2
      <3> QED BY <1>6, <2>2, <3>1, <3>3 DEF Flock
    <2> QED BY <2>1, <2>2
  <1>7. ASSUME NEW t \in Threads, Retry(t)
        PROVE  \E w \in Threads : ProcessOf[w] = flock'[n] /\ (lease'[w] = n \/ (InWindow(w)' /\ fd'[w] = n))
    BY <1>7 DEF Retry
  <1>8. ASSUME NEW t \in Threads, BudgetSpent(t)
        PROVE  \E w \in Threads : ProcessOf[w] = flock'[n] /\ (lease'[w] = n \/ (InWindow(w)' /\ fd'[w] = n))
    BY <1>8 DEF BudgetSpent
  <1>9. ASSUME NEW t \in Threads, Identify(t)
        PROVE  \E w \in Threads : ProcessOf[w] = flock'[n] /\ (lease'[w] = n \/ (InWindow(w)' /\ fd'[w] = n))
    <2>1. CASE disk # 0
      <3>1. pc' = [pc EXCEPT ![t] = "insert"] /\ pc[t] = "identify" /\ UNCHANGED <<flock, fd, lease>>
        BY <1>9, <2>1 DEF Identify
      <3>2. PICK w \in Threads : ProcessOf[w] = flock[n] /\ (lease[w] = n \/ (InWindow(w) /\ fd[w] = n))
        BY <3>1
      <3>3. InWindow(w)' = InWindow(w)
        BY <3>1, SMTT(30)
      <3> QED BY <3>1, <3>2, <3>3
    <2>2. CASE disk = 0
      <3>1. /\ pc' = [pc EXCEPT ![t] = "idle"] /\ fd' = [fd EXCEPT ![t] = 0] /\ lease' = lease
            /\ flock' = [flock EXCEPT ![fd[t]] = NoProcess] /\ pc[t] = "identify"
        BY <1>9, <2>2 DEF Identify
      <3>2. n # fd[t] /\ flock'[n] = flock[n] /\ n # 0 /\ lease[t] = 0
        BY <3>1
      <3>3. PICK w \in Threads : ProcessOf[w] = flock[n] /\ (lease[w] = n \/ (InWindow(w) /\ fd[w] = n))
        BY <3>2
      <3>4. w # t
        BY <3>1, <3>2, <3>3
      <3> QED BY <3>1, <3>2, <3>3, <3>4
    <2> QED BY <2>1, <2>2
  <1>10. ASSUME NEW t \in Threads, Insert(t)
        PROVE  \E w \in Threads : ProcessOf[w] = flock'[n] /\ (lease'[w] = n \/ (InWindow(w)' /\ fd'[w] = n))
    <2>1. /\ lease' = [lease EXCEPT ![t] = fd[t]] /\ fd' = [fd EXCEPT ![t] = 0] /\ flock' = flock
          /\ pc' = [pc EXCEPT ![t] = "held"] /\ pc[t] = "insert"
      BY <1>10 DEF Insert
    <2>2. PICK w \in Threads : ProcessOf[w] = flock[n] /\ (lease[w] = n \/ (InWindow(w) /\ fd[w] = n))
      BY <2>1
    <2>3. CASE w = t
      <3>1. lease[t] = 0 /\ n # 0
        BY <2>1, SMTT(30)
      <3>2. fd[t] = n
        BY <2>2, <2>3, <3>1
      <3> QED BY <2>1, <2>2, <2>3, <3>2
    <2>4. CASE w # t
      BY <2>1, <2>2, <2>4
    <2> QED BY <2>3, <2>4
  <1>11. ASSUME NEW t \in Threads, GiveUp(t)
        PROVE  \E w \in Threads : ProcessOf[w] = flock'[n] /\ (lease'[w] = n \/ (InWindow(w)' /\ fd'[w] = n))
    BY <1>11 DEF GiveUp
  <1>12. ASSUME NEW t \in Threads, Drop(t)
        PROVE  \E w \in Threads : ProcessOf[w] = flock'[n] /\ (lease'[w] = n \/ (InWindow(w)' /\ fd'[w] = n))
    <2>1. lease' = [lease EXCEPT ![t] = 0] /\ pc[t] = "held" /\ fd' = fd
      BY <1>12 DEF Drop
    <2>2. flock' = [flock EXCEPT ![lease[t]] = NoProcess] \/ flock' = flock
      BY <1>12 DEF Drop
    <2>3. flock'[n] = flock[n]
      BY <2>2
    <2>4. PICK w \in Threads : ProcessOf[w] = flock[n] /\ (lease[w] = n \/ (InWindow(w) /\ fd[w] = n))
      BY <2>3
    <2>5. flock'[n] = flock[n] /\ pc' = [pc EXCEPT ![t] = "idle"]
      BY <1>12, <2>3 DEF Drop
    <2>6. CASE w # t
      BY <2>1, <2>4, <2>5, <2>6
    <2>7. CASE w = t
      <3>1. lease[t] = n /\ ~LastReference(t)
        BY <1>12, <2>1, <2>4, <2>7 DEF Drop
      <3>2. PICK u \in Threads \ {t} : lease[u] = lease[t]
        BY <3>1 DEF LastReference
      <3>3. ProcessOf[u] = ProcessOf[t]
        BY <2>1, <3>1, <3>2, SharersAreTwins
      <3> QED BY <2>1, <2>4, <2>5, <2>7, <3>1, <3>2, <3>3
    <2> QED BY <2>6, <2>7
  <1>13. ASSUME NEW p \in Processes, Crash(p)
        PROVE  \E w \in Threads : ProcessOf[w] = flock'[n] /\ (lease'[w] = n \/ (InWindow(w)' /\ fd'[w] = n))
    BY <1>13 DEF Crash
  <1>14. CASE Wipe
    BY <1>14 DEF Wipe
  <1>15. CASE UNCHANGED vars
    BY <1>15 DEF vars
  <1> QED
    BY <1>1, <1>2, <1>3, <1>4, <1>5, <1>6, <1>7, <1>8, <1>9, <1>10, <1>11, <1>12, <1>13, <1>14, <1>15
    DEF Next, AcquireStep

\* A lock file that stays keeps one identity everywhere.
LEMMA UntouchedStep ==
  ASSUME IInv, [Next]_vars,
         NEW x \in Threads, \A y \in Threads : UntouchedAt(y)
  PROVE  UntouchedAt(x)'
  <1> USE LeaseAssumption DEF IInv, TypeOK, Numbering, Positions, UntouchedAt, Inodes
  <1>1. ASSUME NEW t \in Threads, Acquire(t)
        PROVE  UntouchedAt(x)'
    BY <1>1 DEF Acquire
  <1>2. ASSUME NEW t \in Threads, JoinStat(t)
        PROVE  UntouchedAt(x)'
    BY <1>2 DEF JoinStat
  <1>3. ASSUME NEW t \in Threads, JoinLookup(t)
        PROVE  UntouchedAt(x)'
    <2> SUFFICES ASSUME existed, wipes = 0 PROVE UntouchedAt(x)'
      BY <1>3 DEF JoinLookup
    <2>1. registry[ProcessOf[t]] # 0 =>
            registry[ProcessOf[t]] = 1 /\ ident[1] = 1 /\ Joinable(t)
      <3> HAVE registry[ProcessOf[t]] # 0
      <3>1. PICK w \in Threads : lease[w] = registry[ProcessOf[t]]
        BY DEF RegistryIsLive
      <3>2. lease[w] = 1 /\ ident[1] = 1
        BY <3>1
      <3> QED BY <1>3, <3>1, <3>2 DEF JoinLookup, Joinable
    <2>2. registry' = registry /\ UNCHANGED <<existed, disk, created, wipes, ident>>
      BY <1>3, <2>1 DEF JoinLookup, Joinable
    <2>3. lease'[x] # 0 => ident[1] = 1 /\ registry[ProcessOf[x]] = 1
      BY <1>3, <2>1 DEF JoinLookup, Joinable
    <2>4. pc'[x] = "lookup" => onDisk'[x] = 1
      BY <1>3 DEF JoinLookup
    <2>5. pc'[x] = "insert" => ident[1] = 1
      BY <1>3 DEF JoinLookup
    <2> QED BY <2>2, <2>3, <2>4, <2>5
  <1>4. ASSUME NEW t \in Threads, Open(t)
        PROVE  UntouchedAt(x)'
    BY <1>4 DEF Open
  <1>5. ASSUME NEW t \in Threads, OpenFails(t)
        PROVE  UntouchedAt(x)'
    BY <1>5 DEF OpenFails
  <1>6. ASSUME NEW t \in Threads, Flock(t)
        PROVE  UntouchedAt(x)'
    BY <1>6 DEF Flock
  <1>7. ASSUME NEW t \in Threads, Retry(t)
        PROVE  UntouchedAt(x)'
    BY <1>7 DEF Retry
  <1>8. ASSUME NEW t \in Threads, BudgetSpent(t)
        PROVE  UntouchedAt(x)'
    BY <1>8 DEF BudgetSpent
  <1>9. ASSUME NEW t \in Threads, Identify(t)
        PROVE  UntouchedAt(x)'
    BY <1>9 DEF Identify
  <1>10. ASSUME NEW t \in Threads, Insert(t)
        PROVE  UntouchedAt(x)'
    BY <1>10 DEF Insert
  <1>11. ASSUME NEW t \in Threads, GiveUp(t)
        PROVE  UntouchedAt(x)'
    BY <1>11 DEF GiveUp
  <1>12. ASSUME NEW t \in Threads, Drop(t)
        PROVE  UntouchedAt(x)'
    BY <1>12 DEF Drop, LastReference
  <1>13. ASSUME NEW p \in Processes, Crash(p)
        PROVE  UntouchedAt(x)'
    BY <1>13 DEF Crash
  <1>14. CASE Wipe
    BY <1>14 DEF Wipe
  <1>15. CASE UNCHANGED vars
    BY <1>15 DEF vars
  <1> QED
    BY <1>1, <1>2, <1>3, <1>4, <1>5, <1>6, <1>7, <1>8, <1>9, <1>10, <1>11, <1>12, <1>13, <1>14, <1>15
    DEF Next, AcquireStep

\* The invariant is inductive.
LEMMA NextIInv == IInv /\ [Next]_vars => IInv'
  <1> SUFFICES ASSUME IInv, [Next]_vars PROVE IInv'
    OBVIOUS
  <1>1. TypeOK' /\ Numbering' /\ Positions'
    BY TypeStep, NumberingStep, PositionsStep
  <1>2. LeaseIsLocked'
    BY FencedStep DEF LeaseIsLocked
  <1>3. WindowIsExclusive'
    BY WindowLockStep, WindowStep DEF WindowIsExclusive
  <1>4. RegistryIsLive'
    BY RegistryStep DEF RegistryIsLive
  <1>5. NoOrphanFlock'
    BY NoOrphanStep DEF NoOrphanFlock
  <1>6. Untouched'
    <2>1. \A y \in Threads : UntouchedAt(y)
      BY DEF IInv, Untouched
    <2> QED BY <2>1, UntouchedStep DEF Untouched
  <1> QED BY <1>1, <1>2, <1>3, <1>4, <1>5, <1>6 DEF IInv

\* The inductive invariant holds in every reachable state.
LEMMA Invariance == Spec => []IInv
  BY InitIInv, NextIInv, PTL DEF Spec

\* Type correctness of the lease model.
THEOREM TypeCorrect == Spec => []TypeOK
  <1>1. IInv => TypeOK BY DEF IInv
  <1> QED BY <1>1, Invariance, PTL

\* While the lock file is left alone at most one process drives the session,
\* through one entry: with no removal there is one inode, and one flock on it.
THEOREM OneDriverHolds == Spec => []OneDriver
  <1>1. IInv => OneDriver
    <2> SUFFICES ASSUME IInv, wipes = 0,
                        NEW t \in Threads, NEW u \in Threads,
                        lease[t] # 0, lease[u] # 0
                 PROVE  lease[t] = lease[u] /\ ProcessOf[t] = ProcessOf[u]
      BY DEF OneDriver
    <2>1. lease[t] = 1 /\ lease[u] = 1
      BY DEF IInv, TypeOK, Numbering
    <2>2. ProcessOf[u] = ProcessOf[t]
      BY <2>1, SharersAreTwins
    <2> QED BY <2>1, <2>2
  <1> QED BY <1>1, Invariance, PTL

\* A lease in hand is a flock of its process, also after removals and crashes,
\* and it is on the inode behind the path as long as nothing was removed.
THEOREM LeaseIsFencedHolds == Spec => []LeaseIsFenced
  <1>1. IInv => LeaseIsFenced
    <2> SUFFICES ASSUME IInv, NEW t \in Threads, lease[t] # 0
                 PROVE  flock[lease[t]] = ProcessOf[t] /\ (wipes = 0 => lease[t] = disk)
      BY DEF LeaseIsFenced
    <2>1. flock[lease[t]] = ProcessOf[t]
      BY DEF IInv, LeaseIsLocked
    <2>2. ASSUME wipes = 0 PROVE lease[t] = disk
      BY <2>2 DEF IInv, TypeOK, Numbering
    <2> QED BY <2>1, <2>2
  <1> QED BY <1>1, Invariance, PTL

\* No flock outlives its holders.
THEOREM NoOrphanFlockHolds == Spec => []NoOrphanFlock
  <1>1. IInv => NoOrphanFlock BY DEF IInv
  <1> QED BY <1>1, Invariance, PTL

\* On a lock file that was there and stays, HeldElsewhere means that the own
\* process has no lease:
\* a live lease of the own process is in the registry under the identity that
\* join_live reads, so a look that finds nothing to join finds no such lease.
THEOREM RefusesOnlyStrangersHolds == Spec => RefusesOnlyStrangers
  <1>1. IInv /\ [Next]_vars =>
          [existed /\ wipes = 0 => \A t \in Threads : ~RefusedByOwn(t)]_vars
    <2> SUFFICES ASSUME IInv, Next, existed, wipes = 0,
                        NEW t \in Threads, RefusedByOwn(t)
                 PROVE  FALSE
      BY DEF vars
    <2> USE DEF IInv, TypeOK
    <2>1. PICK u \in Threads : ProcessOf[u] = ProcessOf[t] /\ lease[u] # 0
      BY DEF RefusedByOwn
    <2>2. JoinLookup(t) /\ ~Joinable(t)
      <3>1. pc[t] # "refused" /\ pc'[t] = "refused"
        BY DEF RefusedByOwn
      <3>2. ASSUME NEW v \in Threads, JoinLookup(v)
            PROVE  JoinLookup(t) /\ ~Joinable(t)
        <4>1. v = t
          BY <3>1, <3>2 DEF JoinLookup
        <4> QED BY <3>1, <3>2, <4>1 DEF JoinLookup
      <3>3. ASSUME NEW v \in Threads,
                   \/ Acquire(v) \/ JoinStat(v) \/ Open(v) \/ OpenFails(v) \/ Flock(v)
                   \/ Retry(v) \/ BudgetSpent(v) \/ Insert(v) \/ GiveUp(v) \/ Drop(v)
            PROVE  FALSE
        BY <3>1, <3>3 DEF Acquire, JoinStat, Open, OpenFails, Flock, Retry,
             BudgetSpent, Insert, GiveUp, Drop
      <3>4. ASSUME NEW v \in Threads, Identify(v) PROVE FALSE
        BY <3>1, <3>4 DEF Identify
      <3>5. ASSUME NEW p \in Processes, Crash(p) PROVE FALSE
        BY <3>1, <3>5 DEF Crash
      <3>6. ~Wipe
        BY <3>1 DEF Wipe
      <3> QED BY <3>2, <3>3, <3>4, <3>5, <3>6 DEF Next, AcquireStep
    <2>3. registry[ProcessOf[t]] = 1 /\ ident[1] = 1 /\ onDisk[t] = 1
      BY <2>1, <2>2 DEF Untouched, UntouchedAt, JoinLookup
    <2> QED BY <2>2, <2>3 DEF Joinable
  <1> QED BY <1>1, Invariance, PTL DEF Spec, RefusesOnlyStrangers
=============================================================================
