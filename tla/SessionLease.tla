---------------------------- MODULE SessionLease ----------------------------
(***************************************************************************)
(* The write lease of one session (manox-agent/src/session_lease.rs over   *)
(* manox-harness/src/core/fs_lock.rs).                                     *)
(*                                                                         *)
(* Several processes share a state root; each runs threads that acquire    *)
(* the lease of the same session.  A lease is an exclusive flock on the    *)
(* inode of the lock file, shared inside a process through a registry of   *)
(* weak references.  acquire() is five interleavable steps: stat the lock  *)
(* file, consult the registry, open and flock with retries, stat again for *)
(* the identity, insert.  A process may crash at any point (the kernel     *)
(* drops its flocks) and a user may wipe the sessions directory under a    *)
(* live lease, which gives the next opener a fresh inode.                  *)
(*                                                                         *)
(* An inode carries at most one flock, so an inode names the entry         *)
(* (LeaseEntry) whose flock it carries; 0 is no inode.  A weak reference   *)
(* whose last strong one is gone reads as an absent entry, so the registry *)
(* is cleared by the drop that kills the entry.                            *)
(***************************************************************************)
EXTENDS Naturals

CONSTANTS
  Threads,     \* threads that may acquire the lease
  Processes,   \* the manox processes on this state root
  ProcessOf,   \* the process of each thread
  NoProcess,   \* nobody holds the flock
  MaxWipes     \* bound: how often a user removes the lock file

ASSUME LeaseAssumption ==
  /\ ProcessOf \in [Threads -> Processes]
  /\ NoProcess \notin Processes
  /\ MaxWipes \in Nat

VARIABLES
  existed,     \* the lock file was left by an earlier run
  disk,        \* the inode behind the lock path, 0 when there is none
  created,     \* inodes created so far: a new lock file takes the next one
  wipes,       \* removals so far
  flock,       \* the process whose descriptor holds the flock of an inode
  ident,       \* lock_file_id of the entry that holds an inode's flock
  registry,    \* LEASES: the live entry of each process, 0 when none
  pc,          \* where each thread is in acquire()
  recheck,     \* the thread is in the second join_live, after its budget
  onDisk,      \* the identity join_live read before taking the registry lock
  fd,          \* the inode the thread opened
  lease        \* the entry the thread holds a strong reference to

vars == <<existed, disk, created, wipes, flock, ident, registry, pc, recheck,
          onDisk, fd, lease>>

Inodes == 1 .. (MaxWipes + 1)
PCs == {"idle", "stat", "lookup", "open", "flock", "identify", "insert",
        "held", "refused"}

Init ==
  /\ existed \in BOOLEAN
  /\ created = IF existed THEN 1 ELSE 0
  /\ disk = created
  /\ wipes = 0
  /\ flock = [n \in Inodes |-> NoProcess]
  /\ ident = [n \in Inodes |-> 0]
  /\ registry = [p \in Processes |-> 0]
  /\ pc = [t \in Threads |-> "idle"]
  /\ recheck = [t \in Threads |-> FALSE]
  /\ onDisk = [t \in Threads |-> 0]
  /\ fd = [t \in Threads |-> 0]
  /\ lease = [t \in Threads |-> 0]

Goto(t, label) == pc' = [pc EXCEPT ![t] = label]

-----------------------------------------------------------------------------
(* acquire: join_live, then the flock with its budget, then the insert.    *)

\* A caller asks for the lease; acquire starts with its first join_live.
Acquire(t) ==
  /\ pc[t] = "idle"
  /\ Goto(t, "stat")
  /\ recheck' = [recheck EXCEPT ![t] = FALSE]
  /\ UNCHANGED <<existed, disk, created, wipes, flock, ident, registry, onDisk, fd, lease>>

\* join_live reads the identity behind the path before it locks the registry.
JoinStat(t) ==
  /\ pc[t] = "stat"
  /\ onDisk' = [onDisk EXCEPT ![t] = disk]
  /\ Goto(t, "lookup")
  /\ UNCHANGED <<existed, disk, created, wipes, flock, ident, registry, recheck, fd, lease>>

\* The entry in the registry is live and its recorded identity is the one read.
Joinable(t) ==
  LET e == registry[ProcessOf[t]] IN
  e # 0 /\ ident[e] = onDisk[t]

\* The registry half of join_live: join, or retire a stale entry and go on.
JoinLookup(t) ==
  /\ pc[t] = "lookup"
  /\ IF Joinable(t)
     THEN /\ lease' = [lease EXCEPT ![t] = registry[ProcessOf[t]]]
          /\ Goto(t, "held")
          /\ UNCHANGED <<registry, onDisk>>
     ELSE /\ registry' = [registry EXCEPT ![ProcessOf[t]] = 0]
          /\ Goto(t, IF recheck[t] THEN "refused" ELSE "open")
          /\ onDisk' = [onDisk EXCEPT ![t] = 0]
          /\ UNCHANGED lease
  /\ UNCHANGED <<existed, disk, created, wipes, flock, ident, recheck, fd>>

\* try_once opens the lock file, creating it when the path is empty.
Open(t) ==
  /\ pc[t] = "open"
  /\ IF disk = 0
     THEN /\ disk' = created + 1
          /\ created' = created + 1
     ELSE UNCHANGED <<disk, created>>
  /\ fd' = [fd EXCEPT ![t] = disk']
  /\ Goto(t, "flock")
  /\ UNCHANGED <<existed, wipes, flock, ident, registry, recheck, onDisk, lease>>

\* create_dir_all or the open fails: LeaseError::Io.
OpenFails(t) ==
  /\ pc[t] = "open"
  /\ Goto(t, "idle")
  /\ UNCHANGED <<existed, disk, created, wipes, flock, ident, registry, recheck, onDisk, fd, lease>>

\* LOCK_EX | LOCK_NB on the opened inode succeeds.
Flock(t) ==
  /\ pc[t] = "flock"
  /\ flock[fd[t]] = NoProcess
  /\ flock' = [flock EXCEPT ![fd[t]] = ProcessOf[t]]
  /\ Goto(t, "identify")
  /\ UNCHANGED <<existed, disk, created, wipes, ident, registry, recheck, onDisk, fd, lease>>

\* The flock is contended and the budget is not spent: sleep, then open again.
Retry(t) ==
  /\ pc[t] = "flock"
  /\ flock[fd[t]] # NoProcess
  /\ fd' = [fd EXCEPT ![t] = 0]
  /\ Goto(t, "open")
  /\ UNCHANGED <<existed, disk, created, wipes, flock, ident, registry, recheck, onDisk, lease>>

\* Mutant of BudgetSpent: WouldBlock is taken for a foreign holder at once.
BudgetSpentMutant(t) ==
  /\ pc[t] = "flock"
  /\ flock[fd[t]] # NoProcess
  /\ fd' = [fd EXCEPT ![t] = 0]
  /\ Goto(t, "refused")
  /\ UNCHANGED <<existed, disk, created, wipes, flock, ident, registry, recheck, onDisk, lease>>

\* Mutant of BudgetSpent: the re-check starts the whole acquire over.
BudgetRestartsMutant(t) ==
  /\ pc[t] = "flock"
  /\ flock[fd[t]] # NoProcess
  /\ fd' = [fd EXCEPT ![t] = 0]
  /\ Goto(t, "stat")
  /\ UNCHANGED <<existed, disk, created, wipes, flock, ident, registry, recheck, onDisk, lease>>

\* The flock is contended and the budget is spent: WouldBlock, re-check once.
BudgetSpent(t) ==
  /\ pc[t] = "flock"
  /\ flock[fd[t]] # NoProcess
  /\ fd' = [fd EXCEPT ![t] = 0]
  /\ recheck' = [recheck EXCEPT ![t] = TRUE]
  /\ Goto(t, "stat")
  /\ UNCHANGED <<existed, disk, created, wipes, flock, ident, registry, onDisk, lease>>

\* The identity is read by path, after the flock.  An empty path there is the
\* expect() that panics: the guard unwinds and the descriptor closes.
Identify(t) ==
  /\ pc[t] = "identify"
  /\ IF disk # 0
     THEN /\ ident' = [ident EXCEPT ![fd[t]] = disk]
          /\ Goto(t, "insert")
          /\ UNCHANGED <<flock, fd>>
     ELSE /\ flock' = [flock EXCEPT ![fd[t]] = NoProcess]
          /\ fd' = [fd EXCEPT ![t] = 0]
          /\ Goto(t, "idle")
          /\ UNCHANGED ident
  /\ UNCHANGED <<existed, disk, created, wipes, registry, recheck, onDisk, lease>>

\* The fresh entry replaces whatever the registry held for this session.
Insert(t) ==
  /\ pc[t] = "insert"
  /\ registry' = [registry EXCEPT ![ProcessOf[t]] = fd[t]]
  /\ lease' = [lease EXCEPT ![t] = fd[t]]
  /\ fd' = [fd EXCEPT ![t] = 0]
  /\ Goto(t, "held")
  /\ UNCHANGED <<existed, disk, created, wipes, flock, ident, recheck, onDisk>>

\* A refused caller surfaces session/already-owned and may ask again later.
GiveUp(t) ==
  /\ pc[t] = "refused"
  /\ Goto(t, "idle")
  /\ UNCHANGED <<existed, disk, created, wipes, flock, ident, registry, recheck, onDisk, fd, lease>>

-----------------------------------------------------------------------------
(* Holders and the environment.                                            *)

\* Mutant of LastReference: any drop closes the descriptor.
LastReferenceMutant(t) == lease[t] # 0

\* t holds the only strong reference to its entry.
LastReference(t) == \A u \in Threads \ {t} : lease[u] # lease[t]

\* Mutant of Drop: the registry keeps the entry after its last reference.
DropKeepsEntryMutant(t) ==
  /\ pc[t] = "held"
  /\ flock' = IF LastReference(t) THEN [flock EXCEPT ![lease[t]] = NoProcess] ELSE flock
  /\ lease' = [lease EXCEPT ![t] = 0]
  /\ onDisk' = [onDisk EXCEPT ![t] = 0]
  /\ Goto(t, "idle")
  /\ UNCHANGED <<existed, disk, created, wipes, ident, registry, recheck, fd>>

\* Mutant of Drop: only the entry the registry knows is closed.
DropKnownMutant(t) ==
  /\ pc[t] = "held"
  /\ IF LastReference(t) /\ registry[ProcessOf[t]] = lease[t]
     THEN /\ flock' = [flock EXCEPT ![lease[t]] = NoProcess]
          /\ registry' = [registry EXCEPT ![ProcessOf[t]] = 0]
     ELSE UNCHANGED <<flock, registry>>
  /\ lease' = [lease EXCEPT ![t] = 0]
  /\ onDisk' = [onDisk EXCEPT ![t] = 0]
  /\ Goto(t, "idle")
  /\ UNCHANGED <<existed, disk, created, wipes, ident, recheck, fd>>

\* A holder drops its reference; the last one closes the descriptor, which
\* releases the flock and kills the weak reference.
Drop(t) ==
  /\ pc[t] = "held"
  /\ IF LastReference(t)
     THEN /\ flock' = [flock EXCEPT ![lease[t]] = NoProcess]
          /\ registry' = IF registry[ProcessOf[t]] = lease[t]
                         THEN [registry EXCEPT ![ProcessOf[t]] = 0]
                         ELSE registry
     ELSE UNCHANGED <<flock, registry>>
  /\ lease' = [lease EXCEPT ![t] = 0]
  /\ onDisk' = [onDisk EXCEPT ![t] = 0]
  /\ Goto(t, "idle")
  /\ UNCHANGED <<existed, disk, created, wipes, ident, recheck, fd>>

\* A process dies and starts again: the kernel closes its descriptors.
Crash(p) ==
  LET mine == {t \in Threads : ProcessOf[t] = p}
      zeroed(f) == [t \in Threads |-> IF t \in mine THEN 0 ELSE f[t]]
  IN /\ pc' = [t \in Threads |-> IF t \in mine THEN "idle" ELSE pc[t]]
     /\ recheck' = [t \in Threads |-> t \notin mine /\ recheck[t]]
     /\ onDisk' = zeroed(onDisk)
     /\ fd' = zeroed(fd)
     /\ lease' = zeroed(lease)
     /\ flock' = [n \in Inodes |-> IF flock[n] = p THEN NoProcess ELSE flock[n]]
     /\ registry' = [registry EXCEPT ![p] = 0]
     /\ UNCHANGED <<existed, disk, created, wipes, ident>>

\* A user removes the sessions directory; flocks stay on the unlinked inode.
Wipe ==
  /\ disk # 0
  /\ wipes < MaxWipes
  /\ disk' = 0
  /\ wipes' = wipes + 1
  /\ UNCHANGED <<existed, created, flock, ident, registry, pc, recheck, onDisk, fd, lease>>

AcquireStep(t) ==
  \/ JoinStat(t) \/ JoinLookup(t) \/ Open(t) \/ OpenFails(t) \/ Flock(t)
  \/ Retry(t) \/ BudgetSpent(t) \/ Identify(t) \/ Insert(t)

Next ==
  \/ \E t \in Threads : Acquire(t) \/ AcquireStep(t) \/ GiveUp(t) \/ Drop(t)
  \/ \E p \in Processes : Crash(p)
  \/ Wipe

\* A thread inside acquire keeps running, and its budget is a clock: retrying
\* again and again it is spent in the end.
Fairness ==
  \A t \in Threads : WF_vars(AcquireStep(t)) /\ SF_vars(BudgetSpent(t))

Spec == Init /\ [][Next]_vars /\ Fairness

-----------------------------------------------------------------------------
(* Properties.                                                             *)

TypeOK ==
  /\ existed \in BOOLEAN
  /\ disk \in 0 .. (MaxWipes + 1)
  /\ created \in 0 .. (MaxWipes + 1)
  /\ wipes \in 0 .. MaxWipes
  /\ flock \in [Inodes -> Processes \cup {NoProcess}]
  /\ ident \in [Inodes -> 0 .. (MaxWipes + 1)]
  /\ registry \in [Processes -> 0 .. (MaxWipes + 1)]
  /\ pc \in [Threads -> PCs]
  /\ recheck \in [Threads -> BOOLEAN]
  /\ onDisk \in [Threads -> 0 .. (MaxWipes + 1)]
  /\ fd \in [Threads -> 0 .. (MaxWipes + 1)]
  /\ lease \in [Threads -> 0 .. (MaxWipes + 1)]

\* t has locked an inode and not yet handed the entry to the registry.
InWindow(t) == pc[t] \in {"identify", "insert"}

\* "Nobody may drive a session another process is driving": while the lock
\* file is left alone, every lease is a reference to one entry of one process,
\* whatever crashes, drops and twin acquires do in between.
OneDriver ==
  wipes = 0 =>
    \A t, u \in Threads :
      lease[t] # 0 /\ lease[u] # 0 =>
        lease[t] = lease[u] /\ ProcessOf[t] = ProcessOf[u]

\* A lease in hand is a flock, also for a reference that joined and outlived
\* the one that locked: the process holds it on the inode its entry was taken
\* on, and while nobody removes the lock file that is the inode behind the
\* path, the one every other process contends for.  After a removal it may be
\* an unlinked one, that fences nobody (JoinsAreFenced is about handing it out).
LeaseIsFenced ==
  \A t \in Threads : lease[t] # 0 =>
    /\ flock[lease[t]] = ProcessOf[t]
    /\ wipes = 0 => lease[t] = disk

\* "It must not outlive the actor, or a closed session would stay locked":
\* a flock belongs to a thread that holds the entry or is about to.
NoOrphanFlock ==
  \A n \in Inodes : flock[n] # NoProcess =>
    \E t \in Threads :
      /\ ProcessOf[t] = flock[n]
      /\ lease[t] = n \/ (InWindow(t) /\ fd[t] = n)

\* t is answered HeldElsewhere while a thread of its own process holds the
\* lease on the lock file.
RefusedByOwn(t) ==
  /\ pc[t] # "refused"
  /\ pc'[t] = "refused"
  /\ \E u \in Threads : ProcessOf[u] = ProcessOf[t] /\ lease[u] # 0

\* On a lock file that is there and stays there, a live lease of the own
\* process is always joined, by the first look or by the re-check after the
\* budget: HeldElsewhere means that no thread of the process has the lease,
\* so the flock is a stranger's or that of a twin still short of its insert.
RefusesOnlyStrangers ==
  [][existed /\ wipes = 0 => \A t \in Threads : ~RefusedByOwn(t)]_vars

\* "A second acquire of a live lease returns the same entry": the same on a
\* session nobody has driven yet, whose lock file the first acquire creates.
TwinsJoin ==
  [][wipes = 0 => \A t \in Threads : ~RefusedByOwn(t)]_vars

\* "A join must detect that instead of silently handing out a no-op lease": a
\* join hands out the flock of the inode it found behind the path.
JoinsAreFenced ==
  [][\A t \in Threads :
       pc[t] = "lookup" /\ pc'[t] = "held" => lease'[t] = onDisk[t]]_vars

\* acquire is fail-fast: every call ends, with a lease, a refusal or an error.
AcquireReturns ==
  \A t \in Threads : pc[t] = "stat" ~> pc[t] \in {"held", "refused", "idle"}
=============================================================================
