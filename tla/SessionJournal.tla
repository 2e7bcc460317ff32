--------------------------- MODULE SessionJournal ---------------------------
(***************************************************************************)
(* The JSONL storage of one session                                        *)
(* (manox-harness/src/core/session/jsonl.rs).                              *)
(*                                                                         *)
(* Several storage instances (the live session, a cold append, another     *)
(* process) are open over one file.  Each keeps the rows in memory with    *)
(* the file size it last saw, and appends under a fence: an exclusive      *)
(* flock on the inode it opened by path, checked against the path after    *)
(* the lock.  A file that moved is reloaded first and the row re-parented  *)
(* on the current leaf.  Materialization of a deferred session, the v3     *)
(* migration, the heal of an inverted file and the restoration of a        *)
(* removed one write a whole new file and rename it over the path: a new   *)
(* inode.  An instance may crash anywhere, in the middle of a write too.   *)
(*                                                                         *)
(* A row is its id, its parent, its stamped depth (seq) and the cursor it  *)
(* leaves: its own id, or the target of a `leaf' row.  Sizes are counted   *)
(* in units: a header is 1, a v3 line 2, a v4 line (which adds seq) 3.     *)
(***************************************************************************)
EXTENDS Naturals, Sequences, FiniteSets

CONSTANTS
  Instances,   \* storage instances over the file
  Creator,     \* the one that creates the session when it is new
  IdsOf,       \* ids an instance may append under, caller-minted ones included
  LeafIds,     \* those of them that set_leaf_id uses for its leaf rows
  Origins,     \* how the session starts: see FilesAtStart
  Attempts,    \* 16 in the code: opens of a fence before it gives up
  MaxInodes,   \* bound: files created by rewrites, the first included
  MaxFaults    \* bound: crashes, torn writes and removals of the file

NewIds == UNION {IdsOf[i] : i \in Instances}
NoRow == 0
None == 0      \* no inode, no file behind the path

ASSUME JournalAssumption ==
  /\ Creator \in Instances
  /\ IdsOf \in [Instances -> SUBSET (Nat \ {NoRow})]
  /\ LeafIds \subseteq NewIds
  /\ Origins \subseteq {"deferred", "created", "v3", "v4", "inverted"}
  /\ Attempts \in Nat \ {0} /\ MaxInodes \in Nat \ {0}
  /\ MaxFaults \in Nat

VARIABLES
  path,        \* the inode behind the session path
  files,       \* the content of every inode created so far
  holder,      \* the instance whose fence holds an inode's exclusive flock
  pc,          \* where each instance is
  view,        \* its entries, file_version, needs_rewrite, disk_size, deferred
  row,         \* the row it is appending
  durable,     \* is_assistant || force_materialize for that row
  fd,          \* the inode it opened to read or to fence
  tries,       \* failed attempts of the fence
  acked,       \* ids whose append returned Ok and that reached a file
  crashes,     \* instances that died
  tears,       \* appends that put only part of their line on disk
  removals     \* removals of the file by a user

vars == <<path, files, holder, pc, view, row, durable, fd, tries, acked,
          crashes, tears, removals>>
disk == <<path, files, holder>>
faults == <<crashes, tears, removals>>
append == <<row, durable, tries>>

Header == 1
LineSize(version) == IF version = 4 THEN 3 ELSE 2
Ids(rows) == {rows[k].id : k \in DOMAIN rows}

\* The cursor after the last row: a leaf row redirects it to its target.
Leaf(rows) == IF rows = <<>> THEN NoRow ELSE rows[Len(rows)].target

-----------------------------------------------------------------------------
(* parse_file: what a reader makes of a file's bytes.                      *)

\* A file ends in a newline, in a piece of a line that does not parse, or
\* in a line that is whole but for its newline.
Tails == {"newline", "torn", "bare"}

Position(rows, id) == CHOOSE k \in DOMAIN rows : rows[k].id = id

\* The chain depth of every line, by the parent walk.
Depths(rows) ==
  LET depth[k \in DOMAIN rows] ==
        IF rows[k].parent = NoRow THEN 0
        ELSE depth[Position(rows, rows[k].parent)] + 1
  IN depth

ParentsKnown(rows) ==
  \A k \in DOMAIN rows : rows[k].parent \in Ids(rows) \union {NoRow}

\* No lines that are each other's ancestors: the walk ends at a root.
Acyclic(rows) ==
  \A ring \in (SUBSET DOMAIN rows) \ {{}} :
    \E k \in ring :
      \/ rows[k].parent = NoRow
      \/ Position(rows, rows[k].parent) \notin ring

\* A line whose parent sits later in the file: needs_rewrite.
Inverted(rows) ==
  \E k \in DOMAIN rows :
    /\ rows[k].parent # NoRow
    /\ Position(rows, rows[k].parent) > k

\* A corrupt terminated line, a duplicate id, an unknown parent, a cycle or
\* a seq that is not the depth condemns the whole file.
Parses(file) ==
  /\ ~file.corrupt
  /\ Cardinality(Ids(file.lines)) = Len(file.lines)
  /\ ParentsKnown(file.lines)
  /\ Acyclic(file.lines)
  /\ file.version = 4 =>
       \A k \in DOMAIN file.lines : file.lines[k].seq = Depths(file.lines)[k]

\* The entries of a file: depths filled in, and an inverted file ordered by
\* depth, then by position.
Entries(file) ==
  LET lines == file.lines
      depth == Depths(lines)
      Before(j, k) == depth[j] < depth[k] \/ (depth[j] = depth[k] /\ j < k)
      Rank(k) == Cardinality({j \in DOMAIN lines : Before(j, k)}) + 1
      line(n) == IF Inverted(lines)
                 THEN CHOOSE k \in DOMAIN lines : Rank(k) = n
                 ELSE n
  IN [n \in DOMAIN lines |-> [lines[line(n)] EXCEPT !.seq = depth[line(n)]]]

\* The view load and reload_under_fence build from a file.  A torn tail is
\* dropped, and counted in disk_size.
ViewOf(file) ==
  [entries |-> Entries(file), version |-> file.version, deferred |-> FALSE,
   needsRewrite |-> Inverted(file.lines), size |-> file.size]

-----------------------------------------------------------------------------
(* The session as the first instance finds or creates it.                  *)

Root(seq) == [id |-> 1, parent |-> NoRow, seq |-> seq, target |-> 1]
Child(seq) == [id |-> 2, parent |-> 1, seq |-> seq, target |-> 2]
NoView == [entries |-> <<>>, version |-> 4, deferred |-> FALSE,
           needsRewrite |-> FALSE, size |-> 0]
NewRow == [id |-> NoRow, parent |-> NoRow, seq |-> 0, target |-> NoRow]

File(version, lines) ==
  [version |-> version, lines |-> lines, tail |-> "newline",
   corrupt |-> FALSE, size |-> Header + LineSize(version) * Len(lines)]

\* create_deferred writes nothing; create writes the header; the others are
\* files of earlier runs, the inverted one left by a race before the fence.
FilesAtStart(origin) ==
  CASE origin = "deferred" -> <<>>
    [] origin = "created"  -> <<File(4, <<>>)>>
    [] origin = "v3"       -> <<File(3, <<Root(0), Child(0)>>)>>
    [] origin = "v4"       -> <<File(4, <<Root(0), Child(1)>>)>>
    [] origin = "inverted" -> <<File(4, <<Child(1), Root(0)>>)>>

Init ==
  /\ \E origin \in Origins :
       LET new == origin \in {"deferred", "created"} IN
       /\ files = FilesAtStart(origin)
       /\ pc = [i \in Instances |->
                  IF new /\ i = Creator THEN "idle" ELSE "absent"]
       /\ view = [i \in Instances |->
                    IF i # Creator \/ ~new THEN NoView
                    ELSE IF origin = "created" THEN ViewOf(files[1])
                    ELSE [NoView EXCEPT !.deferred = TRUE]]
       /\ acked = IF new THEN {} ELSE {1, 2}
  /\ path = Len(files)
  /\ holder = [n \in 1 .. MaxInodes |-> {}]
  /\ row = [i \in Instances |-> NewRow]
  /\ durable = [i \in Instances |-> FALSE]
  /\ fd = [i \in Instances |-> None]
  /\ tries = [i \in Instances |-> 0]
  /\ crashes = 0 /\ tears = 0 /\ removals = 0

Goto(i, label) == pc' = [pc EXCEPT ![i] = label]

\* The fence's file handle is dropped: its flock goes with it.
Release(i) ==
  /\ holder' = [n \in DOMAIN holder |-> holder[n] \ {i}]
  /\ fd' = [fd EXCEPT ![i] = None]

\* The append returns, Ok or not, and the fence is dropped.
Clear(i) ==
  /\ row' = [row EXCEPT ![i] = NewRow]
  /\ durable' = [durable EXCEPT ![i] = FALSE]
  /\ tries' = [tries EXCEPT ![i] = 0]
Return(i) == Goto(i, "idle") /\ Release(i) /\ Clear(i)

-----------------------------------------------------------------------------
(* load: open by path, read under a shared flock, parse.                   *)

Open(i) ==
  /\ pc[i] = "absent"
  /\ path # None
  /\ Goto(i, "reading")
  /\ fd' = [fd EXCEPT ![i] = path]
  /\ UNCHANGED <<disk, view, append, acked, faults>>

Read(i) ==
  /\ pc[i] = "reading"
  /\ holder[fd[i]] = {}
  /\ IF Parses(files[fd[i]])
     THEN Goto(i, "idle") /\ view' = [view EXCEPT ![i] = ViewOf(files[fd[i]])]
     ELSE Goto(i, "unreadable") /\ UNCHANGED view
  /\ fd' = [fd EXCEPT ![i] = None]
  /\ UNCHANGED <<disk, append, acked, faults>>

-----------------------------------------------------------------------------
(* append_entry_locked.                                                    *)

\* The cursor names a row of the instance, or none.
CursorKnown(rows) == Leaf(rows) \in Ids(rows) \union {NoRow}

\* Session::append_* parents the row on the instance's leaf, which
\* get_leaf_id only hands out when it is known; set_leaf_id appends a row
\* that moves the cursor, on whatever cursor there is.  An id already in
\* memory is refused before anything else happens.
AppendEntry(i) ==
  /\ pc[i] = "idle"
  /\ \E id \in {n \in IdsOf[i] \ Ids(view[i].entries) :
                  n \in LeafIds \/ CursorKnown(view[i].entries)},
        force \in IF view[i].deferred THEN BOOLEAN ELSE {FALSE} :
     \E target \in IF id \in LeafIds
                   THEN Ids(view[i].entries) \union {NoRow} ELSE {id} :
       /\ row' = [row EXCEPT ![i] =
                    [id |-> id, parent |-> Leaf(view[i].entries), seq |-> 0,
                     target |-> target]]
       /\ durable' = [durable EXCEPT ![i] = force]
  /\ Goto(i, "fence")
  /\ UNCHANGED <<disk, view, tries, fd, acked, faults>>

\* WriteFence::acquire: with no file there is nothing to fence.
LookForFile(i) ==
  /\ pc[i] = "fence"
  /\ Goto(i, IF path = None THEN "write" ELSE "opening")
  /\ UNCHANGED <<disk, view, append, fd, acked, faults>>

\* The file is opened, never created: one that is gone by now is an error.
OpenFence(i) ==
  /\ pc[i] = "opening"
  /\ IF path = None
     THEN Return(i)
     ELSE /\ Goto(i, "locking")
          /\ fd' = [fd EXCEPT ![i] = path]
          /\ UNCHANGED <<holder, append>>
  /\ UNCHANGED <<path, files, view, acked, faults>>

\* Mutant: the fence trusts the inode it locked.
LockFenceUncheckedMutant(i) ==
  /\ pc[i] = "locking"
  /\ holder[fd[i]] = {}
  /\ holder' = [holder EXCEPT ![fd[i]] = {i}]
  /\ Goto(i, "fenced")
  /\ UNCHANGED <<path, files, view, append, fd, acked, faults>>

\* The blocking flock, then the check that the path still leads to the
\* locked inode: a path without a file is an error, another inode a retry.
LockFence(i) ==
  /\ pc[i] = "locking"
  /\ holder[fd[i]] = {}
  /\ \/ /\ path = fd[i]
        /\ holder' = [holder EXCEPT ![fd[i]] = {i}]
        /\ Goto(i, "fenced")
        /\ UNCHANGED <<fd, append>>
     \/ /\ path # fd[i]
        /\ path = None \/ tries[i] + 1 >= Attempts
        /\ Return(i)
     \/ /\ path \notin {fd[i], None}
        /\ tries[i] + 1 < Attempts
        /\ tries' = [tries EXCEPT ![i] = @ + 1]
        /\ fd' = [fd EXCEPT ![i] = None]
        /\ Goto(i, "fence")
        /\ UNCHANGED <<holder, row, durable>>
  /\ UNCHANGED <<path, files, view, acked, faults>>

\* Mutant: the append goes on with the view it has.
RefreshStaleMutant(i) ==
  /\ pc[i] = "fenced"
  /\ Goto(i, "write")
  /\ UNCHANGED <<disk, view, append, fd, acked, faults>>

\* Mutant: the refusal of an id that is already there keeps the fence.
RefreshKeepsFenceMutant(i) ==
  LET file == files[fd[i]] IN
  /\ pc[i] = "fenced"
  /\ IF file.size # view[i].size /\ Parses(file)
     THEN /\ view' = [view EXCEPT ![i] = ViewOf(file)]
          /\ Goto(i, IF row[i].id \in Ids(file.lines) THEN "idle" ELSE "write")
          /\ row' = [row EXCEPT ![i].parent = Leaf(Entries(file))]
     ELSE Goto(i, "write") /\ UNCHANGED <<view, row>>
  /\ UNCHANGED <<disk, durable, tries, fd, acked, faults>>

\* The stale-view guard: a file of another size is reloaded, and a row on
\* what was the leaf moves onto the current one.  A file that does not
\* parse, or that already holds the id, fails the append.
Refresh(i) ==
  LET file == files[fd[i]] IN
  /\ pc[i] = "fenced"
  /\ IF file.size = view[i].size
     THEN Goto(i, "write") /\ UNCHANGED <<holder, view, append, fd>>
     ELSE IF ~Parses(file)
     THEN Return(i) /\ UNCHANGED view
     ELSE /\ view' = [view EXCEPT ![i] = [ViewOf(file) EXCEPT
                                         !.deferred = view[i].deferred]]
          /\ IF row[i].id \in Ids(file.lines)
             THEN Return(i)
             ELSE /\ row' = [row EXCEPT ![i].parent = Leaf(Entries(file))]
                  /\ Goto(i, "write")
                  /\ UNCHANGED <<holder, fd, durable, tries>>
  /\ UNCHANGED <<path, files, acked, faults>>

\* The parent is not among the rows: the leaf row that came last was
\* re-parented over a reload and its target is not in the reloaded file.
ParentKnown(i) == row[i].parent \in Ids(view[i].entries) \union {NoRow}
Refuse(i) ==
  /\ pc[i] = "write"
  /\ ~ParentKnown(i)
  /\ Return(i)
  /\ UNCHANGED <<path, files, view, acked, faults>>

\* The row with its seq: one more than its parent's depth.
Stamped(i) ==
  LET entries == view[i].entries
      parent == row[i].parent
  IN [row[i] EXCEPT !.seq = IF parent = NoRow THEN 0
                            ELSE entries[Position(entries, parent)].seq + 1]

Buffers(i) == ParentKnown(i) /\ view[i].deferred /\ ~durable[i]
\* Mutant: the version of the file is not looked at.
RewritesMutant(i) ==
  /\ ParentKnown(i)
  /\ \/ view[i].deferred /\ durable[i]
     \/ ~view[i].deferred /\ (view[i].needsRewrite \/ fd[i] = None)
Rewrites(i) ==
  /\ ParentKnown(i)
  /\ \/ view[i].deferred /\ durable[i]
     \/ /\ ~view[i].deferred
        /\ view[i].version < 4 \/ view[i].needsRewrite \/ fd[i] = None
Writes(i) == ParentKnown(i) /\ ~Buffers(i) /\ ~Rewrites(i)

\* A deferred session keeps the row in memory.
Buffer(i) ==
  /\ pc[i] = "write"
  /\ Buffers(i)
  /\ view' = [view EXCEPT ![i].entries = Append(@, Stamped(i))]
  /\ Return(i)
  /\ UNCHANGED <<path, files, acked, faults>>

\* Mutant: a removed file is started anew with the row alone.
RewrittenMutant(i) ==
  IF fd[i] = None /\ ~view[i].deferred THEN File(4, <<Stamped(i)>>)
  ELSE File(4, Append(view[i].entries, Stamped(i)))

\* rewrite_file_v4_locked: header, every entry and the row, into a file of
\* its own that is renamed over the path.
Rewritten(i) == File(4, Append(view[i].entries, Stamped(i)))
Rewrite(i) ==
  /\ pc[i] = "write"
  /\ Rewrites(i)
  /\ Len(files) < MaxInodes
  /\ files' = Append(files, Rewritten(i))
  /\ path' = Len(files')
  /\ view' = [view EXCEPT ![i] =
                [entries |-> Append(@.entries, Stamped(i)), version |-> 4,
                 deferred |-> FALSE, needsRewrite |-> FALSE,
                 size |-> Rewritten(i).size]]
  /\ acked' = acked \union Ids(view[i].entries) \union {row[i].id}
  /\ Return(i)
  /\ UNCHANGED faults

\* What a write of a v4 line leaves: behind a tail without its newline the
\* line is glued to it, and the two are one terminated line that no parser
\* accepts.  The bytes are there all the same.
Glues(file) == file.tail # "newline"
WithLine(file, line) ==
  IF Glues(file)
  THEN [file EXCEPT !.tail = "newline", !.corrupt = TRUE, !.size = @ + 3]
  ELSE [file EXCEPT !.lines = Append(@, line), !.size = @ + 3]

\* The one-line append through the fenced descriptor.
AppendLine(i) ==
  /\ pc[i] = "write"
  /\ Writes(i)
  /\ files' = [files EXCEPT ![fd[i]] = WithLine(@, Stamped(i))]
  /\ view' = [view EXCEPT ![i].entries = Append(@, Stamped(i)),
                          ![i].size = @ + 3]
  /\ acked' = acked \union {row[i].id}
  /\ Return(i)
  /\ UNCHANGED <<path, faults>>

-----------------------------------------------------------------------------
(* Faults.                                                                 *)

\* The bytes of a line cut short: a piece, or all but the newline.
CutLine(file, line, tail) ==
  IF Glues(file)
  THEN [file EXCEPT !.tail = "torn", !.corrupt = TRUE, !.size = @ + 1]
  ELSE IF tail = "torn"
  THEN [file EXCEPT !.tail = "torn", !.size = @ + 1]
  ELSE [file EXCEPT !.tail = "bare", !.lines = Append(@, line),
                    !.size = @ + 2]

Forget(i) ==
  /\ Goto(i, "absent")
  /\ view' = [view EXCEPT ![i] = NoView]
  /\ Release(i)
  /\ Clear(i)

\* write_all stops in the middle: the process dies, or the write fails (a
\* full disk) and the append returns the error with its view as it was.
TearLine(i) ==
  /\ pc[i] = "write"
  /\ Writes(i)
  /\ crashes + tears + removals < MaxFaults
  /\ tears' = tears + 1
  /\ \E tail \in {"torn", "bare"} :
       files' = [files EXCEPT ![fd[i]] = CutLine(@, Stamped(i), tail)]
  /\ Forget(i) \/ (Return(i) /\ UNCHANGED view)
  /\ UNCHANGED <<path, acked, crashes, removals>>

\* An instance dies with its process; a rewrite's temporary file stays
\* behind unseen.
Crash(i) ==
  /\ pc[i] # "absent"
  /\ crashes + tears + removals < MaxFaults
  /\ crashes' = crashes + 1
  /\ Forget(i)
  /\ UNCHANGED <<path, files, acked, tears, removals>>

\* A user removes the file.
Remove ==
  /\ path # None
  /\ crashes + tears + removals < MaxFaults
  /\ removals' = removals + 1
  /\ path' = None
  /\ UNCHANGED <<files, holder, pc, view, row, durable, fd, tries, acked,
                 crashes, tears>>

-----------------------------------------------------------------------------
Step(i) ==
  \/ Read(i) \/ LookForFile(i) \/ OpenFence(i) \/ LockFence(i) \/ Refresh(i)
  \/ Refuse(i) \/ Buffer(i) \/ Rewrite(i) \/ AppendLine(i)

Next ==
  \/ \E i \in Instances :
       Open(i) \/ AppendEntry(i) \/ Step(i) \/ TearLine(i) \/ Crash(i)
  \/ Remove

Spec == Init /\ [][Next]_vars

\* A started load or append runs on: its task is polled, and flock hands a
\* lock that is free again and again to whoever waits for it.
FairSpec == Spec /\ \A i \in Instances : SF_vars(Step(i))

-----------------------------------------------------------------------------
(* Properties.                                                             *)

Rows == [id : {1, 2} \union NewIds, parent : {NoRow, 1, 2} \union NewIds,
         seq : Nat, target : {NoRow, 1, 2} \union NewIds]
Files == [version : {3, 4}, lines : Seq(Rows), tail : Tails,
          corrupt : BOOLEAN, size : Nat]
Views == [entries : Seq(Rows), version : {3, 4}, deferred : BOOLEAN,
          needsRewrite : BOOLEAN, size : Nat]
PCs == {"absent", "reading", "unreadable", "idle", "fence", "opening",
        "locking", "fenced", "write"}

\* Types, and the fence: an instance between the check of its lock and its
\* return holds the flock of the inode it writes, and nobody else does
\* (WriteFence::acquire).
TypeOK ==
  /\ files \in Seq(Files) /\ Len(files) =< MaxInodes
  /\ path \in 0 .. Len(files)
  /\ holder \in [1 .. MaxInodes -> SUBSET Instances]
  /\ pc \in [Instances -> PCs]
  /\ view \in [Instances -> Views]
  /\ row \in [Instances -> Rows \union {NewRow}]
  /\ durable \in [Instances -> BOOLEAN]
  /\ fd \in [Instances -> 0 .. Len(files)]
  /\ tries \in [Instances -> 0 .. Attempts]
  /\ acked \subseteq {1, 2} \union NewIds
  /\ crashes \in Nat /\ tears \in Nat /\ removals \in Nat
  /\ \A n \in 1 .. MaxInodes : Cardinality(holder[n]) =< 1
  /\ \A i \in Instances :
       pc[i] \in {"fenced", "write"} /\ fd[i] # None => i \in holder[fd[i]]

Corrupt == path # None /\ files[path].corrupt
Intact == removals = 0 /\ ~Corrupt

\* What an instance holds in memory is a prefix of the journal: it may lag
\* behind the other instances, but never shows a row that is not there, a
\* row in another place or two histories at once (the stale-view guard and
\* the reload of append_entry_locked).
ViewIsPrefix ==
  path # None /\ Intact =>
    \A i \in Instances :
      LET entries == view[i].entries
          journal == Entries(files[path])
      IN ~view[i].deferred =>
           /\ Len(entries) =< Len(journal)
           /\ SubSeq(journal, 1, Len(entries)) = entries

\* The only instance of a session leaves the whole history on disk after
\* every append, also when the file was removed before or in the middle of
\* it: the next append writes everything back (the fence-less arm).
RemovalHeals ==
  \A i \in Instances :
    /\ pc[i] = "idle" /\ ~view[i].deferred /\ path # None
    /\ crashes = 0 /\ tears = 0
    /\ \A j \in Instances \ {i} : pc[j] = "absent"
    => /\ Parses(files[path])
       /\ Entries(files[path]) = view[i].entries

\* A file of the old format is replaced and never written to: no line of the
\* new format lands in it, through an instance whose view is older or newer
\* than the file, or a descriptor that outlives a removal or a rename (the
\* version test before the one-line append).
OldFormatUntouched ==
  [][\A n \in DOMAIN files : files[n].version = 3 => files'[n] = files[n]]_vars

\* The journal as its readers see it.
Log == INSTANCE AppendLog WITH
         log <- IF path # None /\ Parses(files[path])
                THEN Entries(files[path]) ELSE <<>>,
         broken <- ~Intact

\* The storage is an append-only log of acknowledged rows: deferral,
\* migration, healing, re-parenting, races, crashes and torn writes only
\* ever extend what a reader sees, every row hangs on the cursor its
\* predecessor left, and no row whose append returned Ok and reached the
\* disk is lost.
JournalIsAppendLog == Log!LogSpec

\* Every append returns: the fence is never awaited forever, with its
\* retries after a rename and a crashed holder included.
AppendReturns ==
  \A i \in Instances : pc[i] = "fence" ~> pc[i] \in {"idle", "absent"}

\* The comment of parse_file: a torn append no longer makes the session
\* permanently unreadable.
TornTailIsHarmless == ~Corrupt
=============================================================================
