------------------------ MODULE SessionJournalProofs ------------------------
(***************************************************************************)
(* The safety of the session file for any instances, ids, attempts,        *)
(* inodes and faults.                                                      *)
(***************************************************************************)
EXTENDS SessionJournal, TLAPS, FiniteSetTheorems, WellFoundedInduction

-----------------------------------------------------------------------------
(* The invariants.                                                         *)

Working == {"fence", "opening", "locking", "fenced", "write"}
Loaded == Working \union {"idle"}
Closed == {"absent", "unreadable", "idle", "fence", "opening"}

\* A sequence, of whatever elements it has.
IsSequence(s) == s \in Seq({s[n] : n \in DOMAIN s})

\* The shape of the state, without the types of rows and views.
Shape ==
  /\ IsSequence(files)
  /\ Len(files) =< MaxInodes
  /\ path \in {None, Len(files)}
  /\ holder \in [1 .. MaxInodes -> SUBSET Instances]
  /\ pc \in [Instances -> PCs]
  /\ DOMAIN view = Instances
  /\ DOMAIN row = Instances
  /\ durable \in [Instances -> BOOLEAN]
  /\ fd \in [Instances -> 0 .. Len(files)]
  /\ DOMAIN tries = Instances
  /\ removals \in Nat /\ crashes \in Nat /\ tears \in Nat

\* Who has a flock is about to write through the descriptor it locked, who
\* is about to write through a descriptor has its flock, and has it alone.
Fence ==
  \A i \in Instances :
    /\ pc[i] \in Closed => fd[i] = None
    /\ pc[i] \in {"reading", "locking", "fenced"} => fd[i] # None
    /\ \A n \in 1 .. MaxInodes :
         i \in holder[n] <=> pc[i] \in {"fenced", "write"} /\ fd[i] = n
    /\ \A j \in Instances, n \in 1 .. MaxInodes :
         i \in holder[n] /\ j \in holder[n] => i = j

\* Rows in the order in which they hang: each on the cursor its predecessor
\* left, under an id of its own, one deeper than its parent, with a cursor
\* that names a row at or before it.
HangsOn(rows, k) == IF k = 1 THEN NoRow ELSE rows[k - 1].target
Chain(rows) ==
  /\ rows \in Seq(Rows)
  /\ \A k \in DOMAIN rows :
       /\ rows[k].parent = HangsOn(rows, k)
       /\ rows[k].target # NoRow => \E j \in 1 .. k : rows[j].id = rows[k].target
       /\ rows[k].parent = NoRow => rows[k].seq = 0
       /\ \A j \in 1 .. (k - 1) :
            /\ rows[j].id # rows[k].id
            /\ rows[j].id = rows[k].parent => rows[k].seq = rows[j].seq + 1

Seed == <<Root(0), Child(1)>>

\* The files of earlier versions and races, which no instance writes to.
Legacy(file) ==
  \/ file = File(3, <<Root(0), Child(0)>>)
  \/ file = File(4, <<Child(1), Root(0)>>)

\* A file instances append to.
Grown(file) ==
  /\ file \in Files
  /\ file.version = 4
  /\ ~file.corrupt => Chain(file.lines)

\* The rows of a file, without the detour of the parser.
Lines(file) == IF Legacy(file) THEN Seed ELSE file.lines

Prefix(rows, longer) ==
  /\ Len(rows) =< Len(longer)
  /\ \A k \in DOMAIN rows : rows[k] = longer[k]

\* The files, as long as nobody removed one: a legacy file that may have
\* been replaced once, or a file that grew since it was created.
Inodes ==
  /\ path = Len(files) /\ Len(files) =< 2
  /\ path # None => (path = 1 /\ Legacy(files[path])) \/ Grown(files[path])
  /\ path = 2 => /\ Legacy(files[1]) /\ files[2].size > 7
                 /\ ~files[2].corrupt => Prefix(Seed, files[2].lines)

\* A view of a legacy file, which makes its instance rewrite the file.
Rewriter(v) == v.version = 3 \/ v.needsRewrite

InStep(v, file) ==
  /\ v.entries = Lines(file)
  /\ Rewriter(v) <=> Legacy(file)

\* The view of one instance, as long as nobody removed the file.
ViewAt(i) ==
  /\ view[i] \in Views
  /\ pc[i] \notin Loaded => view[i] = NoView
  /\ pc[i] \in Loaded =>
       /\ view[i].deferred <=> path = None
       /\ view[i].deferred => ~Rewriter(view[i])
       /\ Chain(view[i].entries)
       /\ Rewriter(view[i]) =>
            view[i].entries = Seed /\ view[i].size =< 7 /\ Legacy(files[1])
       /\ path # None /\ ~Corrupt => Prefix(view[i].entries, Lines(files[path]))
       /\ path # None =>
            /\ view[i].size =< files[path].size
            /\ view[i].size = files[path].size /\ ~Corrupt =>
                 InStep(view[i], files[path])

\* A row on its way hangs on its instance's chain.
RowFits(i) ==
  /\ row[i] \in Rows
  /\ row[i].id \notin Ids(view[i].entries)
  /\ row[i].parent = Leaf(view[i].entries)
  /\ row[i].target \in Ids(view[i].entries) \union {NoRow, row[i].id}

\* The row an instance appends and the inode it appends to.
RowAt(i) ==
  /\ row[i] \in Rows \union {NewRow}
  /\ pc[i] \in Working => RowFits(i)
  /\ path = None => pc[i] \in {"absent", "idle", "fence", "write"} /\ fd[i] = None
  /\ path = None /\ i # Creator => pc[i] = "absent"
  /\ pc[i] = "write" /\ path # None => fd[i] # None
  /\ pc[i] \in {"fenced", "write"} /\ path # None => fd[i] = path
  /\ pc[i] = "write" /\ path # None => view[i].size = files[path].size

AckedInFile ==
  ~Corrupt => acked \subseteq IF path = None THEN {} ELSE Ids(Lines(files[path]))

Kept ==
  /\ Inodes
  /\ \A i \in Instances : ViewAt(i) /\ RowAt(i)
  /\ AckedInFile

\* Without removals the file, the views, the rows on their way and the
\* acknowledged rows agree.
KeptInv == Shape /\ Fence /\ (removals = 0 => Kept)

\* Nobody else has the session open, and nobody ever died.
Alone(i) ==
  /\ crashes = 0 /\ tears = 0
  /\ \A j \in Instances \ {i} : pc[j] = "absent"

\* A file no write was cut short in.
Sound(file) ==
  /\ Legacy(file) \/ Grown(file)
  /\ ~file.corrupt
  /\ file.tail = "newline"

\* The only instance knows the newest inode, whether the path still leads to
\* it or it was removed.
HealAt(i) ==
  /\ \A n \in DOMAIN files : Sound(files[n])
  /\ fd[i] \in {None, Len(files)}
  /\ pc[i] \in Working => RowFits(i)
  /\ pc[i] \in Loaded =>
       /\ view[i] \in Views
       /\ Chain(view[i].entries)
       /\ view[i].deferred => Len(files) = 0 /\ ~Rewriter(view[i])
       /\ ~view[i].deferred =>
            /\ Len(files) # 0
            /\ InStep(view[i], files[Len(files)])
            /\ view[i].size = files[Len(files)].size

HealInv == \A i \in Instances : Alone(i) => HealAt(i)

-----------------------------------------------------------------------------
(* Rows and files.                                                         *)

\* A set of natural numbers that is not empty has a least element.
LEMMA LeastNumber ==
  ASSUME NEW T, T \subseteq Nat, T # {}
  PROVE  \E x \in T : \A y \in T : ~(y < x)
  <1> DEFINE R == OpToRel(<, Nat)
  <1>1. IsWellFoundedOn(R, Nat)
    BY NatLessThanWellFounded
  <1>2. \A x, y \in Nat : <<y, x>> \in R <=> y < x
    BY DEF OpToRel
  <1> HIDE DEF R
  <1>3. PICK x \in T : \A y \in T : ~ (<<y, x>> \in R)
    BY <1>1, WFMin
  <1>4. \A y \in T : ~(y < x)
    BY <1>2, <1>3
  <1> QED BY <1>3, <1>4

\* An id names one row of a chain.
LEMMA ChainIds ==
  ASSUME NEW rows, Chain(rows), NEW j \in DOMAIN rows, NEW k \in DOMAIN rows,
         rows[j].id = rows[k].id
  PROVE  j = k
  <1>1. DOMAIN rows = 1 .. Len(rows) /\ Len(rows) \in Nat
    BY DEF Chain
  <1>2. j < k => j \in 1 .. (k - 1)
    BY <1>1
  <1>3. k < j => k \in 1 .. (j - 1)
    BY <1>1
  <1>4. ~(j < k) /\ ~(k < j)
    BY <1>2, <1>3 DEF Chain
  <1> QED BY <1>1, <1>4

\* The parent of a row of a chain is a row before it.
LEMMA ChainParents ==
  ASSUME NEW rows, Chain(rows), NEW k \in DOMAIN rows, rows[k].parent # NoRow
  PROVE  \E j \in 1 .. (k - 1) : j \in DOMAIN rows /\ rows[j].id = rows[k].parent
  <1>1. DOMAIN rows = 1 .. Len(rows) /\ Len(rows) \in Nat
    BY DEF Chain
  <1>2. k # 1 /\ rows[k].parent = rows[k - 1].target
    BY DEF Chain, HangsOn
  <1>3. k - 1 \in DOMAIN rows
    BY <1>1, <1>2
  <1>4. PICK j \in 1 .. (k - 1) : rows[j].id = rows[k - 1].target
    BY <1>2, <1>3 DEF Chain
  <1>5. j \in DOMAIN rows
    BY <1>1
  <1> QED BY <1>2, <1>4, <1>5

\* Where ids are unique, Position finds the row of an id.
LEMMA PositionOf ==
  ASSUME NEW rows, NEW j \in DOMAIN rows,
         \A k \in DOMAIN rows : rows[k].id = rows[j].id => k = j
  PROVE  Position(rows, rows[j].id) = j
  <1>1. \E k \in DOMAIN rows : rows[k].id = rows[j].id
    OBVIOUS
  <1>2. /\ Position(rows, rows[j].id) \in DOMAIN rows
        /\ rows[Position(rows, rows[j].id)].id = rows[j].id
    BY <1>1 DEF Position
  <1> QED BY <1>2

\* The parent walk has one result where it ends.
LEMMA DepthsAre ==
  ASSUME NEW rows, NEW d, Acyclic(rows),
         \A k \in DOMAIN rows :
           rows[k].parent # NoRow => Position(rows, rows[k].parent) \in DOMAIN rows,
         d = [k \in DOMAIN rows |-> IF rows[k].parent = NoRow THEN 0
                                    ELSE d[Position(rows, rows[k].parent)] + 1]
  PROVE  Depths(rows) = d
  <1> DEFINE Walk(f) == [k \in DOMAIN rows |->
                           IF rows[k].parent = NoRow THEN 0
                           ELSE f[Position(rows, rows[k].parent)] + 1]
             g == CHOOSE f : f = Walk(f)
  <1>1. Depths(rows) = g
    BY DEF Depths
  <1>2. d = Walk(d)
    OBVIOUS
  <1>3. g = Walk(g)
    <2> HIDE DEF Walk
    <2> QED BY <1>2
  <1> HIDE DEF g
  <1> DEFINE T == {k \in DOMAIN rows : g[k] # d[k]}
  <1>4. ASSUME T # {} PROVE FALSE
    <2>1. PICK k \in T : \/ rows[k].parent = NoRow
                         \/ Position(rows, rows[k].parent) \notin T
      <3>1. T \in (SUBSET DOMAIN rows) \ {{}}
        BY <1>4
      <3> QED BY <3>1 DEF Acyclic
    <2>2. CASE rows[k].parent = NoRow
      <3>1. g[k] = 0 /\ d[k] = 0
        BY <1>2, <1>3, <2>2
      <3> QED BY <3>1
    <2>3. CASE rows[k].parent # NoRow
      <3> DEFINE p == Position(rows, rows[k].parent)
      <3>1. p \in DOMAIN rows /\ g[p] = d[p]
        BY <2>1, <2>3
      <3>2. g[k] = g[p] + 1 /\ d[k] = d[p] + 1
        BY <1>2, <1>3, <2>3
      <3> QED BY <3>1, <3>2
    <2> QED BY <2>2, <2>3
  <1>5. DOMAIN g = DOMAIN rows /\ DOMAIN d = DOMAIN rows
    BY <1>2, <1>3
  <1>6. \A k \in DOMAIN rows : g[k] = d[k]
    BY <1>4
  <1>7. g = [k \in DOMAIN rows |-> g[k]] /\ d = [k \in DOMAIN rows |-> d[k]]
    BY <1>2, <1>3
  <1> QED BY <1>1, <1>6, <1>7

\* A chain passes every check of the parser, which leaves it as it is.
LEMMA ChainParses ==
  ASSUME NEW rows, Chain(rows)
  PROVE  /\ Cardinality(Ids(rows)) = Len(rows)
         /\ ParentsKnown(rows)
         /\ Acyclic(rows)
         /\ Depths(rows) = [k \in DOMAIN rows |-> rows[k].seq]
         /\ ~Inverted(rows)
  <1>1. DOMAIN rows = 1 .. Len(rows) /\ Len(rows) \in Nat
    BY DEF Chain
  <1>2. ASSUME NEW j \in DOMAIN rows PROVE Position(rows, rows[j].id) = j
    BY ChainIds, PositionOf
  <1>3. ASSUME NEW k \in DOMAIN rows, rows[k].parent # NoRow
        PROVE  /\ Position(rows, rows[k].parent) \in DOMAIN rows
               /\ Position(rows, rows[k].parent) \in 1 .. (k - 1)
               /\ rows[k].seq = rows[Position(rows, rows[k].parent)].seq + 1
               /\ rows[k].parent \in Ids(rows)
    <2>1. PICK j \in 1 .. (k - 1) : j \in DOMAIN rows /\ rows[j].id = rows[k].parent
      BY <1>3, ChainParents
    <2>2. Position(rows, rows[k].parent) = j
      BY <1>2, <2>1
    <2>3. rows[k].seq = rows[j].seq + 1
      BY <2>1 DEF Chain
    <2> QED BY <2>1, <2>2, <2>3 DEF Ids
  <1>4. Cardinality(Ids(rows)) = Len(rows)
    <2> DEFINE f == [k \in 1 .. Len(rows) |-> rows[k].id]
    <2>1. f \in Bijection(1 .. Len(rows), Ids(rows))
      <3>1. f \in [1 .. Len(rows) -> Ids(rows)]
        BY <1>1 DEF Ids
      <3>2. \A a, b \in 1 .. Len(rows) : f[a] = f[b] => a = b
        BY <1>1, ChainIds
      <3>3. \A t \in Ids(rows) : \E a \in 1 .. Len(rows) : f[a] = t
        BY <1>1 DEF Ids
      <3> HIDE DEF f
      <3>4. f \in Injection(1 .. Len(rows), Ids(rows))
        BY <3>1, <3>2 DEF Injection, IsInjective
      <3>5. f \in Surjection(1 .. Len(rows), Ids(rows))
        BY <3>1, <3>3 DEF Surjection
      <3> QED BY <3>4, <3>5 DEF Bijection
    <2>2. ExistsBijection(1 .. Len(rows), Ids(rows))
      BY <2>1 DEF ExistsBijection
    <2> QED BY <1>1, <2>2, FS_CountingElements
  <1>5. ParentsKnown(rows)
    BY <1>3 DEF ParentsKnown
  <1>6. Acyclic(rows)
    <2> SUFFICES ASSUME NEW ring \in (SUBSET DOMAIN rows) \ {{}}
                 PROVE  \E k \in ring : \/ rows[k].parent = NoRow
                                        \/ Position(rows, rows[k].parent) \notin ring
      BY DEF Acyclic
    <2>1. PICK k \in ring : \A y \in ring : ~(y < k)
      BY <1>1, LeastNumber
    <2>2. k \in DOMAIN rows /\ k \in Nat
      BY <1>1
    <2>3. \A y \in 1 .. (k - 1) : y \notin ring
      BY <2>1, <2>2
    <2> QED BY <1>3, <2>2, <2>3
  <1>7. ~Inverted(rows)
    <2>1. \A k \in DOMAIN rows : \A y \in 1 .. (k - 1) : ~(y > k)
      BY <1>1
    <2> QED BY <1>3, <2>1 DEF Inverted
  <1>8. Depths(rows) = [k \in DOMAIN rows |-> rows[k].seq]
    <2> DEFINE d == [k \in DOMAIN rows |-> rows[k].seq]
    <2>1. \A k \in DOMAIN rows :
            d[k] = IF rows[k].parent = NoRow THEN 0
                   ELSE d[Position(rows, rows[k].parent)] + 1
      <3> SUFFICES ASSUME NEW k \in DOMAIN rows
                   PROVE  d[k] = IF rows[k].parent = NoRow THEN 0
                                 ELSE d[Position(rows, rows[k].parent)] + 1
        OBVIOUS
      <3>1. CASE rows[k].parent = NoRow
        BY <3>1 DEF Chain
      <3>2. CASE rows[k].parent # NoRow
        BY <1>3, <3>2
      <3> QED BY <3>1, <3>2
    <2>2. d = [k \in DOMAIN rows |-> d[k]]
      OBVIOUS
    <2> HIDE DEF d
    <2>3. d = [k \in DOMAIN rows |-> IF rows[k].parent = NoRow THEN 0
                                     ELSE d[Position(rows, rows[k].parent)] + 1]
      BY <2>1, <2>2
    <2>4. Depths(rows) = d
      BY <1>3, <1>6, <2>3, DepthsAre
    <2> QED BY <2>4 DEF d
  <1> QED BY <1>4, <1>5, <1>6, <1>7, <1>8

\* A row that hangs on the cursor under a new id makes a longer chain.
LEMMA ChainAppend ==
  ASSUME NEW rows, Chain(rows), NEW r \in Rows,
         r.id \notin Ids(rows),
         r.parent = Leaf(rows),
         r.target \in Ids(rows) \union {NoRow, r.id},
         r.seq = IF r.parent = NoRow THEN 0
                 ELSE rows[Position(rows, r.parent)].seq + 1
  PROVE  Chain(Append(rows, r))
  <1> DEFINE n == Len(rows)
             longer == Append(rows, r)
  <1>1. /\ DOMAIN rows = 1 .. n /\ n \in Nat
        /\ rows \in Seq(Rows)
    BY DEF Chain
  <1>2. /\ longer \in Seq(Rows)
        /\ DOMAIN longer = 1 .. (n + 1)
        /\ longer[n + 1] = r
        /\ \A k \in 1 .. n : longer[k] = rows[k]
    BY <1>1
  <1> HIDE DEF longer, n
  <1>3. ASSUME NEW k \in 1 .. n
        PROVE  /\ longer[k].parent = HangsOn(longer, k)
               /\ longer[k].target # NoRow =>
                    \E j \in 1 .. k : longer[j].id = longer[k].target
               /\ longer[k].parent = NoRow => longer[k].seq = 0
               /\ \A j \in 1 .. (k - 1) :
                    /\ longer[j].id # longer[k].id
                    /\ longer[j].id = longer[k].parent =>
                         longer[k].seq = longer[j].seq + 1
    <2>1. k \in DOMAIN rows /\ longer[k] = rows[k]
      BY <1>1, <1>2
    <2>2. \A j \in 1 .. k : longer[j] = rows[j]
      BY <1>1, <1>2
    <2>3. \A j \in 1 .. (k - 1) : longer[j] = rows[j]
      BY <1>1, <1>2
    <2>4. HangsOn(longer, k) = HangsOn(rows, k)
      <3>1. k # 1 => k - 1 \in 1 .. (k - 1)
        BY <1>1
      <3> QED BY <2>3, <3>1 DEF HangsOn
    <2>5. longer[k].parent = HangsOn(longer, k)
      BY <2>1, <2>4 DEF Chain
    <2>6. longer[k].target # NoRow => \E j \in 1 .. k : longer[j].id = longer[k].target
      BY <2>1, <2>2 DEF Chain
    <2>7. longer[k].parent = NoRow => longer[k].seq = 0
      BY <2>1 DEF Chain
    <2>8. \A j \in 1 .. (k - 1) :
            /\ longer[j].id # longer[k].id
            /\ longer[j].id = longer[k].parent => longer[k].seq = longer[j].seq + 1
      <3>1. \A j \in 1 .. (k - 1) :
              /\ rows[j].id # rows[k].id
              /\ rows[j].id = rows[k].parent => rows[k].seq = rows[j].seq + 1
        BY <2>1 DEF Chain
      <3> QED BY <2>1, <2>3, <3>1
    <2> QED BY <2>5, <2>6, <2>7, <2>8
  <1>4. r.parent = HangsOn(longer, n + 1)
    <2>1. CASE rows = <<>>
      <3>1. n = 0
        BY <2>1 DEF n
      <3> QED BY <2>1, <3>1 DEF HangsOn, Leaf
    <2>2. CASE rows # <<>>
      <3>1. n # 0
        BY <1>1, <2>2 DEF n
      <3>2. n \in 1 .. n /\ n + 1 # 1 /\ (n + 1) - 1 = n
        BY <1>1, <3>1
      <3>3. longer[(n + 1) - 1] = rows[n]
        BY <1>2, <3>2
      <3> QED BY <2>2, <3>2, <3>3 DEF HangsOn, Leaf, n
    <2> QED BY <2>1, <2>2
  <1>5. r.target # NoRow => \E j \in 1 .. (n + 1) : longer[j].id = r.target
    <2>1. CASE r.target = r.id
      <3>1. n + 1 \in 1 .. (n + 1)
        BY <1>1
      <3> QED BY <1>2, <2>1, <3>1
    <2>2. CASE r.target \in Ids(rows)
      <3>1. PICK j \in 1 .. n : rows[j].id = r.target
        BY <1>1, <2>2 DEF Ids
      <3>2. j \in 1 .. (n + 1)
        BY <1>1
      <3> QED BY <1>2, <3>1, <3>2
    <2> QED BY <2>1, <2>2
  <1>6. ASSUME NEW j \in 1 .. n
        PROVE  /\ longer[j].id # r.id
               /\ longer[j].id = r.parent => r.seq = longer[j].seq + 1
    <2>1. j \in DOMAIN rows /\ longer[j] = rows[j]
      BY <1>1, <1>2
    <2>2. rows[j].id # r.id
      BY <2>1 DEF Ids
    <2>3. Position(rows, rows[j].id) = j
      BY <2>1, ChainIds, PositionOf
    <2>4. rows[j].id # NoRow
      <3>1. rows[j] \in Rows
        BY <1>1, <2>1
      <3>2. rows[j].id \in {1, 2} \union NewIds
        BY <3>1 DEF Rows
      <3> QED BY <3>2, JournalAssumption DEF NewIds, NoRow
    <2> QED BY <2>1, <2>2, <2>3, <2>4
  <1>7. ASSUME NEW k \in 1 .. (n + 1)
        PROVE  /\ longer[k].parent = HangsOn(longer, k)
               /\ longer[k].target # NoRow =>
                    \E j \in 1 .. k : longer[j].id = longer[k].target
               /\ longer[k].parent = NoRow => longer[k].seq = 0
               /\ \A j \in 1 .. (k - 1) :
                    /\ longer[j].id # longer[k].id
                    /\ longer[j].id = longer[k].parent =>
                         longer[k].seq = longer[j].seq + 1
    <2>1. CASE k \in 1 .. n
      BY <1>3, <2>1
    <2>2. CASE k = n + 1
      <3>1. \A j \in 1 .. (k - 1) : j \in 1 .. n
        BY <1>1, <2>2
      <3> QED BY <1>2, <1>4, <1>5, <1>6, <2>2, <3>1
    <2> QED BY <1>1, <2>1, <2>2
  <1>8. Chain(longer)
    BY <1>2, <1>7 DEF Chain
  <1> QED BY <1>8 DEF longer

\* What the parser makes of a file: all its rows, in the order they hang.
ReadsAs(file, rows) == Parses(file) /\ Entries(file) = rows

\* A file that grew is read as it was written.
LEMMA GrownReads ==
  ASSUME NEW file, Grown(file), ~file.corrupt
  PROVE  /\ ReadsAs(file, file.lines)
         /\ ~Inverted(file.lines)
  <1> DEFINE lines == file.lines
  <1>1. Chain(lines) /\ file.version = 4
    BY DEF Grown
  <1>2. /\ Cardinality(Ids(lines)) = Len(lines)
        /\ ParentsKnown(lines)
        /\ Acyclic(lines)
        /\ Depths(lines) = [k \in DOMAIN lines |-> lines[k].seq]
        /\ ~Inverted(lines)
    BY <1>1, ChainParses
  <1>3. \A k \in DOMAIN lines : lines[k].seq = Depths(lines)[k]
    BY <1>2
  <1>4. Parses(file)
    BY <1>2, <1>3 DEF Parses
  <1>5. Entries(file) = [n \in DOMAIN lines |->
                           [lines[n] EXCEPT !.seq = Depths(lines)[n]]]
    BY <1>2 DEF Entries
  <1>6. ASSUME NEW n \in DOMAIN lines
        PROVE  [lines[n] EXCEPT !.seq = Depths(lines)[n]] = lines[n]
    <2>1. lines[n] \in Rows
      BY <1>1 DEF Chain
    <2> QED BY <1>3, <2>1 DEF Rows
  <1>7. lines = [n \in DOMAIN lines |-> lines[n]]
    BY <1>1 DEF Chain
  <1>8. Entries(file) = lines
    BY <1>5, <1>6, <1>7
  <1> QED BY <1>2, <1>4, <1>8 DEF ReadsAs

\* No file that grew is a legacy file.
LEMMA GrownIsNotLegacy ==
  ASSUME NEW file, Grown(file)
  PROVE  ~Legacy(file)
  <1> SUFFICES ASSUME Legacy(file) PROVE FALSE
    OBVIOUS
  <1>1. CASE file = File(3, <<Root(0), Child(0)>>)
    BY <1>1 DEF Grown, File
  <1>2. CASE file = File(4, <<Child(1), Root(0)>>)
    <2>1. Chain(<<Child(1), Root(0)>>)
      BY <1>2 DEF Grown, File
    <2>2. <<Child(1), Root(0)>>[1].parent = HangsOn(<<Child(1), Root(0)>>, 1)
      BY <2>1 DEF Chain
    <2> QED BY <2>2 DEF HangsOn, Child, NoRow
  <1> QED BY <1>1, <1>2 DEF Legacy

\* The two rows of a legacy session are a chain.
LEMMA SeedIsChain ==
  /\ Chain(Seed)
  /\ Ids(Seed) = {1, 2}
  /\ Len(Seed) = 2
  <1>1. Root(0) \in Rows /\ Child(1) \in Rows
    BY DEF Root, Child, Rows, NoRow
  <1>2. Seed \in Seq(Rows) /\ Len(Seed) = 2 /\ DOMAIN Seed = 1 .. 2
    BY <1>1 DEF Seed
  <1>3. Seed[1] = Root(0) /\ Seed[2] = Child(1)
    BY DEF Seed
  <1>4. /\ Seed[1].id = 1 /\ Seed[1].parent = NoRow /\ Seed[1].seq = 0
        /\ Seed[1].target = 1
        /\ Seed[2].id = 2 /\ Seed[2].parent = 1 /\ Seed[2].seq = 1
        /\ Seed[2].target = 2
    BY <1>3 DEF Root, Child
  <1>5. 1 .. 2 = {1, 2} /\ 1 .. (1 - 1) = {} /\ 1 .. (2 - 1) = {1} /\ 1 .. 1 = {1}
    OBVIOUS
  <1>6. HangsOn(Seed, 1) = NoRow /\ HangsOn(Seed, 2) = 1
    BY <1>4 DEF HangsOn
  <1>7. \A k \in {1, 2} :
          /\ Seed[k].parent = HangsOn(Seed, k)
          /\ Seed[k].target # NoRow => \E j \in 1 .. k : Seed[j].id = Seed[k].target
          /\ Seed[k].parent = NoRow => Seed[k].seq = 0
          /\ \A j \in 1 .. (k - 1) :
               /\ Seed[j].id # Seed[k].id
               /\ Seed[j].id = Seed[k].parent => Seed[k].seq = Seed[j].seq + 1
    BY <1>4, <1>5, <1>6 DEF NoRow
  <1>8. Chain(Seed)
    BY <1>2, <1>5, <1>7 DEF Chain
  <1>9. Ids(Seed) = {1, 2}
    BY <1>2, <1>4, <1>5 DEF Ids
  <1> QED BY <1>2, <1>8, <1>9

\* A v3 file is read in its order, with the depths filled in.
LEMMA V3Reads ==
  ASSUME NEW file, file = File(3, <<Root(0), Child(0)>>)
  PROVE  ReadsAs(file, Seed) /\ ~Inverted(file.lines)
  <1> DEFINE lines == file.lines
  <1>1. /\ file.version = 3 /\ file.corrupt = FALSE
        /\ lines = <<Root(0), Child(0)>>
    BY DEF File
  <1>2. Len(lines) = 2 /\ DOMAIN lines = {1, 2}
    BY <1>1
  <1>3. /\ lines[1] = Root(0) /\ lines[2] = Child(0)
        /\ lines[1].id = 1 /\ lines[1].parent = NoRow
        /\ lines[2].id = 2 /\ lines[2].parent = 1 /\ lines[2].parent # NoRow
    BY <1>1 DEF Root, Child, NoRow
  <1> HIDE DEF lines
  <1>4. Position(lines, 1) = 1
    BY <1>2, <1>3, PositionOf
  <1>5. Cardinality(Ids(lines)) = Len(lines)
    <2>1. Ids(lines) = {1, 2}
      BY <1>2, <1>3 DEF Ids
    <2>2. Cardinality({1, 2}) = 2
      <3>1. IsFiniteSet({1}) /\ Cardinality({1}) = 1
        BY FS_Singleton
      <3>2. {1, 2} = {1} \cup {2} /\ 2 \notin {1}
        OBVIOUS
      <3> QED BY <3>1, <3>2, FS_AddElement
    <2> QED BY <1>2, <2>1, <2>2
  <1>6. ParentsKnown(lines)
    BY <1>2, <1>3 DEF ParentsKnown, Ids
  <1>7. Acyclic(lines)
    BY <1>2, <1>3, <1>4 DEF Acyclic
  <1>8. ~Inverted(lines)
    BY <1>2, <1>3, <1>4 DEF Inverted
  <1>9. Depths(lines) = [k \in {1, 2} |-> k - 1]
    <2> DEFINE d == [k \in {1, 2} |-> k - 1]
    <2>1. \A k \in {1, 2} : d[k] = IF lines[k].parent = NoRow THEN 0
                                   ELSE d[Position(lines, lines[k].parent)] + 1
      BY <1>3, <1>4
    <2>2. d = [k \in {1, 2} |-> d[k]]
      OBVIOUS
    <2> HIDE DEF d
    <2>3. d = [k \in DOMAIN lines |-> IF lines[k].parent = NoRow THEN 0
                                      ELSE d[Position(lines, lines[k].parent)] + 1]
      BY <1>2, <2>1, <2>2
    <2>4. Depths(lines) = d
      BY <1>2, <1>3, <1>4, <1>7, <2>3, DepthsAre
    <2> QED BY <2>4 DEF d
  <1>10. Parses(file)
    BY <1>1, <1>5, <1>6, <1>7 DEF Parses, lines
  <1>11. Entries(file) = [n \in DOMAIN lines |->
                            [lines[n] EXCEPT !.seq = Depths(lines)[n]]]
    BY <1>8 DEF Entries, lines
  <1>12. /\ [lines[1] EXCEPT !.seq = Depths(lines)[1]] = Root(0)
         /\ [lines[2] EXCEPT !.seq = Depths(lines)[2]] = Child(1)
    BY <1>3, <1>9 DEF Root, Child
  <1>13. Entries(file) = [n \in {1, 2} |-> IF n = 1 THEN Root(0) ELSE Child(1)]
    BY <1>2, <1>11, <1>12
  <1>14. Seed = [n \in {1, 2} |-> IF n = 1 THEN Root(0) ELSE Child(1)]
    BY DEF Seed
  <1> QED BY <1>8, <1>10, <1>13, <1>14 DEF ReadsAs, lines

\* A file whose child came first is read in the order of depth.
LEMMA InvertedReads ==
  ASSUME NEW file, file = File(4, <<Child(1), Root(0)>>)
  PROVE  ReadsAs(file, Seed) /\ Inverted(file.lines)
  <1> DEFINE lines == file.lines
  <1>1. /\ file.version = 4 /\ file.corrupt = FALSE
        /\ lines = <<Child(1), Root(0)>>
    BY DEF File
  <1>2. Len(lines) = 2 /\ DOMAIN lines = {1, 2}
    BY <1>1
  <1>3. /\ lines[1] = Child(1) /\ lines[2] = Root(0)
        /\ lines[2].id = 1 /\ lines[2].parent = NoRow /\ lines[2].seq = 0
        /\ lines[1].id = 2 /\ lines[1].parent = 1 /\ lines[1].parent # NoRow
        /\ lines[1].seq = 1
    BY <1>1 DEF Root, Child, NoRow
  <1> HIDE DEF lines
  <1>4. Position(lines, 1) = 2
    <2>1. \A k \in DOMAIN lines : lines[k].id = lines[2].id => k = 2
      BY <1>2, <1>3
    <2>2. Position(lines, lines[2].id) = 2
      BY <1>2, <2>1, PositionOf
    <2> QED BY <1>3, <2>2
  <1>5. Cardinality(Ids(lines)) = Len(lines)
    <2>1. Ids(lines) = {1, 2}
      BY <1>2, <1>3 DEF Ids
    <2>2. Cardinality({1, 2}) = 2
      <3>1. IsFiniteSet({1}) /\ Cardinality({1}) = 1
        BY FS_Singleton
      <3>2. {1, 2} = {1} \cup {2} /\ 2 \notin {1}
        OBVIOUS
      <3> QED BY <3>1, <3>2, FS_AddElement
    <2> QED BY <1>2, <2>1, <2>2
  <1>6. ParentsKnown(lines)
    BY <1>2, <1>3 DEF ParentsKnown, Ids
  <1>7. Acyclic(lines)
    <2> SUFFICES ASSUME NEW ring \in (SUBSET DOMAIN lines) \ {{}}
                 PROVE  \E k \in ring : \/ lines[k].parent = NoRow
                                        \/ Position(lines, lines[k].parent) \notin ring
      BY DEF Acyclic
    <2>1. CASE 2 \in ring
      BY <1>3, <2>1
    <2>2. CASE 2 \notin ring
      <3>1. 1 \in ring
        BY <1>2, <2>2
      <3> QED BY <1>3, <1>4, <2>2, <3>1
    <2> QED BY <2>1, <2>2
  <1>8. Inverted(lines)
    BY <1>2, <1>3, <1>4 DEF Inverted
  <1>9. Depths(lines) = [k \in {1, 2} |-> 2 - k]
    <2> DEFINE d == [k \in {1, 2} |-> 2 - k]
    <2>1. \A k \in {1, 2} : d[k] = IF lines[k].parent = NoRow THEN 0
                                   ELSE d[Position(lines, lines[k].parent)] + 1
      BY <1>3, <1>4
    <2>2. d = [k \in {1, 2} |-> d[k]]
      OBVIOUS
    <2> HIDE DEF d
    <2>3. d = [k \in DOMAIN lines |-> IF lines[k].parent = NoRow THEN 0
                                      ELSE d[Position(lines, lines[k].parent)] + 1]
      BY <1>2, <2>1, <2>2
    <2>4. Depths(lines) = d
      BY <1>2, <1>3, <1>4, <1>7, <2>3, DepthsAre
    <2> QED BY <2>4 DEF d
  <1>10. Depths(lines)[1] = 1 /\ Depths(lines)[2] = 0
    BY <1>9
  <1>11. Parses(file)
    <2>1. \A k \in DOMAIN lines : lines[k].seq = Depths(lines)[k]
      BY <1>2, <1>3, <1>10
    <2> QED BY <1>1, <1>5, <1>6, <1>7, <2>1 DEF Parses, lines
  <1> DEFINE Before(j, k) == \/ Depths(lines)[j] < Depths(lines)[k]
                             \/ (Depths(lines)[j] = Depths(lines)[k] /\ j < k)
             Rank(k) == Cardinality({j \in DOMAIN lines : Before(j, k)}) + 1
             line(n) == CHOOSE k \in DOMAIN lines : Rank(k) = n
  <1>12. Entries(file) = [n \in DOMAIN lines |->
                            [lines[line(n)] EXCEPT !.seq = Depths(lines)[line(n)]]]
    BY <1>8 DEF Entries, lines
  <1>13. Rank(1) = 2 /\ Rank(2) = 1
    <2>1. {j \in DOMAIN lines : Before(j, 1)} = {2}
      BY <1>2, <1>10
    <2>2. {j \in DOMAIN lines : Before(j, 2)} = {}
      BY <1>2, <1>10
    <2>3. Cardinality({2}) = 1 /\ Cardinality({}) = 0
      BY FS_Singleton, FS_EmptySet
    <2> QED BY <2>1, <2>2, <2>3
  <1> HIDE DEF Rank
  <1>14. line(1) = 2 /\ line(2) = 1
    BY <1>2, <1>13
  <1> HIDE DEF line
  <1>15. /\ [lines[2] EXCEPT !.seq = Depths(lines)[2]] = Root(0)
         /\ [lines[1] EXCEPT !.seq = Depths(lines)[1]] = Child(1)
    BY <1>3, <1>10 DEF Root, Child
  <1>16. Entries(file) = [n \in {1, 2} |-> IF n = 1 THEN Root(0) ELSE Child(1)]
    BY <1>2, <1>12, <1>14, <1>15
  <1>17. Seed = [n \in {1, 2} |-> IF n = 1 THEN Root(0) ELSE Child(1)]
    BY DEF Seed
  <1> QED BY <1>8, <1>11, <1>16, <1>17 DEF ReadsAs, lines

\* Legacy files: types, sizes, and what the parser makes of them.
LEMMA LegacyReads ==
  ASSUME NEW file, Legacy(file)
  PROVE  /\ file \in Files /\ ~file.corrupt
         /\ file.size \in Nat /\ file.size =< 7
         /\ ReadsAs(file, Seed)
         /\ ViewOf(file) \in Views
         /\ Rewriter(ViewOf(file))
  <1>1. Root(0) \in Rows /\ Child(0) \in Rows /\ Child(1) \in Rows
    BY DEF Root, Child, Rows, NoRow
  <1>2. Seed \in Seq(Rows)
    BY <1>1 DEF Seed
  <1>3. CASE file = File(3, <<Root(0), Child(0)>>)
    <2>1. <<Root(0), Child(0)>> \in Seq(Rows) /\ Len(<<Root(0), Child(0)>>) = 2
      BY <1>1
    <2>2. /\ file.version = 3 /\ file.tail = "newline" /\ file.corrupt = FALSE
          /\ file.size = 5 /\ file.lines = <<Root(0), Child(0)>>
      BY <1>3, <2>1 DEF File, Header, LineSize
    <2>3. file \in Files
      BY <1>3, <2>1, <2>2 DEF File, Files, Tails
    <2>4. ReadsAs(file, Seed) /\ Inverted(file.lines) = FALSE
      <3>1. Inverted(file.lines) \in BOOLEAN
        BY DEF Inverted
      <3> QED BY <1>3, <3>1, V3Reads
    <2>5. ViewOf(file) = [entries |-> Seed, version |-> 3, deferred |-> FALSE,
                          needsRewrite |-> FALSE, size |-> 5]
      BY <2>2, <2>4 DEF ViewOf, ReadsAs
    <2>6. ViewOf(file) \in Views /\ Rewriter(ViewOf(file))
      BY <1>2, <2>5 DEF Views, Rewriter
    <2> QED BY <2>2, <2>3, <2>4, <2>6
  <1>4. CASE file = File(4, <<Child(1), Root(0)>>)
    <2>1. <<Child(1), Root(0)>> \in Seq(Rows) /\ Len(<<Child(1), Root(0)>>) = 2
      BY <1>1
    <2>2. /\ file.version = 4 /\ file.tail = "newline" /\ file.corrupt = FALSE
          /\ file.size = 7 /\ file.lines = <<Child(1), Root(0)>>
      BY <1>4, <2>1 DEF File, Header, LineSize
    <2>3. file \in Files
      BY <1>4, <2>1, <2>2 DEF File, Files, Tails
    <2>4. ReadsAs(file, Seed) /\ Inverted(file.lines)
      BY <1>4, InvertedReads
    <2>5. ViewOf(file) = [entries |-> Seed, version |-> 4, deferred |-> FALSE,
                          needsRewrite |-> TRUE, size |-> 7]
      BY <2>2, <2>4 DEF ViewOf, ReadsAs
    <2>6. ViewOf(file) \in Views /\ Rewriter(ViewOf(file))
      BY <1>2, <2>5 DEF Views, Rewriter
    <2> QED BY <2>2, <2>3, <2>4, <2>6
  <1> QED BY <1>3, <1>4 DEF Legacy

\* The view of a file that grew.
LEMMA GrownView ==
  ASSUME NEW file, Grown(file), ~file.corrupt
  PROVE  /\ ViewOf(file) \in Views
         /\ ViewOf(file).entries = file.lines
         /\ ViewOf(file).size = file.size
         /\ ViewOf(file).deferred = FALSE
         /\ ~Rewriter(ViewOf(file))
  <1>1. file \in Files /\ file.version = 4
    BY DEF Grown
  <1>2. Entries(file) = file.lines /\ ~Inverted(file.lines)
    BY GrownReads DEF ReadsAs
  <1>3. Inverted(file.lines) = FALSE
    BY <1>2 DEF Inverted
  <1>4. ViewOf(file) = [entries |-> file.lines, version |-> 4, deferred |-> FALSE,
                        needsRewrite |-> FALSE, size |-> file.size]
    BY <1>1, <1>2, <1>3 DEF ViewOf
  <1> QED BY <1>1, <1>4 DEF Files, Views, Rewriter

-----------------------------------------------------------------------------
(* The fence, whatever happens to the file.                                *)

\* Sequences, without regard to their elements.
LEMMA SequenceFacts ==
  ASSUME NEW s, IsSequence(s)
  PROVE  Len(s) \in Nat /\ DOMAIN s = 1 .. Len(s)
  BY DEF IsSequence

\* A sequence over any set is one over its own elements.
LEMMA OwnElements ==
  ASSUME NEW S, NEW s \in Seq(S)
  PROVE  IsSequence(s)
  BY DEF IsSequence

\* One more file: `longer' is `s' and x.
Added(longer, s, x) ==
  /\ IsSequence(longer)
  /\ Len(longer) = Len(s) + 1
  /\ longer[Len(s) + 1] = x
  /\ \A n \in DOMAIN s : longer[n] = s[n]

\* Append adds one file and leaves the others.
LEMMA FilesAppended ==
  ASSUME NEW s, IsSequence(s), NEW x, NEW t, t = Append(s, x)
  PROVE  Added(t, s, x)
  <1> DEFINE S == {s[n] : n \in DOMAIN s}
  <1>1. s \in Seq(S)
    BY DEF IsSequence
  <1> HIDE DEF S
  <1>2. s \in Seq(S \union {x})
    BY <1>1
  <1>3. t \in Seq(S \union {x})
    BY <1>2
  <1>4. /\ Len(t) = Len(s) + 1 /\ t[Len(s) + 1] = x
        /\ \A n \in DOMAIN s : t[n] = s[n]
    BY <1>1
  <1>5. IsSequence(t)
    BY <1>3, OwnElements
  <1> QED BY <1>4, <1>5 DEF Added

\* One file written: `other' is `s' with x at n.
Written(other, s, n, x) ==
  /\ IsSequence(other)
  /\ Len(other) = Len(s)
  /\ other[n] = x
  /\ \A k \in DOMAIN s \ {n} : other[k] = s[k]

\* An assignment to one inode leaves the others.
LEMMA FilesWritten ==
  ASSUME NEW s, IsSequence(s), NEW n \in DOMAIN s, NEW x,
         NEW t, t = [s EXCEPT ![n] = x]
  PROVE  Written(t, s, n, x)
  <1> DEFINE S == {s[k] : k \in DOMAIN s}
  <1>1. s \in Seq(S)
    BY DEF IsSequence
  <1> HIDE DEF S
  <1>2. s \in Seq(S \union {x})
    BY <1>1
  <1>3. t \in Seq(S \union {x})
    BY <1>2
  <1>4. /\ Len(t) = Len(s) /\ t[n] = x
        /\ \A k \in DOMAIN s \ {n} : t[k] = s[k]
    BY <1>1
  <1>5. IsSequence(t)
    BY <1>3, OwnElements
  <1> QED BY <1>4, <1>5 DEF Written

\* A step that drops the fence of an instance, if it has one.
LEMMA ReleaseKeepsFence ==
  ASSUME Shape, Fence, NEW i \in Instances, NEW label \in {"idle", "absent"},
         Goto(i, label), Release(i)
  PROVE  /\ Fence'
         /\ holder' \in [1 .. MaxInodes -> SUBSET Instances]
         /\ pc' \in [Instances -> PCs]
         /\ fd' \in [Instances -> 0 .. Len(files)]
  <1>1. /\ holder' = [n \in 1 .. MaxInodes |-> holder[n] \ {i}]
        /\ fd' = [fd EXCEPT ![i] = None]
        /\ pc' = [pc EXCEPT ![i] = label]
    BY DEF Shape, Goto, Release
  <1>2. /\ holder' \in [1 .. MaxInodes -> SUBSET Instances]
        /\ pc' \in [Instances -> PCs]
        /\ fd' \in [Instances -> 0 .. Len(files)]
    BY <1>1 DEF Shape, PCs, None
  <1>3. ASSUME NEW k \in Instances
        PROVE  /\ pc'[k] \in Closed => fd'[k] = None
               /\ pc'[k] \in {"reading", "locking", "fenced"} => fd'[k] # None
               /\ \A n \in 1 .. MaxInodes :
                    k \in holder'[n] <=> pc'[k] \in {"fenced", "write"} /\ fd'[k] = n
               /\ \A j \in Instances, n \in 1 .. MaxInodes :
                    k \in holder'[n] /\ j \in holder'[n] => k = j
    <2>1. CASE k = i
      BY <1>1, <2>1 DEF Shape
    <2>2. CASE k # i
      <3>1. pc'[k] = pc[k] /\ fd'[k] = fd[k]
        BY <1>1, <2>2 DEF Shape
      <3>2. \A n \in 1 .. MaxInodes : k \in holder'[n] <=> k \in holder[n]
        BY <1>1, <2>2
      <3>3. \A j \in Instances, n \in 1 .. MaxInodes :
              j \in holder'[n] => j \in holder[n]
        BY <1>1
      <3> QED BY <3>1, <3>2, <3>3 DEF Fence
    <2> QED BY <2>1, <2>2
  <1> QED BY <1>2, <1>3 DEF Fence

\* A step of an instance without a fence that opens or closes a file.
LEMMA GotoKeepsFence ==
  ASSUME Shape, Fence, NEW i \in Instances, NEW label \in PCs, NEW n \in 0 .. Len(files),
         Goto(i, label), fd' = [fd EXCEPT ![i] = n], holder' = holder,
         pc[i] \in {"fenced", "write"} <=> label \in {"fenced", "write"},
         pc[i] \in {"fenced", "write"} => n = fd[i],
         label \in Closed => n = None,
         label \in {"reading", "locking", "fenced"} => n # None
  PROVE  Fence'
  <1>1. pc' = [pc EXCEPT ![i] = label]
    BY DEF Goto
  <1>2. ASSUME NEW k \in Instances
        PROVE  /\ pc'[k] \in Closed => fd'[k] = None
               /\ pc'[k] \in {"reading", "locking", "fenced"} => fd'[k] # None
               /\ \A m \in 1 .. MaxInodes :
                    k \in holder'[m] <=> pc'[k] \in {"fenced", "write"} /\ fd'[k] = m
               /\ \A j \in Instances, m \in 1 .. MaxInodes :
                    k \in holder'[m] /\ j \in holder'[m] => k = j
    <2>1. CASE k = i
      <3>1. pc'[k] = label /\ fd'[k] = n
        BY <1>1, <2>1 DEF Shape
      <3>2. ASSUME NEW m \in 1 .. MaxInodes
            PROVE  k \in holder'[m] <=> pc'[k] \in {"fenced", "write"} /\ fd'[k] = m
        BY <2>1, <3>1 DEF Fence
      <3> QED BY <2>1, <3>1, <3>2 DEF Fence
    <2>2. CASE k # i
      BY <1>1, <2>2 DEF Shape, Fence
    <2> QED BY <2>1, <2>2
  <1> QED BY <1>2 DEF Fence

\* The initial states.
LEMMA InitShape == Init => Shape /\ Fence
  <1> SUFFICES ASSUME Init PROVE Shape /\ Fence
    OBVIOUS
  <1>1. IsSequence(files) /\ Len(files) =< 1
    <2>1. PICK origin \in Origins : files = FilesAtStart(origin)
      BY DEF Init
    <2>2. PICK x : files = <<>> \/ files = <<x>>
      BY <2>1, JournalAssumption DEF FilesAtStart
    <2>3. CASE files = <<>>
      <3>1. files \in Seq({x}) /\ Len(files) =< 1
        BY <2>3
      <3> QED BY <3>1, OwnElements
    <2>4. CASE files = <<x>>
      <3>1. files \in Seq({x}) /\ Len(files) =< 1
        BY <2>4
      <3> QED BY <3>1, OwnElements
    <2> QED BY <2>2, <2>3, <2>4
  <1>2. path = Len(files) /\ Len(files) \in Nat
    BY <1>1, SequenceFacts DEF Init
  <1>3. /\ holder \in [1 .. MaxInodes -> SUBSET Instances]
        /\ \A n \in 1 .. MaxInodes : holder[n] = {}
    BY DEF Init
  <1>4. /\ pc \in [Instances -> PCs]
        /\ \A i \in Instances : pc[i] \in {"idle", "absent"}
    BY DEF Init, PCs
  <1>5. /\ DOMAIN view = Instances /\ DOMAIN row = Instances
        /\ durable \in [Instances -> BOOLEAN]
        /\ DOMAIN tries = Instances
        /\ removals \in Nat /\ crashes \in Nat /\ tears \in Nat
    BY DEF Init
  <1>6. fd \in [Instances -> 0 .. Len(files)] /\ \A i \in Instances : fd[i] = None
    BY <1>2 DEF Init, None
  <1>7. Shape
    BY <1>1, <1>2, <1>3, <1>4, <1>5, <1>6, JournalAssumption DEF Shape
  <1>8. Fence
    BY <1>3, <1>4, <1>6 DEF Fence
  <1> QED BY <1>7, <1>8

\* Only an instance that may write through its descriptor does.
LEMMA WritesThrough ==
  ASSUME Shape, NEW i \in Instances, Writes(i)
  PROVE  fd[i] # None /\ ~view[i].deferred /\ ~(view[i].version < 4)
         /\ ~view[i].needsRewrite
  BY DEF Shape, Writes, Buffers, Rewrites

\* Every step keeps the shape of the state and the fence.
LEMMA ShapeStep ==
  ASSUME Shape, Fence, Next
  PROVE  Shape' /\ Fence'
  <1>1. Len(files) \in Nat /\ DOMAIN files = 1 .. Len(files)
    BY SequenceFacts DEF Shape
  <1>17. None \in 0 .. Len(files) /\ path \in 0 .. Len(files)
    <2>1. path \in {None, Len(files)}
      BY DEF Shape
    <2> DEFINE n == Len(files)
    <2>2. n \in Nat /\ path \in {None, n}
      BY <1>1, <2>1
    <2> HIDE DEF n
    <2>3. None \in 0 .. n /\ path \in 0 .. n
      BY <2>2 DEF None
    <2> QED BY <2>3 DEF n
  <1>2. ASSUME NEW i \in Instances, Open(i)
        PROVE  Shape' /\ Fence'
    <2>1. path \in 0 .. Len(files) /\ path # None
      BY <1>17, <1>2 DEF Open
    <2>2. Goto(i, "reading") /\ fd' = [fd EXCEPT ![i] = path] /\ holder' = holder
      BY <1>2 DEF Open, disk
    <2>3. Fence'
      BY <1>2, <2>1, <2>2, GotoKeepsFence DEF Open, PCs, Closed
    <2>4. Shape'
      BY <1>2, <2>1 DEF Shape, Open, Goto, PCs, disk, append, faults
    <2> QED BY <2>3, <2>4
  <1>3. ASSUME NEW i \in Instances, Read(i)
        PROVE  Shape' /\ Fence'
    <2>1. PICK label \in {"idle", "unreadable"} : Goto(i, label)
      BY <1>3 DEF Read
    <2>2. fd' = [fd EXCEPT ![i] = None] /\ holder' = holder
      BY <1>3 DEF Read, disk
    <2>3. Fence'
      <3>1. pc[i] = "reading"
        BY <1>3 DEF Read
      <3> QED BY <1>17, <2>1, <2>2, <3>1, GotoKeepsFence DEF PCs, Closed
    <2>4. DOMAIN view' = Instances
      BY <1>3 DEF Read, Shape
    <2>5. Shape'
      BY <1>17, <1>3, <2>1, <2>2, <2>4 DEF Shape, Read, Goto, PCs, disk, append, faults
    <2> QED BY <2>3, <2>5
  <1>4. ASSUME NEW i \in Instances, AppendEntry(i)
        PROVE  Shape' /\ Fence'
    <2>1. Goto(i, "fence") /\ fd' = fd /\ holder' = holder
      BY <1>4 DEF AppendEntry, disk
    <2>2. fd' = [fd EXCEPT ![i] = None]
      BY <1>4, <2>1 DEF AppendEntry, Shape, Fence, Closed
    <2>3. Fence'
      <3>1. pc[i] = "idle"
        BY <1>4 DEF AppendEntry
      <3> QED BY <1>17, <2>1, <2>2, <3>1, GotoKeepsFence DEF PCs, Closed
    <2>4. DOMAIN row' = Instances /\ durable' \in [Instances -> BOOLEAN]
      BY <1>4 DEF AppendEntry, Shape
    <2>5. Shape'
      BY <1>4, <2>4 DEF Shape, AppendEntry, Goto, PCs, disk, faults
    <2> QED BY <2>3, <2>5
  <1>5. ASSUME NEW i \in Instances, LookForFile(i)
        PROVE  Shape' /\ Fence'
    <2>1. PICK label \in {"write", "opening"} :
            Goto(i, label) /\ (label = "write" <=> path = None)
      BY <1>5 DEF LookForFile
    <2>2. fd' = fd /\ holder' = holder /\ fd[i] = None
      BY <1>5 DEF LookForFile, disk, Fence, Closed
    <2>3. Fence'
      BY <1>5, <2>1, <2>2 DEF Fence, Shape, Goto, Closed, LookForFile, None
    <2>4. Shape'
      BY <1>5, <2>1 DEF Shape, LookForFile, Goto, PCs, disk, append, faults
    <2> QED BY <2>3, <2>4
  <1>6. ASSUME NEW i \in Instances, NEW label \in {"idle", "absent"},
               Goto(i, label), Release(i), Clear(i), DOMAIN view' = Instances,
               IsSequence(files'),
               Len(files') \in Len(files) .. MaxInodes,
               path' \in {None, Len(files')},
               removals' \in Nat, crashes' \in Nat, tears' \in Nat
        PROVE  Shape' /\ Fence'
    <2>1. /\ Fence'
          /\ holder' \in [1 .. MaxInodes -> SUBSET Instances]
          /\ pc' \in [Instances -> PCs]
          /\ fd' \in [Instances -> 0 .. Len(files)]
      BY <1>6, ReleaseKeepsFence
    <2>2. Len(files') =< MaxInodes /\ fd' \in [Instances -> 0 .. Len(files')]
      BY <1>1, <1>6, <2>1, JournalAssumption
    <2>3. /\ DOMAIN row' = Instances /\ durable' \in [Instances -> BOOLEAN]
          /\ DOMAIN tries' = Instances
      BY <1>6 DEF Clear, Shape
    <2>4. Shape'
      BY <1>6, <2>1, <2>2, <2>3 DEF Shape
    <2> QED BY <2>1, <2>4
  <1>7. Len(files) \in Len(files) .. MaxInodes
    BY <1>1, JournalAssumption DEF Shape
  <1>8. ASSUME NEW i \in Instances, OpenFence(i)
        PROVE  Shape' /\ Fence'
    <2>1. CASE path = None
      BY <1>6, <1>7, <1>8, <2>1 DEF OpenFence, Return, Shape, faults
    <2>2. CASE path # None
      <3>1. path \in 0 .. Len(files)
        BY <1>17
      <3>2. Goto(i, "locking") /\ fd' = [fd EXCEPT ![i] = path] /\ holder' = holder
        BY <1>8, <2>2 DEF OpenFence
      <3>3. Fence'
        BY <1>8, <2>2, <3>1, <3>2, GotoKeepsFence DEF OpenFence, PCs, Closed
      <3>4. Shape'
        BY <1>8, <2>2, <3>1, <3>2 DEF Shape, OpenFence, Goto, PCs, append, faults
      <3> QED BY <3>3, <3>4
    <2> QED BY <2>1, <2>2
  <1>9. ASSUME NEW i \in Instances, LockFence(i)
        PROVE  Shape' /\ Fence'
    <2>1. UNCHANGED <<path, files, view, acked, faults>> /\ pc[i] = "locking"
      BY <1>9 DEF LockFence
    <2>2. fd[i] \in 1 .. MaxInodes /\ fd[i] # None
      <3>1. fd[i] \in 0 .. Len(files) /\ Len(files) =< MaxInodes
        BY DEF Shape
      <3>2. fd[i] # 0
        BY <2>1 DEF Fence, None
      <3> QED BY <1>1, <3>1, <3>2, JournalAssumption DEF None
    <2>3. CASE /\ path = fd[i]
               /\ holder' = [holder EXCEPT ![fd[i]] = {i}]
               /\ Goto(i, "fenced")
               /\ UNCHANGED <<fd, append>>
      <3>1. pc' = [pc EXCEPT ![i] = "fenced"] /\ fd' = fd
        BY <2>3 DEF Goto
      <3>2. holder[fd[i]] = {}
        BY <1>9 DEF LockFence
      <3>3. Fence'
        <4>1. ASSUME NEW k \in Instances
              PROVE  /\ pc'[k] \in Closed => fd'[k] = None
                     /\ pc'[k] \in {"reading", "locking", "fenced"} => fd'[k] # None
          BY <2>2, <3>1 DEF Fence, Shape, Closed
        <4>2. ASSUME NEW k \in Instances, NEW n \in 1 .. MaxInodes
              PROVE  k \in holder'[n] <=> pc'[k] \in {"fenced", "write"} /\ fd'[k] = n
          <5>1. CASE k = i
            <6>1. pc'[k] = "fenced" /\ fd'[k] = fd[i]
              BY <3>1, <5>1 DEF Shape
            <6>2. k \in holder'[n] <=> fd[i] = n
              BY <2>1, <2>2, <2>3, <5>1 DEF Fence, Shape
            <6> QED BY <6>1, <6>2
          <5>2. CASE k # i
            <6>1. pc'[k] = pc[k] /\ fd'[k] = fd[k]
              BY <3>1, <5>2 DEF Shape
            <6>2. k \in holder'[n] <=> k \in holder[n]
              BY <2>2, <2>3, <3>2, <5>2 DEF Shape
            <6> QED BY <6>1, <6>2 DEF Fence
          <5> QED BY <5>1, <5>2
        <4>3. ASSUME NEW k \in Instances, NEW j \in Instances, NEW n \in 1 .. MaxInodes,
                     k \in holder'[n], j \in holder'[n]
              PROVE  k = j
          BY <2>2, <2>3, <4>3 DEF Fence, Shape
        <4> QED BY <4>1, <4>2, <4>3 DEF Fence
      <3>4. holder' \in [1 .. MaxInodes -> SUBSET Instances]
        BY <2>2, <2>3 DEF Shape
      <3>5. Shape'
        BY <2>1, <2>3, <3>1, <3>4 DEF Shape, PCs, append, faults
      <3> QED BY <3>3, <3>5
    <2>4. CASE Return(i)
      BY <1>6, <1>7, <2>1, <2>4 DEF Return, Shape, faults
    <2>5. CASE /\ tries' = [tries EXCEPT ![i] = @ + 1]
               /\ fd' = [fd EXCEPT ![i] = None]
               /\ Goto(i, "fence")
               /\ UNCHANGED <<holder, row, durable>>
      <3>1. Fence'
        BY <1>17, <2>1, <2>5, GotoKeepsFence DEF PCs, Closed
      <3>2. Shape'
        BY <1>17, <2>1, <2>5 DEF Shape, Goto, PCs, faults
      <3> QED BY <3>1, <3>2
    <2> QED BY <1>9, <2>3, <2>4, <2>5 DEF LockFence
  <1>10. ASSUME NEW i \in Instances, Refresh(i)
         PROVE  Shape' /\ Fence'
    <2>1. UNCHANGED <<path, files, acked, faults>> /\ pc[i] = "fenced" /\ DOMAIN view' = Instances
      BY <1>10 DEF Refresh, Shape
    <2>2. CASE Return(i)
      BY <1>6, <1>7, <2>1, <2>2 DEF Return, Shape, faults
    <2>3. CASE Goto(i, "write") /\ UNCHANGED <<holder, fd, durable, tries>>
               /\ DOMAIN row' = Instances
      <3>1. fd' = [fd EXCEPT ![i] = fd[i]] /\ fd[i] \in 0 .. Len(files)
        BY <2>3 DEF Shape
      <3>2. Fence'
        BY <2>1, <2>3, <3>1, GotoKeepsFence DEF PCs, Closed
      <3>3. Shape'
        BY <2>1, <2>3 DEF Shape, Goto, PCs, faults
      <3> QED BY <3>2, <3>3
    <2> QED BY <1>10, <2>2, <2>3 DEF Refresh, Shape, append
  <1>11. ASSUME NEW i \in Instances, Refuse(i) \/ Buffer(i)
         PROVE  Shape' /\ Fence'
    <2>1. UNCHANGED <<path, files, acked, faults>> /\ Return(i) /\ DOMAIN view' = Instances
      BY <1>11 DEF Refuse, Buffer, Shape
    <2> QED BY <1>6, <1>7, <2>1 DEF Return, Shape, faults
  <1>12. ASSUME NEW i \in Instances, Rewrite(i)
         PROVE  Shape' /\ Fence'
    <2>1. files' = Append(files, Rewritten(i)) /\ path' = Len(files') /\ Return(i)
          /\ DOMAIN view' = Instances /\ UNCHANGED faults /\ Len(files) < MaxInodes
      BY <1>12 DEF Rewrite, Shape
    <2>2. /\ IsSequence(files')
          /\ Len(files') = Len(files) + 1
      BY <2>1, FilesAppended DEF Shape, Added
    <2>3. Len(files') \in Len(files) .. MaxInodes
      BY <1>1, <2>1, <2>2, JournalAssumption
    <2> QED BY <1>6, <2>1, <2>2, <2>3 DEF Return, Shape, faults
  <1>13. ASSUME NEW i \in Instances, AppendLine(i)
         PROVE  Shape' /\ Fence'
    <2>1. /\ files' = [files EXCEPT ![fd[i]] = WithLine(files[fd[i]], Stamped(i))]
          /\ path' = path /\ Return(i) /\ DOMAIN view' = Instances /\ UNCHANGED faults
      BY <1>13 DEF AppendLine, Shape
    <2>2. fd[i] \in DOMAIN files
      <3>1. fd[i] # 0
        BY <1>13, WritesThrough DEF AppendLine, None
      <3>2. fd[i] \in 0 .. Len(files)
        BY DEF Shape
      <3> QED BY <1>1, <3>1, <3>2
    <2>3. /\ IsSequence(files')
          /\ Len(files') = Len(files)
      <3>1. PICK x : files' = [files EXCEPT ![fd[i]] = x]
        BY <2>1
      <3>2. IsSequence(files)
        BY DEF Shape
      <3>3. Written(files', files, fd[i], x)
        BY <2>2, <3>1, <3>2, FilesWritten
      <3> QED BY <3>3 DEF Written
    <2> QED BY <1>6, <1>7, <2>1, <2>3 DEF Return, Shape, faults
  <1>14. ASSUME NEW i \in Instances, TearLine(i)
         PROVE  Shape' /\ Fence'
    <2>1. PICK tail \in {"torn", "bare"} :
            files' = [files EXCEPT ![fd[i]] = CutLine(files[fd[i]], Stamped(i), tail)]
      BY <1>14 DEF TearLine
    <2>2. /\ path' = path /\ DOMAIN view' = Instances
          /\ crashes' \in Nat /\ tears' \in Nat /\ removals' \in Nat
      BY <1>14 DEF TearLine, Forget, Shape
    <2>3. fd[i] \in DOMAIN files
      <3>1. fd[i] # 0
        BY <1>14, WritesThrough DEF TearLine, None
      <3>2. fd[i] \in 0 .. Len(files)
        BY DEF Shape
      <3> QED BY <1>1, <3>1, <3>2
    <2>4. /\ IsSequence(files')
          /\ Len(files') = Len(files)
      <3>1. PICK x : files' = [files EXCEPT ![fd[i]] = x]
        BY <2>1
      <3>2. IsSequence(files)
        BY DEF Shape
      <3>3. Written(files', files, fd[i], x)
        BY <2>3, <3>1, <3>2, FilesWritten
      <3> QED BY <3>3 DEF Written
    <2>5. PICK label \in {"idle", "absent"} : Goto(i, label) /\ Release(i) /\ Clear(i)
      BY <1>14 DEF TearLine, Forget, Return
    <2> QED BY <1>6, <1>7, <2>2, <2>4, <2>5 DEF Shape
  <1>15. ASSUME NEW i \in Instances, Crash(i)
         PROVE  Shape' /\ Fence'
    BY <1>6, <1>7, <1>15 DEF Crash, Forget, Shape
  <1>16. ASSUME Remove
         PROVE  Shape' /\ Fence'
    BY <1>16 DEF Remove, Shape, Fence
  <1> QED BY <1>2, <1>3, <1>4, <1>5, <1>8, <1>9, <1>10, <1>11, <1>12, <1>13,
             <1>14, <1>15, <1>16 DEF Next, Step

-----------------------------------------------------------------------------
(* What the actions do to files, views and rows.                           *)

\* What a reader learns from a file that is fit to be read.
Readable(file) ==
  /\ file \in Files
  /\ Parses(file)
  /\ Entries(file) = Lines(file)
  /\ Chain(Lines(file))
  /\ Ids(file.lines) = Ids(Lines(file))
  /\ ViewOf(file) \in Views
  /\ ViewOf(file).size = file.size
  /\ ViewOf(file).deferred = FALSE
  /\ InStep(ViewOf(file), file)
  /\ Rewriter(ViewOf(file)) => ViewOf(file).entries = Seed /\ ViewOf(file).size =< 7

\* Legacy files and files that grew are fit to be read.
LEMMA FilesAreReadable ==
  ASSUME NEW file, Legacy(file) \/ Grown(file), ~file.corrupt
  PROVE  Readable(file)
  <1>1. CASE Legacy(file)
    <2>1. Lines(file) = Seed
      BY <1>1 DEF Lines
    <2>2. /\ file \in Files /\ file.size =< 7 /\ ReadsAs(file, Seed)
          /\ ViewOf(file) \in Views /\ Rewriter(ViewOf(file))
      BY <1>1, LegacyReads
    <2>3. /\ ViewOf(file).size = file.size /\ ViewOf(file).deferred = FALSE
          /\ ViewOf(file).entries = Seed
      BY <2>2 DEF ViewOf, ReadsAs
    <2>4. Ids(file.lines) = {1, 2}
      <3>1. \/ file.lines = <<Root(0), Child(0)>>
            \/ file.lines = <<Child(1), Root(0)>>
        BY <1>1 DEF Legacy, File
      <3>2. DOMAIN file.lines = {1, 2}
        BY <3>1
      <3>3. {file.lines[1].id, file.lines[2].id} = {1, 2}
        BY <3>1 DEF Root, Child
      <3> QED BY <3>2, <3>3 DEF Ids
    <2> QED BY <1>1, <2>1, <2>2, <2>3, <2>4, SeedIsChain DEF Readable, InStep, ReadsAs
  <1>2. CASE Grown(file)
    <2>1. ~Legacy(file) /\ Lines(file) = file.lines
      BY <1>2, GrownIsNotLegacy DEF Lines
    <2>2. ReadsAs(file, file.lines)
      BY <1>2, GrownReads
    <2>3. /\ ViewOf(file) \in Views /\ ViewOf(file).entries = file.lines
          /\ ViewOf(file).size = file.size /\ ViewOf(file).deferred = FALSE
          /\ ~Rewriter(ViewOf(file))
      BY <1>2, GrownView
    <2>4. file \in Files /\ Chain(file.lines)
      BY <1>2 DEF Grown
    <2> QED BY <2>1, <2>2, <2>3, <2>4 DEF Readable, InStep, ReadsAs
  <1> QED BY <1>1, <1>2

\* The cursor of a chain names one of its rows, or none.
LEMMA ChainCursor ==
  ASSUME NEW rows, Chain(rows)
  PROVE  Leaf(rows) \in Ids(rows) \union {NoRow}
  <1>1. DOMAIN rows = 1 .. Len(rows) /\ Len(rows) \in Nat /\ rows \in Seq(Rows)
    BY DEF Chain
  <1>2. CASE rows = <<>>
    BY <1>2 DEF Leaf
  <1>3. CASE rows # <<>>
    <2> DEFINE n == Len(rows)
    <2>1. n \in DOMAIN rows /\ Leaf(rows) = rows[n].target
      <3>1. n # 0
        BY <1>1, <1>3
      <3> QED BY <1>1, <1>3, <3>1 DEF Leaf
    <2>2. CASE rows[n].target = NoRow
      BY <2>1, <2>2
    <2>3. CASE rows[n].target # NoRow
      <3>1. PICK j \in 1 .. n : rows[j].id = rows[n].target
        BY <2>1, <2>3 DEF Chain
      <3>2. j \in DOMAIN rows
        BY <1>1, <2>1
      <3> QED BY <2>1, <3>1, <3>2 DEF Ids
    <2> QED BY <2>2, <2>3
  <1> QED BY <1>2, <1>3

\* The ids of a chain are ids of the session.
LEMMA ChainIdTypes ==
  ASSUME NEW rows, Chain(rows)
  PROVE  Ids(rows) \subseteq {1, 2} \union NewIds
  <1>1. ASSUME NEW k \in DOMAIN rows PROVE rows[k].id \in {1, 2} \union NewIds
    <2>1. rows[k] \in Rows
      BY DEF Chain
    <2> QED BY <2>1 DEF Rows
  <1> QED BY <1>1 DEF Ids

\* The stamped row makes the chain of its instance one longer.
LEMMA StampedFits ==
  ASSUME NEW i \in Instances, Chain(view[i].entries), RowFits(i)
  PROVE  /\ Stamped(i) \in Rows
         /\ Stamped(i).id = row[i].id
         /\ Chain(Append(view[i].entries, Stamped(i)))
         /\ ParentKnown(i)
  <1> DEFINE rows == view[i].entries
             p == row[i].parent
             depth == IF p = NoRow THEN 0 ELSE rows[Position(rows, p)].seq + 1
  <1>1. p \in Ids(rows) \union {NoRow}
    BY ChainCursor DEF RowFits
  <1>2. depth \in Nat
    <2>1. CASE p = NoRow
      BY <2>1
    <2>2. CASE p # NoRow
      <3>1. PICK j \in DOMAIN rows : rows[j].id = p
        BY <1>1, <2>2 DEF Ids
      <3>2. Position(rows, p) = j
        BY <3>1, ChainIds, PositionOf
      <3>3. rows[j] \in Rows
        BY DEF Chain
      <3>4. rows[j].seq \in Nat
        BY <3>3 DEF Rows
      <3> QED BY <2>2, <3>2, <3>4
    <2> QED BY <2>1, <2>2
  <1>3. Stamped(i) = [row[i] EXCEPT !.seq = depth]
    BY DEF Stamped
  <1> HIDE DEF depth
  <1>4. /\ Stamped(i) \in Rows /\ Stamped(i).id = row[i].id
        /\ Stamped(i).parent = p /\ Stamped(i).target = row[i].target
        /\ Stamped(i).seq = depth
    BY <1>2, <1>3 DEF RowFits, Rows
  <1>5. Chain(Append(rows, Stamped(i)))
    BY <1>4, ChainAppend DEF RowFits, depth
  <1> QED BY <1>1, <1>4, <1>5 DEF ParentKnown

\* The ids of a longer sequence of rows.
LEMMA IdsAppended ==
  ASSUME NEW rows \in Seq(Rows), NEW r \in Rows
  PROVE  Ids(Append(rows, r)) = Ids(rows) \union {r.id}
  <1> DEFINE t == Append(rows, r)
             n == Len(rows)
  <1>1. n \in Nat /\ DOMAIN rows = 1 .. n /\ DOMAIN t = 1 .. (n + 1)
    OBVIOUS
  <1>2. t[n + 1] = r /\ \A k \in 1 .. n : t[k] = rows[k]
    OBVIOUS
  <1>3. 1 .. (n + 1) = (1 .. n) \union {n + 1}
    BY <1>1
  <1> HIDE DEF t, n
  <1>4. Ids(t) = Ids(rows) \union {r.id}
    BY <1>1, <1>2, <1>3 DEF Ids
  <1> QED BY <1>4 DEF t

\* A prefix has no ids of its own, and stays one when the other grows.
LEMMA PrefixFacts ==
  ASSUME NEW rows \in Seq(Rows), NEW longer \in Seq(Rows), Prefix(rows, longer)
  PROVE  /\ Ids(rows) \subseteq Ids(longer)
         /\ \A r \in Rows : Prefix(rows, Append(longer, r))
  <1>1. /\ DOMAIN rows = 1 .. Len(rows) /\ Len(rows) \in Nat
        /\ DOMAIN longer = 1 .. Len(longer) /\ Len(longer) \in Nat
    OBVIOUS
  <1>2. \A k \in DOMAIN rows : k \in DOMAIN longer /\ rows[k] = longer[k]
    BY <1>1 DEF Prefix
  <1>3. ASSUME NEW r \in Rows PROVE Prefix(rows, Append(longer, r))
    <2> DEFINE t == Append(longer, r)
    <2>1. Len(t) = Len(longer) + 1 /\ \A k \in DOMAIN longer : t[k] = longer[k]
      OBVIOUS
    <2> HIDE DEF t
    <2>2. Len(rows) =< Len(t)
      BY <1>1, <2>1 DEF Prefix
    <2>3. Prefix(rows, t)
      BY <1>2, <2>1, <2>2 DEF Prefix
    <2> QED BY <2>3 DEF t
  <1> QED BY <1>2, <1>3 DEF Ids

\* Rows are a prefix of themselves.
LEMMA PrefixSelf ==
  ASSUME NEW rows \in Seq(Rows)
  PROVE  Prefix(rows, rows)
  BY DEF Prefix

\* A file is the record of its fields.
LEMMA FileFields ==
  ASSUME NEW v \in {3, 4}, NEW l \in Seq(Rows), NEW t \in Tails, NEW c \in BOOLEAN,
         NEW z \in Nat, NEW g,
         g = [version |-> v, lines |-> l, tail |-> t, corrupt |-> c, size |-> z]
  PROVE  /\ g \in Files
         /\ g.version = v /\ g.lines = l /\ g.tail = t /\ g.corrupt = c /\ g.size = z
  BY DEF Files

\* What a write leaves of a file, whole or cut short.
Grows(file, longer, line) ==
  /\ Grown(longer)
  /\ file.size < longer.size
  /\ ~longer.corrupt => /\ ~file.corrupt
                        /\ longer.lines \in {file.lines, Append(file.lines, line)}

\* A whole line.
LEMMA LineGrows ==
  ASSUME NEW file, Grown(file), NEW line \in Rows,
         ~file.corrupt => Chain(Append(file.lines, line))
  PROVE  /\ Grows(file, WithLine(file, line), line)
         /\ WithLine(file, line).size = file.size + 3
         /\ ~WithLine(file, line).corrupt =>
              WithLine(file, line).lines = Append(file.lines, line)
         /\ file.tail = "newline" /\ ~file.corrupt =>
              ~WithLine(file, line).corrupt /\ WithLine(file, line).tail = "newline"
  <1>1. /\ file \in Files /\ file.version = 4 /\ file.size \in Nat
        /\ file.lines \in Seq(Rows) /\ file.corrupt \in BOOLEAN
    BY DEF Grown, Files
  <1>2. CASE Glues(file)
    <2>5. PICK g : g = [file EXCEPT !.tail = "newline", !.corrupt = TRUE, !.size = @ + 3]
      OBVIOUS
    <2>1. WithLine(file, line) = g
      BY <1>2, <2>5 DEF WithLine
    <2>2. /\ g \in Files /\ g.version = 4 /\ g.corrupt /\ g.size = file.size + 3
      <3>1. g = [version |-> 4, lines |-> file.lines, tail |-> "newline",
               corrupt |-> TRUE, size |-> file.size + 3]
        BY <1>1, <2>5 DEF Files
      <3>2. file.size + 3 \in Nat
        BY <1>1
      <3>3. PICK c \in BOOLEAN : c
        OBVIOUS
      <3>4. g = [version |-> 4, lines |-> file.lines, tail |-> "newline",
                 corrupt |-> c, size |-> file.size + 3]
        BY <3>1, <3>3
      <3>5. g \in Files
        BY <1>1, <3>2, <3>4 DEF Files, Tails
      <3>6. g.version = 4 /\ g.size = file.size + 3
        BY <3>4
      <3>7. g.corrupt
        BY <3>3, <3>4
      <3> QED BY <3>5, <3>6, <3>7
    <2> QED BY <1>1, <1>2, <2>1, <2>2 DEF Grows, Grown, Glues
  <1>3. CASE ~Glues(file)
    <2> DEFINE longer == Append(file.lines, line)
    <2>5. PICK g : g = [file EXCEPT !.lines = Append(@, line), !.size = @ + 3]
      OBVIOUS
    <2>1. WithLine(file, line) = g
      BY <1>3, <2>5 DEF WithLine
    <2>2. longer \in Seq(Rows)
      BY <1>1
    <2> HIDE DEF longer
    <2>4. /\ g \in Files /\ g.lines = longer /\ g.version = 4 /\ g.corrupt = file.corrupt
          /\ g.size = file.size + 3 /\ g.tail = file.tail
      <3>1. g = [version |-> 4, lines |-> longer, tail |-> file.tail,
               corrupt |-> file.corrupt, size |-> file.size + 3]
        BY <1>1, <2>5 DEF Files, longer
      <3>2. file.size + 3 \in Nat
        BY <1>1
      <3> QED BY <1>1, <2>2, <3>1, <3>2, FileFields DEF Files
    <2> QED BY <1>1, <1>3, <2>1, <2>4 DEF Grows, Grown, Glues, longer
  <1> QED BY <1>2, <1>3

\* A line cut short.
LEMMA CutGrows ==
  ASSUME NEW file, Grown(file), NEW line \in Rows, NEW tail \in {"torn", "bare"},
         ~file.corrupt => Chain(Append(file.lines, line))
  PROVE  Grows(file, CutLine(file, line, tail), line)
  <1>1. /\ file \in Files /\ file.version = 4 /\ file.size \in Nat
        /\ file.lines \in Seq(Rows) /\ file.corrupt \in BOOLEAN
    BY DEF Grown, Files
  <1>2. CASE Glues(file)
    <2>5. PICK g : g = [file EXCEPT !.tail = "torn", !.corrupt = TRUE, !.size = @ + 1]
      OBVIOUS
    <2>1. CutLine(file, line, tail) = g
      BY <1>2, <2>5 DEF CutLine
    <2>2. /\ g \in Files /\ g.version = 4 /\ g.corrupt /\ g.size = file.size + 1
      <3>1. g = [version |-> 4, lines |-> file.lines, tail |-> "torn",
               corrupt |-> TRUE, size |-> file.size + 1]
        BY <1>1, <2>5 DEF Files
      <3>2. file.size + 1 \in Nat
        BY <1>1
      <3>3. PICK c \in BOOLEAN : c
        OBVIOUS
      <3>4. g = [version |-> 4, lines |-> file.lines, tail |-> "torn",
                 corrupt |-> c, size |-> file.size + 1]
        BY <3>1, <3>3
      <3>5. g \in Files
        BY <1>1, <3>2, <3>4 DEF Files, Tails
      <3>6. g.version = 4 /\ g.size = file.size + 1
        BY <3>4
      <3>7. g.corrupt
        BY <3>3, <3>4
      <3> QED BY <3>5, <3>6, <3>7
    <2> QED BY <1>1, <2>1, <2>2 DEF Grows, Grown
  <1>3. CASE ~Glues(file) /\ tail = "torn"
    <2>5. PICK g : g = [file EXCEPT !.tail = "torn", !.size = @ + 1]
      OBVIOUS
    <2>1. CutLine(file, line, tail) = g
      BY <1>3, <2>5 DEF CutLine
    <2>2. /\ g \in Files /\ g.version = 4 /\ g.corrupt = file.corrupt
          /\ g.size = file.size + 1 /\ g.lines = file.lines
      <3>1. g = [version |-> 4, lines |-> file.lines, tail |-> "torn",
               corrupt |-> file.corrupt, size |-> file.size + 1]
        BY <1>1, <2>5 DEF Files
      <3>2. file.size + 1 \in Nat
        BY <1>1
      <3> QED BY <1>1, <3>1, <3>2, FileFields DEF Tails
    <2> QED BY <1>1, <2>1, <2>2 DEF Grows, Grown
  <1>4. CASE ~Glues(file) /\ tail = "bare"
    <2> DEFINE longer == Append(file.lines, line)
    <2>5. PICK g : g = [file EXCEPT !.tail = "bare", !.lines = Append(@, line),
                                 !.size = @ + 2]
      OBVIOUS
    <2>1. CutLine(file, line, tail) = g
      BY <1>4, <2>5 DEF CutLine
    <2>2. longer \in Seq(Rows)
      BY <1>1
    <2> HIDE DEF longer
    <2>4. /\ g \in Files /\ g.lines = longer /\ g.version = 4 /\ g.corrupt = file.corrupt
          /\ g.size = file.size + 2
      <3>1. g = [version |-> 4, lines |-> longer, tail |-> "bare",
               corrupt |-> file.corrupt, size |-> file.size + 2]
        BY <1>1, <2>5 DEF Files, longer
      <3>2. file.size + 2 \in Nat
        BY <1>1
      <3> QED BY <1>1, <2>2, <3>1, <3>2, FileFields DEF Tails
    <2> QED BY <1>1, <2>1, <2>4 DEF Grows, Grown, longer
  <1> QED BY <1>2, <1>3, <1>4

\* A rewritten file.
LEMMA RewrittenGrown ==
  ASSUME NEW i \in Instances, Chain(view[i].entries), RowFits(i)
  PROVE  /\ Grown(Rewritten(i))
         /\ ~Rewritten(i).corrupt /\ Rewritten(i).tail = "newline"
         /\ Rewritten(i).lines = Append(view[i].entries, Stamped(i))
         /\ Rewritten(i).size = 1 + 3 * (Len(view[i].entries) + 1)
  <1> DEFINE longer == Append(view[i].entries, Stamped(i))
  <1>1. Chain(longer)
    BY StampedFits
  <1>2. longer \in Seq(Rows) /\ Len(longer) = Len(view[i].entries) + 1
        /\ Len(view[i].entries) \in Nat
    <2>1. Stamped(i) \in Rows /\ view[i].entries \in Seq(Rows)
      BY StampedFits DEF Chain
    <2> QED BY <2>1
  <1>3. Rewritten(i) = File(4, longer)
    BY DEF Rewritten
  <1> HIDE DEF longer
  <1>4. /\ Rewritten(i).version = 4 /\ Rewritten(i).lines = longer
        /\ Rewritten(i).tail = "newline" /\ Rewritten(i).corrupt = FALSE
        /\ Rewritten(i).size = 1 + 3 * (Len(view[i].entries) + 1)
    BY <1>2, <1>3 DEF File, Header, LineSize
  <1>5. Rewritten(i) \in Files
    BY <1>2, <1>3, <1>4 DEF File, Files, Tails
  <1> QED BY <1>1, <1>4, <1>5 DEF Grown, longer

-----------------------------------------------------------------------------
(* Views, rows and file agree as long as nobody removes the file.          *)

\* The step is not one of instance j.
Stays(j) ==
  pc'[j] = pc[j] /\ view'[j] = view[j] /\ row'[j] = row[j] /\ fd'[j] = fd[j]

\* Nothing changes for an instance that stays over the same disk.
LEMMA SameDiskStays ==
  ASSUME NEW j \in Instances, Stays(j), path' = path, files' = files,
         ViewAt(j), RowAt(j)
  PROVE  ViewAt(j)' /\ RowAt(j)'
  BY DEF Stays, ViewAt, RowAt, RowFits, Corrupt

\* What is known of the file behind the path.
LEMMA PathFile ==
  ASSUME Shape, Kept, path # None
  PROVE  /\ path \in {1, 2} /\ path \in DOMAIN files /\ path = Len(files)
         /\ Legacy(files[path]) \/ Grown(files[path])
         /\ files[path] \in Files /\ files[path].size \in Nat
         /\ ~files[path].corrupt => Readable(files[path])
         /\ Parses(files[path]) => ~files[path].corrupt
         /\ files[path].corrupt => Grown(files[path])
  <1>1. Len(files) \in Nat /\ DOMAIN files = 1 .. Len(files)
    BY SequenceFacts DEF Shape
  <1>2. path = Len(files) /\ Len(files) =< 2
    BY DEF Kept, Inodes
  <1>3. path \in {1, 2} /\ path \in DOMAIN files
    BY <1>1, <1>2 DEF None
  <1>4. Legacy(files[path]) \/ Grown(files[path])
    BY DEF Kept, Inodes
  <1>5. files[path] \in Files
    BY <1>4, LegacyReads DEF Grown
  <1>6. files[path].size \in Nat
    BY <1>5 DEF Files
  <1>7. ~files[path].corrupt => Readable(files[path])
    BY <1>4, FilesAreReadable
  <1>8. files[path].corrupt => Grown(files[path])
    BY <1>4, LegacyReads
  <1> QED BY <1>2, <1>3, <1>4, <1>5, <1>6, <1>7, <1>8 DEF Parses

\* An instance that gives up its row.
LEMMA ReturnKeeps ==
  ASSUME Shape, NEW i \in Instances, ViewAt(i), RowAt(i), pc[i] \in Loaded, Return(i),
         path' = path, files' = files, view'[i] = view[i]
  PROVE  ViewAt(i)' /\ RowAt(i)'
  <1>1. pc'[i] = "idle" /\ fd'[i] = None /\ row'[i] = NewRow
    BY DEF Shape, Return, Goto, Release, Clear
  <1>2. ViewAt(i)'
    BY <1>1 DEF ViewAt, Corrupt, Loaded
  <1>3. RowAt(i)'
    BY <1>1 DEF RowAt, Loaded, Working
  <1> QED BY <1>2, <1>3

\* An instance that dies.
LEMMA ForgetKeeps ==
  ASSUME Shape, NEW i \in Instances, Forget(i)
  PROVE  ViewAt(i)' /\ RowAt(i)'
  <1>1. pc'[i] = "absent" /\ fd'[i] = None /\ row'[i] = NewRow /\ view'[i] = NoView
    BY DEF Shape, Forget, Goto, Release, Clear
  <1>2. NoView \in Views
    BY DEF NoView, Views
  <1>3. ViewAt(i)'
    BY <1>1, <1>2 DEF ViewAt, Loaded, Working
  <1>4. RowAt(i)'
    BY <1>1 DEF RowAt, Working
  <1> QED BY <1>3, <1>4

\* Who else may write does not while one instance does.
LEMMA OneWriter ==
  ASSUME Shape, Fence, Kept, NEW i \in Instances, NEW j \in Instances, path # None,
         pc[i] = "write", pc[j] \in {"fenced", "write"}
  PROVE  i = j
  <1>1. fd[i] = path /\ fd[j] = path
    BY DEF Kept, RowAt
  <1>2. path \in 1 .. MaxInodes
    BY PathFile, SequenceFacts, JournalAssumption DEF Shape
  <1> QED BY <1>1, <1>2 DEF Fence

\* Views that were behind stay behind when the file grows.
LEMMA GrowthKeepsView ==
  ASSUME Shape, Kept, NEW j \in Instances, path # None, path' = path,
         NEW g, NEW line \in Rows, Written(files', files, path, g),
         Grown(files[path]), Grows(files[path], g, line),
         view'[j] = view[j], pc[j] \in Loaded <=> pc'[j] \in Loaded
  PROVE  ViewAt(j)'
  <1> DEFINE f == files[path]
  <1>1. ViewAt(j)
    BY DEF Kept
  <1>3. files'[path'] = g /\ path' # None
    BY DEF Written
  <1>4. /\ path \in {1, 2} /\ path \in DOMAIN files
        /\ f \in Files /\ f.size \in Nat
        /\ ~f.corrupt => Readable(f)
    BY PathFile
  <1>5. Grown(g) /\ f.size < g.size /\ g.size \in Nat /\ ~Legacy(g) /\ Lines(g) = g.lines
    BY GrownIsNotLegacy DEF Grows, Grown, Files, Lines
  <1>7. CASE pc[j] \notin Loaded
    BY <1>1, <1>7 DEF ViewAt
  <1>8. CASE pc[j] \in Loaded
    <2>1. /\ view[j] \in Views /\ ~view[j].deferred
          /\ Chain(view[j].entries)
          /\ view[j].size =< f.size
          /\ ~f.corrupt => Prefix(view[j].entries, Lines(f))
          /\ Rewriter(view[j]) =>
               view[j].entries = Seed /\ view[j].size =< 7 /\ Legacy(files[1])
      BY <1>1, <1>8 DEF ViewAt, Corrupt
    <2>2. view[j].size \in Nat
      BY <2>1 DEF Views
    <2>3. view[j].size < g.size
      BY <1>4, <1>5, <2>1, <2>2
    <2>4. view[j].size =< g.size /\ view[j].size # g.size
      BY <1>5, <2>2, <2>3
    <2>5. ~Legacy(f) /\ Lines(f) = f.lines
      BY GrownIsNotLegacy DEF Lines
    <2>6. ASSUME ~g.corrupt PROVE Prefix(view[j].entries, Lines(g))
      <3>1. ~f.corrupt /\ g.lines \in {f.lines, Append(f.lines, line)}
        BY <2>6 DEF Grows
      <3>2. Prefix(view[j].entries, f.lines)
        BY <2>1, <2>5, <3>1
      <3>3. view[j].entries \in Seq(Rows) /\ f.lines \in Seq(Rows)
        BY <1>4, <2>1 DEF Chain, Files
      <3>4. Prefix(view[j].entries, Append(f.lines, line))
        BY <3>2, <3>3, PrefixFacts
      <3> QED BY <1>5, <3>1, <3>2, <3>4
    <2>7. Legacy(files[1]) => Legacy(files'[1])
      <3>1. CASE path = 1
        BY <2>5, <3>1
      <3>2. CASE path = 2
        <4>1. 1 \in DOMAIN files
          BY <1>4, <3>2, SequenceFacts DEF Shape
        <4> QED BY <3>2, <4>1 DEF Written
      <3> QED BY <1>4, <3>1, <3>2
    <2>8. ViewAt(j)'
      BY <1>3, <1>8, <2>1, <2>4, <2>6, <2>7 DEF ViewAt, Corrupt
    <2> QED BY <2>8
  <1> QED BY <1>7, <1>8

\* The other instances when one of them writes.
LEMMA GrowthKeepsOthers ==
  ASSUME Shape, Fence, Kept, NEW i \in Instances, NEW j \in Instances \ {i},
         pc[i] = "write", path # None, path' = path,
         NEW g, NEW line \in Rows, Written(files', files, path, g),
         Grown(files[path]), Grows(files[path], g, line), Stays(j)
  PROVE  ViewAt(j)' /\ RowAt(j)'
  <1>1. RowAt(j)
    BY DEF Kept
  <1>2. pc[j] \notin {"fenced", "write"}
    BY OneWriter
  <1>3. RowAt(j)'
    BY <1>1, <1>2 DEF Stays, RowAt, RowFits
  <1>4. ViewAt(j)'
    BY GrowthKeepsView DEF Stays
  <1> QED BY <1>3, <1>4

\* The file that grew is still the one the instances know.
LEMMA GrowthKeepsInodes ==
  ASSUME Shape, Kept, path # None, path' = path,
         NEW g, NEW line \in Rows, Written(files', files, path, g),
         Grown(files[path]), Grows(files[path], g, line)
  PROVE  Inodes'
  <1> DEFINE f == files[path]
  <1>1. path = Len(files) /\ path \in {1, 2} /\ f.size \in Nat /\ f.lines \in Seq(Rows)
    BY PathFile DEF Files
  <1>2. Len(files') = Len(files) /\ files'[path] = g
    BY DEF Written
  <1>3. Grown(g) /\ f.size < g.size /\ g.size \in Nat
    BY DEF Grows, Grown, Files
  <1>4. path' = Len(files') /\ Len(files') =< 2
    BY <1>1, <1>2
  <1>5. CASE path = 1
    <2>1. path' # 2 /\ Grown(files'[path'])
      BY <1>2, <1>3, <1>5
    <2> QED BY <1>4, <2>1 DEF Inodes
  <1>6. CASE path = 2
    <2>1. /\ Legacy(files[1]) /\ f.size > 7
          /\ ~f.corrupt => Prefix(Seed, f.lines)
      BY <1>6 DEF Kept, Inodes
    <2>2. files'[1] = files[1]
      <3>1. 1 \in DOMAIN files
        <4>1. DOMAIN files = 1 .. Len(files)
          BY SequenceFacts DEF Shape
        <4>2. DOMAIN files = 1 .. 2
          BY <1>1, <1>6, <4>1
        <4> QED BY <4>2
      <3> QED BY <1>6, <3>1 DEF Written
    <2>3. g.size > 7
      BY <1>1, <1>3, <2>1
    <2>4. ASSUME ~g.corrupt PROVE Prefix(Seed, g.lines)
      <3>1. ~f.corrupt /\ g.lines \in {f.lines, Append(f.lines, line)}
        BY <2>4 DEF Grows
      <3>2. Seed \in Seq(Rows)
        BY SeedIsChain DEF Chain
      <3> QED BY <1>1, <2>1, <3>1, <3>2, PrefixFacts
    <2> QED BY <1>2, <1>3, <1>4, <1>6, <2>1, <2>2, <2>3, <2>4 DEF Inodes
  <1> QED BY <1>1, <1>5, <1>6

\* A step of one instance that leaves the disk and the acknowledgements alone.
LEMMA SameDiskKeeps ==
  ASSUME Kept, NEW i \in Instances, path' = path, files' = files, acked' = acked,
         \A j \in Instances \ {i} : Stays(j), ViewAt(i)', RowAt(i)'
  PROVE  Kept'
  <1>1. Inodes'
    BY DEF Kept, Inodes
  <1>2. AckedInFile'
    BY DEF Kept, AckedInFile, Corrupt
  <1>3. ASSUME NEW j \in Instances PROVE ViewAt(j)' /\ RowAt(j)'
    <2>1. CASE j = i
      BY <2>1
    <2>2. CASE j # i
      <3>1. Stays(j) /\ ViewAt(j) /\ RowAt(j)
        BY <2>2 DEF Kept
      <3> QED BY <3>1, SameDiskStays
    <2> QED BY <2>1, <2>2
  <1> QED BY <1>1, <1>2, <1>3 DEF Kept

\* An inode that is not the one behind the path any more is the legacy file.
LEMMA OldInode ==
  ASSUME Shape, Kept, NEW n \in 1 .. Len(files), n # path
  PROVE  n = 1 /\ path = 2 /\ Legacy(files[1])
  <1>1. Len(files) \in Nat /\ path = Len(files) /\ Len(files) =< 2
    BY SequenceFacts DEF Shape, Kept, Inodes
  <1>2. n = 1 /\ path = 2
    BY <1>1
  <1> QED BY <1>2 DEF Kept, Inodes

\* A view that was just read.
LEMMA LoadKeepsView ==
  ASSUME Shape, Kept, NEW i \in Instances, NEW n \in 1 .. Len(files), path # None,
         Parses(files[n]), view'[i] = ViewOf(files[n]), pc'[i] \in Loaded,
         path' = path, files' = files
  PROVE  ViewAt(i)'
  <1> DEFINE file == files[n]
             v == ViewOf(files[n])
  <1>1. ~file.corrupt
    BY DEF Parses
  <1>2. Legacy(file) \/ Grown(file)
    BY PathFile, OldInode
  <1>3. Readable(file)
    BY <1>1, <1>2, FilesAreReadable
  <1>4. /\ v \in Views /\ ~v.deferred /\ v.size = file.size /\ v.entries = Lines(file)
        /\ Chain(v.entries)
        /\ Rewriter(v) <=> Legacy(file)
        /\ Rewriter(v) => v.entries = Seed /\ v.size =< 7
    BY <1>3 DEF Readable, InStep
  <1>5. v.size \in Nat
    BY <1>4 DEF Views
  <1> HIDE DEF v
  <1>6. Rewriter(v) => Legacy(files[1])
    <2>1. SUFFICES ASSUME Legacy(file) PROVE Legacy(files[1])
      BY <1>4
    <2>2. CASE n = path
      <3>1. ~Grown(files[path])
        BY <2>1, <2>2, GrownIsNotLegacy
      <3> QED BY <2>1, <2>2, <3>1 DEF Kept, Inodes
    <2>3. CASE n # path
      BY <2>3, OldInode
    <2> QED BY <2>2, <2>3
  <1>7. CASE n = path
    <2>1. Prefix(v.entries, Lines(file))
      BY <1>4, PrefixSelf DEF Chain
    <2>2. InStep(v, file)
      BY <1>4 DEF InStep
    <2>3. v.size =< file.size
      BY <1>4, <1>5
    <2> QED BY <1>4, <1>6, <1>7, <2>1, <2>2, <2>3 DEF ViewAt, v
  <1>8. CASE n # path
    <2>1. n = 1 /\ path = 2 /\ Legacy(file)
      BY <1>8, OldInode
    <2>2. v.entries = Seed /\ v.size =< 7
      BY <1>4, <2>1
    <2>3. /\ files[path].size > 7
          /\ ~files[path].corrupt => Prefix(Seed, files[path].lines)
          /\ Grown(files[path])
      BY <2>1 DEF Kept, Inodes
    <2>4. Lines(files[path]) = files[path].lines
      BY <2>3, GrownIsNotLegacy DEF Lines
    <2>5. files[path].size \in Nat
      BY PathFile
    <2>6. v.size =< files[path].size /\ v.size # files[path].size
      BY <1>5, <2>2, <2>3, <2>5
    <2> QED BY <1>4, <1>6, <2>2, <2>3, <2>4, <2>6 DEF ViewAt, Corrupt, v
  <1> QED BY <1>7, <1>8

\* An instance that reads the file, whichever inode it opened.
LEMMA OpenKeeps ==
  ASSUME Shape, Fence, Kept, NEW i \in Instances, Open(i)
  PROVE  Kept'
  <1>1. /\ pc[i] = "absent" /\ pc'[i] = "reading" /\ path # None /\ fd'[i] = path
        /\ path' = path /\ files' = files /\ view' = view /\ row' = row /\ acked' = acked
    BY DEF Open, Goto, Shape, disk, append
  <1>2. ViewAt(i) /\ RowAt(i)
    BY DEF Kept
  <1>3. ViewAt(i)'
    BY <1>1, <1>2 DEF ViewAt, Loaded, Working
  <1>4. RowAt(i)'
    BY <1>1, <1>2 DEF RowAt, Working
  <1>5. \A j \in Instances \ {i} : Stays(j)
    BY <1>1 DEF Open, Goto, Shape, Stays
  <1> QED BY <1>1, <1>3, <1>4, <1>5, SameDiskKeeps

\* The read of load: of the newest inode, or of the one it replaced.
LEMMA ReadKeeps ==
  ASSUME Shape, Fence, Kept, NEW i \in Instances, Read(i)
  PROVE  Kept'
  <1>1. /\ pc[i] = "reading" /\ fd'[i] = None
        /\ path' = path /\ files' = files /\ row' = row /\ acked' = acked
    BY DEF Read, Goto, Shape, disk, append
  <1>2. ViewAt(i) /\ RowAt(i)
    BY DEF Kept
  <1>3. path # None
    BY <1>1, <1>2 DEF RowAt
  <1>4. fd[i] \in 1 .. Len(files)
    <2>1. fd[i] \in 0 .. Len(files) /\ fd[i] # 0
      BY <1>1 DEF Shape, Fence, None
    <2> QED BY <2>1, SequenceFacts DEF Shape
  <1>5. ViewAt(i)' /\ pc'[i] \in {"idle", "unreadable"}
    <2>1. CASE Parses(files[fd[i]])
      <3>1. pc'[i] = "idle" /\ view'[i] = ViewOf(files[fd[i]])
        BY <2>1 DEF Read, Goto, Shape
      <3>2. pc'[i] \in Loaded
        BY <3>1 DEF Loaded
      <3> QED BY <1>1, <1>3, <1>4, <2>1, <3>1, <3>2, LoadKeepsView
    <2>2. CASE ~Parses(files[fd[i]])
      <3>1. pc'[i] = "unreadable" /\ view'[i] = view[i]
        BY <2>2 DEF Read, Goto, Shape
      <3>2. pc[i] \notin Loaded /\ pc'[i] \notin Loaded
        BY <1>1, <3>1 DEF Loaded, Working
      <3> QED BY <1>2, <3>1, <3>2 DEF ViewAt
    <2> QED BY <2>1, <2>2
  <1>6. RowAt(i)'
    BY <1>1, <1>2, <1>3, <1>5 DEF RowAt, Working
  <1>7. \A j \in Instances \ {i} : Stays(j)
    BY <1>1 DEF Read, Goto, Shape, Stays
  <1> QED BY <1>1, <1>5, <1>6, <1>7, SameDiskKeeps

\* An instance that starts an append.
LEMMA AppendEntryFits ==
  ASSUME Shape, NEW i \in Instances, AppendEntry(i), Chain(view[i].entries)
  PROVE  RowFits(i)' /\ \A j \in Instances \ {i} : Stays(j)
  <1> DEFINE rows == view[i].entries
  <1>1. view' = view /\ fd' = fd
    BY DEF AppendEntry
  <1>2. PICK id \in IdsOf[i] \ Ids(rows) : \E target \in Ids(rows) \union {NoRow, id} :
          row' = [row EXCEPT ![i] = [id |-> id, parent |-> Leaf(rows), seq |-> 0,
                                     target |-> target]]
    BY DEF AppendEntry
  <1>3. PICK target \in Ids(rows) \union {NoRow, id} :
          row' = [row EXCEPT ![i] = [id |-> id, parent |-> Leaf(rows), seq |-> 0,
                                     target |-> target]]
    BY <1>2
  <1>4. row'[i] = [id |-> id, parent |-> Leaf(rows), seq |-> 0, target |-> target]
    BY <1>3 DEF Shape
  <1>5. id \in NewIds
    BY JournalAssumption DEF NewIds
  <1>6. Leaf(rows) \in Ids(rows) \union {NoRow} /\ Ids(rows) \subseteq {1, 2} \union NewIds
    BY ChainCursor, ChainIdTypes
  <1>7. row'[i] \in Rows
    BY <1>4, <1>5, <1>6 DEF Rows
  <1>8. RowFits(i)'
    BY <1>1, <1>3, <1>4, <1>7 DEF RowFits
  <1>9. \A j \in Instances \ {i} : Stays(j)
    BY <1>1, <1>3 DEF AppendEntry, Goto, Shape, Stays
  <1> QED BY <1>8, <1>9

\* The start of an append changes nothing but the row.
LEMMA AppendEntryKeeps ==
  ASSUME Shape, Fence, Kept, NEW i \in Instances, AppendEntry(i)
  PROVE  Kept'
  <1>1. /\ pc[i] = "idle" /\ pc'[i] = "fence" /\ fd' = fd
        /\ path' = path /\ files' = files /\ view' = view /\ acked' = acked
    BY DEF AppendEntry, Goto, Shape, disk
  <1>2. ViewAt(i) /\ RowAt(i)
    BY DEF Kept
  <1>3. ViewAt(i)'
    BY <1>1, <1>2 DEF ViewAt, Corrupt, Loaded, Working
  <1>4. Chain(view[i].entries)
    BY <1>1, <1>2 DEF ViewAt, Loaded
  <1>5. RowFits(i)' /\ \A j \in Instances \ {i} : Stays(j)
    BY <1>4, AppendEntryFits
  <1>6. RowAt(i)'
    BY <1>1, <1>2, <1>5 DEF RowAt, RowFits, Working
  <1> QED BY <1>1, <1>3, <1>5, <1>6, SameDiskKeeps

\* The way to the fence.
LEMMA LookForFileKeeps ==
  ASSUME Shape, Fence, Kept, NEW i \in Instances, LookForFile(i)
  PROVE  Kept'
  <1>1. /\ pc[i] = "fence" /\ pc'[i] = (IF path = None THEN "write" ELSE "opening")
        /\ path' = path /\ files' = files /\ view' = view /\ row' = row /\ fd' = fd
        /\ acked' = acked
    BY DEF LookForFile, Goto, Shape, disk, append
  <1>2. ViewAt(i) /\ RowAt(i)
    BY DEF Kept
  <1>3. ViewAt(i)'
    BY <1>1, <1>2 DEF ViewAt, Corrupt, Loaded, Working
  <1>4. RowFits(i)'
    BY <1>1, <1>2 DEF RowAt, RowFits, Working
  <1>5. RowAt(i)'
    BY <1>1, <1>2, <1>4 DEF RowAt, Working
  <1>6. \A j \in Instances \ {i} : Stays(j)
    BY <1>1 DEF LookForFile, Goto, Shape, Stays
  <1> QED BY <1>1, <1>3, <1>5, <1>6, SameDiskKeeps

\* An append that returns without having written.
LEMMA GiveUpKeeps ==
  ASSUME Shape, Kept, NEW i \in Instances, pc[i] \in Loaded, Return(i),
         path' = path, files' = files, view' = view, acked' = acked
  PROVE  Kept'
  <1>1. ViewAt(i)' /\ RowAt(i)'
    BY ReturnKeeps DEF Kept
  <1>2. \A j \in Instances \ {i} : Stays(j)
    BY DEF Return, Goto, Release, Clear, Shape, Stays
  <1> QED BY <1>1, <1>2, SameDiskKeeps

\* The open of the fence.
LEMMA OpenFenceKeeps ==
  ASSUME Shape, Fence, Kept, NEW i \in Instances, OpenFence(i)
  PROVE  Kept'
  <1>1. /\ pc[i] = "opening"
        /\ path' = path /\ files' = files /\ view' = view /\ acked' = acked
    BY DEF OpenFence
  <1>2. CASE path = None
    <2>1. Return(i) /\ pc[i] \in Loaded
      BY <1>1, <1>2 DEF OpenFence, Loaded, Working
    <2> QED BY <1>1, <2>1, GiveUpKeeps
  <1>3. CASE path # None
    <2>1. pc'[i] = "locking" /\ fd'[i] = path /\ row' = row
      BY <1>1, <1>3 DEF OpenFence, Goto, Shape, append
    <2>2. ViewAt(i) /\ RowAt(i)
      BY DEF Kept
    <2>3. ViewAt(i)'
      BY <1>1, <2>1, <2>2 DEF ViewAt, Corrupt, Loaded, Working
    <2>4. RowFits(i)'
      BY <1>1, <2>1, <2>2 DEF RowAt, RowFits, Working
    <2>5. RowAt(i)'
      BY <1>1, <1>3, <2>1, <2>2, <2>4 DEF RowAt, Working
    <2>6. \A j \in Instances \ {i} : Stays(j)
      BY <1>1, <1>3, <2>1 DEF OpenFence, Goto, Shape, Stays
    <2> QED BY <1>1, <2>3, <2>5, <2>6, SameDiskKeeps
  <1> QED BY <1>2, <1>3

\* The lock of the fence, its retry and its failure.
LEMMA LockFenceKeeps ==
  ASSUME Shape, Fence, Kept, NEW i \in Instances, LockFence(i)
  PROVE  Kept'
  <1>1. /\ pc[i] = "locking"
        /\ path' = path /\ files' = files /\ view' = view /\ acked' = acked
    BY DEF LockFence
  <1>2. ViewAt(i) /\ RowAt(i)
    BY DEF Kept
  <1>3. path # None
    BY <1>1, <1>2 DEF RowAt
  <1>4. CASE Return(i)
    <2>1. pc[i] \in Loaded
      BY <1>1 DEF Loaded, Working
    <2> QED BY <1>1, <1>4, <2>1, GiveUpKeeps
  <1>5. CASE ~Return(i)
    <2>1. /\ \/ pc'[i] = "fenced" /\ fd'[i] = path
             \/ pc'[i] = "fence" /\ fd'[i] = None
          /\ row' = row
          /\ \A j \in Instances \ {i} : pc'[j] = pc[j] /\ fd'[j] = fd[j]
      <3>1. CASE path = fd[i]
        <4>1. Goto(i, "fenced") /\ fd' = fd /\ row' = row
          BY <1>5, <3>1 DEF LockFence, append
        <4> QED BY <3>1, <4>1 DEF Goto, Shape
      <3>2. CASE path # fd[i]
        <4>1. Goto(i, "fence") /\ fd' = [fd EXCEPT ![i] = None] /\ row' = row
          BY <1>5, <3>2 DEF LockFence
        <4> QED BY <4>1 DEF Goto, Shape
      <3> QED BY <3>1, <3>2
    <2>2. ViewAt(i)'
      BY <1>1, <1>2, <2>1 DEF ViewAt, Corrupt, Loaded, Working
    <2>3. RowFits(i)'
      BY <1>1, <1>2, <2>1 DEF RowAt, RowFits, Working
    <2>4. RowAt(i)'
      BY <1>1, <1>2, <1>3, <2>1, <2>3 DEF RowAt, Working
    <2>5. \A j \in Instances \ {i} : Stays(j)
      BY <1>1, <2>1 DEF Stays
    <2> QED BY <1>1, <2>2, <2>4, <2>5, SameDiskKeeps
  <1> QED BY <1>4, <1>5

\* The reload under the fence, or the step over it.
LEMMA RefreshKeeps ==
  ASSUME Shape, Fence, Kept, NEW i \in Instances, Refresh(i)
  PROVE  Kept'
  <1> DEFINE file == files[fd[i]]
             fresh == [ViewOf(file) EXCEPT !.deferred = view[i].deferred]
  <1>1. pc[i] = "fenced" /\ path' = path /\ files' = files /\ acked' = acked
    BY DEF Refresh
  <1>2. ViewAt(i) /\ RowAt(i)
    BY DEF Kept
  <1>3. path # None /\ fd[i] = path /\ RowFits(i)
    BY <1>1, <1>2 DEF RowAt, Working
  <1>4. pc[i] \in Loaded
    BY <1>1 DEF Loaded, Working
  <1>5. CASE file.size = view[i].size
    <2>1. /\ pc' = [pc EXCEPT ![i] = "write"]
          /\ view' = view /\ row' = row /\ fd' = fd
      BY <1>5 DEF Refresh, Goto, append
    <2>2. pc'[i] = "write" /\ \A j \in Instances \ {i} : pc'[j] = pc[j]
      BY <2>1 DEF Shape
    <2>3. ViewAt(i)'
      BY <1>1, <1>2, <1>4, <2>1, <2>2 DEF ViewAt, Corrupt, Loaded, Working
    <2>4. RowFits(i)'
      BY <1>3, <2>1 DEF RowFits
    <2>5. RowAt(i)'
      BY <1>1, <1>2, <1>3, <1>5, <2>1, <2>2, <2>4 DEF RowAt
    <2>6. \A j \in Instances \ {i} : Stays(j)
      BY <2>1, <2>2 DEF Stays
    <2> QED BY <1>1, <2>3, <2>5, <2>6, SameDiskKeeps
  <1>6. CASE file.size # view[i].size /\ ~Parses(file)
    <2>1. Return(i) /\ view' = view
      BY <1>6 DEF Refresh
    <2> QED BY <1>1, <1>4, <2>1, GiveUpKeeps
  <1>7. CASE file.size # view[i].size /\ Parses(file)
    <2>1. path \in 1 .. Len(files) /\ ~file.corrupt /\ Readable(file) /\ file.size \in Nat
      BY <1>3, <1>7, PathFile, SequenceFacts DEF Shape
    <2>2. fresh = ViewOf(file)
      <3>1. view[i].deferred = FALSE
        BY <1>2, <1>3, <1>4 DEF ViewAt, Views
      <3>2. PICK v : v = ViewOf(file)
        OBVIOUS
      <3>3. v \in Views /\ v.deferred = view[i].deferred
        BY <2>1, <3>1, <3>2 DEF Readable
      <3>4. [v EXCEPT !.deferred = view[i].deferred] = v
        BY <3>3 DEF Views
      <3> QED BY <3>2, <3>4
    <2>3. view' = [view EXCEPT ![i] = fresh]
      BY <1>7 DEF Refresh
    <2>4. view'[i] = ViewOf(file) /\ \A j \in Instances \ {i} : view'[j] = view[j]
      BY <2>2, <2>3 DEF Shape
    <2> HIDE DEF fresh
    <2>5. ASSUME pc'[i] \in Loaded PROVE ViewAt(i)'
      BY <1>1, <1>3, <1>7, <2>1, <2>4, <2>5, LoadKeepsView
    <2>6. CASE row[i].id \in Ids(file.lines)
      <3>1. Return(i)
        BY <1>7, <2>6 DEF Refresh
      <3>2. pc'[i] = "idle" /\ fd'[i] = None /\ row'[i] = NewRow
        BY <3>1 DEF Return, Goto, Release, Clear, Shape
      <3>3. ViewAt(i)'
        BY <2>5, <3>2 DEF Loaded
      <3>4. RowAt(i)'
        BY <1>1, <1>3, <3>2 DEF RowAt, Working
      <3>5. \A j \in Instances \ {i} : Stays(j)
        BY <2>4, <3>1 DEF Return, Goto, Release, Clear, Shape, Stays
      <3> QED BY <1>1, <3>3, <3>4, <3>5, SameDiskKeeps
    <2>7. CASE row[i].id \notin Ids(file.lines)
      <3>1. /\ row' = [row EXCEPT ![i].parent = Leaf(Entries(file))]
            /\ Goto(i, "write") /\ fd' = fd
        BY <1>7, <2>7 DEF Refresh
      <3>2. pc'[i] = "write" /\ \A j \in Instances \ {i} : pc'[j] = pc[j] /\ row'[j] = row[j]
        BY <3>1 DEF Goto, Shape
      <3>3. ViewAt(i)'
        BY <2>5, <3>2 DEF Loaded, Working
      <3>4. row'[i] = [row[i] EXCEPT !.parent = Leaf(Entries(file))]
        BY <3>1 DEF Shape
      <3>5. /\ view'[i].entries = Lines(file) /\ Entries(file) = Lines(file)
            /\ view'[i].size = file.size
            /\ Chain(Lines(file)) /\ Ids(file.lines) = Ids(Lines(file))
        BY <2>1, <2>4 DEF Readable, InStep
      <3>6. Leaf(Lines(file)) \in {NoRow, 1, 2} \union NewIds
        BY <3>5, ChainCursor, ChainIdTypes
      <3>7. /\ row'[i] \in Rows /\ row'[i].id = row[i].id /\ row'[i].target = row[i].target
            /\ row'[i].parent = Leaf(Lines(file))
        BY <1>3, <3>4, <3>5, <3>6 DEF RowFits, Rows
      <3>8. Ids(view[i].entries) \subseteq Ids(Lines(file))
        <4>1. Chain(view[i].entries) /\ Prefix(view[i].entries, Lines(file))
          BY <1>2, <1>3, <1>4, <2>1 DEF ViewAt, Corrupt
        <4> QED BY <3>5, <4>1, PrefixFacts DEF Chain
      <3>9. RowFits(i)'
        BY <1>3, <2>7, <3>5, <3>7, <3>8 DEF RowFits
      <3>10. RowAt(i)'
        BY <1>1, <1>3, <3>1, <3>2, <3>5, <3>7, <3>9 DEF RowAt
      <3>11. \A j \in Instances \ {i} : Stays(j)
        BY <2>4, <3>1, <3>2 DEF Stays
      <3> QED BY <1>1, <3>3, <3>10, <3>11, SameDiskKeeps
    <2> QED BY <2>6, <2>7
  <1> QED BY <1>5, <1>6, <1>7

\* What an instance knows of the file it is about to append to.
LEMMA WriterKnowsFile ==
  ASSUME Shape, Fence, Kept, NEW i \in Instances, pc[i] = "write", Writes(i)
  PROVE  /\ path # None /\ fd[i] = path
         /\ Grown(files[path])
         /\ view[i].size = files[path].size
         /\ ~files[path].corrupt => view[i].entries = files[path].lines
         /\ ~view[i].deferred /\ ~Rewriter(view[i])
  <1>1. ViewAt(i) /\ RowAt(i) /\ pc[i] \in Loaded
    BY DEF Kept, Loaded, Working
  <1>2. /\ fd[i] # None /\ ~view[i].deferred /\ ~(view[i].version < 4)
        /\ ~view[i].needsRewrite
    BY WritesThrough
  <1>3. path # None /\ fd[i] = path /\ view[i].size = files[path].size
    BY <1>1, <1>2 DEF RowAt
  <1>4. ~Rewriter(view[i])
    BY <1>1, <1>2 DEF Rewriter, ViewAt, Views
  <1>5. CASE files[path].corrupt
    BY <1>2, <1>3, <1>4, <1>5, PathFile
  <1>6. CASE ~files[path].corrupt
    <2>1. InStep(view[i], files[path])
      BY <1>1, <1>3, <1>6 DEF ViewAt, Corrupt
    <2>2. ~Legacy(files[path]) /\ view[i].entries = files[path].lines
      BY <1>4, <2>1 DEF InStep, Lines
    <2>3. Grown(files[path])
      BY <1>3, <2>2, PathFile
    <2> QED BY <1>2, <1>3, <1>4, <2>2, <2>3
  <1> QED BY <1>5, <1>6

\* A view with one more line: w is v with these entries.
Lengthened(w, v, longer) ==
  /\ w \in Views
  /\ w.entries = longer /\ w.size = v.size + 3 /\ w.deferred = v.deferred
  /\ w.version = v.version /\ w.needsRewrite = v.needsRewrite

\* An append to the entries and the size makes such a view.
LEMMA LongerView ==
  ASSUME NEW v \in Views, NEW longer \in Seq(Rows), NEW w,
         w = [v EXCEPT !.entries = longer, !.size = v.size + 3]
  PROVE  Lengthened(w, v, longer)
  <1>1. v.size + 3 \in Nat
    BY DEF Views
  <1>2. w = [entries |-> longer, version |-> v.version, deferred |-> v.deferred,
             needsRewrite |-> v.needsRewrite, size |-> v.size + 3]
    BY DEF Views
  <1>3. w \in Views
    BY <1>1, <1>2 DEF Views
  <1> QED BY <1>2, <1>3 DEF Lengthened

\* An append of a line, whole.
LEMMA AppendLineKeeps ==
  ASSUME Shape, Fence, Kept, NEW i \in Instances, AppendLine(i)
  PROVE  Kept'
  <1> DEFINE f == files[path]
             line == Stamped(i)
             g == WithLine(f, line)
             longer == Append(view[i].entries, line)
  <1>1. /\ pc[i] = "write" /\ Writes(i) /\ Return(i) /\ path' = path
        /\ acked' = acked \union {row[i].id}
    BY DEF AppendLine
  <1>2. /\ path # None /\ fd[i] = path /\ Grown(f) /\ view[i].size = f.size
        /\ ~f.corrupt => view[i].entries = f.lines
        /\ ~view[i].deferred /\ ~Rewriter(view[i])
    BY <1>1, WriterKnowsFile
  <1>3. ViewAt(i) /\ RowAt(i) /\ pc[i] \in Loaded /\ RowFits(i)
    BY <1>1 DEF Kept, RowAt, Loaded, Working
  <1>4. /\ view[i] \in Views /\ Chain(view[i].entries) /\ view[i].size \in Nat
        /\ view[i].entries \in Seq(Rows)
    BY <1>3 DEF ViewAt, Views
  <1>5. line \in Rows /\ line.id = row[i].id /\ Chain(longer)
    BY <1>3, <1>4, StampedFits
  <1>6. /\ Grows(f, g, line) /\ g.size = f.size + 3
        /\ ~g.corrupt => g.lines = Append(f.lines, line)
    <2>1. ~f.corrupt => Chain(Append(f.lines, line))
      BY <1>2, <1>5
    <2> QED BY <1>2, <1>5, <2>1, LineGrows
  <1>7. path \in DOMAIN files
    BY <1>2, PathFile
  <1>8. Written(files', files, path, g)
    BY <1>2, <1>7, FilesWritten DEF AppendLine, Shape
  <1>9. /\ view'[i] = [view[i] EXCEPT !.entries = longer, !.size = view[i].size + 3]
        /\ \A j \in Instances \ {i} : view'[j] = view[j]
    BY DEF AppendLine, Shape
  <1>10. pc'[i] = "idle" /\ fd'[i] = None /\ row'[i] = NewRow
    BY <1>1 DEF Return, Goto, Release, Clear, Shape
  <1>11. \A j \in Instances \ {i} : Stays(j)
    BY <1>1, <1>9 DEF Return, Goto, Release, Clear, Shape, Stays
  <1>12. longer \in Seq(Rows)
    BY <1>5 DEF Chain
  <1> HIDE DEF longer, g, line
  <1>13. /\ view'[i] \in Views /\ view'[i].entries = longer
         /\ view'[i].size = f.size + 3 /\ view'[i].deferred = view[i].deferred
         /\ view'[i].version = view[i].version
         /\ view'[i].needsRewrite = view[i].needsRewrite
    <2>1. Lengthened(view'[i], view[i], longer)
      BY <1>4, <1>9, <1>12, LongerView
    <2> QED BY <1>2, <2>1 DEF Lengthened
  <1>14. Grown(g) /\ ~Legacy(g) /\ Lines(g) = g.lines /\ files'[path] = g
    BY <1>6, <1>8, GrownIsNotLegacy DEF Grows, Lines, Written
  <1>15. ~g.corrupt => g.lines = longer /\ ~f.corrupt
    BY <1>2, <1>6 DEF Grows, longer
  <1>16. ViewAt(i)'
    <2>1. ~Rewriter(view'[i])
      BY <1>2, <1>13 DEF Rewriter
    <2>2. ~g.corrupt => Prefix(longer, Lines(g)) /\ InStep(view'[i], g)
      BY <1>12, <1>13, <1>14, <1>15, <2>1, PrefixSelf DEF InStep
    <2>3. view'[i].size = g.size /\ g.size \in Nat
      BY <1>6, <1>13, <1>14 DEF Grown, Files
    <2>4. view'[i].size =< g.size
      BY <2>3
    <2>5. pc'[i] \in Loaded
      BY <1>10 DEF Loaded
    <2> QED BY <1>1, <1>2, <1>5, <1>13, <1>14, <2>1, <2>2, <2>3, <2>4, <2>5
         DEF ViewAt, Corrupt
  <1>17. RowAt(i)'
    BY <1>1, <1>2, <1>10 DEF RowAt, Working
  <1>18. Inodes'
    BY <1>1, <1>2, <1>5, <1>6, <1>8, GrowthKeepsInodes
  <1>19. AckedInFile'
    <2>1. SUFFICES ASSUME ~g.corrupt PROVE acked' \subseteq Ids(g.lines)
      BY <1>1, <1>2, <1>14 DEF AckedInFile, Corrupt
    <2>2. Ids(longer) = Ids(view[i].entries) \union {row[i].id}
      BY <1>4, <1>5, IdsAppended DEF longer
    <2>3. acked \subseteq Ids(f.lines)
      BY <1>2, <1>15, <2>1, GrownIsNotLegacy DEF Kept, AckedInFile, Corrupt, Lines
    <2> QED BY <1>1, <1>2, <1>15, <2>1, <2>2, <2>3
  <1>20. ASSUME NEW j \in Instances \ {i} PROVE ViewAt(j)' /\ RowAt(j)'
    BY <1>1, <1>2, <1>5, <1>6, <1>8, <1>11, GrowthKeepsOthers
  <1> QED BY <1>16, <1>17, <1>18, <1>19, <1>20 DEF Kept

\* An append of a line, cut short.
LEMMA TearLineKeeps ==
  ASSUME Shape, Fence, Kept, NEW i \in Instances, TearLine(i)
  PROVE  Kept'
  <1> DEFINE f == files[path]
             line == Stamped(i)
  <1>1. /\ pc[i] = "write" /\ Writes(i) /\ path' = path /\ acked' = acked
        /\ Forget(i) \/ (Return(i) /\ view' = view)
    BY DEF TearLine
  <1>2. /\ path # None /\ fd[i] = path /\ Grown(f)
        /\ ~f.corrupt => view[i].entries = f.lines
    BY <1>1, WriterKnowsFile
  <1>3. ViewAt(i) /\ RowAt(i) /\ pc[i] \in Loaded /\ RowFits(i)
    BY <1>1 DEF Kept, RowAt, Loaded, Working
  <1>4. Chain(view[i].entries)
    BY <1>3 DEF ViewAt
  <1>5. line \in Rows /\ ~f.corrupt => Chain(Append(f.lines, line))
    BY <1>2, <1>3, <1>4, StampedFits
  <1>6. line \in Rows
    BY <1>3, <1>4, StampedFits
  <1>7. path \in DOMAIN files
    BY <1>2, PathFile
  <1>8. PICK tail \in {"torn", "bare"} :
          files' = [files EXCEPT ![path] = CutLine(f, line, tail)]
    BY <1>2 DEF TearLine
  <1> DEFINE g == CutLine(f, line, tail)
  <1>9. Grows(f, g, line)
    BY <1>2, <1>5, <1>6, CutGrows
  <1>10. Written(files', files, path, g)
    BY <1>7, <1>8, FilesWritten DEF Shape
  <1> HIDE DEF g, line
  <1>11. \A j \in Instances \ {i} : Stays(j)
    BY <1>1 DEF Forget, Return, Goto, Release, Clear, Shape, Stays
  <1>12. ViewAt(i)' /\ RowAt(i)'
    <2>1. CASE Forget(i)
      BY <2>1, ForgetKeeps
    <2>2. CASE Return(i) /\ view' = view
      <3>1. pc'[i] = "idle" /\ fd'[i] = None /\ row'[i] = NewRow
        BY <2>2 DEF Return, Goto, Release, Clear, Shape
      <3>2. pc'[i] \in Loaded
        BY <3>1 DEF Loaded
      <3>3. ViewAt(i)'
        BY <1>1, <1>2, <1>3, <1>6, <1>9, <1>10, <2>2, <3>2, GrowthKeepsView
      <3>4. RowAt(i)'
        BY <1>1, <1>2, <3>1 DEF RowAt, Working
      <3> QED BY <3>3, <3>4
    <2> QED BY <1>1, <2>1, <2>2
  <1>13. Inodes'
    BY <1>1, <1>2, <1>6, <1>9, <1>10, GrowthKeepsInodes
  <1>14. AckedInFile'
    <2>1. files'[path] = g /\ Grown(g) /\ Lines(g) = g.lines
      BY <1>9, <1>10, GrownIsNotLegacy DEF Written, Grows, Lines
    <2>2. SUFFICES ASSUME ~g.corrupt PROVE acked \subseteq Ids(g.lines)
      BY <1>1, <1>2, <2>1 DEF AckedInFile, Corrupt
    <2>3. ~f.corrupt /\ g.lines \in {f.lines, Append(f.lines, line)}
      BY <1>9, <2>2 DEF Grows
    <2>4. acked \subseteq Ids(f.lines)
      BY <1>2, <2>3, GrownIsNotLegacy DEF Kept, AckedInFile, Corrupt, Lines
    <2>5. f.lines \in Seq(Rows)
      BY <1>2 DEF Grown, Files
    <2> QED BY <1>6, <2>3, <2>4, <2>5, IdsAppended
  <1>15. ASSUME NEW j \in Instances \ {i} PROVE ViewAt(j)' /\ RowAt(j)'
    BY <1>1, <1>2, <1>6, <1>9, <1>10, <1>11, GrowthKeepsOthers
  <1> QED BY <1>12, <1>13, <1>14, <1>15 DEF Kept

\* A row kept in memory.
LEMMA BufferKeeps ==
  ASSUME Shape, Fence, Kept, NEW i \in Instances, Buffer(i)
  PROVE  Kept'
  <1> DEFINE line == Stamped(i)
             longer == Append(view[i].entries, line)
  <1>1. /\ pc[i] = "write" /\ view[i].deferred /\ Return(i)
        /\ path' = path /\ files' = files /\ acked' = acked
    BY DEF Buffer, Buffers
  <1>2. ViewAt(i) /\ RowAt(i) /\ pc[i] \in Loaded /\ RowFits(i)
    BY <1>1 DEF Kept, RowAt, Loaded, Working
  <1>3. /\ view[i] \in Views /\ Chain(view[i].entries)
        /\ path = None /\ ~Rewriter(view[i])
    BY <1>1, <1>2 DEF ViewAt
  <1>4. Chain(longer)
    BY <1>2, <1>3, StampedFits
  <1>5. longer \in Seq(Rows)
    BY <1>4 DEF Chain
  <1>6. /\ view'[i] = [view[i] EXCEPT !.entries = longer]
        /\ \A j \in Instances \ {i} : view'[j] = view[j]
    BY DEF Buffer, Shape
  <1>7. pc'[i] = "idle" /\ fd'[i] = None /\ row'[i] = NewRow
    BY <1>1 DEF Return, Goto, Release, Clear, Shape
  <1>8. \A j \in Instances \ {i} : Stays(j)
    BY <1>1, <1>6 DEF Return, Goto, Release, Clear, Shape, Stays
  <1> HIDE DEF longer
  <1>9. /\ view'[i] \in Views /\ view'[i].entries = longer
        /\ view'[i].deferred = view[i].deferred
        /\ view'[i].version = view[i].version
        /\ view'[i].needsRewrite = view[i].needsRewrite
    BY <1>3, <1>5, <1>6 DEF Views
  <1>10. ~Rewriter(view'[i])
    BY <1>3, <1>9 DEF Rewriter
  <1>11. ViewAt(i)'
    BY <1>1, <1>3, <1>4, <1>7, <1>9, <1>10 DEF ViewAt, Loaded
  <1>12. RowAt(i)'
    BY <1>1, <1>2, <1>3, <1>7 DEF RowAt, Working
  <1> QED BY <1>1, <1>8, <1>11, <1>12, SameDiskKeeps

\* Who rewrites the file, and what it replaces: the creator materializes its
\* session, or an instance that read a legacy file migrates it.
LEMMA RewriterKnowsFile ==
  ASSUME Shape, Fence, Kept, NEW i \in Instances, pc[i] = "write", Rewrites(i)
  PROVE  \/ path = None
         \/ path = 1 /\ Legacy(files[1]) /\ view[i].entries = Seed
  <1>1. ViewAt(i) /\ RowAt(i) /\ pc[i] \in Loaded
    BY DEF Kept, Loaded, Working
  <1>2. SUFFICES ASSUME path # None
        PROVE  path = 1 /\ Legacy(files[1]) /\ view[i].entries = Seed
    OBVIOUS
  <1>3. ~view[i].deferred /\ fd[i] # None /\ view[i].size = files[path].size
    BY <1>1, <1>2 DEF ViewAt, RowAt
  <1>4. view[i].version < 4 \/ view[i].needsRewrite
    BY <1>3 DEF Rewrites
  <1>5. Rewriter(view[i])
    BY <1>1, <1>4 DEF Rewriter, ViewAt, Views
  <1>6. view[i].entries = Seed /\ view[i].size =< 7 /\ Legacy(files[1])
    BY <1>1, <1>5 DEF ViewAt
  <1>7. path \in {1, 2} /\ files[path].size \in Nat
    BY <1>2, PathFile
  <1>8. path # 2
    <2>1. SUFFICES ASSUME path = 2 PROVE FALSE
      OBVIOUS
    <2>2. files[2].size > 7
      BY <2>1 DEF Kept, Inodes
    <2> QED BY <1>3, <1>6, <1>7, <2>1, <2>2
  <1> QED BY <1>6, <1>7, <1>8

\* The view of the instance that wrote the whole file.
LEMMA RewrittenView ==
  ASSUME Shape, Fence, Kept, NEW i \in Instances, Rewrite(i),
         files'[path'] = Rewritten(i), path' # None
  PROVE  /\ ViewAt(i)' /\ RowAt(i)'
         /\ Grown(files'[path']) /\ ~files'[path'].corrupt
         /\ files'[path'].lines = Append(view[i].entries, Stamped(i))
         /\ Lines(files'[path']) = files'[path'].lines
         /\ files'[path'].size = 1 + 3 * (Len(view[i].entries) + 1)
         /\ Ids(files'[path'].lines) = Ids(view[i].entries) \union {row[i].id}
  <1> DEFINE longer == Append(view[i].entries, Stamped(i))
             file == files'[path']
  <1>1. pc[i] = "write" /\ Return(i)
    BY DEF Rewrite
  <1>2. ViewAt(i) /\ RowAt(i) /\ pc[i] \in Loaded /\ RowFits(i)
    BY <1>1 DEF Kept, RowAt, Loaded, Working
  <1>3. Chain(view[i].entries)
    BY <1>2 DEF ViewAt
  <1>4. /\ Grown(file) /\ ~file.corrupt /\ file.lines = longer
        /\ file.size = 1 + 3 * (Len(view[i].entries) + 1)
    BY <1>2, <1>3, RewrittenGrown
  <1>5. ~Legacy(file) /\ Lines(file) = longer
    BY <1>4, GrownIsNotLegacy DEF Lines
  <1>6. Chain(longer) /\ Stamped(i) \in Rows /\ Stamped(i).id = row[i].id
    BY <1>2, <1>3, StampedFits
  <1>7. longer \in Seq(Rows) /\ file.size \in Nat
    BY <1>4, <1>6 DEF Chain, Grown, Files
  <1>8. view'[i] = [entries |-> longer, version |-> 4, deferred |-> FALSE,
                    needsRewrite |-> FALSE, size |-> file.size]
    BY DEF Rewrite, Shape
  <1>9. Ids(longer) = Ids(view[i].entries) \union {row[i].id}
    BY <1>3, <1>6, IdsAppended DEF Chain
  <1> HIDE DEF longer
  <1>10. pc'[i] = "idle" /\ fd'[i] = None /\ row'[i] = NewRow
    BY <1>1 DEF Return, Goto, Release, Clear, Shape
  <1>11. /\ view'[i] \in Views /\ view'[i].entries = longer /\ ~view'[i].deferred
         /\ view'[i].size = file.size /\ ~Rewriter(view'[i])
    BY <1>7, <1>8 DEF Views, Rewriter
  <1>12. Prefix(longer, Lines(file)) /\ InStep(view'[i], file)
    BY <1>5, <1>7, <1>11, PrefixSelf DEF InStep
  <1>13. view'[i].size =< file.size
    BY <1>7, <1>11
  <1>14. pc'[i] \in Loaded
    BY <1>10 DEF Loaded
  <1>15. ViewAt(i)'
    BY <1>6, <1>11, <1>12, <1>13, <1>14 DEF ViewAt, longer
  <1>16. RowAt(i)'
    BY <1>10 DEF RowAt, Working
  <1> QED BY <1>4, <1>5, <1>9, <1>15, <1>16 DEF longer

\* A whole new file, renamed over the path.
LEMMA RewriteKeeps ==
  ASSUME Shape, Fence, Kept, NEW i \in Instances, Rewrite(i)
  PROVE  Kept'
  <1> DEFINE file == files'[path']
  <1>1. /\ pc[i] = "write" /\ Rewrites(i) /\ Return(i)
        /\ files' = Append(files, Rewritten(i)) /\ path' = Len(files')
        /\ acked' = acked \union Ids(view[i].entries) \union {row[i].id}
    BY DEF Rewrite
  <1>2. ViewAt(i) /\ RowAt(i) /\ pc[i] \in Loaded /\ RowFits(i)
    BY <1>1 DEF Kept, RowAt, Loaded, Working
  <1>3. \A j \in Instances \ {i} : Stays(j)
    BY <1>1 DEF Rewrite, Return, Goto, Release, Clear, Shape, Stays
  <1>4. Added(files', files, Rewritten(i))
    BY <1>1, FilesAppended DEF Shape
  <1>5. Len(files) \in Nat /\ path = Len(files)
    BY SequenceFacts DEF Shape, Kept, Inodes
  <1>6. path' = path + 1 /\ path' = Len(files') /\ file = Rewritten(i)
    BY <1>1, <1>4, <1>5 DEF Added
  <1>7. path' # None
    BY <1>5, <1>6 DEF None
  <1>8. /\ ViewAt(i)' /\ RowAt(i)'
        /\ Grown(file) /\ ~file.corrupt
        /\ file.lines = Append(view[i].entries, Stamped(i))
        /\ Lines(file) = file.lines
        /\ file.size = 1 + 3 * (Len(view[i].entries) + 1)
        /\ Ids(file.lines) = Ids(view[i].entries) \union {row[i].id}
    BY <1>6, <1>7, RewrittenView
  <1>9. CASE path = None
    <2>1. path' = 1
      BY <1>6, <1>9 DEF None
    <2>2. Inodes'
      BY <1>6, <1>8, <2>1 DEF Inodes
    <2>3. i = Creator
      BY <1>1, <1>2, <1>9 DEF RowAt
    <2>4. ASSUME NEW j \in Instances \ {i} PROVE ViewAt(j)' /\ RowAt(j)'
      <3>1. Stays(j) /\ ViewAt(j) /\ RowAt(j)
        BY <1>3 DEF Kept
      <3>2. pc[j] = "absent" /\ fd[j] = None
        BY <1>9, <2>3, <3>1 DEF RowAt
      <3>3. pc'[j] = "absent" /\ fd'[j] = None
        BY <3>1, <3>2 DEF Stays
      <3>4. ViewAt(j)'
        BY <3>1, <3>2, <3>3 DEF Stays, ViewAt, Loaded, Working
      <3>5. RowAt(j)'
        BY <3>1, <3>2, <3>3 DEF Stays, RowAt, Working
      <3> QED BY <3>4, <3>5
    <2>5. acked \subseteq {}
      BY <1>9 DEF Kept, AckedInFile, Corrupt
    <2>6. AckedInFile'
      BY <1>1, <1>7, <1>8, <2>5 DEF AckedInFile
    <2> QED BY <1>8, <2>2, <2>4, <2>6 DEF Kept
  <1>10. CASE path # None
    <2>1. path = 1 /\ Legacy(files[1]) /\ view[i].entries = Seed
      BY <1>1, <1>10, RewriterKnowsFile
    <2>2. path' = 2
      BY <1>6, <2>1
    <2>3. file.size = 10
      BY <1>8, <2>1, SeedIsChain
    <2>4. Stamped(i) \in Rows /\ Chain(Seed)
      BY <1>2, <2>1, StampedFits, SeedIsChain
    <2>5. files'[1] = files[1]
      <3>1. DOMAIN files = 1 .. Len(files)
        BY SequenceFacts DEF Shape
      <3>2. DOMAIN files = 1 .. 1
        BY <1>5, <2>1, <3>1
      <3> QED BY <1>4, <3>2 DEF Added
    <2>6. Seed \in Seq(Rows)
      BY <2>4 DEF Chain
    <2>7. Prefix(Seed, Append(Seed, Stamped(i)))
      BY <2>4, <2>6, PrefixSelf, PrefixFacts
    <2>8. Inodes'
      <3>1. Legacy(files'[1]) /\ files'[2].size > 7 /\ Grown(files'[path'])
        BY <1>8, <2>1, <2>2, <2>3, <2>5
      <3>2. Prefix(Seed, files'[2].lines)
        BY <1>8, <2>1, <2>2, <2>7
      <3>3. path' = Len(files') /\ Len(files') =< 2
        BY <1>6, <2>2
      <3> QED BY <2>2, <3>1, <3>2, <3>3 DEF Inodes
    <2>9. /\ files[path].size \in Nat /\ files[path].size =< 7 /\ ~files[path].corrupt
          /\ Lines(files[path]) = Seed
      BY <2>1, LegacyReads DEF Lines
    <2>10. ASSUME NEW j \in Instances \ {i} PROVE ViewAt(j)' /\ RowAt(j)'
      <3>1. Stays(j) /\ ViewAt(j) /\ RowAt(j)
        BY <1>3 DEF Kept
      <3>2. pc[j] \notin {"fenced", "write"}
        BY <1>1, <1>10, OneWriter
      <3>3. RowAt(j)'
        BY <1>7, <3>1, <3>2 DEF Stays, RowAt, RowFits
      <3>4. CASE pc[j] \notin Loaded
        <4>1. ViewAt(j)'
          BY <3>1, <3>4 DEF Stays, ViewAt
        <4> QED BY <3>3, <4>1
      <3>5. CASE pc[j] \in Loaded
        <4>1. /\ view[j] \in Views /\ ~view[j].deferred
              /\ Chain(view[j].entries)
              /\ view[j].size =< files[path].size
              /\ Prefix(view[j].entries, Seed)
              /\ Rewriter(view[j]) =>
                   view[j].entries = Seed /\ view[j].size =< 7 /\ Legacy(files[1])
          BY <1>10, <2>9, <3>1, <3>5 DEF ViewAt, Corrupt
        <4>2. Prefix(view[j].entries, Append(Seed, Stamped(i)))
          BY <2>4, <2>6, <4>1, PrefixFacts DEF Chain
        <4>3. view[j].size \in Nat
          BY <4>1 DEF Views
        <4>4. view[j].size =< file.size /\ view[j].size # file.size
          BY <2>3, <2>9, <4>1, <4>3
        <4>5. ViewAt(j)'
          BY <1>7, <1>8, <2>1, <2>5, <3>1, <3>5, <4>1, <4>2, <4>4
          DEF Stays, ViewAt, Corrupt
        <4> QED BY <3>3, <4>5
      <3> QED BY <3>4, <3>5
    <2>11. acked \subseteq Ids(Seed)
      BY <1>10, <2>9 DEF Kept, AckedInFile, Corrupt
    <2>12. AckedInFile'
      BY <1>1, <1>7, <1>8, <2>1, <2>11 DEF AckedInFile
    <2> QED BY <1>8, <2>8, <2>10, <2>12 DEF Kept
  <1> QED BY <1>9, <1>10

\* The death of an instance.
LEMMA CrashKeeps ==
  ASSUME Shape, Fence, Kept, NEW i \in Instances, Crash(i)
  PROVE  Kept'
  <1>1. Forget(i) /\ path' = path /\ files' = files /\ acked' = acked
    BY DEF Crash
  <1>2. ViewAt(i)' /\ RowAt(i)'
    BY <1>1, ForgetKeeps
  <1>3. \A j \in Instances \ {i} : Stays(j)
    BY <1>1 DEF Forget, Goto, Release, Clear, Shape, Stays
  <1> QED BY <1>1, <1>2, <1>3, SameDiskKeeps

\* What the instances and the file agree on, they agree on after every step.
LEMMA KeptStep ==
  ASSUME KeptInv, Next
  PROVE  KeptInv'
  <1>1. Shape' /\ Fence'
    BY ShapeStep DEF KeptInv
  <1>2. SUFFICES ASSUME removals' = 0 PROVE Kept'
    BY <1>1 DEF KeptInv
  <1>3. CASE Remove
    <2>1. removals \in Nat /\ removals' = removals + 1
      BY <1>3 DEF Remove, KeptInv, Shape
    <2> QED BY <1>2, <2>1
  <1>4. ASSUME NEW i \in Instances,
               Open(i) \/ AppendEntry(i) \/ Step(i) \/ TearLine(i) \/ Crash(i)
        PROVE  Kept'
    <2>1. removals = 0
      BY <1>2, <1>4 DEF Open, AppendEntry, Step, Read, LookForFile, OpenFence, LockFence,
         Refresh, Refuse, Buffer, Rewrite, AppendLine, TearLine, Crash, faults
    <2>2. Shape /\ Fence /\ Kept
      BY <2>1 DEF KeptInv
    <2>3. CASE Open(i)        BY <2>2, <2>3, OpenKeeps
    <2>4. CASE AppendEntry(i) BY <2>2, <2>4, AppendEntryKeeps
    <2>5. CASE Read(i)        BY <2>2, <2>5, ReadKeeps
    <2>6. CASE LookForFile(i) BY <2>2, <2>6, LookForFileKeeps
    <2>7. CASE OpenFence(i)   BY <2>2, <2>7, OpenFenceKeeps
    <2>8. CASE LockFence(i)   BY <2>2, <2>8, LockFenceKeeps
    <2>9. CASE Refresh(i)     BY <2>2, <2>9, RefreshKeeps
    <2>10. CASE Refuse(i)
      <3>1. pc[i] \in Loaded /\ Return(i) /\ path' = path /\ files' = files
            /\ view' = view /\ acked' = acked
        BY <2>10 DEF Refuse, Loaded, Working
      <3> QED BY <2>2, <3>1, GiveUpKeeps
    <2>11. CASE Buffer(i)     BY <2>2, <2>11, BufferKeeps
    <2>12. CASE Rewrite(i)    BY <2>2, <2>12, RewriteKeeps
    <2>13. CASE AppendLine(i) BY <2>2, <2>13, AppendLineKeeps
    <2>14. CASE TearLine(i)   BY <2>2, <2>14, TearLineKeeps
    <2>15. CASE Crash(i)      BY <2>2, <2>15, CrashKeeps
    <2> QED BY <1>4, <2>3, <2>4, <2>5, <2>6, <2>7, <2>8, <2>9, <2>10, <2>11, <2>12,
               <2>13, <2>14, <2>15 DEF Step
  <1> QED BY <1>3, <1>4 DEF Next

\* A file that holds a chain of rows.
LEMMA ChainFile ==
  ASSUME NEW rows, Chain(rows)
  PROVE  /\ Grown(File(4, rows)) /\ ~File(4, rows).corrupt
         /\ File(4, rows).lines = rows
  <1>1. rows \in Seq(Rows) /\ Len(rows) \in Nat
    BY DEF Chain
  <1>2. PICK g : g = File(4, rows)
    OBVIOUS
  <1>3. Header + LineSize(4) * Len(rows) \in Nat
    BY <1>1 DEF Header, LineSize
  <1>4. g = [version |-> 4, lines |-> rows, tail |-> "newline", corrupt |-> FALSE,
             size |-> Header + LineSize(4) * Len(rows)]
    BY <1>2 DEF File
  <1>5. PICK n : n = Header + LineSize(4) * Len(rows)
    OBVIOUS
  <1>6. g = [version |-> 4, lines |-> rows, tail |-> "newline", corrupt |-> FALSE,
             size |-> n]
    BY <1>4, <1>5
  <1>7. n \in Nat /\ "newline" \in Tails /\ FALSE \in BOOLEAN /\ 4 \in {3, 4}
    BY <1>3, <1>5 DEF Tails
  <1>8. g \in Files /\ g.version = 4 /\ g.lines = rows /\ g.corrupt = FALSE
    <2>1. PICK c \in BOOLEAN : c = FALSE
      OBVIOUS
    <2>2. g = [version |-> 4, lines |-> rows, tail |-> "newline", corrupt |-> c,
               size |-> n]
      BY <1>6, <2>1
    <2>3. g \in Files
      BY <1>1, <1>7, <2>1, <2>2 DEF Files
    <2>4. g.version = 4 /\ g.lines = rows /\ g.corrupt = c
      BY <2>2
    <2> QED BY <2>1, <2>3, <2>4
  <1> QED BY <1>2, <1>8 DEF Grown

\* The empty journal.
LEMMA NoRowsAreChain == Chain(<<>>) /\ Ids(<<>>) = {}
  <1>1. <<>> \in Seq(Rows) /\ DOMAIN <<>> = {}
    OBVIOUS
  <1> QED BY <1>1 DEF Chain, Ids

\* The session as it is found or created.
LEMMA InitKept == Init => KeptInv
  <1> SUFFICES ASSUME Init PROVE KeptInv
    OBVIOUS
  <1>1. Shape /\ Fence
    BY InitShape
  <1>2. PICK origin \in Origins :
          LET new == origin \in {"deferred", "created"} IN
          /\ files = FilesAtStart(origin)
          /\ pc = [i \in Instances |->
                     IF new /\ i = Creator THEN "idle" ELSE "absent"]
          /\ view = [i \in Instances |->
                       IF i # Creator \/ ~new THEN NoView
                       ELSE IF origin = "created" THEN ViewOf(files[1])
                       ELSE [NoView EXCEPT !.deferred = TRUE]]
          /\ acked = IF new THEN {} ELSE {1, 2}
    BY DEF Init
  <1>3. /\ path = Len(files)
        /\ \A i \in Instances : row[i] = NewRow /\ fd[i] = None
    BY DEF Init
  <1>4. NoView \in Views /\ NoView.entries = <<>> /\ ~NoView.deferred
        /\ NoView.version = 4 /\ ~NoView.needsRewrite /\ NoView.size = 0
    BY DEF NoView, Views
  <1>5. \A i \in Instances : pc[i] = "absent" /\ view[i] = NoView => ViewAt(i) /\ RowAt(i)
    BY <1>3, <1>4 DEF ViewAt, RowAt, Loaded, Working
  <1>6. CASE origin = "deferred"
    <2>1. files = <<>> /\ acked = {}
      BY <1>2, <1>6 DEF FilesAtStart
    <2>2. path = None
      BY <1>3, <2>1 DEF None
    <2>3. Inodes /\ AckedInFile
      BY <1>3, <2>1, <2>2 DEF Inodes, AckedInFile, None
    <2>4. ASSUME NEW i \in Instances PROVE ViewAt(i) /\ RowAt(i)
      <3>1. CASE i # Creator
        <4>1. pc[i] = "absent" /\ view[i] = NoView
          BY <1>2, <1>6, <3>1
        <4> QED BY <1>5, <4>1
      <3>2. CASE i = Creator
        <4>1. pc[i] = "idle" /\ view[i] = [NoView EXCEPT !.deferred = TRUE]
          BY <1>2, <1>6, <3>2
        <4>2. /\ view[i] \in Views /\ view[i].entries = <<>> /\ view[i].deferred
              /\ view[i].version = 4 /\ view[i].needsRewrite = FALSE
          <5>1. PICK v : v = NoView
            OBVIOUS
          <5>2. PICK b \in BOOLEAN : b = TRUE
            OBVIOUS
          <5>3. view[i] = [v EXCEPT !.deferred = b]
            BY <4>1, <5>1, <5>2
          <5>4. view[i] \in Views /\ view[i].deferred = b /\ view[i].entries = v.entries
                /\ view[i].version = v.version /\ view[i].needsRewrite = v.needsRewrite
            BY <1>4, <5>1, <5>2, <5>3 DEF Views
          <5> QED BY <1>4, <5>1, <5>2, <5>4 DEF NoView
        <4>3. ViewAt(i)
          BY <2>2, <4>1, <4>2, NoRowsAreChain DEF ViewAt, Rewriter, Loaded
        <4>4. RowAt(i)
          BY <1>3, <3>2, <4>1 DEF RowAt, Working
        <4> QED BY <4>3, <4>4
      <3> QED BY <3>1, <3>2
    <2> QED BY <1>1, <2>3, <2>4 DEF KeptInv, Kept
  <1>7. CASE origin = "created"
    <2>1. files = <<File(4, <<>>)>> /\ acked = {}
      BY <1>2, <1>7 DEF FilesAtStart
    <2>2. path = 1 /\ files[1] = File(4, <<>>) /\ Len(files) = 1
      BY <1>3, <2>1
    <2>3. Grown(files[1]) /\ ~files[1].corrupt /\ files[1].lines = <<>>
      BY <2>2, NoRowsAreChain, ChainFile
    <2>4. Inodes /\ AckedInFile
      BY <2>1, <2>2, <2>3 DEF Inodes, AckedInFile, None
    <2>5. ASSUME NEW i \in Instances PROVE ViewAt(i) /\ RowAt(i)
      <3>1. CASE i # Creator
        <4>1. pc[i] = "absent" /\ view[i] = NoView
          BY <1>2, <1>7, <3>1
        <4> QED BY <1>5, <4>1
      <3>2. CASE i = Creator
        <4>1. pc[i] = "idle" /\ view[i] = ViewOf(files[1])
          BY <1>2, <1>7, <3>2
        <4>2. /\ view[i] \in Views /\ view[i].entries = <<>> /\ view[i].deferred = FALSE
              /\ view[i].size = files[1].size /\ ~Rewriter(view[i])
          BY <2>3, <4>1, GrownView
        <4>3. ~Legacy(files[1]) /\ Lines(files[1]) = <<>>
          BY <2>3, GrownIsNotLegacy DEF Lines
        <4>4. Prefix(view[i].entries, Lines(files[1]))
          BY <4>2, <4>3, NoRowsAreChain, PrefixSelf DEF Chain
        <4>5. view[i].size =< files[1].size
          BY <4>2 DEF Views
        <4>6. InStep(view[i], files[1])
          BY <4>2, <4>3 DEF InStep
        <4>7. ViewAt(i)
          BY <2>2, <4>1, <4>2, <4>4, <4>5, <4>6, NoRowsAreChain
          DEF ViewAt, Loaded, None
        <4>8. RowAt(i)
          BY <1>3, <2>2, <4>1 DEF RowAt, Working, None
        <4> QED BY <4>7, <4>8
      <3> QED BY <3>1, <3>2
    <2> QED BY <1>1, <2>4, <2>5 DEF KeptInv, Kept
  <1>8. CASE origin \in {"v3", "v4", "inverted"}
    <2>1. acked = {1, 2} /\ \A i \in Instances : pc[i] = "absent" /\ view[i] = NoView
      BY <1>2, <1>8
    <2>2. PICK file : files = <<file>> /\ (Legacy(file) \/ file = File(4, Seed))
      BY <1>2, <1>8 DEF FilesAtStart, Legacy, Seed
    <2>3. path = 1 /\ files[1] = file /\ Len(files) = 1
      BY <1>3, <2>2
    <2>4. Legacy(file) \/ Grown(file)
      BY <2>2, SeedIsChain, ChainFile
    <2>5. Lines(file) = Seed
      <3>1. CASE Legacy(file)
        BY <3>1 DEF Lines
      <3>2. CASE ~Legacy(file)
        BY <2>2, <3>2, SeedIsChain, ChainFile DEF Lines
      <3> QED BY <3>1, <3>2
    <2>6. Inodes
      BY <2>3, <2>4 DEF Inodes
    <2>7. AckedInFile
      BY <2>1, <2>3, <2>5, SeedIsChain DEF AckedInFile, None
    <2> QED BY <1>1, <1>5, <2>1, <2>6, <2>7 DEF KeptInv, Kept
  <1> QED BY <1>6, <1>7, <1>8, JournalAssumption

\* A prefix is the front of the sequence it is a prefix of.
LEMMA PrefixIsFront ==
  ASSUME NEW rows \in Seq(Rows), NEW longer \in Seq(Rows), Prefix(rows, longer)
  PROVE  Len(rows) =< Len(longer) /\ SubSeq(longer, 1, Len(rows)) = rows
  <1> DEFINE front == SubSeq(longer, 1, Len(rows))
  <1>1. Len(rows) \in Nat /\ Len(longer) \in Nat /\ Len(rows) =< Len(longer)
        /\ DOMAIN rows = 1 .. Len(rows)
    BY DEF Prefix
  <1>2. \A k \in 1 .. Len(rows) : longer[k] = rows[k] /\ longer[k] \in Rows
    BY <1>1 DEF Prefix
  <1>3. front \in Seq(Rows) /\ Len(front) = Len(rows)
        /\ \A k \in 1 .. Len(rows) : front[k] = longer[k]
    BY <1>1
  <1>4. front = rows
    BY <1>2, <1>3
  <1> QED BY <1>1, <1>4

\* The journal as its readers see it, as long as it is intact.
Journal == IF path = None THEN <<>> ELSE Lines(files[path])

\* A reader of an intact file sees the journal, with every acknowledged row.
LEMMA JournalReads ==
  ASSUME Shape, Kept, ~Corrupt
  PROVE  /\ Chain(Journal)
         /\ path # None => Parses(files[path]) /\ Entries(files[path]) = Journal
         /\ acked \subseteq Ids(Journal)
  <1>1. CASE path = None
    BY <1>1, NoRowsAreChain DEF Journal, Kept, AckedInFile
  <1>2. CASE path # None
    <2>1. Readable(files[path])
      BY <1>2, PathFile DEF Corrupt
    <2> QED BY <1>2, <2>1 DEF Readable, Journal, Kept, AckedInFile
  <1> QED BY <1>1, <1>2

\* Every step of an intact file extends the journal and keeps what was
\* acknowledged.
LEMMA JournalGrows ==
  ASSUME Shape, Fence, Kept, Next, removals' = removals, ~Corrupt'
  PROVE  /\ ~Corrupt
         /\ Prefix(Journal, Journal')
         /\ acked \subseteq acked'
  <1>1. ASSUME path' = path, files' = files, acked' = acked
        PROVE  ~Corrupt /\ Prefix(Journal, Journal') /\ acked \subseteq acked'
    <2>1. ~Corrupt /\ Journal' = Journal
      BY <1>1 DEF Corrupt, Journal
    <2>2. Journal \in Seq(Rows)
      BY <2>1, JournalReads DEF Chain
    <2> QED BY <1>1, <2>1, <2>2, PrefixSelf
  <1>2. PICK i \in Instances :
          Open(i) \/ AppendEntry(i) \/ Step(i) \/ TearLine(i) \/ Crash(i)
    <2>1. ~Remove
      BY DEF Remove, Shape
    <2> QED BY <2>1 DEF Next
  <1>3. ASSUME NEW g, NEW line \in Rows, path # None, path' = path,
               Written(files', files, path, g), Grown(files[path]),
               Grows(files[path], g, line)
        PROVE  ~Corrupt /\ Prefix(Journal, Journal')
    <2>1. files'[path'] = g
      BY <1>3 DEF Written
    <2>2. ~g.corrupt
      BY <1>3, <2>1 DEF Corrupt
    <2>3. ~files[path].corrupt
          /\ g.lines \in {files[path].lines, Append(files[path].lines, line)}
          /\ Grown(g)
      BY <1>3, <2>2 DEF Grows
    <2>4. Journal = files[path].lines /\ Journal' = g.lines
      BY <1>3, <2>1, <2>3, GrownIsNotLegacy DEF Journal, Lines
    <2>5. Journal \in Seq(Rows)
      BY <1>3, <2>4 DEF Grown, Files
    <2>6. Prefix(Journal, Journal')
      BY <1>3, <2>3, <2>4, <2>5, PrefixSelf, PrefixFacts
    <2> QED BY <2>3, <2>6 DEF Corrupt
  <1>4. CASE AppendLine(i) \/ TearLine(i)
    <2>1. pc[i] = "write" /\ Writes(i) /\ path' = path
      BY <1>4 DEF AppendLine, TearLine
    <2>2. /\ path # None /\ fd[i] = path /\ Grown(files[path])
          /\ ~files[path].corrupt => view[i].entries = files[path].lines
      BY <2>1, WriterKnowsFile
    <2>3. ViewAt(i) /\ RowFits(i) /\ pc[i] \in Loaded
      BY <2>1 DEF Kept, RowAt, Loaded, Working
    <2>4. Chain(view[i].entries)
      BY <2>3 DEF ViewAt
    <2>5. Stamped(i) \in Rows /\ Chain(Append(view[i].entries, Stamped(i)))
      BY <2>3, <2>4, StampedFits
    <2>6. ~files[path].corrupt => Chain(Append(files[path].lines, Stamped(i)))
      BY <2>2, <2>5
    <2>7. path \in DOMAIN files
      BY <2>2, PathFile
    <2>8. CASE AppendLine(i)
      <3>1. files' = [files EXCEPT ![path] = WithLine(files[path], Stamped(i))]
        BY <2>2, <2>8 DEF AppendLine
      <3>2. Written(files', files, path, WithLine(files[path], Stamped(i)))
        BY <2>7, <3>1, FilesWritten DEF Shape
      <3>3. Grows(files[path], WithLine(files[path], Stamped(i)), Stamped(i))
        BY <2>2, <2>5, <2>6, LineGrows
      <3>4. acked \subseteq acked'
        BY <2>8 DEF AppendLine
      <3> QED BY <1>3, <2>1, <2>2, <2>5, <3>2, <3>3, <3>4
    <2>9. CASE TearLine(i)
      <3>1. PICK tail \in {"torn", "bare"} :
              files' = [files EXCEPT ![path] = CutLine(files[path], Stamped(i), tail)]
        BY <2>2, <2>9 DEF TearLine
      <3>2. Written(files', files, path, CutLine(files[path], Stamped(i), tail))
        BY <2>7, <3>1, FilesWritten DEF Shape
      <3>3. Grows(files[path], CutLine(files[path], Stamped(i), tail), Stamped(i))
        BY <2>2, <2>5, <2>6, CutGrows
      <3>4. acked' = acked
        BY <2>9 DEF TearLine
      <3> QED BY <1>3, <2>1, <2>2, <2>5, <3>2, <3>3, <3>4
    <2> QED BY <1>4, <2>8, <2>9
  <1>5. CASE Rewrite(i)
    <2>1. /\ pc[i] = "write" /\ Rewrites(i)
          /\ files' = Append(files, Rewritten(i)) /\ path' = Len(files')
          /\ acked \subseteq acked'
      BY <1>5 DEF Rewrite
    <2>2. ViewAt(i) /\ RowFits(i) /\ pc[i] \in Loaded
      BY <2>1 DEF Kept, RowAt, Loaded, Working
    <2>3. Chain(view[i].entries)
      BY <2>2 DEF ViewAt
    <2>4. Added(files', files, Rewritten(i))
      BY <2>1, FilesAppended DEF Shape
    <2>5. files'[path'] = Rewritten(i) /\ path' # None
      BY <2>1, <2>4, SequenceFacts DEF Shape, Added, None
    <2>6. Grown(Rewritten(i)) /\ Rewritten(i).lines = Append(view[i].entries, Stamped(i))
      BY <2>2, <2>3, RewrittenGrown
    <2>7. Journal' = Append(view[i].entries, Stamped(i))
      BY <2>5, <2>6, GrownIsNotLegacy DEF Journal, Lines
    <2>8. Stamped(i) \in Rows /\ view[i].entries \in Seq(Rows)
      BY <2>2, <2>3, StampedFits DEF Chain
    <2>9. CASE path = None
      <3>1. Journal = <<>> /\ ~Corrupt
        BY <2>9 DEF Journal, Corrupt
      <3>2. Journal' \in Seq(Rows)
        BY <2>7, <2>8
      <3>3. Prefix(<<>>, Journal')
        BY <3>2 DEF Prefix
      <3> QED BY <2>1, <3>1, <3>3
    <2>10. CASE path # None
      <3>1. path = 1 /\ Legacy(files[1]) /\ view[i].entries = Seed
        BY <2>1, <2>10, RewriterKnowsFile
      <3>2. Journal = Seed /\ ~Corrupt
        BY <2>10, <3>1, LegacyReads DEF Journal, Lines, Corrupt
      <3>3. Prefix(Seed, Append(Seed, Stamped(i)))
        BY <2>8, <3>1, PrefixSelf, PrefixFacts
      <3> QED BY <2>1, <2>7, <3>1, <3>2, <3>3
    <2> QED BY <2>9, <2>10
  <1>6. CASE Open(i) \/ AppendEntry(i) \/ Read(i) \/ LookForFile(i) \/ OpenFence(i)
             \/ LockFence(i) \/ Refresh(i) \/ Refuse(i) \/ Buffer(i) \/ Crash(i)
    <2>1. path' = path /\ files' = files /\ acked' = acked
      BY <1>6 DEF Open, AppendEntry, Read, LookForFile, OpenFence, LockFence, Refresh,
         Refuse, Buffer, Crash, disk
    <2> QED BY <1>1, <2>1
  <1> QED BY <1>2, <1>4, <1>5, <1>6 DEF Step

\* A chain is what the abstract log asks of its rows.
LEMMA ChainIsChained ==
  ASSUME NEW rows, Chain(rows)
  PROVE  Log!Chained(rows) /\ Log!UniqueIds(rows)
  <1>1. rows \in Seq(Rows) /\ Len(rows) \in Nat /\ DOMAIN rows = 1 .. Len(rows)
    BY DEF Chain
  <1>2. ASSUME NEW k \in DOMAIN rows
        PROVE  rows[k].parent = Log!Cursor(SubSeq(rows, 1, k - 1))
    <2> DEFINE front == SubSeq(rows, 1, k - 1)
    <2>1. rows[k].parent = HangsOn(rows, k)
      BY DEF Chain
    <2>2. k \in Nat /\ 1 =< k /\ k =< Len(rows)
      BY <1>1
    <2>3. CASE k = 1
      <3>1. front = <<>>
        BY <1>1, <2>3
      <3> HIDE DEF front
      <3>2. Log!Cursor(front) = NoRow
        BY <3>1 DEF Log!Cursor
      <3> QED BY <2>1, <2>3, <3>2 DEF HangsOn, front
    <2>4. CASE k # 1
      <3>1. k - 1 \in 1 .. Len(rows) /\ k - 1 \in Nat /\ 1 =< k - 1
        BY <2>2, <2>4
      <3>2. Len(front) = k - 1 /\ front[k - 1] = rows[k - 1]
        BY <1>1, <3>1
      <3>3. front # <<>>
        BY <3>1, <3>2
      <3> HIDE DEF front
      <3>4. Log!Cursor(front) = rows[k - 1].target
        BY <3>2, <3>3 DEF Log!Cursor
      <3> QED BY <2>1, <2>4, <3>4 DEF HangsOn, front
    <2> QED BY <2>3, <2>4
  <1>3. Log!Chained(rows)
    BY <1>2 DEF Log!Chained
  <1>4. Log!UniqueIds(rows)
    BY ChainIds DEF Log!UniqueIds
  <1> QED BY <1>3, <1>4

-----------------------------------------------------------------------------
(* The theorems.                                                           *)

\* A removal is never undone.
LEMMA RemovalsOnlyGrow ==
  ASSUME Shape, Next, removals' = 0
  PROVE  removals = 0 /\ removals' = removals
  <1>1. CASE Remove
    <2>1. removals \in Nat /\ removals' = removals + 1
      BY <1>1 DEF Remove, Shape
    <2> QED BY <2>1
  <1>2. ASSUME NEW i \in Instances,
               Open(i) \/ AppendEntry(i) \/ Step(i) \/ TearLine(i) \/ Crash(i)
        PROVE  removals' = removals
    BY <1>2 DEF Open, AppendEntry, Step, Read, LookForFile, OpenFence, LockFence,
       Refresh, Refuse, Buffer, Rewrite, AppendLine, TearLine, Crash, faults
  <1> QED BY <1>1, <1>2 DEF Next

\* The inductive invariant holds: shape and fence always, and as long as
\* nobody removes the file, file, views, rows and acknowledgements agree.
THEOREM KeptHolds == Spec => []KeptInv
  <1>1. Init => KeptInv
    BY InitKept
  <1>2. KeptInv /\ [Next]_vars => KeptInv'
    <2>1. KeptInv /\ Next => KeptInv'
      BY KeptStep
    <2>2. KeptInv /\ UNCHANGED vars => KeptInv'
      <3> SUFFICES ASSUME KeptInv, UNCHANGED vars PROVE KeptInv'
        OBVIOUS
      <3>1. /\ path' = path /\ files' = files /\ holder' = holder /\ pc' = pc
            /\ view' = view /\ row' = row /\ durable' = durable /\ fd' = fd
            /\ tries' = tries /\ acked' = acked /\ crashes' = crashes
            /\ tears' = tears /\ removals' = removals
        BY DEF vars
      <3>2. Shape' /\ Fence'
        BY <3>1 DEF KeptInv, Shape, Fence
      <3>3. Kept => Kept'
        <4> SUFFICES ASSUME Kept PROVE Kept'
          OBVIOUS
        <4>1. Inodes' /\ AckedInFile'
          BY <3>1 DEF Kept, Inodes, AckedInFile, Corrupt
        <4>2. ASSUME NEW i \in Instances PROVE ViewAt(i)' /\ RowAt(i)'
          BY <3>1, SameDiskStays DEF Kept, Stays
        <4> QED BY <4>1, <4>2 DEF Kept
      <3> QED BY <3>1, <3>2, <3>3 DEF KeptInv
    <2> QED BY <2>1, <2>2
  <1> QED BY <1>1, <1>2, PTL DEF Spec

\* The fence excludes: two instances that are past the check of their lock
\* never work on the same inode, with removals, renames and crashes
\* (WriteFence::acquire).
THEOREM FenceExcludes ==
  Spec => [](\A i, j \in Instances :
               /\ pc[i] \in {"fenced", "write"} /\ pc[j] \in {"fenced", "write"}
               /\ fd[i] # None /\ fd[j] = fd[i]
               => i = j)
  <1> DEFINE Excludes ==
        \A i, j \in Instances :
          /\ pc[i] \in {"fenced", "write"} /\ pc[j] \in {"fenced", "write"}
          /\ fd[i] # None /\ fd[j] = fd[i]
          => i = j
  <1>1. KeptInv => Excludes
    <2> SUFFICES ASSUME KeptInv, NEW i \in Instances, NEW j \in Instances,
                        pc[i] \in {"fenced", "write"}, pc[j] \in {"fenced", "write"},
                        fd[i] # None, fd[j] = fd[i]
                 PROVE  i = j
      OBVIOUS
    <2>1. fd[i] \in 1 .. MaxInodes
      <3>1. fd[i] \in 0 .. Len(files) /\ Len(files) =< MaxInodes
        BY DEF KeptInv, Shape
      <3>2. Len(files) \in Nat /\ MaxInodes \in Nat
        BY SequenceFacts, JournalAssumption DEF KeptInv, Shape
      <3> QED BY <3>1, <3>2 DEF None
    <2> QED BY <2>1 DEF KeptInv, Fence
  <1> HIDE DEF Excludes
  <1>2. Spec => []Excludes
    BY <1>1, KeptHolds, PTL
  <1> QED BY <1>2 DEF Excludes

\* As long as the file is intact every instance holds a prefix of the
\* journal, whoever appends, reloads, migrates or crashes meanwhile.
THEOREM ViewIsPrefixHolds == Spec => []ViewIsPrefix
  <1>1. KeptInv => ViewIsPrefix
    <2> SUFFICES ASSUME KeptInv, path # None, Intact, NEW i \in Instances,
                        ~view[i].deferred
                 PROVE  LET entries == view[i].entries
                            journal == Entries(files[path])
                        IN /\ Len(entries) =< Len(journal)
                           /\ SubSeq(journal, 1, Len(entries)) = entries
      BY DEF ViewIsPrefix
    <2>1. Shape /\ Kept /\ ~Corrupt
      BY DEF KeptInv, Intact
    <2>2. Chain(Journal) /\ Entries(files[path]) = Journal /\ Journal = Lines(files[path])
      BY <2>1, JournalReads DEF Journal
    <2>3. Journal \in Seq(Rows)
      BY <2>2 DEF Chain
    <2>4. view[i].entries \in Seq(Rows) /\ Prefix(view[i].entries, Journal)
      <3>1. ViewAt(i)
        BY <2>1 DEF Kept
      <3>2. CASE pc[i] \in Loaded
        BY <2>1, <2>2, <3>1, <3>2 DEF ViewAt, Chain
      <3>3. CASE pc[i] \notin Loaded
        <4>1. view[i].entries = <<>>
          BY <3>1, <3>3 DEF ViewAt, NoView
        <4> QED BY <2>3, <4>1 DEF Prefix
      <3> QED BY <3>2, <3>3
    <2>5. /\ Len(view[i].entries) =< Len(Journal)
          /\ SubSeq(Journal, 1, Len(view[i].entries)) = view[i].entries
      BY <2>3, <2>4, PrefixIsFront
    <2> QED BY <2>2, <2>5
  <1> QED BY <1>1, KeptHolds, PTL

\* What the refinement maps to the abstract log is the journal.
Mapped == IF path # None /\ Parses(files[path]) THEN Entries(files[path]) ELSE <<>>

\* While the file is intact the mapped log is the journal.
LEMMA MappedJournal ==
  KeptInv /\ Intact => /\ Mapped = Journal
                       /\ Chain(Journal) /\ acked \subseteq Ids(Journal)
  <1> SUFFICES ASSUME KeptInv, Intact
               PROVE  /\ Mapped = Journal
                      /\ Chain(Journal) /\ acked \subseteq Ids(Journal)
    OBVIOUS
  <1>1. Shape /\ Kept /\ ~Corrupt
    BY DEF KeptInv, Intact
  <1>2. CASE path = None
    BY <1>1, <1>2, JournalReads DEF Journal, Mapped
  <1>3. CASE path # None
    BY <1>1, <1>3, JournalReads DEF Mapped
  <1> QED BY <1>2, <1>3

\* The same after a step.
LEMMA MappedJournalNext ==
  KeptInv' /\ Intact' => /\ Mapped' = Journal'
                         /\ Chain(Journal') /\ acked' \subseteq Ids(Journal')
  <1>1. (KeptInv /\ Intact => /\ Mapped = Journal
                             /\ Chain(Journal) /\ acked \subseteq Ids(Journal))'
    BY MappedJournal, PTL
  <1> QED BY <1>1

\* The file that is there at the start is not corrupt.
LEMMA StartsIntact == Init => Intact
  <1> SUFFICES ASSUME Init PROVE Intact
    OBVIOUS
  <1>1. PICK origin \in Origins : files = FilesAtStart(origin)
    BY DEF Init
  <1>2. files = <<>> \/ \E version, lines : files = <<File(version, lines)>>
    BY <1>1, JournalAssumption DEF FilesAtStart
  <1>3. removals = 0 /\ path = Len(files)
    BY DEF Init
  <1>4. CASE files = <<>>
    BY <1>3, <1>4 DEF Intact, Corrupt, None
  <1>5. ASSUME NEW version, NEW lines, files = <<File(version, lines)>>
        PROVE  Intact
    <2>1. path = 1 /\ files[1] = File(version, lines)
      BY <1>3, <1>5
    <2>2. File(version, lines).corrupt = FALSE
      BY DEF File
    <2> QED BY <1>3, <2>1, <2>2 DEF Intact, Corrupt
  <1> QED BY <1>2, <1>4, <1>5

\* A step of the abstract log, for the mapped values.
LEMMA LogStep ==
  ASSUME KeptInv, KeptInv', Next
  PROVE  Log!Grow \/ Log!Break
  <1>1. CASE ~Intact'
    BY <1>1 DEF Log!Break
  <1>2. CASE Intact'
    <2>1. removals' = 0 /\ ~Corrupt'
      BY <1>2 DEF Intact
    <2>2. Shape /\ Fence
      BY DEF KeptInv
    <2>3. removals = 0 /\ removals' = removals
      BY <2>1, <2>2, RemovalsOnlyGrow
    <2>4. Kept
      BY <2>3 DEF KeptInv
    <2>5. ~Corrupt /\ Prefix(Journal, Journal') /\ acked \subseteq acked'
      BY <2>1, <2>2, <2>3, <2>4, JournalGrows
    <2>6. Intact
      BY <2>3, <2>5 DEF Intact
    <2>7. Mapped = Journal /\ Chain(Journal)
      BY <2>6, MappedJournal
    <2>8. Mapped' = Journal' /\ Chain(Journal') /\ acked' \subseteq Ids(Journal')
      BY <1>2, MappedJournalNext
    <2>9. Log!Extends(Journal', Journal)
      BY <2>5, <2>7, <2>8, PrefixIsFront DEF Log!Extends, Chain
    <2>10. Log!Chained(Journal') /\ Log!UniqueIds(Journal')
      BY <2>8, ChainIsChained
    <2>11. acked' \subseteq Log!RowIds(Journal')
      BY <2>8 DEF Log!RowIds, Ids
    <2>12. ~Intact = FALSE /\ (~Intact)' = FALSE
      BY <1>2, <2>6
    <2>13. Log!Grow
      BY <2>5, <2>7, <2>8, <2>9, <2>10, <2>11, <2>12 DEF Log!Grow, Mapped
    <2> QED BY <2>13
  <1> QED BY <1>1, <1>2

\* The file and its instances implement an append-only log of acknowledged
\* rows: what a reader sees only ever grows at its end, each row hangs on the
\* cursor its predecessor left under an id of its own, and no row whose append
\* returned Ok and reached the disk is lost.
THEOREM JournalImplementsAppendLog == Spec => JournalIsAppendLog
  <1>1. Init => Log!LogInit
    <2> SUFFICES ASSUME Init PROVE Log!LogInit
      OBVIOUS
    <2>1. KeptInv /\ Intact
      BY InitKept, StartsIntact
    <2>2. Mapped = Journal /\ Chain(Journal) /\ acked \subseteq Ids(Journal)
      BY <2>1, MappedJournal
    <2>3. Log!Chained(Mapped) /\ Log!UniqueIds(Mapped)
      BY <2>2, ChainIsChained
    <2>4. acked \subseteq Log!RowIds(Mapped)
      BY <2>2 DEF Log!RowIds, Ids
    <2>5. (~Intact) = FALSE
      BY <2>1
    <2> QED BY <2>3, <2>4, <2>5 DEF Log!LogInit, Mapped
  <1>2. KeptInv /\ KeptInv' /\ [Next]_vars => [Log!Grow \/ Log!Break]_(Log!logVars)
    <2>1. KeptInv /\ KeptInv' /\ Next => Log!Grow \/ Log!Break
      BY LogStep
    <2>2. UNCHANGED vars => UNCHANGED Log!logVars
      BY DEF vars, Log!logVars, Intact, Corrupt
    <2> QED BY <2>1, <2>2
  <1> QED BY <1>1, <1>2, KeptHolds, PTL DEF Spec, JournalIsAppendLog, Log!LogSpec

-----------------------------------------------------------------------------
(* The only instance of a session, with removals of the file.              *)

\* A step that is no fault moves one instance, and never away.
LEMMA OneMoves ==
  ASSUME Shape, NEW j \in Instances, Open(j) \/ AppendEntry(j) \/ Step(j)
  PROVE  /\ pc'[j] # "absent" /\ \A k \in Instances \ {j} : pc'[k] = pc[k]
         /\ crashes' = crashes /\ tears' = tears
  <1>1. \E label \in PCs \ {"absent"} : Goto(j, label)
    BY DEF Open, AppendEntry, Step, Read, LookForFile, OpenFence, LockFence, Refresh,
       Refuse, Buffer, Rewrite, AppendLine, Return, PCs
  <1>2. crashes' = crashes /\ tears' = tears
    BY DEF Open, AppendEntry, Step, Read, LookForFile, OpenFence, LockFence, Refresh,
       Refuse, Buffer, Rewrite, AppendLine, faults
  <1> QED BY <1>1, <1>2 DEF Goto, Shape

\* Who is alone was alone before, and did the step or lost the file.
LEMMA AloneBefore ==
  ASSUME Shape, Next, NEW i \in Instances, Alone(i)'
  PROVE  Alone(i) /\ (Remove \/ Open(i) \/ AppendEntry(i) \/ Step(i))
  <1>1. CASE Remove
    BY <1>1 DEF Remove, Alone
  <1>2. ASSUME NEW j \in Instances, TearLine(j) \/ Crash(j) PROVE FALSE
    <2>1. crashes \in Nat /\ tears \in Nat
      BY DEF Shape
    <2>2. crashes' = crashes + 1 \/ tears' = tears + 1
      BY <1>2 DEF TearLine, Crash
    <2> QED BY <2>1, <2>2 DEF Alone
  <1>3. ASSUME NEW j \in Instances, Open(j) \/ AppendEntry(j) \/ Step(j)
        PROVE  Alone(i) /\ (Open(i) \/ AppendEntry(i) \/ Step(i))
    <2>1. /\ pc'[j] # "absent" /\ \A k \in Instances \ {j} : pc'[k] = pc[k]
          /\ crashes' = crashes /\ tears' = tears
      BY <1>3, OneMoves
    <2>2. j = i
      BY <2>1 DEF Alone
    <2> QED BY <1>3, <2>1, <2>2 DEF Alone
  <1> QED BY <1>1, <1>2, <1>3 DEF Next

\* A step that leaves the files and the view alone.
LEMMA HealsUnwritten ==
  ASSUME NEW i \in Instances, HealAt(i), files' = files, view'[i] = view[i],
         fd'[i] \in {None, Len(files)}, pc'[i] \in Loaded => pc[i] \in Loaded,
         pc'[i] \in Working => RowFits(i)'
  PROVE  HealAt(i)'
  BY DEF HealAt

\* An append that gives up.
LEMMA HealsReturn ==
  ASSUME Shape, NEW i \in Instances, HealAt(i), files' = files, view' = view,
         pc[i] \in Loaded, Return(i)
  PROVE  HealAt(i)'
  <1>1. pc'[i] = "idle" /\ fd'[i] = None
    BY DEF Return, Goto, Release, Shape
  <1>2. pc'[i] \notin Working
    BY <1>1 DEF Working
  <1> QED BY <1>1, <1>2, HealsUnwritten

\* The newest file is read as it was written.
LEMMA NewestReads ==
  ASSUME Shape, NEW i \in Instances, HealAt(i), Len(files) # 0
  PROVE  /\ Len(files) \in DOMAIN files /\ Sound(files[Len(files)])
         /\ Readable(files[Len(files)])
  <1>1. Len(files) \in DOMAIN files
    BY SequenceFacts DEF Shape
  <1>2. Sound(files[Len(files)])
    BY <1>1 DEF HealAt
  <1> QED BY <1>1, <1>2, FilesAreReadable DEF Sound

\* The load of the only instance.
LEMMA HealsRead ==
  ASSUME Shape, Fence, NEW i \in Instances, HealAt(i), Read(i)
  PROVE  HealAt(i)'
  <1> DEFINE file == files[Len(files)]
  <1>1. pc[i] = "reading" /\ files' = files /\ fd'[i] = None
    BY DEF Read, Shape, disk
  <1>2. fd[i] = Len(files) /\ Len(files) # 0
    BY <1>1 DEF Fence, HealAt, None
  <1>3. Readable(file)
    BY <1>2, NewestReads
  <1>4. pc'[i] = "idle" /\ view'[i] = ViewOf(file)
    BY <1>2, <1>3 DEF Read, Readable, Goto, Shape
  <1>5. /\ view'[i] \in Views /\ InStep(view'[i], file) /\ view'[i].size = file.size
        /\ ~view'[i].deferred /\ Chain(view'[i].entries)
    BY <1>3, <1>4 DEF Readable, InStep
  <1>6. pc'[i] \notin Working /\ pc'[i] \in Loaded
    BY <1>4 DEF Working, Loaded
  <1> QED BY <1>1, <1>2, <1>5, <1>6 DEF HealAt

\* The only instance never has to reload.
LEMMA HealsRefresh ==
  ASSUME Shape, Fence, NEW i \in Instances, HealAt(i), Refresh(i)
  PROVE  HealAt(i)'
  <1>1. pc[i] = "fenced" /\ files' = files
    BY DEF Refresh
  <1>2. fd[i] = Len(files) /\ Len(files) # 0 /\ pc[i] \in Loaded /\ RowFits(i)
    BY <1>1 DEF Fence, HealAt, None, Loaded, Working
  <1>3. files[fd[i]].size = view[i].size
    BY <1>2 DEF HealAt
  <1>4. Goto(i, "write") /\ view' = view /\ fd' = fd /\ row' = row
    BY <1>3 DEF Refresh, append
  <1>5. RowFits(i)'
    BY <1>2, <1>4 DEF RowFits
  <1> QED BY <1>1, <1>2, <1>4, <1>5, HealsUnwritten

\* A row kept in memory by the only instance.
LEMMA HealsBuffer ==
  ASSUME Shape, NEW i \in Instances, HealAt(i), Buffer(i)
  PROVE  HealAt(i)'
  <1> DEFINE longer == Append(view[i].entries, Stamped(i))
  <1>1. pc[i] = "write" /\ view[i].deferred /\ Return(i) /\ files' = files
    BY DEF Buffer, Buffers
  <1>2. pc[i] \in Loaded /\ pc[i] \in Working
    BY <1>1 DEF Loaded, Working
  <1>3. /\ RowFits(i) /\ view[i] \in Views /\ Chain(view[i].entries)
        /\ Len(files) = 0 /\ ~Rewriter(view[i])
    BY <1>1, <1>2 DEF HealAt
  <1>4. Chain(longer)
    BY <1>3, StampedFits
  <1>5. longer \in Seq(Rows)
    BY <1>4 DEF Chain
  <1>6. view'[i] = [view[i] EXCEPT !.entries = longer]
    BY DEF Buffer, Shape
  <1>7. pc'[i] = "idle" /\ fd'[i] = None
    BY <1>1 DEF Return, Goto, Release, Shape
  <1> HIDE DEF longer
  <1>8. /\ view'[i] \in Views /\ view'[i].entries = longer
        /\ view'[i].deferred = view[i].deferred
        /\ view'[i].version = view[i].version
        /\ view'[i].needsRewrite = view[i].needsRewrite
    BY <1>3, <1>5, <1>6 DEF Views
  <1>9. ~Rewriter(view'[i])
    BY <1>3, <1>8 DEF Rewriter
  <1>10. pc'[i] \notin Working
    BY <1>7 DEF Working
  <1>11. \A n \in DOMAIN files' : Sound(files'[n])
    BY <1>1 DEF HealAt
  <1> QED BY <1>1, <1>3, <1>4, <1>7, <1>8, <1>9, <1>10, <1>11 DEF HealAt

\* The whole history in a new file.
LEMMA HealsRewrite ==
  ASSUME Shape, NEW i \in Instances, HealAt(i), Rewrite(i)
  PROVE  HealAt(i)'
  <1> DEFINE longer == Append(view[i].entries, Stamped(i))
             file == Rewritten(i)
  <1>1. pc[i] = "write" /\ Return(i) /\ files' = Append(files, file)
    BY DEF Rewrite
  <1>2. pc[i] \in Loaded /\ pc[i] \in Working
    BY <1>1 DEF Loaded, Working
  <1>3. RowFits(i) /\ Chain(view[i].entries)
    BY <1>2 DEF HealAt
  <1>4. /\ Grown(file) /\ ~file.corrupt /\ file.tail = "newline" /\ file.lines = longer
    BY <1>3, RewrittenGrown
  <1>5. Chain(longer)
    BY <1>3, StampedFits
  <1>6. longer \in Seq(Rows) /\ file.size \in Nat
    BY <1>4, <1>5 DEF Chain, Grown, Files
  <1>7. view'[i] = [entries |-> longer, version |-> 4, deferred |-> FALSE,
                    needsRewrite |-> FALSE, size |-> file.size]
    BY DEF Rewrite, Shape
  <1>8. ~Legacy(file) /\ Lines(file) = longer
    BY <1>4, GrownIsNotLegacy DEF Lines
  <1> HIDE DEF longer, file
  <1>9. /\ view'[i] \in Views /\ view'[i].entries = longer /\ ~view'[i].deferred
        /\ view'[i].size = file.size /\ ~Rewriter(view'[i])
    BY <1>6, <1>7 DEF Views, Rewriter
  <1>10. InStep(view'[i], file)
    BY <1>8, <1>9 DEF InStep
  <1>11. Added(files', files, file)
    BY <1>1, FilesAppended DEF Shape
  <1>12. /\ Len(files') # 0 /\ files'[Len(files')] = file
         /\ \A n \in DOMAIN files' : n \in DOMAIN files \/ n = Len(files')
    <2>1. /\ Len(files) \in Nat /\ DOMAIN files = 1 .. Len(files)
          /\ DOMAIN files' = 1 .. Len(files')
      BY <1>11, SequenceFacts DEF Shape, Added
    <2>2. Len(files') = Len(files) + 1
      BY <1>11 DEF Added
    <2>3. files'[Len(files')] = file
      BY <1>11, <2>2 DEF Added
    <2>4. \A n \in 1 .. Len(files') : n \in 1 .. Len(files) \/ n = Len(files')
      BY <2>1, <2>2
    <2>5. Len(files') # 0
      BY <2>1, <2>2
    <2> QED BY <2>1, <2>3, <2>4, <2>5
  <1>13. \A n \in DOMAIN files' : Sound(files'[n])
    BY <1>4, <1>11, <1>12 DEF HealAt, Added, Sound
  <1>14. pc'[i] = "idle" /\ fd'[i] = None
    BY <1>1 DEF Return, Goto, Release, Shape
  <1>15. pc'[i] \notin Working
    BY <1>14 DEF Working
  <1> QED BY <1>5, <1>9, <1>10, <1>12, <1>13, <1>14, <1>15 DEF HealAt

\* One more line of the newest file.
LEMMA HealsAppendLine ==
  ASSUME Shape, NEW i \in Instances, HealAt(i), AppendLine(i)
  PROVE  HealAt(i)'
  <1> DEFINE longer == Append(view[i].entries, Stamped(i))
             f == files[Len(files)]
             g == WithLine(f, Stamped(i))
  <1>1. pc[i] = "write" /\ Writes(i) /\ Return(i)
    BY DEF AppendLine
  <1>2. /\ fd[i] # None /\ ~view[i].deferred /\ ~(view[i].version < 4)
        /\ ~view[i].needsRewrite
    BY <1>1, WritesThrough
  <1>3. pc[i] \in Loaded /\ pc[i] \in Working
    BY <1>1 DEF Loaded, Working
  <1>4. /\ RowFits(i) /\ view[i] \in Views /\ Chain(view[i].entries)
        /\ fd[i] = Len(files) /\ Len(files) # 0 /\ InStep(view[i], f)
        /\ view[i].size = f.size
    BY <1>2, <1>3 DEF HealAt, None
  <1>5. ~Rewriter(view[i])
    BY <1>2, <1>4 DEF Rewriter, Views
  <1>6. Sound(f) /\ Len(files) \in DOMAIN files
    BY <1>4, NewestReads
  <1>7. Grown(f) /\ f.lines = view[i].entries /\ ~f.corrupt /\ f.tail = "newline"
    BY <1>4, <1>5, <1>6 DEF Sound, InStep, Lines
  <1>8. Stamped(i) \in Rows /\ Chain(longer)
    BY <1>4, StampedFits
  <1>9. longer \in Seq(Rows) /\ view[i].size \in Nat
    BY <1>4, <1>8 DEF Chain, Views
  <1>10. /\ Grows(f, g, Stamped(i)) /\ g.size = f.size + 3
         /\ ~g.corrupt /\ g.tail = "newline" /\ g.lines = longer
    BY <1>7, <1>8, LineGrows
  <1>11. Grown(g) /\ ~Legacy(g) /\ Lines(g) = longer
    BY <1>10, GrownIsNotLegacy DEF Grows, Lines
  <1>12. Written(files', files, Len(files), g)
    BY <1>4, <1>6, FilesWritten DEF AppendLine, Shape
  <1>13. view'[i] = [view[i] EXCEPT !.entries = longer, !.size = view[i].size + 3]
    BY DEF AppendLine, Shape
  <1> HIDE DEF longer, g
  <1>14. /\ view'[i] \in Views /\ view'[i].entries = longer
         /\ view'[i].size = view[i].size + 3 /\ view'[i].deferred = view[i].deferred
         /\ view'[i].version = view[i].version
         /\ view'[i].needsRewrite = view[i].needsRewrite
    <2>1. Lengthened(view'[i], view[i], longer)
      BY <1>4, <1>9, <1>13, LongerView
    <2> QED BY <2>1 DEF Lengthened
  <1>15. InStep(view'[i], g) /\ ~view'[i].deferred
    BY <1>2, <1>5, <1>11, <1>14 DEF InStep, Rewriter
  <1>16. Len(files') = Len(files) /\ files'[Len(files)] = g
         /\ \A n \in DOMAIN files' \ {Len(files)} : n \in DOMAIN files /\ files'[n] = files[n]
    <2>1. DOMAIN files' = DOMAIN files /\ Len(files') = Len(files)
      BY <1>12, SequenceFacts DEF Shape, Written
    <2> QED BY <1>12, <2>1 DEF Written
  <1>17. \A n \in DOMAIN files' : Sound(files'[n])
    BY <1>10, <1>11, <1>16 DEF HealAt, Sound
  <1>18. pc'[i] = "idle" /\ fd'[i] = None
    BY <1>1 DEF Return, Goto, Release, Shape
  <1>19. pc'[i] \notin Working
    BY <1>18 DEF Working
  <1>20. view'[i].size = g.size
    BY <1>4, <1>10, <1>14
  <1> QED BY <1>4, <1>8, <1>14, <1>15, <1>16, <1>17, <1>18, <1>19, <1>20 DEF HealAt, longer

\* What the only instance knows, it knows after every step.
LEMMA HealStep ==
  ASSUME Shape, Fence, HealInv, Next
  PROVE  HealInv'
  <1> SUFFICES ASSUME NEW i \in Instances, Alone(i)' PROVE HealAt(i)'
    BY DEF HealInv
  <1>1. Alone(i) /\ (Remove \/ Open(i) \/ AppendEntry(i) \/ Step(i))
    BY AloneBefore
  <1>2. HealAt(i)
    BY <1>1 DEF HealInv
  <1>3. CASE Remove
    BY <1>2, <1>3 DEF Remove, HealAt, RowFits
  <1>4. CASE Open(i)
    <2>1. /\ pc'[i] = "reading" /\ fd'[i] = path /\ path # None
          /\ files' = files /\ view' = view
      BY <1>4 DEF Open, Goto, Shape, disk
    <2>2. pc'[i] \notin Loaded /\ pc'[i] \notin Working
      BY <2>1 DEF Loaded, Working
    <2>3. path = Len(files)
      BY <2>1 DEF Shape
    <2> QED BY <1>2, <2>1, <2>2, <2>3, HealsUnwritten
  <1>5. CASE AppendEntry(i)
    <2>1. pc[i] = "idle" /\ files' = files /\ view' = view /\ fd' = fd
      BY <1>5 DEF AppendEntry, disk
    <2>2. pc[i] \in Loaded
      BY <2>1 DEF Loaded
    <2>3. Chain(view[i].entries) /\ fd[i] \in {None, Len(files)}
      BY <1>2, <2>2 DEF HealAt
    <2>4. RowFits(i)'
      BY <1>5, <2>3, AppendEntryFits
    <2> QED BY <1>2, <2>1, <2>2, <2>3, <2>4, HealsUnwritten
  <1>6. CASE Read(i)
    BY <1>2, <1>6, HealsRead
  <1>7. CASE LookForFile(i) \/ OpenFence(i) \/ LockFence(i) \/ Refuse(i)
    <2>1. files' = files /\ view' = view /\ pc[i] \in Working /\ pc[i] \in Loaded
      BY <1>7 DEF LookForFile, OpenFence, LockFence, Refuse, disk, Working, Loaded
    <2>2. CASE Return(i)
      BY <1>2, <2>1, <2>2, HealsReturn
    <2>3. CASE ~Return(i)
      <3>1. row' = row
        BY <1>7, <2>3 DEF LookForFile, OpenFence, LockFence, Refuse, append
      <3>2. RowFits(i)'
        BY <1>2, <2>1, <3>1 DEF HealAt, RowFits
      <3>3. fd'[i] \in {fd[i], None, Len(files)}
        BY <1>7, <2>3 DEF LookForFile, OpenFence, LockFence, Refuse, Shape
      <3>4. fd'[i] \in {None, Len(files)}
        BY <1>2, <3>3 DEF HealAt
      <3> QED BY <1>2, <2>1, <3>2, <3>4, HealsUnwritten
    <2> QED BY <2>2, <2>3
  <1>8. CASE Refresh(i)
    BY <1>2, <1>8, HealsRefresh
  <1>9. CASE Buffer(i)
    BY <1>2, <1>9, HealsBuffer
  <1>10. CASE Rewrite(i)
    BY <1>2, <1>10, HealsRewrite
  <1>11. CASE AppendLine(i)
    BY <1>2, <1>11, HealsAppendLine
  <1> QED BY <1>1, <1>3, <1>4, <1>5, <1>6, <1>7, <1>8, <1>9, <1>10, <1>11 DEF Step

\* The files there may be at the start.
LEMMA StartsSound ==
  ASSUME Init, NEW n \in DOMAIN files
  PROVE  n = 1 /\ Len(files) = 1 /\ Sound(files[1])
  <1>1. PICK origin \in Origins : files = FilesAtStart(origin)
    BY DEF Init
  <1>2. \/ files = <<>>
        \/ files = <<File(4, <<>>)>>
        \/ files = <<File(3, <<Root(0), Child(0)>>)>>
        \/ files = <<File(4, Seed)>>
        \/ files = <<File(4, <<Child(1), Root(0)>>)>>
    BY <1>1, JournalAssumption DEF FilesAtStart, Seed
  <1>3. PICK version, lines :
          /\ files = <<File(version, lines)>>
          /\ Legacy(File(version, lines)) \/ Grown(File(version, lines))
    BY <1>2, NoRowsAreChain, SeedIsChain, ChainFile DEF Legacy
  <1>4. files[1] = File(version, lines) /\ Len(files) = 1 /\ n = 1
    BY <1>3
  <1>5. File(version, lines).tail = "newline" /\ File(version, lines).corrupt = FALSE
    BY DEF File
  <1> QED BY <1>3, <1>4, <1>5 DEF Sound

\* The invariant of the only instance holds at the start.
LEMMA InitHeal == Init => HealInv
  <1> SUFFICES ASSUME Init, NEW i \in Instances PROVE HealAt(i)
    BY DEF HealInv
  <1>1. Shape /\ Kept
    BY InitKept DEF KeptInv, Init
  <1>2. \A n \in DOMAIN files : Sound(files[n])
    BY StartsSound
  <1>3. fd[i] = None /\ pc[i] \in {"idle", "absent"}
    BY DEF Init
  <1>4. pc[i] \notin Working
    BY <1>3 DEF Working
  <1>5. ASSUME pc[i] \in Loaded
        PROVE  /\ view[i] \in Views
               /\ Chain(view[i].entries)
               /\ view[i].deferred => Len(files) = 0 /\ ~Rewriter(view[i])
               /\ ~view[i].deferred =>
                    /\ Len(files) # 0
                    /\ InStep(view[i], files[Len(files)])
                    /\ view[i].size = files[Len(files)].size
    <2>1. ViewAt(i) /\ path = Len(files)
      BY <1>1 DEF Kept, Inodes
    <2>2. ASSUME ~view[i].deferred
          PROVE  view[i].size = files[path].size
      <3>1. pc[i] = "idle"
        BY <1>3, <1>5 DEF Loaded, Working
      <3>2. view[i] = ViewOf(files[1])
        BY <2>2, <3>1 DEF Init, NoView
      <3>3. path # None
        BY <1>5, <2>1, <2>2 DEF ViewAt
      <3>4. path = 1
        <4>1. path \in DOMAIN files
          BY <1>1, <3>3, PathFile
        <4> QED BY <4>1, StartsSound
      <3> QED BY <3>2, <3>4 DEF ViewOf
    <2>3. ~Corrupt
      BY StartsIntact DEF Intact
    <2> QED BY <1>5, <2>1, <2>2, <2>3 DEF ViewAt, None
  <1> QED BY <1>2, <1>3, <1>4, <1>5 DEF HealAt

\* The only instance of a session leaves the whole history on disk after
\* every append, also when the file was removed before or in the middle of
\* one: the next append writes everything back (the fence-less arm of
\* append_entry_locked).
THEOREM RemovalHealsHolds == Spec => []RemovalHeals
  <1>1. Init => HealInv
    BY InitHeal
  <1>2. KeptInv /\ HealInv /\ [Next]_vars => HealInv'
    <2>1. KeptInv /\ HealInv /\ Next => HealInv'
      BY HealStep DEF KeptInv
    <2>2. HealInv /\ UNCHANGED vars => HealInv'
      <3> SUFFICES ASSUME HealInv, UNCHANGED vars PROVE HealInv'
        OBVIOUS
      <3>1. /\ files' = files /\ pc' = pc /\ view' = view /\ row' = row /\ fd' = fd
            /\ crashes' = crashes /\ tears' = tears
        BY DEF vars
      <3> QED BY <3>1 DEF HealInv, Alone, HealAt, RowFits
    <2> QED BY <2>1, <2>2
  <1>3. KeptInv /\ HealInv => RemovalHeals
    <2> SUFFICES ASSUME KeptInv, HealInv, NEW i \in Instances,
                        pc[i] = "idle", ~view[i].deferred, path # None,
                        crashes = 0, tears = 0,
                        \A j \in Instances \ {i} : pc[j] = "absent"
                 PROVE  /\ Parses(files[path])
                        /\ Entries(files[path]) = view[i].entries
      BY DEF RemovalHeals
    <2>1. HealAt(i) /\ Shape /\ path = Len(files) /\ pc[i] \in Loaded
      BY DEF HealInv, Alone, KeptInv, Shape, Loaded
    <2>2. Len(files) # 0 /\ InStep(view[i], files[path])
      BY <2>1 DEF HealAt
    <2>3. Readable(files[path])
      BY <2>1, <2>2, NewestReads
    <2> QED BY <2>2, <2>3 DEF Readable, InStep
  <1> QED BY <1>1, <1>2, <1>3, KeptHolds, PTL DEF Spec

-----------------------------------------------------------------------------
(* Types, and the file of the old format, whatever happens to the path.    *)

\* Positions ordered by depth and then by place have every rank once.
LEMMA RanksExist ==
  ASSUME NEW N \in Nat, NEW d \in [1 .. N -> Nat], NEW n \in 1 .. N
  PROVE  \E k \in 1 .. N :
           Cardinality({j \in 1 .. N : d[j] < d[k] \/ (d[j] = d[k] /\ j < k)}) + 1 = n
  <1> DEFINE S == 1 .. N
             Below(k) == {j \in S : d[j] < d[k] \/ (d[j] = d[k] /\ j < k)}
             f == [k \in S |-> Cardinality(Below(k)) + 1]
  <1>1. IsFiniteSet(S) /\ Cardinality(S) = N /\ S \subseteq Nat
    BY FS_Interval
  <1>2. ASSUME NEW k \in S
        PROVE  /\ IsFiniteSet(Below(k)) /\ Cardinality(Below(k)) \in Nat
               /\ Cardinality(Below(k)) + 1 \in S
    <2>1. k \notin Below(k) /\ Below(k) \subseteq S
      BY <1>1
    <2> HIDE DEF Below
    <2>2. Below(k) \in SUBSET (S \ {k})
      BY <2>1
    <2> HIDE DEF S
    <2>3. IsFiniteSet(S \ {k}) /\ Cardinality(S \ {k}) = N - 1
      BY <1>1, FS_RemoveElement
    <2>4. IsFiniteSet(Below(k)) /\ Cardinality(Below(k)) =< N - 1
      BY <2>2, <2>3, FS_Subset
    <2>5. Cardinality(Below(k)) \in Nat
      BY <2>4, FS_CardinalityType
    <2> QED BY <2>4, <2>5 DEF S
  <1>3. ASSUME NEW j \in S, NEW k \in S, j \in Below(k)
        PROVE  Cardinality(Below(j)) < Cardinality(Below(k))
    <2>1. Below(j) \subseteq Below(k)
      BY <1>1, <1>3
    <2>2. j \notin Below(j)
      BY <1>1
    <2> HIDE DEF Below, S
    <2>3. Below(j) \union {j} \in SUBSET Below(k)
      BY <1>3, <2>1
    <2>4. Cardinality(Below(j) \union {j}) = Cardinality(Below(j)) + 1
      BY <1>2, <2>2, FS_AddElement
    <2>5. Cardinality(Below(j) \union {j}) =< Cardinality(Below(k))
      BY <1>2, <2>3, FS_Subset
    <2> QED BY <1>2, <2>4, <2>5
  <1>4. ASSUME NEW j \in S, NEW k \in S, f[j] = f[k]
        PROVE  j = k
    <2>1. j = k \/ j \in Below(k) \/ k \in Below(j)
      <3>1. d[j] \in Nat /\ d[k] \in Nat /\ j \in Nat /\ k \in Nat
        BY <1>1
      <3> QED BY <3>1
    <2> HIDE DEF Below, S
    <2>2. Cardinality(Below(j)) = Cardinality(Below(k))
      BY <1>2, <1>4
    <2> QED BY <1>2, <1>3, <2>1, <2>2
  <1>5. f \in [S -> S]
    BY <1>2
  <1> HIDE DEF Below, f, S
  <1>6. f \in Injection(S, S)
    BY <1>4, <1>5 DEF Injection, IsInjective
  <1>7. f \in Surjection(S, S)
    BY <1>1, <1>6, FS_Injection
  <1>8. PICK k \in S : f[k] = n
    BY <1>7 DEF Surjection, S
  <1> QED BY <1>8 DEF f, Below, S

\* The file of the old format.
OldFile == File(3, <<Root(0), Child(0)>>)

\* What the parser makes of a file of typed lines is typed.
LEMMA EntriesTyped ==
  ASSUME NEW file \in Files, Parses(file), file.version = 3 => file = OldFile
  PROVE  /\ Entries(file) \in Seq(Rows)
         /\ ViewOf(file) \in Views
         /\ ViewOf(file).version = file.version
  <1>1. CASE file.version = 3
    <2>1. Legacy(file)
      BY <1>1 DEF Legacy, OldFile
    <2>2. ViewOf(file) \in Views
      BY <2>1, LegacyReads
    <2>3. ViewOf(file).entries = Entries(file) /\ ViewOf(file).version = file.version
      BY DEF ViewOf
    <2> QED BY <2>2, <2>3 DEF Views
  <1>2. CASE file.version # 3
    <2> DEFINE lines == file.lines
               N == Len(lines)
               d == Depths(lines)
    <2>1. file.version = 4 /\ lines \in Seq(Rows) /\ file.size \in Nat
      BY <1>2 DEF Files
    <2>2. N \in Nat /\ DOMAIN lines = 1 .. N /\ \A k \in 1 .. N : lines[k] \in Rows
      BY <2>1
    <2>3. \A k \in 1 .. N : d[k] = lines[k].seq
      BY <2>1, <2>2 DEF Parses
    <2>4. \A k \in 1 .. N : d[k] \in Nat
      BY <2>2, <2>3 DEF Rows
    <2> DEFINE e == [k \in 1 .. N |-> d[k]]
               Before(j, k) == d[j] < d[k] \/ (d[j] = d[k] /\ j < k)
               Rank(k) == Cardinality({j \in DOMAIN lines : Before(j, k)}) + 1
               line(n) == IF Inverted(lines)
                          THEN CHOOSE k \in DOMAIN lines : Rank(k) = n
                          ELSE n
    <2>5. Entries(file)
            = [n \in DOMAIN lines |-> [lines[line(n)] EXCEPT !.seq = d[line(n)]]]
      BY DEF Entries
    <2>6. ASSUME NEW n \in 1 .. N PROVE line(n) \in 1 .. N
      <3>1. e \in [1 .. N -> Nat]
        BY <2>4
      <3>2. PICK k \in 1 .. N :
              Cardinality({j \in 1 .. N : e[j] < e[k] \/ (e[j] = e[k] /\ j < k)}) + 1 = n
        BY <2>2, <2>6, <3>1, RanksExist
      <3>3. {j \in 1 .. N : e[j] < e[k] \/ (e[j] = e[k] /\ j < k)}
              = {j \in DOMAIN lines : Before(j, k)}
        BY <2>2
      <3>4. k \in DOMAIN lines /\ Rank(k) = n
        BY <2>2, <3>2, <3>3
      <3> HIDE DEF Rank
      <3> QED BY <2>2, <3>4
    <2> HIDE DEF line, lines, N, d
    <2>7. ASSUME NEW n \in 1 .. N
          PROVE  [lines[line(n)] EXCEPT !.seq = d[line(n)]] \in Rows
      <3>1. line(n) \in 1 .. N
        BY <2>6
      <3>2. lines[line(n)] \in Rows /\ d[line(n)] \in Nat
        BY <2>2, <2>4, <3>1
      <3> QED BY <3>2 DEF Rows
    <2>8. Entries(file) \in Seq(Rows)
      <3>1. Entries(file) \in [1 .. N -> Rows]
        BY <2>2, <2>5, <2>7
      <3> QED BY <2>2, <3>1
    <2>9. Inverted(lines) \in BOOLEAN
      BY DEF Inverted
    <2>10. ViewOf(file) = [entries |-> Entries(file), version |-> 4, deferred |-> FALSE,
                           needsRewrite |-> Inverted(lines), size |-> file.size]
      BY <2>1 DEF ViewOf, lines
    <2> QED BY <2>1, <2>8, <2>9, <2>10 DEF Views
  <1> QED BY <1>1, <1>2

\* Types of the files, and the one file that may be of the old format.
FilesTyped ==
  \A n \in DOMAIN files :
    /\ files[n] \in Files
    /\ files[n].version = 3 => n = 1 /\ files[n] = OldFile

\* An instance never takes a file of the old format for one of the new: as
\* long as it is the only file a loaded view is of the old format, and so is
\* that of an instance which has it open to write.
InstanceTyped(i) ==
  /\ view[i] \in Views
  /\ row[i] \in Rows \union {NewRow}
  /\ pc[i] \in Working => row[i] \in Rows
  /\ tries[i] \in 0 .. Attempts
  /\ pc[i] \in Loaded /\ Len(files) = 1 /\ files[1].version = 3 =>
       view[i].version = 3
  /\ /\ pc[i] \in {"locking", "fenced", "write"} /\ fd[i] # None
     /\ files[fd[i]].version = 3
     => view[i].version = 3

AckedTyped == acked \subseteq {1, 2} \union NewIds

\* View, row and tries are functions on the instances.
Maps ==
  /\ view = [j \in Instances |-> view[j]]
  /\ row = [j \in Instances |-> row[j]]
  /\ tries = [j \in Instances |-> tries[j]]

TypedInv ==
  /\ Shape /\ Fence
  /\ FilesTyped
  /\ \A i \in Instances : InstanceTyped(i)
  /\ AckedTyped /\ Maps

\* Ids, parents and cursors of typed rows.
LEMMA RowsTyped ==
  ASSUME NEW rows \in Seq(Rows)
  PROVE  /\ Ids(rows) \subseteq {1, 2} \union NewIds
         /\ Leaf(rows) \in {NoRow, 1, 2} \union NewIds
  <1>1. \A k \in DOMAIN rows : rows[k] \in Rows
    OBVIOUS
  <1>2. Ids(rows) \subseteq {1, 2} \union NewIds
    BY <1>1 DEF Ids, Rows
  <1>3. Leaf(rows) \in {NoRow, 1, 2} \union NewIds
    <2>1. CASE rows = <<>>
      BY <2>1 DEF Leaf
    <2>2. CASE rows # <<>>
      <3>1. Len(rows) \in DOMAIN rows
        BY <2>2
      <3> QED BY <1>1, <2>2, <3>1 DEF Leaf, Rows
    <2> QED BY <2>1, <2>2
  <1> QED BY <1>2, <1>3

\* A row whose parent is known is stamped with a depth.
LEMMA StampedTyped ==
  ASSUME NEW i \in Instances, view[i] \in Views, row[i] \in Rows, ParentKnown(i)
  PROVE  /\ Stamped(i) \in Rows
         /\ Append(view[i].entries, Stamped(i)) \in Seq(Rows)
  <1> DEFINE rows == view[i].entries
             p == row[i].parent
             depth == IF p = NoRow THEN 0 ELSE rows[Position(rows, p)].seq + 1
  <1>1. rows \in Seq(Rows)
    BY DEF Views
  <1>2. depth \in Nat
    <2>1. CASE p = NoRow
      BY <2>1
    <2>2. CASE p # NoRow
      <3>1. \E j \in DOMAIN rows : rows[j].id = p
        BY <2>2 DEF Ids, ParentKnown
      <3>2. Position(rows, p) \in DOMAIN rows
        BY <3>1 DEF Position
      <3>3. rows[Position(rows, p)] \in Rows
        BY <1>1, <3>2
      <3>4. rows[Position(rows, p)].seq \in Nat
        BY <3>3 DEF Rows
      <3> QED BY <2>2, <3>4
    <2> QED BY <2>1, <2>2
  <1>3. Stamped(i) = [row[i] EXCEPT !.seq = depth]
    BY DEF Stamped
  <1> HIDE DEF depth
  <1>4. Stamped(i) \in Rows
    BY <1>2, <1>3 DEF Rows
  <1> QED BY <1>1, <1>4

\* A write leaves a file of the same version.
LEMMA LineTyped ==
  ASSUME NEW file \in Files, NEW line \in Rows
  PROVE  WithLine(file, line) \in Files /\ WithLine(file, line).version = file.version
  <1>1. /\ file.version \in {3, 4} /\ file.size \in Nat /\ file.size + 3 \in Nat
        /\ file.lines \in Seq(Rows) /\ file.corrupt \in BOOLEAN /\ file.tail \in Tails
    BY DEF Files
  <1>2. CASE Glues(file)
    <2>1. PICK g : g = [file EXCEPT !.tail = "newline", !.corrupt = TRUE, !.size = @ + 3]
      OBVIOUS
    <2>2. WithLine(file, line) = g
      BY <1>2, <2>1 DEF WithLine
    <2>3. g = [version |-> file.version, lines |-> file.lines, tail |-> "newline",
               corrupt |-> TRUE, size |-> file.size + 3]
      BY <2>1 DEF Files
    <2>4. PICK c \in BOOLEAN : c
      OBVIOUS
    <2>5. g = [version |-> file.version, lines |-> file.lines, tail |-> "newline",
               corrupt |-> c, size |-> file.size + 3]
      BY <2>3, <2>4
    <2> QED BY <1>1, <2>2, <2>5, FileFields DEF Tails
  <1>3. CASE ~Glues(file)
    <2>1. PICK g : g = [file EXCEPT !.lines = Append(@, line), !.size = @ + 3]
      OBVIOUS
    <2>2. WithLine(file, line) = g
      BY <1>3, <2>1 DEF WithLine
    <2>5. Append(file.lines, line) \in Seq(Rows)
      BY <1>1
    <2>3. PICK longer \in Seq(Rows) : longer = Append(file.lines, line)
      BY <2>5
    <2>4. g = [version |-> file.version, lines |-> longer, tail |-> file.tail,
               corrupt |-> file.corrupt, size |-> file.size + 3]
      BY <2>1, <2>3 DEF Files
    <2> QED BY <1>1, <2>2, <2>4, FileFields
  <1> QED BY <1>2, <1>3

\* So does a write that is cut short.
LEMMA CutTyped ==
  ASSUME NEW file \in Files, NEW line \in Rows, NEW tail \in {"torn", "bare"}
  PROVE  /\ CutLine(file, line, tail) \in Files
         /\ CutLine(file, line, tail).version = file.version
  <1>1. /\ file.version \in {3, 4} /\ file.size \in Nat /\ file.size + 1 \in Nat
        /\ file.size + 2 \in Nat
        /\ file.lines \in Seq(Rows) /\ file.corrupt \in BOOLEAN /\ file.tail \in Tails
    BY DEF Files
  <1>2. CASE Glues(file)
    <2>1. PICK g : g = [file EXCEPT !.tail = "torn", !.corrupt = TRUE, !.size = @ + 1]
      OBVIOUS
    <2>2. CutLine(file, line, tail) = g
      BY <1>2, <2>1 DEF CutLine
    <2>3. g = [version |-> file.version, lines |-> file.lines, tail |-> "torn",
               corrupt |-> TRUE, size |-> file.size + 1]
      BY <2>1 DEF Files
    <2>4. PICK c \in BOOLEAN : c
      OBVIOUS
    <2>5. g = [version |-> file.version, lines |-> file.lines, tail |-> "torn",
               corrupt |-> c, size |-> file.size + 1]
      BY <2>3, <2>4
    <2> QED BY <1>1, <2>2, <2>5, FileFields DEF Tails
  <1>3. CASE ~Glues(file) /\ tail = "torn"
    <2>1. PICK g : g = [file EXCEPT !.tail = "torn", !.size = @ + 1]
      OBVIOUS
    <2>2. CutLine(file, line, tail) = g
      BY <1>3, <2>1 DEF CutLine
    <2>3. g = [version |-> file.version, lines |-> file.lines, tail |-> "torn",
               corrupt |-> file.corrupt, size |-> file.size + 1]
      BY <2>1 DEF Files
    <2> QED BY <1>1, <2>2, <2>3, FileFields DEF Tails
  <1>4. CASE ~Glues(file) /\ tail = "bare"
    <2>1. PICK g : g = [file EXCEPT !.tail = "bare", !.lines = Append(@, line),
                                    !.size = @ + 2]
      OBVIOUS
    <2>2. CutLine(file, line, tail) = g
      BY <1>4, <2>1 DEF CutLine
    <2>5. Append(file.lines, line) \in Seq(Rows)
      BY <1>1
    <2>3. PICK longer \in Seq(Rows) : longer = Append(file.lines, line)
      BY <2>5
    <2>4. g = [version |-> file.version, lines |-> longer, tail |-> "bare",
               corrupt |-> file.corrupt, size |-> file.size + 2]
      BY <2>1, <2>3 DEF Files
    <2> QED BY <1>1, <2>2, <2>4, FileFields DEF Tails
  <1> QED BY <1>2, <1>3, <1>4

\* A rewritten file is of the new format.
LEMMA RewrittenTyped ==
  ASSUME NEW i \in Instances, view[i] \in Views, row[i] \in Rows, ParentKnown(i)
  PROVE  Rewritten(i) \in Files /\ Rewritten(i).version = 4
  <1> DEFINE longer == Append(view[i].entries, Stamped(i))
  <1>1. longer \in Seq(Rows)
    BY StampedTyped
  <1>2. Rewritten(i) = File(4, longer)
    BY DEF Rewritten
  <1> HIDE DEF longer
  <1>3. Header + LineSize(4) * Len(longer) \in Nat
    BY <1>1 DEF Header, LineSize
  <1> QED BY <1>1, <1>2, <1>3 DEF File, Files, Tails

\* An instance writes through its descriptor only to a file of the new format.
LEMMA WriterSeesNew ==
  ASSUME TypedInv, NEW i \in Instances, pc[i] = "write", Writes(i)
  PROVE  /\ fd[i] \in DOMAIN files
         /\ files[fd[i]] \in Files
         /\ files[fd[i]].version = 4
         /\ Stamped(i) \in Rows
         /\ Append(view[i].entries, Stamped(i)) \in Seq(Rows)
  <1>1. Len(files) \in Nat /\ DOMAIN files = 1 .. Len(files)
    BY SequenceFacts DEF TypedInv, Shape
  <1>2. fd[i] # None /\ ~(view[i].version < 4)
    BY WritesThrough DEF TypedInv
  <1>3. fd[i] \in DOMAIN files
    <2>1. fd[i] \in 0 .. Len(files)
      BY DEF TypedInv, Shape
    <2> QED BY <1>1, <1>2, <2>1 DEF None
  <1>4. InstanceTyped(i)
    BY DEF TypedInv
  <1>5. files[fd[i]] \in Files
    BY <1>3 DEF TypedInv, FilesTyped
  <1>6. view[i].version # 3
    BY <1>2
  <1>7. files[fd[i]].version # 3
    BY <1>2, <1>4, <1>6 DEF InstanceTyped
  <1>8. files[fd[i]].version = 4
    BY <1>5, <1>7 DEF Files
  <1>9. row[i] \in Rows /\ view[i] \in Views
    BY <1>4 DEF InstanceTyped, Working
  <1>10. ParentKnown(i)
    BY DEF Writes
  <1> QED BY <1>3, <1>5, <1>8, <1>9, <1>10, StampedTyped

\* The versions of the files stay, and a file of the old format is never
\* created.
FilesMove ==
  /\ Len(files') \in Nat /\ Len(files) =< Len(files')
  /\ \A n \in DOMAIN files : files'[n].version = files[n].version
  /\ Len(files') = 1 /\ files'[1].version = 3 => Len(files) = 1

\* A step that leaves the files alone.
LEMMA SameFilesMove ==
  ASSUME Shape, files' = files
  PROVE  FilesMove
  <1>1. Len(files) \in Nat
    BY SequenceFacts DEF Shape
  <1> QED BY <1>1 DEF FilesMove

\* An instance that takes no part in the step.
LEMMA OthersTyped ==
  ASSUME TypedInv, FilesMove, NEW j \in Instances, Stays(j), tries'[j] = tries[j]
  PROVE  InstanceTyped(j)'
  <1>1. InstanceTyped(j) /\ Len(files) \in Nat /\ DOMAIN files = 1 .. Len(files)
    BY SequenceFacts DEF TypedInv, Shape
  <1>2. fd[j] # None => fd[j] \in DOMAIN files
    <2>1. fd[j] \in 0 .. Len(files)
      BY DEF TypedInv, Shape
    <2> QED BY <1>1, <2>1 DEF None
  <1>3. Len(files') = 1 /\ files'[1].version = 3 => Len(files) = 1 /\ files[1].version = 3
    BY <1>1 DEF FilesMove
  <1>4. fd[j] # None => files'[fd[j]].version = files[fd[j]].version
    BY <1>2 DEF FilesMove
  <1> QED BY <1>1, <1>3, <1>4 DEF InstanceTyped, Stays

\* One instance moves, the others stay.
LEMMA OneTyped ==
  ASSUME TypedInv, FilesMove, NEW i \in Instances, InstanceTyped(i)',
         \A j \in Instances \ {i} : Stays(j) /\ tries'[j] = tries[j]
  PROVE  \A j \in Instances : InstanceTyped(j)'
  <1>1. ASSUME NEW j \in Instances PROVE InstanceTyped(j)'
    <2>1. CASE j = i
      BY <2>1
    <2>2. CASE j # i
      BY <2>2, OthersTyped
    <2> QED BY <2>1, <2>2
  <1> QED BY <1>1

\* An instance that returns from an append, with a typed view whose version
\* is known to be right.
LEMMA ReturnTyped ==
  ASSUME Shape, NEW i \in Instances, Return(i), view'[i] \in Views,
         Len(files') = 1 /\ files'[1].version = 3 => view'[i].version = 3
  PROVE  InstanceTyped(i)'
  <1>1. pc'[i] = "idle" /\ fd'[i] = None /\ row'[i] = NewRow /\ tries'[i] = 0
    BY DEF Shape, Return, Goto, Release, Clear
  <1>2. 0 \in 0 .. Attempts
    BY JournalAssumption
  <1> QED BY <1>1, <1>2 DEF InstanceTyped, Working

\* An instance that dies.
LEMMA ForgetTyped ==
  ASSUME Shape, NEW i \in Instances, Forget(i)
  PROVE  InstanceTyped(i)'
  <1>1. /\ pc'[i] = "absent" /\ fd'[i] = None /\ row'[i] = NewRow
        /\ view'[i] = NoView /\ tries'[i] = 0
    BY DEF Shape, Forget, Goto, Release, Clear
  <1>2. NoView \in Views /\ 0 \in 0 .. Attempts
    BY JournalAssumption DEF NoView, Views
  <1> QED BY <1>1, <1>2 DEF InstanceTyped, Loaded, Working

\* The others do nothing while one instance returns or dies.
LEMMA OthersStay ==
  ASSUME Shape, NEW i \in Instances, NEW j \in Instances \ {i}, NEW label,
         Goto(i, label), Release(i), Clear(i), view'[j] = view[j]
  PROVE  Stays(j) /\ tries'[j] = tries[j]
  BY DEF Shape, Goto, Release, Clear, Stays

\* What the invariant says of one instance and the file it has open.
LEMMA TypedFacts ==
  ASSUME TypedInv, NEW i \in Instances
  PROVE  /\ Shape /\ Fence /\ InstanceTyped(i)
         /\ view[i] \in Views
         /\ Len(files) \in Nat /\ DOMAIN files = 1 .. Len(files)
         /\ path \in {None, Len(files)}
         /\ path # None => path \in DOMAIN files
         /\ fd[i] # None =>
              /\ fd[i] \in DOMAIN files /\ files[fd[i]] \in Files
              /\ files[fd[i]].version = 3 => files[fd[i]] = OldFile
         /\ \A n \in DOMAIN files : files[n].version = 3 => n = 1
  <1>1. Shape /\ Fence /\ InstanceTyped(i)
    BY DEF TypedInv
  <1>2. Len(files) \in Nat /\ DOMAIN files = 1 .. Len(files)
    BY <1>1, SequenceFacts DEF Shape
  <1>6. path = None \/ path = Len(files)
    BY <1>1 DEF Shape
  <1>3. fd[i] # None => fd[i] \in DOMAIN files
    <2>1. fd[i] \in 0 .. Len(files)
      BY <1>1 DEF Shape
    <2> QED BY <1>2, <2>1 DEF None
  <1>4. path # None => path \in DOMAIN files
    BY <1>2, <1>6 DEF None
  <1>5. view[i] \in Views
    BY <1>1 DEF InstanceTyped
  <1> QED BY <1>1, <1>2, <1>3, <1>4, <1>5, <1>6 DEF TypedInv, FilesTyped

\* A view read from a file has its version.
LEMMA LoadTyped ==
  ASSUME TypedInv, NEW i \in Instances, fd[i] # None, Parses(files[fd[i]])
  PROVE  /\ ViewOf(files[fd[i]]) \in Views
         /\ Entries(files[fd[i]]) \in Seq(Rows)
         /\ ViewOf(files[fd[i]]).version = files[fd[i]].version
         /\ Len(files) = 1 /\ files[1].version = 3 => ViewOf(files[fd[i]]).version = 3
  <1>1. /\ fd[i] \in DOMAIN files /\ files[fd[i]] \in Files
        /\ files[fd[i]].version = 3 => files[fd[i]] = OldFile
        /\ DOMAIN files = 1 .. Len(files)
    BY TypedFacts
  <1>2. /\ ViewOf(files[fd[i]]) \in Views
        /\ Entries(files[fd[i]]) \in Seq(Rows)
        /\ ViewOf(files[fd[i]]).version = files[fd[i]].version
    BY <1>1, EntriesTyped
  <1>3. Len(files) = 1 => fd[i] = 1
    BY <1>1
  <1> QED BY <1>2, <1>3

\* The steps that leave the files and the acknowledged rows alone.
LEMMA QuietTyped ==
  ASSUME TypedInv, files' = files, acked' = acked,
         NEW i \in Instances, InstanceTyped(i)',
         \A j \in Instances \ {i} : Stays(j) /\ tries'[j] = tries[j]
  PROVE  FilesTyped' /\ AckedTyped' /\ \A j \in Instances : InstanceTyped(j)'
  <1>1. FilesMove
    BY SameFilesMove DEF TypedInv
  <1>2. \A j \in Instances : InstanceTyped(j)'
    BY <1>1, OneTyped
  <1>3. FilesTyped' /\ AckedTyped'
    BY DEF TypedInv, FilesTyped, AckedTyped
  <1> QED BY <1>2, <1>3

\* load.
LEMMA OpenReadTyped ==
  ASSUME TypedInv, NEW i \in Instances, Open(i) \/ Read(i)
  PROVE  FilesTyped' /\ AckedTyped' /\ \A j \in Instances : InstanceTyped(j)'
  <1>1. Shape /\ Fence /\ InstanceTyped(i)
    BY TypedFacts
  <1>2. CASE Open(i)
    <2>1. /\ files' = files /\ acked' = acked
          /\ pc' = [pc EXCEPT ![i] = "reading"] /\ fd' = [fd EXCEPT ![i] = path]
          /\ view' = view /\ row' = row /\ tries' = tries
      BY <1>2 DEF Open, Goto, disk, append
    <2>2. InstanceTyped(i)'
      BY <1>1, <2>1 DEF InstanceTyped, Shape, Working, Loaded
    <2>3. \A j \in Instances \ {i} : Stays(j) /\ tries'[j] = tries[j]
      BY <1>1, <2>1 DEF Stays, Shape
    <2> QED BY <2>1, <2>2, <2>3, QuietTyped
  <1>3. CASE Read(i)
    <2>1. /\ files' = files /\ acked' = acked /\ row' = row /\ tries' = tries
          /\ fd' = [fd EXCEPT ![i] = None] /\ pc[i] = "reading"
      BY <1>3 DEF Read, disk, append
    <2>2. fd[i] # None
      BY <1>1, <2>1 DEF Fence
    <2>3. CASE Parses(files[fd[i]])
      <3>1. pc' = [pc EXCEPT ![i] = "idle"] /\ view' = [view EXCEPT ![i] = ViewOf(files[fd[i]])]
        BY <1>3, <2>3 DEF Read, Goto
      <3>2. pc'[i] = "idle" /\ view'[i] = ViewOf(files[fd[i]]) /\ fd'[i] = None
        BY <1>1, <2>1, <3>1 DEF Shape
      <3>3. InstanceTyped(i)'
        BY <1>1, <2>1, <2>2, <2>3, <3>2, LoadTyped DEF InstanceTyped, Working
      <3>4. \A j \in Instances \ {i} : Stays(j) /\ tries'[j] = tries[j]
        BY <1>1, <2>1, <3>1 DEF Stays, Shape
      <3> QED BY <2>1, <3>3, <3>4, QuietTyped
    <2>4. CASE ~Parses(files[fd[i]])
      <3>1. pc' = [pc EXCEPT ![i] = "unreadable"] /\ view' = view
        BY <1>3, <2>4 DEF Read, Goto
      <3>2. pc'[i] = "unreadable" /\ fd'[i] = None
        BY <1>1, <2>1, <3>1 DEF Shape
      <3>3. InstanceTyped(i)'
        BY <1>1, <2>1, <3>1, <3>2 DEF InstanceTyped, Working, Loaded
      <3>4. \A j \in Instances \ {i} : Stays(j) /\ tries'[j] = tries[j]
        BY <1>1, <2>1, <3>1 DEF Stays, Shape
      <3> QED BY <2>1, <3>3, <3>4, QuietTyped
    <2> QED BY <2>3, <2>4
  <1> QED BY <1>2, <1>3

\* A new row is typed.
LEMMA AppendEntryTyped ==
  ASSUME TypedInv, NEW i \in Instances, AppendEntry(i)
  PROVE  FilesTyped' /\ AckedTyped' /\ \A j \in Instances : InstanceTyped(j)'
  <1>1. Shape /\ Fence /\ InstanceTyped(i) /\ view[i] \in Views
    BY TypedFacts
  <1>2. /\ files' = files /\ acked' = acked /\ pc[i] = "idle"
        /\ pc' = [pc EXCEPT ![i] = "fence"] /\ fd' = fd
        /\ view' = view /\ tries' = tries
    BY DEF AppendEntry, Goto, disk
  <1>3. PICK id \in IdsOf[i] :
          \E target \in IF id \in LeafIds THEN Ids(view[i].entries) \union {NoRow} ELSE {id} :
            row' = [row EXCEPT ![i] = [id |-> id, parent |-> Leaf(view[i].entries),
                                       seq |-> 0, target |-> target]]
    BY DEF AppendEntry
  <1>4. PICK target \in IF id \in LeafIds THEN Ids(view[i].entries) \union {NoRow} ELSE {id} :
            row' = [row EXCEPT ![i] = [id |-> id, parent |-> Leaf(view[i].entries),
                                       seq |-> 0, target |-> target]]
    BY <1>3
  <1>5. id \in NewIds
    BY DEF NewIds
  <1>6. view[i].entries \in Seq(Rows)
    BY <1>1 DEF Views
  <1>7. /\ Leaf(view[i].entries) \in {NoRow, 1, 2} \union NewIds
        /\ Ids(view[i].entries) \subseteq {1, 2} \union NewIds
    BY <1>6, RowsTyped
  <1>8. target \in {NoRow, 1, 2} \union NewIds
    BY <1>4, <1>5, <1>7
  <1>9. row'[i] = [id |-> id, parent |-> Leaf(view[i].entries), seq |-> 0, target |-> target]
    BY <1>1, <1>4 DEF Shape
  <1>10. row'[i] \in Rows
    BY <1>5, <1>7, <1>8, <1>9 DEF Rows
  <1>11. InstanceTyped(i)'
    BY <1>1, <1>2, <1>10 DEF InstanceTyped, Shape, Loaded, Working
  <1>12. \A j \in Instances \ {i} : Stays(j) /\ tries'[j] = tries[j]
    BY <1>1, <1>2, <1>4 DEF Stays, Shape
  <1> QED BY <1>2, <1>11, <1>12, QuietTyped

\* WriteFence::acquire: the file opened is the newest, and if it is of the old
\* format it is the only one.
LEMMA FenceTyped ==
  ASSUME TypedInv, NEW i \in Instances, LookForFile(i) \/ OpenFence(i) \/ LockFence(i)
  PROVE  FilesTyped' /\ AckedTyped' /\ \A j \in Instances : InstanceTyped(j)'
  <1>1. Shape /\ Fence /\ InstanceTyped(i) /\ view[i] \in Views
    BY TypedFacts
  <1>2. files' = files /\ acked' = acked /\ view' = view
    BY DEF LookForFile, OpenFence, LockFence, disk
  <1>4. ASSUME Return(i), pc[i] \in Loaded
        PROVE  FilesTyped' /\ AckedTyped' /\ \A j \in Instances : InstanceTyped(j)'
    <2>1. InstanceTyped(i)'
      <3>1. Len(files) = 1 /\ files[1].version = 3 => view[i].version = 3
        BY <1>1, <1>4 DEF InstanceTyped
      <3> QED BY <1>1, <1>2, <1>4, <3>1, ReturnTyped
    <2>2. \A j \in Instances \ {i} : Stays(j) /\ tries'[j] = tries[j]
      BY <1>1, <1>2, <1>4, OthersStay DEF Return
    <2> QED BY <1>2, <2>1, <2>2, QuietTyped
  <1>5. CASE LookForFile(i)
    <2>1. PICK label \in {"write", "opening"} : pc' = [pc EXCEPT ![i] = label]
      BY <1>5 DEF LookForFile, Goto
    <2>2. pc[i] = "fence" /\ fd' = fd /\ row' = row /\ tries' = tries
      BY <1>5 DEF LookForFile, append
    <2>3. fd[i] = None
      BY <1>1, <2>2 DEF Fence, Closed
    <2>4. pc'[i] = label
      BY <1>1, <2>1 DEF Shape
    <2>5. InstanceTyped(i)'
      BY <1>1, <1>2, <2>2, <2>3, <2>4 DEF InstanceTyped, Loaded, Working
    <2>6. \A j \in Instances \ {i} : Stays(j) /\ tries'[j] = tries[j]
      BY <1>1, <1>2, <2>1, <2>2 DEF Stays, Shape
    <2> QED BY <1>2, <2>5, <2>6, QuietTyped
  <1>6. CASE OpenFence(i)
    <2>1. pc[i] = "opening"
      BY <1>6 DEF OpenFence
    <2>2. CASE path = None
      BY <1>4, <1>6, <2>1, <2>2 DEF OpenFence, Loaded, Working
    <2>3. CASE path # None
      <3>1. /\ pc' = [pc EXCEPT ![i] = "locking"] /\ fd' = [fd EXCEPT ![i] = path]
            /\ row' = row /\ tries' = tries
        BY <1>6, <2>3 DEF OpenFence, Goto, append
      <3>2. pc'[i] = "locking" /\ fd'[i] = path
        BY <1>1, <3>1 DEF Shape
      <3>3. files[path].version = 3 => view[i].version = 3
        <4> SUFFICES ASSUME files[path].version = 3 PROVE view[i].version = 3
          OBVIOUS
        <4>1. path = 1 /\ path = Len(files)
          BY <2>3, TypedFacts
        <4> QED BY <1>1, <2>1, <4>1 DEF InstanceTyped, Loaded, Working
      <3>4. InstanceTyped(i)'
        BY <1>1, <1>2, <2>1, <3>1, <3>2, <3>3 DEF InstanceTyped, Loaded, Working
      <3>5. \A j \in Instances \ {i} : Stays(j) /\ tries'[j] = tries[j]
        BY <1>1, <1>2, <3>1 DEF Stays, Shape
      <3> QED BY <1>2, <3>4, <3>5, QuietTyped
    <2> QED BY <2>2, <2>3
  <1>7. CASE LockFence(i)
    <2>1. pc[i] = "locking"
      BY <1>7 DEF LockFence
    <2>2. CASE Goto(i, "fenced") /\ UNCHANGED <<fd, append>>
      <3>1. pc' = [pc EXCEPT ![i] = "fenced"] /\ fd' = fd /\ row' = row /\ tries' = tries
        BY <2>2 DEF Goto, append
      <3>2. pc'[i] = "fenced"
        BY <1>1, <3>1 DEF Shape
      <3>3. InstanceTyped(i)'
        BY <1>1, <1>2, <2>1, <3>1, <3>2 DEF InstanceTyped, Loaded, Working
      <3>4. \A j \in Instances \ {i} : Stays(j) /\ tries'[j] = tries[j]
        BY <1>1, <1>2, <3>1 DEF Stays, Shape
      <3> QED BY <1>2, <3>3, <3>4, QuietTyped
    <2>3. CASE Return(i)
      BY <1>4, <2>1, <2>3 DEF Loaded, Working
    <2>4. CASE /\ tries[i] + 1 < Attempts
               /\ tries' = [tries EXCEPT ![i] = @ + 1]
               /\ fd' = [fd EXCEPT ![i] = None]
               /\ Goto(i, "fence")
               /\ UNCHANGED <<holder, row, durable>>
      <3>1. pc' = [pc EXCEPT ![i] = "fence"] /\ row' = row
        BY <2>4 DEF Goto
      <3>2. pc'[i] = "fence" /\ fd'[i] = None /\ tries'[i] = tries[i] + 1
        BY <1>1, <2>4, <3>1 DEF Shape
      <3>3. tries[i] + 1 \in 0 .. Attempts
        <4>1. tries[i] \in 0 .. Attempts
          BY <1>1 DEF InstanceTyped
        <4> QED BY <2>4, <4>1, JournalAssumption
      <3>4. InstanceTyped(i)'
        BY <1>1, <1>2, <2>1, <3>1, <3>2, <3>3 DEF InstanceTyped, Loaded, Working
      <3>5. \A j \in Instances \ {i} : Stays(j) /\ tries'[j] = tries[j]
        BY <1>1, <1>2, <2>4, <3>1 DEF Stays, Shape
      <3> QED BY <1>2, <3>4, <3>5, QuietTyped
    <2> QED BY <1>7, <2>2, <2>3, <2>4 DEF LockFence
  <1> QED BY <1>5, <1>6, <1>7

\* A reload brings the version of the file with it.
LEMMA RefreshTyped ==
  ASSUME TypedInv, NEW i \in Instances, Refresh(i)
  PROVE  FilesTyped' /\ AckedTyped' /\ \A j \in Instances : InstanceTyped(j)'
  <1> DEFINE file == files[fd[i]]
             loaded == [ViewOf(file) EXCEPT !.deferred = view[i].deferred]
  <1>1. Shape /\ Fence /\ InstanceTyped(i) /\ view[i] \in Views
    BY TypedFacts
  <1>2. files' = files /\ acked' = acked /\ pc[i] = "fenced"
    BY DEF Refresh
  <1>3. fd[i] # None
    BY <1>1, <1>2 DEF Fence
  <1>4. ASSUME NEW v \in Views, view'[i] = v, Return(i),
               \A j \in Instances \ {i} : view'[j] = view[j],
               Len(files) = 1 /\ files[1].version = 3 => v.version = 3
        PROVE  FilesTyped' /\ AckedTyped' /\ \A j \in Instances : InstanceTyped(j)'
    <2>2. InstanceTyped(i)'
      BY <1>1, <1>2, <1>4, ReturnTyped
    <2>3. \A j \in Instances \ {i} : Stays(j) /\ tries'[j] = tries[j]
      BY <1>1, <1>4, OthersStay DEF Return
    <2> QED BY <1>2, <2>2, <2>3, QuietTyped
  <1>5. CASE file.size = view[i].size
    <2>1. /\ pc' = [pc EXCEPT ![i] = "write"] /\ view' = view /\ row' = row
          /\ fd' = fd /\ tries' = tries
      BY <1>5 DEF Refresh, Goto, append
    <2>2. pc'[i] = "write"
      BY <1>1, <2>1 DEF Shape
    <2>3. InstanceTyped(i)'
      BY <1>1, <1>2, <2>1, <2>2 DEF InstanceTyped, Loaded, Working
    <2>4. \A j \in Instances \ {i} : Stays(j) /\ tries'[j] = tries[j]
      BY <1>1, <2>1 DEF Stays, Shape
    <2> QED BY <1>2, <2>3, <2>4, QuietTyped
  <1>6. CASE file.size # view[i].size /\ ~Parses(file)
    <2>1. Return(i) /\ view' = view
      BY <1>6 DEF Refresh
    <2>3. Len(files) = 1 /\ files[1].version = 3 => view[i].version = 3
      BY <1>1, <1>2 DEF InstanceTyped, Loaded, Working
    <2> QED BY <1>1, <1>4, <2>1, <2>3
  <1>7. CASE file.size # view[i].size /\ Parses(file)
    <2>1. /\ ViewOf(file) \in Views /\ Entries(file) \in Seq(Rows)
          /\ ViewOf(file).version = file.version
          /\ Len(files) = 1 /\ files[1].version = 3 => ViewOf(file).version = 3
      BY <1>3, <1>7, LoadTyped
    <2>2. loaded \in Views /\ loaded.version = ViewOf(file).version
      <3>1. view[i].deferred \in BOOLEAN
        BY <1>1 DEF Views
      <3> QED BY <2>1, <3>1 DEF Views
    <2>3. view' = [view EXCEPT ![i] = loaded]
      BY <1>7 DEF Refresh
    <2>6. view'[i] = loaded /\ \A j \in Instances \ {i} : view'[j] = view[j]
      BY <1>1, <2>3 DEF Shape
    <2> HIDE DEF loaded
    <2>4. CASE Return(i)
      BY <1>4, <2>1, <2>2, <2>4, <2>6
    <2>5. CASE /\ row' = [row EXCEPT ![i].parent = Leaf(Entries(file))]
               /\ Goto(i, "write")
               /\ UNCHANGED <<holder, fd, durable, tries>>
      <3>1. pc' = [pc EXCEPT ![i] = "write"] /\ fd' = fd /\ tries' = tries
        BY <2>5 DEF Goto
      <3>2. pc'[i] = "write" /\ view'[i] = loaded
        BY <1>1, <2>3, <3>1 DEF Shape
      <3>3. row[i] \in Rows
        BY <1>1, <1>2 DEF InstanceTyped, Working
      <3>4. Leaf(Entries(file)) \in {NoRow, 1, 2} \union NewIds
        BY <2>1, RowsTyped
      <3>5. row'[i] = [row[i] EXCEPT !.parent = Leaf(Entries(file))]
        BY <1>1, <2>5 DEF Shape
      <3>6. row'[i] \in Rows
        BY <3>3, <3>4, <3>5 DEF Rows
      <3>7. InstanceTyped(i)'
        BY <1>1, <1>2, <2>1, <2>2, <3>1, <3>2, <3>6 DEF InstanceTyped
      <3>8. \A j \in Instances \ {i} : Stays(j) /\ tries'[j] = tries[j]
        BY <1>1, <2>3, <2>5, <3>1 DEF Stays, Shape
      <3> QED BY <1>2, <3>7, <3>8, QuietTyped
    <2> QED BY <1>7, <2>4, <2>5 DEF Refresh
  <1> QED BY <1>5, <1>6, <1>7

\* Every step changes the maps at one instance.
LEMMA MapsStep ==
  ASSUME Shape, Maps, Next
  PROVE  Maps'
  <1>1. ASSUME NEW f, f = [j \in Instances |-> f[j]], NEW i \in Instances, NEW v,
               NEW g, g = f \/ g = [f EXCEPT ![i] = v]
        PROVE  g = [j \in Instances |-> g[j]]
    BY <1>1
  <1>2. CASE Remove
    BY <1>2 DEF Remove, Maps
  <1>3. ASSUME NEW i \in Instances,
               Open(i) \/ AppendEntry(i) \/ Step(i) \/ TearLine(i) \/ Crash(i)
        PROVE  Maps'
    <2>1. view' = view \/ \E v : view' = [view EXCEPT ![i] = v]
      BY <1>3 DEF Open, AppendEntry, Step, Read, LookForFile, OpenFence, LockFence,
         Refresh, Refuse, Buffer, Rewrite, AppendLine, TearLine, Crash, Forget
    <2>2. row' = row \/ \E v : row' = [row EXCEPT ![i] = v]
      BY <1>3 DEF Open, AppendEntry, Step, Read, LookForFile, OpenFence, LockFence,
         Refresh, Refuse, Buffer, Rewrite, AppendLine, TearLine, Crash, Forget,
         Return, Clear, append
    <2>3. tries' = tries \/ \E v : tries' = [tries EXCEPT ![i] = v]
      BY <1>3 DEF Open, AppendEntry, Step, Read, LookForFile, OpenFence, LockFence,
         Refresh, Refuse, Buffer, Rewrite, AppendLine, TearLine, Crash, Forget,
         Return, Clear, append
    <2> QED BY <1>1, <2>1, <2>2, <2>3 DEF Maps
  <1> QED BY <1>2, <1>3 DEF Next

\* The returns that write nothing.
LEMMA RefuseBufferTyped ==
  ASSUME TypedInv, NEW i \in Instances, Refuse(i) \/ Buffer(i)
  PROVE  FilesTyped' /\ AckedTyped' /\ \A j \in Instances : InstanceTyped(j)'
  <1>1. Shape /\ Fence /\ InstanceTyped(i) /\ view[i] \in Views
    BY TypedFacts
  <1>2. files' = files /\ acked' = acked /\ pc[i] = "write" /\ Return(i)
    BY DEF Refuse, Buffer
  <1>3. Len(files) = 1 /\ files[1].version = 3 => view[i].version = 3
    BY <1>1, <1>2 DEF InstanceTyped, Loaded, Working
  <1>4. view'[i] \in Views /\ view'[i].version = view[i].version
    <2>1. CASE Refuse(i)
      BY <1>1, <2>1 DEF Refuse
    <2>2. CASE Buffer(i)
      <3>1. row[i] \in Rows /\ ParentKnown(i)
        BY <1>1, <1>2, <2>2 DEF InstanceTyped, Working, Buffer, Buffers
      <3>2. PICK longer \in Seq(Rows) : longer = Append(view[i].entries, Stamped(i))
        <4>1. Append(view[i].entries, Stamped(i)) \in Seq(Rows)
          BY <1>1, <3>1, StampedTyped
        <4> QED BY <4>1
      <3>3. view'[i] = [view[i] EXCEPT !.entries = longer]
        BY <1>1, <2>2, <3>2 DEF Buffer, Shape
      <3> QED BY <1>1, <3>3 DEF Views
    <2> QED BY <2>1, <2>2
  <1>5. \A j \in Instances \ {i} : view'[j] = view[j]
    BY <1>1 DEF Refuse, Buffer, Shape
  <1>6. InstanceTyped(i)'
    BY <1>1, <1>2, <1>3, <1>4, ReturnTyped
  <1>7. \A j \in Instances \ {i} : Stays(j) /\ tries'[j] = tries[j]
    BY <1>1, <1>2, <1>5, OthersStay DEF Return
  <1> QED BY <1>2, <1>6, <1>7, QuietTyped

\* A rewrite adds a file of the new format.
LEMMA RewriteTyped ==
  ASSUME TypedInv, NEW i \in Instances, Rewrite(i)
  PROVE  FilesTyped' /\ AckedTyped' /\ \A j \in Instances : InstanceTyped(j)'
  <1>1. Shape /\ Fence /\ InstanceTyped(i) /\ view[i] \in Views
    BY TypedFacts
  <1>2. /\ files' = Append(files, Rewritten(i)) /\ pc[i] = "write" /\ Return(i)
        /\ ParentKnown(i)
    BY DEF Rewrite, Rewrites
  <1>3. row[i] \in Rows
    BY <1>1, <1>2 DEF InstanceTyped, Working
  <1>4. Rewritten(i) \in Files /\ Rewritten(i).version = 4
    BY <1>1, <1>2, <1>3, RewrittenTyped
  <1>5. Len(files) \in Nat /\ DOMAIN files = 1 .. Len(files)
    BY TypedFacts
  <1>6. /\ IsSequence(files') /\ Len(files') = Len(files) + 1
        /\ files'[Len(files) + 1] = Rewritten(i)
        /\ \A n \in DOMAIN files : files'[n] = files[n]
    <2>1. IsSequence(files)
      BY <1>1 DEF Shape
    <2>2. Added(files', files, Rewritten(i))
      BY <1>2, <2>1, FilesAppended
    <2> QED BY <2>2 DEF Added
  <1>7. DOMAIN files' = 1 .. (Len(files) + 1)
    BY <1>6, SequenceFacts
  <1>8. FilesTyped'
    <2>1. ASSUME NEW n \in DOMAIN files'
          PROVE  /\ files'[n] \in Files
                 /\ files'[n].version = 3 => n = 1 /\ files'[n] = OldFile
      <3>1. CASE n = Len(files) + 1
        BY <1>4, <1>6, <3>1
      <3>2. CASE n # Len(files) + 1
        <4>1. n \in DOMAIN files
          BY <1>5, <1>7, <3>2
        <4> QED BY <1>6, <4>1 DEF TypedInv, FilesTyped
      <3> QED BY <3>1, <3>2
    <2> QED BY <2>1 DEF FilesTyped
  <1>9. ~(Len(files') = 1 /\ files'[1].version = 3)
    <2> SUFFICES ASSUME Len(files') = 1 PROVE files'[1].version # 3
      OBVIOUS
    <2>1. Len(files) = 0
      BY <1>5, <1>6
    <2> QED BY <1>4, <1>6, <2>1
  <1>10. FilesMove
    BY <1>5, <1>6, <1>9 DEF FilesMove
  <1>11. PICK longer \in Seq(Rows) : longer = Append(view[i].entries, Stamped(i))
    <2>1. Append(view[i].entries, Stamped(i)) \in Seq(Rows)
      BY <1>1, <1>2, <1>3, StampedTyped
    <2> QED BY <2>1
  <1>12. /\ view'[i] = [entries |-> longer, version |-> 4, deferred |-> FALSE,
                        needsRewrite |-> FALSE, size |-> Rewritten(i).size]
         /\ \A j \in Instances \ {i} : view'[j] = view[j]
    BY <1>1, <1>11 DEF Rewrite, Shape
  <1>13. view'[i] \in Views
    BY <1>4, <1>12 DEF Views, Files
  <1>14. InstanceTyped(i)'
    BY <1>1, <1>2, <1>9, <1>13, ReturnTyped
  <1>15. \A j \in Instances \ {i} : Stays(j) /\ tries'[j] = tries[j]
    BY <1>1, <1>2, <1>12, OthersStay DEF Return
  <1>16. AckedTyped'
    <2>1. acked' = acked \union Ids(view[i].entries) \union {row[i].id}
      BY DEF Rewrite
    <2>2. view[i].entries \in Seq(Rows) /\ row[i].id \in {1, 2} \union NewIds
      BY <1>1, <1>3 DEF Views, Rows
    <2>3. Ids(view[i].entries) \subseteq {1, 2} \union NewIds
      BY <2>2, RowsTyped
    <2> QED BY <2>1, <2>2, <2>3 DEF TypedInv, AckedTyped
  <1> QED BY <1>8, <1>10, <1>14, <1>15, <1>16, OneTyped

\* A write of a file of the new format, whole or cut short.
LEMMA WriteTyped ==
  ASSUME TypedInv, NEW n \in DOMAIN files, NEW x \in Files,
         files[n].version = 4, x.version = 4, files' = [files EXCEPT ![n] = x]
  PROVE  FilesTyped' /\ FilesMove
  <1>1. Len(files) \in Nat /\ DOMAIN files = 1 .. Len(files) /\ IsSequence(files)
    BY SequenceFacts DEF TypedInv, Shape
  <1>2. /\ IsSequence(files') /\ Len(files') = Len(files) /\ files'[n] = x
        /\ \A k \in DOMAIN files \ {n} : files'[k] = files[k]
    <2>1. Written(files', files, n, x)
      BY <1>1, FilesWritten
    <2> QED BY <2>1 DEF Written
  <1>3. DOMAIN files' = DOMAIN files
    BY <1>1, <1>2, SequenceFacts
  <1>4. FilesTyped'
    BY <1>2, <1>3 DEF TypedInv, FilesTyped
  <1>5. FilesMove
    BY <1>1, <1>2 DEF FilesMove
  <1> QED BY <1>4, <1>5

\* The one-line append.
LEMMA AppendLineTyped ==
  ASSUME TypedInv, NEW i \in Instances, AppendLine(i)
  PROVE  FilesTyped' /\ AckedTyped' /\ \A j \in Instances : InstanceTyped(j)'
  <1>1. Shape /\ Fence /\ InstanceTyped(i) /\ view[i] \in Views
    BY TypedFacts
  <1>2. /\ files' = [files EXCEPT ![fd[i]] = WithLine(files[fd[i]], Stamped(i))]
        /\ pc[i] = "write" /\ Writes(i) /\ Return(i)
        /\ acked' = acked \union {row[i].id}
    BY DEF AppendLine
  <1>3. /\ fd[i] \in DOMAIN files /\ files[fd[i]] \in Files /\ files[fd[i]].version = 4
        /\ Stamped(i) \in Rows /\ Append(view[i].entries, Stamped(i)) \in Seq(Rows)
    BY <1>2, WriterSeesNew
  <1>4. FilesTyped' /\ FilesMove
    <2>1. PICK x : x = WithLine(files[fd[i]], Stamped(i))
      OBVIOUS
    <2>2. x \in Files /\ x.version = 4
      BY <1>3, <2>1, LineTyped
    <2> QED BY <1>2, <1>3, <2>1, <2>2, WriteTyped
  <1>5. PICK longer \in Seq(Rows) : longer = Append(view[i].entries, Stamped(i))
    BY <1>3
  <1>6. /\ view'[i] = [view[i] EXCEPT !.entries = longer, !.size = @ + 3]
        /\ \A j \in Instances \ {i} : view'[j] = view[j]
    BY <1>1, <1>5 DEF AppendLine, Shape
  <1>7. view'[i] \in Views /\ view'[i].version = view[i].version
    <2>1. view[i].size + 3 \in Nat
      BY <1>1 DEF Views
    <2> QED BY <1>1, <1>6, <2>1 DEF Views
  <1>8. Len(files') = 1 /\ files'[1].version = 3 => view'[i].version = 3
    <2>1. Len(files) = 1 /\ files[1].version = 3 => view[i].version = 3
      BY <1>1, <1>2 DEF InstanceTyped, Loaded, Working
    <2>2. Len(files') = 1 /\ files'[1].version = 3 => Len(files) = 1 /\ files[1].version = 3
      BY <1>3, <1>4, TypedFacts DEF FilesMove
    <2> QED BY <1>7, <2>1, <2>2
  <1>9. InstanceTyped(i)'
    BY <1>1, <1>2, <1>7, <1>8, ReturnTyped
  <1>10. \A j \in Instances \ {i} : Stays(j) /\ tries'[j] = tries[j]
    BY <1>1, <1>2, <1>6, OthersStay DEF Return
  <1>11. AckedTyped'
    <2>1. row[i] \in Rows
      BY <1>1, <1>2 DEF InstanceTyped, Working
    <2> QED BY <1>2, <2>1 DEF TypedInv, AckedTyped, Rows
  <1> QED BY <1>4, <1>9, <1>10, <1>11, OneTyped

\* An append that stops inside its line, and an instance that dies.
LEMMA FaultTyped ==
  ASSUME TypedInv, NEW i \in Instances, TearLine(i) \/ Crash(i)
  PROVE  FilesTyped' /\ AckedTyped' /\ \A j \in Instances : InstanceTyped(j)'
  <1>1. Shape /\ Fence /\ InstanceTyped(i) /\ view[i] \in Views
    BY TypedFacts
  <1>2. acked' = acked /\ AckedTyped'
    BY DEF TearLine, Crash, TypedInv, AckedTyped
  <1>3. ASSUME Forget(i)
        PROVE  InstanceTyped(i)' /\ \A j \in Instances \ {i} : Stays(j) /\ tries'[j] = tries[j]
    <2>1. \A j \in Instances \ {i} : view'[j] = view[j]
      BY <1>1, <1>3 DEF Forget, Shape
    <2>2. \A j \in Instances \ {i} : Stays(j) /\ tries'[j] = tries[j]
      BY <1>1, <1>3, <2>1, OthersStay DEF Forget
    <2> QED BY <1>1, <1>3, <2>2, ForgetTyped
  <1>4. CASE Crash(i)
    <2>1. files' = files /\ Forget(i)
      BY <1>4 DEF Crash
    <2> QED BY <1>2, <1>3, <2>1, QuietTyped
  <1>5. CASE TearLine(i)
    <2>1. PICK tail \in {"torn", "bare"} :
            files' = [files EXCEPT ![fd[i]] = CutLine(files[fd[i]], Stamped(i), tail)]
      BY <1>5 DEF TearLine
    <2>2. pc[i] = "write" /\ Writes(i)
      BY <1>5 DEF TearLine
    <2>3. /\ fd[i] \in DOMAIN files /\ files[fd[i]] \in Files /\ files[fd[i]].version = 4
          /\ Stamped(i) \in Rows
      BY <2>2, WriterSeesNew
    <2>4. FilesTyped' /\ FilesMove
      <3>1. PICK x : x = CutLine(files[fd[i]], Stamped(i), tail)
        OBVIOUS
      <3>2. x \in Files /\ x.version = 4
        BY <2>3, <3>1, CutTyped
      <3> QED BY <2>1, <2>3, <3>1, <3>2, WriteTyped
    <2>5. CASE Forget(i)
      BY <1>2, <1>3, <2>4, <2>5, OneTyped
    <2>6. CASE Return(i) /\ UNCHANGED view
      <3>1. Len(files') = 1 /\ files'[1].version = 3 => view'[i].version = 3
        <4>1. Len(files) = 1 /\ files[1].version = 3 => view[i].version = 3
          BY <1>1, <2>2 DEF InstanceTyped, Loaded, Working
        <4>2. Len(files') = 1 /\ files'[1].version = 3
                => Len(files) = 1 /\ files[1].version = 3
          BY <2>3, <2>4, TypedFacts DEF FilesMove
        <4> QED BY <2>6, <4>1, <4>2
      <3>2. InstanceTyped(i)'
        BY <1>1, <2>6, <3>1, ReturnTyped
      <3>3. \A j \in Instances \ {i} : Stays(j) /\ tries'[j] = tries[j]
        BY <1>1, <2>6, OthersStay DEF Return
      <3> QED BY <1>2, <2>4, <3>2, <3>3, OneTyped
    <2> QED BY <1>5, <2>5, <2>6 DEF TearLine
  <1> QED BY <1>4, <1>5

\* A user's removal.
LEMMA RemoveTyped ==
  ASSUME TypedInv, Remove
  PROVE  FilesTyped' /\ AckedTyped' /\ \A j \in Instances : InstanceTyped(j)'
  <1>1. /\ files' = files /\ acked' = acked /\ pc' = pc /\ view' = view /\ row' = row
        /\ fd' = fd /\ tries' = tries
    BY DEF Remove
  <1>2. FilesTyped' /\ AckedTyped'
    BY <1>1 DEF TypedInv, FilesTyped, AckedTyped
  <1>3. ASSUME NEW j \in Instances PROVE InstanceTyped(j)'
    BY <1>1 DEF TypedInv, InstanceTyped
  <1> QED BY <1>2, <1>3

\* The initial states.
LEMMA InitTyped == Init => TypedInv
  <1> SUFFICES ASSUME Init PROVE TypedInv
    OBVIOUS
  <1>1. Shape /\ Fence
    BY InitShape
  <1>2. PICK origin \in Origins :
          LET new == origin \in {"deferred", "created"} IN
          /\ files = FilesAtStart(origin)
          /\ pc = [i \in Instances |-> IF new /\ i = Creator THEN "idle" ELSE "absent"]
          /\ view = [i \in Instances |->
                       IF i # Creator \/ ~new THEN NoView
                       ELSE IF origin = "created" THEN ViewOf(files[1])
                       ELSE [NoView EXCEPT !.deferred = TRUE]]
          /\ acked = IF new THEN {} ELSE {1, 2}
    BY DEF Init
  <1>3. /\ row = [i \in Instances |-> NewRow] /\ fd = [i \in Instances |-> None]
        /\ tries = [i \in Instances |-> 0] /\ 0 \in 0 .. Attempts
    BY JournalAssumption DEF Init
  <1>4. Maps
    BY <1>2, <1>3 DEF Maps
  <1>5. AckedTyped
    BY <1>2 DEF AckedTyped
  <1>6. NoView \in Views /\ [NoView EXCEPT !.deferred = TRUE] \in Views
    <2>1. NoView \in Views
      BY DEF NoView, Views
    <2>2. PICK c \in BOOLEAN : c = TRUE
      OBVIOUS
    <2>3. [NoView EXCEPT !.deferred = c] \in Views
      BY <2>1 DEF Views
    <2> QED BY <2>1, <2>2, <2>3
  <1>7. Root(0) \in Rows /\ Child(0) \in Rows /\ Child(1) \in Rows
    BY DEF Root, Child, Rows, NoRow
  <1>8. ASSUME NEW rows \in Seq(Rows)
        PROVE  File(4, rows) \in Files /\ File(4, rows).version = 4
    <2>1. Header + LineSize(4) * Len(rows) \in Nat
      BY DEF Header, LineSize
    <2> QED BY <2>1 DEF File, Files, Tails
  <1>9. OldFile \in Files /\ OldFile.version = 3
    <2>1. Legacy(OldFile)
      BY DEF Legacy, OldFile
    <2> QED BY <2>1, LegacyReads DEF OldFile, File
  <1>10. FilesTyped
    <2>1. origin \in {"deferred", "created", "v3", "v4", "inverted"}
      BY JournalAssumption
    <2>2. \/ files = <<>>
          \/ files = <<OldFile>>
          \/ \E rows \in Seq(Rows) : files = <<File(4, rows)>>
      <3>1. CASE origin = "deferred"
        BY <1>2, <3>1 DEF FilesAtStart
      <3>2. CASE origin = "created"
        <4>1. files = <<File(4, <<>>)>> /\ <<>> \in Seq(Rows)
          BY <1>2, <3>2 DEF FilesAtStart
        <4> QED BY <4>1
      <3>3. CASE origin = "v3"
        BY <1>2, <3>3 DEF FilesAtStart, OldFile
      <3>4. CASE origin = "v4"
        <4>1. files = <<File(4, <<Root(0), Child(1)>>)>> /\ <<Root(0), Child(1)>> \in Seq(Rows)
          BY <1>2, <1>7, <3>4 DEF FilesAtStart
        <4> QED BY <4>1
      <3>5. CASE origin = "inverted"
        <4>1. files = <<File(4, <<Child(1), Root(0)>>)>> /\ <<Child(1), Root(0)>> \in Seq(Rows)
          BY <1>2, <1>7, <3>5 DEF FilesAtStart
        <4> QED BY <4>1
      <3> QED BY <2>1, <3>1, <3>2, <3>3, <3>4, <3>5
    <2>3. CASE files = <<>>
      BY <2>3 DEF FilesTyped
    <2>4. CASE files = <<OldFile>>
      BY <1>9, <2>4 DEF FilesTyped
    <2>5. ASSUME NEW rows \in Seq(Rows), files = <<File(4, rows)>> PROVE FilesTyped
      BY <1>8, <2>5 DEF FilesTyped
    <2> QED BY <2>2, <2>3, <2>4, <2>5
  <1>11. ASSUME NEW i \in Instances PROVE InstanceTyped(i)
    <2>1. row[i] = NewRow /\ fd[i] = None /\ tries[i] \in 0 .. Attempts
      BY <1>3
    <2>2. CASE pc[i] = "absent"
      <3>1. view[i] = NoView
        BY <1>2, <2>2
      <3> QED BY <1>6, <2>1, <2>2, <3>1 DEF InstanceTyped, Loaded, Working
    <2>3. CASE pc[i] # "absent"
      <3>1. pc[i] = "idle" /\ i = Creator /\ origin \in {"deferred", "created"}
        BY <1>2, <2>3
      <3>2. CASE origin = "deferred"
        <4>1. files = <<>> /\ view[i] = [NoView EXCEPT !.deferred = TRUE]
          BY <1>2, <3>1, <3>2 DEF FilesAtStart
        <4>2. Len(files) # 1
          BY <4>1
        <4> QED BY <1>6, <2>1, <3>1, <4>1, <4>2 DEF InstanceTyped, Working
      <3>3. CASE origin = "created"
        <4>1. files = <<File(4, <<>>)>> /\ view[i] = ViewOf(files[1])
          BY <1>2, <3>1, <3>3 DEF FilesAtStart
        <4>2. <<>> \in Seq(Rows) /\ files[1] = File(4, <<>>)
          BY <4>1
        <4>3. Grown(files[1]) /\ ~files[1].corrupt
          <5>1. File(4, <<>>) \in Files /\ File(4, <<>>).version = 4
            BY <1>8, <4>2
          <5>2. File(4, <<>>).lines = <<>> /\ ~File(4, <<>>).corrupt
            BY DEF File
          <5> QED BY <4>2, <5>1, <5>2, NoRowsAreChain DEF Grown
        <4>4. ViewOf(files[1]) \in Views
          BY <4>3, GrownView
        <4>5. files[1].version # 3
          BY <4>3 DEF Grown
        <4> QED BY <2>1, <3>1, <4>1, <4>4, <4>5 DEF InstanceTyped, Working
      <3> QED BY <3>1, <3>2, <3>3
    <2> QED BY <2>2, <2>3
  <1> QED BY <1>1, <1>4, <1>5, <1>10, <1>11 DEF TypedInv

\* The invariant holds in every reachable state.
LEMMA TypedHolds == Spec => []TypedInv
  <1>1. TypedInv /\ [Next]_vars => TypedInv'
    <2>1. ASSUME TypedInv, Next PROVE TypedInv'
      <3>1. Shape' /\ Fence'
        BY <2>1, ShapeStep DEF TypedInv
      <3>2. Maps'
        BY <2>1, MapsStep DEF TypedInv
      <3>3. FilesTyped' /\ AckedTyped' /\ \A j \in Instances : InstanceTyped(j)'
        BY <2>1, OpenReadTyped, AppendEntryTyped, FenceTyped, RefreshTyped,
           RefuseBufferTyped, RewriteTyped, AppendLineTyped, FaultTyped, RemoveTyped
           DEF Next, Step
      <3> QED BY <3>1, <3>2, <3>3 DEF TypedInv
    <2>2. ASSUME TypedInv, UNCHANGED vars PROVE TypedInv'
      <3>1. /\ path' = path /\ files' = files /\ holder' = holder /\ pc' = pc
            /\ view' = view /\ row' = row /\ durable' = durable /\ fd' = fd
            /\ tries' = tries /\ acked' = acked /\ crashes' = crashes
            /\ tears' = tears /\ removals' = removals
        BY <2>2 DEF vars
      <3>2. Shape' /\ Fence'
        BY <2>2, <3>1 DEF TypedInv, Shape, Fence
      <3>3. FilesTyped' /\ AckedTyped' /\ Maps'
        BY <2>2, <3>1 DEF TypedInv, FilesTyped, AckedTyped, Maps
      <3>4. \A j \in Instances : InstanceTyped(j)'
        BY <2>2, <3>1 DEF TypedInv, InstanceTyped
      <3> QED BY <3>2, <3>3, <3>4 DEF TypedInv
    <2> QED BY <2>1, <2>2
  <1> QED BY <1>1, InitTyped, PTL DEF Spec

\* Types, and the fence: who is between the check of its lock and its return
\* holds the flock of the inode it writes, and nobody else does, also after
\* removals, renames and crashes (WriteFence::acquire).
THEOREM TypeCorrect == Spec => []TypeOK
  <1>1. TypedInv => TypeOK
    <2> SUFFICES ASSUME TypedInv PROVE TypeOK
      OBVIOUS
    <2>1. Shape /\ Fence
      BY DEF TypedInv
    <2>2. Len(files) \in Nat /\ DOMAIN files = 1 .. Len(files) /\ IsSequence(files)
      BY <2>1, SequenceFacts DEF Shape
    <2>3. files \in Seq(Files)
      <3> DEFINE S == {files[n] : n \in DOMAIN files}
      <3>1. S \subseteq Files
        BY DEF TypedInv, FilesTyped
      <3>2. files \in Seq(S)
        BY <2>2 DEF IsSequence
      <3> HIDE DEF S
      <3> QED BY <3>1, <3>2
    <2>4. path \in 0 .. Len(files)
      <3>1. path = None \/ path = Len(files)
        BY <2>1 DEF Shape
      <3> QED BY <2>2, <3>1 DEF None
    <2>5. /\ view \in [Instances -> Views]
          /\ row \in [Instances -> Rows \union {NewRow}]
          /\ tries \in [Instances -> 0 .. Attempts]
      <3>1. \A i \in Instances : /\ view[i] \in Views
                                 /\ row[i] \in Rows \union {NewRow}
                                 /\ tries[i] \in 0 .. Attempts
        BY DEF TypedInv, InstanceTyped
      <3> QED BY <3>1 DEF TypedInv, Maps
    <2>6. ASSUME NEW n \in 1 .. MaxInodes PROVE Cardinality(holder[n]) =< 1
      <3>1. CASE holder[n] = {}
        <4>1. Cardinality({}) = 0
          BY FS_EmptySet
        <4> QED BY <3>1, <4>1
      <3>2. CASE holder[n] # {}
        <4>1. PICK i \in holder[n] : TRUE
          BY <3>2
        <4>2. holder[n] \subseteq Instances
          BY <2>1 DEF Shape
        <4>3. \A j \in holder[n] : j = i
          BY <2>1, <4>1, <4>2 DEF Fence
        <4>4. holder[n] = {i}
          BY <4>1, <4>3
        <4>5. Cardinality({i}) = 1
          BY FS_Singleton
        <4> QED BY <4>4, <4>5
      <3> QED BY <3>1, <3>2
    <2>7. ASSUME NEW i \in Instances, pc[i] \in {"fenced", "write"}, fd[i] # None
          PROVE  i \in holder[fd[i]]
      <3>1. fd[i] \in 0 .. Len(files) /\ Len(files) =< MaxInodes
        BY <2>1 DEF Shape
      <3>2. fd[i] \in 1 .. MaxInodes
        BY <2>2, <2>7, <3>1, JournalAssumption DEF None
      <3> QED BY <2>1, <2>7, <3>2 DEF Fence
    <2>8. acked \subseteq {1, 2} \union NewIds
      BY DEF TypedInv, AckedTyped
    <2> QED BY <2>1, <2>3, <2>4, <2>5, <2>6, <2>7, <2>8 DEF TypeOK, Shape
  <1> QED BY <1>1, TypedHolds, PTL

\* A file of the old format is replaced and never written to, whatever views,
\* descriptors, removals and renames there are (the version test before the
\* one-line append).
THEOREM OldFormatUntouchedHolds == Spec => OldFormatUntouched
  <1>1. ASSUME TypedInv, [Next]_vars, NEW n \in DOMAIN files, files[n].version = 3
        PROVE  files'[n] = files[n]
    <2>1. CASE files' = files
      BY <2>1
    <2>2. ASSUME NEW i \in Instances, Rewrite(i)
          PROVE  files'[n] = files[n]
      <3>1. files' = Append(files, Rewritten(i)) /\ IsSequence(files)
        BY <1>1, <2>2 DEF Rewrite, TypedInv, Shape
      <3>2. Added(files', files, Rewritten(i))
        BY <3>1, FilesAppended
      <3> QED BY <3>2 DEF Added
    <2>3. ASSUME NEW i \in Instances, AppendLine(i) \/ TearLine(i)
          PROVE  files'[n] = files[n]
      <3>1. fd[i] \in DOMAIN files /\ files[fd[i]].version = 4
        BY <1>1, <2>3, WriterSeesNew DEF AppendLine, TearLine
      <3>2. PICK x : files' = [files EXCEPT ![fd[i]] = x]
        BY <2>3 DEF AppendLine, TearLine
      <3>3. IsSequence(files)
        BY <1>1 DEF TypedInv, Shape
      <3>4. Written(files', files, fd[i], x)
        BY <3>1, <3>2, <3>3, FilesWritten
      <3>5. n # fd[i]
        BY <1>1, <3>1
      <3> QED BY <3>4, <3>5 DEF Written
    <2> QED BY <1>1, <2>1, <2>2, <2>3 DEF Next, Step, Open, AppendEntry, Read,
               LookForFile, OpenFence, LockFence, Refresh, Refuse, Buffer, Crash,
               Remove, vars, disk
  <1>2. TypedInv /\ [Next]_vars =>
          [\A n \in DOMAIN files : files[n].version = 3 => files'[n] = files[n]]_vars
    BY <1>1
  <1> QED BY <1>2, TypedHolds, PTL DEF Spec, OldFormatUntouched

=============================================================================
