-------------------------- MODULE LogTailerProofs --------------------------
(* Theorems about LogTailer for every value of its constants. *)
EXTENDS LogTailer, FiniteSetTheorems, WellFoundedInduction, TLAPS

Cells == [line : Nat, nl : BOOLEAN]
AllPositions == [path : Paths, inode : Inodes, offset : Nat, skip : BOOLEAN, epoch : Nat]

\* Files are numbered in the order they are written in: a path that is no
\* longer current names an older file.
DiskInv ==
  /\ current \in Paths /\ current <= Writing /\ Writing \in Inodes /\ line \in Nat
  /\ name \in [Paths -> 0..MaxFiles]
  /\ \A p \in Paths : p < current => name[p] < Writing
  /\ file \in [Inodes -> Seq(Cells)] /\ epoch \in [Inodes -> Nat]

\* No position is ahead of the server; one in a file that was truncated since
\* is behind its end.
Known(s) ==
  /\ s \in AllPositions /\ s.path <= current /\ s.inode <= Writing /\ s.epoch <= epoch[s.inode]
AtLineStart(f, off) == off = 0 \/ (off \in DOMAIN f /\ f[off].nl)
Fits(s) ==
  IF s.epoch = epoch[s.inode]
  THEN s.offset <= Len(file[s.inode]) /\ (s.skip \/ AtLineStart(file[s.inode], s.offset))
  ELSE s.offset = 0 \/ s.offset > Len(file[s.inode])
PositionsInv == \A s \in Positions : Known(s) /\ Fits(s)

\* What was skipped at the last switch is the tail of a file that nobody writes.
Left(s) == s.path < current /\ s.inode < Writing
Rest(s) == Len(file[s.inode]) - s.offset
SourceInv ==
  /\ source \in 0..current
  /\ pending # 0 => source # state.path /\ Left(state) /\ pending = Rest(state)

\* The collection under way was made from this source and these bytes.
CollectionInv ==
  ~Idle =>
    /\ source # 0 /\ collection.source \in 0..current /\ collection.source # source
    /\ IF collection.next = None
       THEN /\ collection.rotation = pending /\ ~collection.consumes
            /\ pending # 0 /\ collection.source # 0 => collection.source # state.path
       ELSE /\ collection.next.path = source /\ (collection.consumes <=> pending # 0)
            /\ collection.source # 0 =>
                 Left(collection.next) /\ collection.rotation = Rest(collection.next)

NoFragments(D) == \A d \in D : d.kind # "fragment"
LinesInv ==
  /\ NoFragments(delivered)
  /\ ~Idle => NoFragments(collection.lines)

\* The cells of a line stand together, behind at least one cell of text; only
\* the file that is written has an unfinished line.
Together(f) == \A x, y \in DOMAIN f : x < y /\ (\A z \in x..y-1 : ~f[z].nl) => f[x].line = f[y].line
NoBlank(f) == \A x \in DOMAIN f : f[x].nl => x > 1 /\ ~f[x - 1].nl
EndsWith(f, n) ==
  /\ \A x \in DOMAIN f : f[x].line <= n /\ (f[x].line = n => ~f[x].nl /\ ~f[Len(f)].nl)
  /\ f # <<>> /\ ~f[Len(f)].nl => f[Len(f)].line = n
FilesInv ==
  /\ \A i \in Inodes : Together(file[i]) /\ NoBlank(file[i])
  /\ EndsWith(file[Writing], line)
  /\ \A i \in Inodes : i > Writing => file[i] = <<>>

\* In the files F with the epochs E, A holds every complete line in front of a
\* position, and the line the next read will skip to the end of.
Skipped(f, off, A) ==
  IF off < Len(f) THEN f[off + 1].line \in A
                  ELSE off > 0 => ~f[off].nl /\ f[off].line \in A
Before(f, off, A) == \A x \in DOMAIN f : x <= off /\ f[x].nl => f[x].line \in A
Passed(F, E, s, A) ==
  /\ \A i \in Inodes : i < s.inode => LinesOf(F[i]) \subseteq A
  /\ s.epoch = E[s.inode] =>
       /\ Before(F[s.inode], s.offset, A)
       /\ s.skip /\ s.offset > 0 => Skipped(F[s.inode], s.offset, A)
Brought(c) == {d.line : d \in c.lines} \cup c.gaps \cup c.drops
Booked == Accounted \cup dropped
AccountedInv ==
  /\ Passed(file, epoch, state, Booked) /\ Passed(file, epoch, saved, Booked)
  /\ ~Idle => /\ collection.next # None =>
                   Passed(file, epoch, collection.next, Booked \cup Brought(collection))
              /\ stored => collection.lines \subseteq delivered /\ collection.gaps \subseteq excused /\ collection.drops \subseteq dropped

TailerInv ==
  /\ DiskInv /\ PositionsInv /\ SourceInv /\ CollectionInv
  /\ LinesInv /\ FilesInv /\ AccountedInv

-----------------------------------------------------------------------------
LEMMA Caps ==
  /\ MaxLineLen \in Nat /\ MaxBytes \in Nat /\ MaxBacklog \in Nat /\ BacklogTail \in Nat
  /\ 0 < BacklogTail /\ BacklogTail <= MaxBacklog
  /\ MaxFiles \in Nat /\ MaxFiles # 0
BY CapsAssumption, BoundsAssumption DEF CapsAssumption, BoundsAssumption

(* Min and Max. *)

\* A set of naturals has a least element.
LEMMA Smallest ==
  ASSUME NEW S \in SUBSET Nat, S # {}
  PROVE  \E x \in S : \A y \in S : x <= y
<1> DEFINE R == OpToRel(<, Nat)
<1>1. IsWellFoundedOn(R, Nat)
  BY NatLessThanWellFounded
<1>2. \A x, y \in Nat : <<x, y>> \in R <=> x < y
  BY DEF OpToRel
<1> HIDE DEF R
<1>3. PICK x \in S : \A y \in S : ~(<<y, x>> \in R)
  BY <1>1, WFMin
<1>4. \A y \in S : ~(y < x)
  BY <1>2, <1>3
<1>5. \A y \in S : x <= y
  BY <1>4
<1> QED
  BY <1>5

LEMMA MinIsLeast ==
  ASSUME NEW S \in SUBSET Nat, S # {}
  PROVE  Min(S) \in S /\ \A y \in S : Min(S) <= y
BY Smallest DEF Min

\* A bounded set of naturals has a greatest element.
LEMMA MaxIsGreatest ==
  ASSUME NEW n \in Nat, NEW S \in SUBSET (0..n), S # {}
  PROVE  Max(S) \in S /\ \A y \in S : y <= Max(S)
<1> DEFINE T == {n - x : x \in S}
<1>1. \A x \in S : x \in Nat /\ n - x \in Nat
  OBVIOUS
<1>2. T \in SUBSET Nat
  BY <1>1
<1>3. T # {}
  OBVIOUS
<1>4. PICK t \in T : \A y \in T : t <= y
  <2> HIDE DEF T
  <2> QED BY <1>2, <1>3, Smallest
<1>5. PICK x \in S : t = n - x
  BY <1>4
<1>6. \A y \in S : n - x <= n - y
  BY <1>4, <1>5
<1>7. \A y \in S : y <= x
  BY <1>1, <1>6
<1> QED
  BY <1>7 DEF Max

-----------------------------------------------------------------------------
(* One read. *)

\* A read resumes inside the file.
LEMMA ResumesInside ==
  ASSUME NEW st \in AllPositions, NEW p \in Paths, NEW i \in Inodes,
         file \in [Inodes -> Seq(Cells)], NEW r, r = Resumes(st, p, i)
  PROVE  /\ r.from \in 0..Len(file[i]) /\ r.skip \in BOOLEAN /\ r.rotated \in BOOLEAN
         /\ r.rotated => r.from = 0
         /\ ~r.rotated => st.path = p /\ st.inode = i /\ st.offset <= Len(file[i])
                            /\ r.from = st.offset /\ r.skip = st.skip
<1>1. st.offset \in Nat /\ st.skip \in BOOLEAN /\ Len(file[i]) \in Nat
  BY DEF AllPositions
<1>2. CASE st.path # p
  BY <1>1, <1>2 DEF Resumes
<1>3. CASE st.path = p /\ SameFile(st, i)
  <2>1. r = [from |-> st.offset, skip |-> st.skip, rotated |-> FALSE]
    BY <1>3 DEF Resumes
  <2>2. st.inode = i /\ st.offset <= Len(file[i])
    BY <1>1, <1>3 DEF SameFile
  <2> QED BY <1>1, <1>3, <2>1, <2>2
<1>4. CASE st.path = p /\ ~SameFile(st, i)
  <2>1. r = [from |-> 0, skip |-> st.skip, rotated |-> TRUE]
    BY <1>4 DEF Resumes
  <2> QED BY <1>1, <2>1
<1> QED
  BY <1>2, <1>3, <1>4

\* The backlog guard moves forward, and then skips to the next line.
LEMMA GuardedInside ==
  ASSUME NEW f \in Seq(Cells), NEW r, r.from \in 0..Len(f), r.skip \in BOOLEAN,
         NEW c, c = Guarded(f, r)
  PROVE  /\ c.at \in r.from..Len(f) /\ c.skip \in BOOLEAN
         /\ SkipsAhead(f, r) => c.skip /\ r.from < c.at /\ c.at < Len(f)
         /\ ~SkipsAhead(f, r) => c.at = r.from /\ c.skip = r.skip
<1>1. Len(f) \in Nat /\ r.from \in Nat /\ r.from <= Len(f)
  OBVIOUS
<1>2. CASE SkipsAhead(f, r)
  <2>1. c = [at |-> Len(f) - BacklogTail, skip |-> TRUE]
    BY <1>2 DEF Guarded
  <2>2. Len(f) - r.from > MaxBacklog
    BY <1>2 DEF SkipsAhead
  <2>3. BacklogTail \in Nat /\ MaxBacklog \in Nat /\ 0 < BacklogTail /\ BacklogTail <= MaxBacklog
    BY Caps
  <2>4. c.at = Len(f) - BacklogTail /\ c.skip = TRUE
    BY <2>1
  <2>5. Len(f) - BacklogTail \in r.from..Len(f) /\ r.from < Len(f) - BacklogTail
        /\ Len(f) - BacklogTail < Len(f)
    BY <1>1, <2>2, <2>3
  <2> QED BY <1>2, <2>4, <2>5
<1>3. CASE ~SkipsAhead(f, r)
  <2>1. c = [at |-> r.from, skip |-> r.skip]
    BY <1>3 DEF Guarded
  <2> QED BY <1>1, <1>3, <2>1
<1> QED
  BY <1>2, <1>3

LEMMA ReachInside ==
  ASSUME NEW f \in Seq(Cells), NEW c, c.at \in 0..Len(f)
  PROVE  Reach(f, c) \in c.at..Len(f)
<1> DEFINE S == {Len(f), c.at + MaxBytes}
<1>1. S \in SUBSET Nat /\ S # {}
  BY Caps
<1>2. Min(S) \in S /\ \A y \in S : Min(S) <= y
  <2> HIDE DEF S
  <2> QED BY <1>1, MinIsLeast
<1>3. Len(f) \in Nat /\ c.at \in Nat /\ MaxBytes \in Nat /\ c.at <= Len(f) /\ c.at <= c.at + MaxBytes
  BY Caps
<1>4. Min(S) <= Len(f) /\ (Min(S) = Len(f) \/ Min(S) = c.at + MaxBytes)
  BY <1>2
<1>5. Reach(f, c) = Min(S)
  BY DEF Reach
<1> HIDE DEF S
<1> QED
  BY <1>3, <1>4, <1>5

\* Where the loop finds the first line it takes and the end of the last one.
LEMMA LoopStops ==
  ASSUME NEW f \in Seq(Cells), NEW c, c.at \in 0..Len(f), c.skip \in BOOLEAN, NEW k \in c.at..Len(f)
  PROVE  /\ TextStart(f, c, k) \in c.at..k
         /\ ~c.skip => TextStart(f, c, k) = c.at
         /\ c.skip => IF StillSkipping(f, c, k) THEN TextStart(f, c, k) = k
                      ELSE TextStart(f, c, k) \in Newlines(f, c.at, k)
         /\ LastEnd(f, c, k) \in TextStart(f, c, k)..k
         /\ LastEnd(f, c, k) \in {TextStart(f, c, k)} \cup Newlines(f, c.at, k)
         /\ \A x \in Newlines(f, c.at, k) : x <= LastEnd(f, c, k)
         /\ ResumeOffset(f, c, k) \in c.at..k
<1> DEFINE N == Newlines(f, c.at, k)
<1> DEFINE s == TextStart(f, c, k)
<1>1. /\ c.at \in Nat /\ k \in Nat /\ c.at <= k
      /\ N \in SUBSET (c.at+1..k)
  BY DEF Newlines
<1>2. N \in SUBSET Nat /\ N \in SUBSET (0..k)
  BY <1>1
<1>3. N # {} => Min(N) \in N
  BY <1>2, MinIsLeast
<1>4. /\ s \in c.at..k
      /\ ~c.skip => s = c.at
      /\ c.skip => IF StillSkipping(f, c, k) THEN s = k ELSE s \in N
  <2>1. StillSkipping(f, c, k) <=> c.skip /\ N = {}
    BY DEF StillSkipping
  <2>2. s = IF ~c.skip THEN c.at ELSE IF StillSkipping(f, c, k) THEN k ELSE Min(N)
    BY DEF TextStart
  <2>3. CASE ~c.skip
    <3> HIDE DEF N, s
    <3> QED BY <1>1, <2>2, <2>3
  <2>4. CASE c.skip /\ N = {}
    <3> HIDE DEF N, s
    <3> QED BY <1>1, <2>1, <2>2, <2>4
  <2>5. CASE c.skip /\ N # {}
    <3>1. s = Min(N) /\ s \in N
      BY <1>3, <2>1, <2>2, <2>5
    <3>2. N \in SUBSET (c.at+1..k)
      BY <1>1
    <3>3. s \in c.at..k
      <4> HIDE DEF N, s
      <4> QED BY <1>1, <3>1, <3>2
    <3> QED BY <2>1, <2>5, <3>1, <3>3
  <2> QED BY <2>3, <2>4, <2>5
<1>5. /\ LastEnd(f, c, k) \in {s} \cup N
      /\ \A x \in {s} \cup N : x <= LastEnd(f, c, k)
  <2>1. LastEnd(f, c, k) = Max({s} \cup N)
    BY DEF LastEnd
  <2> HIDE DEF N, s
  <2>2. s \in 0..k
    BY <1>1, <1>4
  <2>3. {s} \cup N \in SUBSET (0..k) /\ {s} \cup N # {}
    BY <1>2, <2>2
  <2> QED BY <1>1, <2>1, <2>3, MaxIsGreatest
<1>6. LastEnd(f, c, k) \in s..k
  <2>1. s \in c.at..k /\ \A x \in N : x \in Nat /\ x <= k
    BY <1>1, <1>4
  <2>2. s <= LastEnd(f, c, k)
    BY <1>5
  <2>3. s \in Nat /\ s <= k
    <3> HIDE DEF N, s
    <3> QED BY <1>1, <2>1
  <2>5. LastEnd(f, c, k) \in Nat
    <3> HIDE DEF N, s
    <3> QED BY <1>5, <2>1, <2>3
  <2>4. LastEnd(f, c, k) <= k
    <3> HIDE DEF N, s
    <3> QED BY <1>5, <2>1, <2>3
  <2> HIDE DEF N, s
  <2> QED BY <1>1, <2>2, <2>3, <2>4, <2>5
<1>7. ResumeOffset(f, c, k) \in {k, LastEnd(f, c, k)}
  BY DEF ResumeOffset
<1>8. ResumeOffset(f, c, k) \in c.at..k
  <2> HIDE DEF N, s
  <2> QED BY <1>1, <1>4, <1>6, <1>7
<1> QED
  BY <1>4, <1>5, <1>6, <1>8

-----------------------------------------------------------------------------
(* The server. *)

LEMMA EnvironmentLeaves ==
  Environment => UNCHANGED <<memory, saved, delivered, faults>>
BY DEF Environment, Write, RotatePath, Rename, Truncate, Remove, memory, books

\* A server goes from file to file; what it has left it does not write.
LEMMA EnvironmentDisk ==
  ASSUME DiskInv, Environment
  PROVE  /\ DiskInv'
         /\ current <= current' /\ Writing <= Writing' /\ current' \in Nat /\ Writing' \in Nat
         /\ \A i \in Inodes : i # Writing => file'[i] = file[i] /\ epoch'[i] = epoch[i]
         /\ \A i \in Inodes : epoch[i] <= epoch'[i]
<1> USE Caps DEF Paths, Inodes
<1>1. /\ current \in Paths /\ current <= Writing /\ Writing \in Inodes /\ line \in Nat
      /\ name \in [Paths -> 0..MaxFiles]
      /\ \A p \in Paths : p < current => name[p] < Writing
      /\ file \in [Inodes -> Seq(Cells)] /\ epoch \in [Inodes -> Nat]
  BY DEF DiskInv
<1>2. CASE Write
  <2>1. UNCHANGED <<epoch, name, current>>
    BY <1>2 DEF Write
  <2>2. Writing' = Writing
    BY <2>1 DEF Writing
  <2>3. line \in Nat /\ Cell(line, TRUE) \in Cells /\ Cell(line, FALSE) \in Cells
    BY <1>1 DEF Cell, Cells
  <2>4. \A v \in Cells : [file EXCEPT ![Writing] = Append(@, v)] \in [Inodes -> Seq(Cells)]
    BY <1>1
  <2>5. \/ file' = [file EXCEPT ![Writing] = Append(@, Cell(line, TRUE))] /\ line' = line + 1
        \/ file' = [file EXCEPT ![Writing] = Append(@, Cell(line, FALSE))] /\ line' = line
    BY <1>2 DEF Write
  <2>6. file' \in [Inodes -> Seq(Cells)] /\ line' \in Nat
    <3>1. /\ [file EXCEPT ![Writing] = Append(@, Cell(line, TRUE))] \in [Inodes -> Seq(Cells)]
          /\ [file EXCEPT ![Writing] = Append(@, Cell(line, FALSE))] \in [Inodes -> Seq(Cells)]
      BY <2>3, <2>4
    <3>2. line + 1 \in Nat
      BY <1>1
    <3> QED BY <1>1, <2>5, <3>1, <3>2
  <2>7. \A i \in Inodes : i # Writing => file'[i] = file[i] /\ epoch'[i] = epoch[i]
    BY <1>1, <2>1, <2>5
  <2> QED BY <1>1, <2>1, <2>2, <2>6, <2>7 DEF DiskInv
<1>3. CASE RotatePath
  <2>1. UNCHANGED <<file, epoch, line>> /\ current' = current + 1
        /\ name' = [name EXCEPT ![current + 1] = Writing + 1] /\ Writing < MaxFiles
    BY <1>3 DEF RotatePath
  <2>2. current + 1 \in Paths /\ Writing + 1 \in Inodes
    BY <1>1, <2>1
  <2>3. Writing' = Writing + 1
    BY <1>1, <2>1, <2>2 DEF Writing
  <2>4. name' \in [Paths -> 0..MaxFiles]
    <3>1. Writing + 1 \in 0..MaxFiles
      BY <1>1, <2>2
    <3>2. name \in [Paths -> 0..MaxFiles]
      BY <1>1
    <3> HIDE DEF Paths, Inodes
    <3> QED BY <2>1, <3>1, <3>2
  <2>5. \A p \in Paths : p < current + 1 => p # current + 1 /\ (p < current \/ p = current)
    BY <1>1
  <2>6. ASSUME NEW p \in Paths, p < current'
        PROVE  name'[p] < Writing'
    <3>1. p # current + 1 /\ (p < current \/ p = current)
      BY <2>1, <2>5, <2>6
    <3>2. name'[p] = name[p]
      BY <1>1, <2>1, <3>1
    <3>3. name[p] \in Nat /\ Writing \in Nat
      BY <1>1
    <3>4. name[p] < Writing \/ name[p] = Writing
      BY <1>1, <3>1 DEF Writing
    <3> QED BY ONLY <2>3, <3>2, <3>3, <3>4
  <2>7. current' \in Paths /\ current' <= Writing' /\ Writing' \in Inodes /\ Writing <= Writing' /\ current <= current'
    BY <1>1, <2>1, <2>2, <2>3
  <2>8. DiskInv'
    BY <1>1, <2>1, <2>4, <2>6, <2>7 DEF DiskInv
  <2>9. current' \in Nat /\ Writing' \in Nat
    BY <2>7
  <2>10. \A i \in Inodes : epoch[i] \in Nat
    BY <1>1
  <2> QED BY <2>1, <2>7, <2>8, <2>9, <2>10
<1>4. CASE Rename
  <2>1. UNCHANGED <<file, epoch, line, current>> /\ Writing < MaxFiles
        /\ name' = [name EXCEPT ![current] = Writing + 1]
    BY <1>4 DEF Rename
  <2>2. Writing + 1 \in Inodes
    BY <1>1, <2>1
  <2>3. Writing' = Writing + 1
    BY <1>1, <2>1 DEF Writing
  <2>4. name' \in [Paths -> 0..MaxFiles]
    <3>1. Writing + 1 \in 0..MaxFiles
      BY <1>1, <2>2
    <3>2. name \in [Paths -> 0..MaxFiles]
      BY <1>1
    <3> HIDE DEF Paths, Inodes
    <3> QED BY <2>1, <3>1, <3>2
  <2>5. ASSUME NEW p \in Paths, p < current'
        PROVE  name'[p] < Writing'
    <3>1. p < current /\ p # current /\ current \in Nat
      BY <1>1, <2>1, <2>5
    <3>2. name'[p] = name[p] /\ name[p] < Writing
      BY <1>1, <2>1, <3>1
    <3>3. name[p] \in Nat /\ Writing \in Nat
      BY <1>1
    <3> QED BY <2>3, <3>2, <3>3
  <2>6. current' \in Paths /\ current' <= Writing' /\ Writing' \in Inodes /\ Writing <= Writing'
    BY <1>1, <2>1, <2>2, <2>3
  <2>7. DiskInv'
    BY <1>1, <2>1, <2>4, <2>5, <2>6 DEF DiskInv
  <2>8. \A i \in Inodes : epoch[i] <= epoch[i]
    BY <1>1
  <2> QED BY <1>1, <2>1, <2>6, <2>7, <2>8
<1>5. CASE Truncate
  <2>1. UNCHANGED <<name, current, line>>
        /\ file' = [file EXCEPT ![Writing] = <<>>] /\ epoch' = [epoch EXCEPT ![Writing] = @ + 1]
    BY <1>5 DEF Truncate
  <2>2. Writing' = Writing
    BY <2>1 DEF Writing
  <2>a. /\ file \in [Inodes -> Seq(Cells)] /\ epoch \in [Inodes -> Nat] /\ Writing \in Inodes
        /\ <<>> \in Seq(Cells)
    BY <1>1
  <2>3. file' \in [Inodes -> Seq(Cells)] /\ epoch' \in [Inodes -> Nat]
    <3> HIDE DEF Inodes
    <3> QED BY <2>1, <2>a
  <2>4. \A i \in Inodes : i # Writing => file'[i] = file[i] /\ epoch'[i] = epoch[i]
    <3> HIDE DEF Inodes
    <3> QED BY <2>1, <2>a
  <2>5. \A i \in Inodes : epoch[i] <= epoch'[i]
    <3> HIDE DEF Inodes
    <3>1. ASSUME NEW i \in Inodes PROVE epoch'[i] \in {epoch[i], epoch[i] + 1} /\ epoch[i] \in Nat
      BY <2>1, <2>a
    <3> QED BY <3>1
  <2>6. DiskInv'
    BY <1>1, <2>1, <2>2, <2>3 DEF DiskInv
  <2>7. current \in Nat /\ Writing \in Nat
    BY <1>1
  <2> QED BY <2>1, <2>2, <2>4, <2>5, <2>6, <2>7
<1>6. CASE Remove
  <2>1. UNCHANGED <<file, epoch, line, current>>
    BY <1>6 DEF Remove
  <2>2. PICK p \in 1..current - 1 : name' = [name EXCEPT ![p] = 0]
    BY <1>6 DEF Remove
  <2>3. p # current /\ p \in Paths
    BY <1>1
  <2>4. Writing' = Writing
    BY <1>1, <2>1, <2>2, <2>3 DEF Writing
  <2>5. name' \in [Paths -> 0..MaxFiles]
    BY <1>1, <2>2
  <2>6. \A q \in Paths : q < current' => name'[q] < Writing'
    BY <1>1, <2>1, <2>2, <2>4
  <2> QED BY <1>1, <2>1, <2>4, <2>5, <2>6 DEF DiskInv
<1> QED
  BY <1>2, <1>3, <1>4, <1>5, <1>6 DEF Environment

-----------------------------------------------------------------------------
(* A position and the server. *)

\* Positions stay behind the server, and the rest of a file that was left stays.
LEMMA EnvironmentKeepsKnown ==
  ASSUME DiskInv, Environment
  PROVE  /\ \A s : Known(s) => Known(s)'
         /\ \A s : Known(s) /\ Left(s) => Left(s)' /\ Rest(s)' = Rest(s)
<1>1. /\ current <= current' /\ Writing <= Writing' /\ current' \in Nat /\ Writing' \in Nat
      /\ \A i \in Inodes : i # Writing => file'[i] = file[i] /\ epoch'[i] = epoch[i]
      /\ \A i \in Inodes : epoch[i] <= epoch'[i]
  BY EnvironmentDisk
<1>2. current \in Nat /\ Writing \in Nat /\ \A i \in Inodes : epoch[i] \in Nat /\ i \in Nat
  BY Caps DEF DiskInv, Paths, Inodes
<1>3. DiskInv'
  BY EnvironmentDisk
<1>4. \A i \in Inodes : epoch'[i] \in Nat
  BY <1>3 DEF DiskInv
<1>5. ASSUME NEW s, Known(s)
      PROVE  /\ Known(s)'
             /\ Left(s) => Left(s)' /\ Rest(s)' = Rest(s)
  <2>1. /\ s \in AllPositions /\ s.path <= current /\ s.inode <= Writing /\ s.epoch <= epoch[s.inode]
    BY <1>5 DEF Known
  <2>2. s.path \in Nat /\ s.inode \in Inodes /\ s.inode \in Nat /\ s.epoch \in Nat
    BY <1>2, <2>1, Caps DEF AllPositions, Paths, Inodes
  <2>3. s.path <= current' /\ s.inode <= Writing'
    BY <1>1, <1>2, <2>1, <2>2
  <2>4. s.epoch <= epoch'[s.inode]
    <3>1. epoch[s.inode] \in Nat /\ epoch'[s.inode] \in Nat /\ epoch[s.inode] <= epoch'[s.inode]
      BY <1>1, <1>2, <1>4, <2>2
    <3> QED BY <2>1, <2>2, <3>1
  <2>5. Known(s)'
    BY <2>1, <2>3, <2>4 DEF Known
  <2>6. ASSUME Left(s)
        PROVE  Left(s)' /\ Rest(s)' = Rest(s)
    <3>1. s.path < current /\ s.inode < Writing
      BY <2>6 DEF Left
    <3>2. s.path < current' /\ s.inode < Writing' /\ s.inode # Writing
      BY <1>1, <1>2, <2>2, <3>1
    <3>3. file'[s.inode] = file[s.inode]
      BY <1>1, <2>2, <3>2
    <3> QED BY <3>2, <3>3 DEF Left, Rest
  <2> QED BY <2>5, <2>6
<1> QED
  BY <1>5

\* A position stays at the start of a line or behind the end of a file that was
\* cut: what is cut is looked at before it has grown again.
LEMMA EnvironmentKeepsFits ==
  ASSUME DiskInv, Environment, NEW s, s \in Positions, Known(s), Fits(s)
  PROVE  Fits(s)'
<1> DEFINE i == s.inode
<1> DEFINE f == file[i]
<1>1. /\ s \in AllPositions /\ i \in Inodes /\ s.offset \in Nat /\ s.epoch \in Nat
      /\ f \in Seq(Cells) /\ epoch[i] \in Nat /\ s.epoch <= epoch[i] /\ Writing \in Inodes
      /\ file \in [Inodes -> Seq(Cells)] /\ epoch \in [Inodes -> Nat] /\ line \in Nat
  BY DEF Known, AllPositions, DiskInv
<1>2. IF s.epoch = epoch[i]
      THEN s.offset <= Len(f) /\ (s.skip \/ AtLineStart(f, s.offset))
      ELSE s.offset = 0 \/ s.offset > Len(f)
  BY DEF Fits
<1>3. CASE file'[i] = f /\ epoch'[i] = epoch[i]
  BY <1>2, <1>3 DEF Fits
<1>4. CASE i = Writing /\ Write
  <2>1. epoch' = epoch /\ Noticed
    BY <1>4 DEF Write
  <2>2. Cell(line, TRUE) \in Cells /\ Cell(line, FALSE) \in Cells
    BY <1>1 DEF Cell, Cells
  <2>3. file'[i] = Append(f, Cell(line, TRUE)) \/ file'[i] = Append(f, Cell(line, FALSE))
    BY <1>1, <1>4 DEF Write
  <2>4. PICK v \in Cells : file'[i] = Append(f, v)
    BY <2>2, <2>3
  <2>5. Len(f) \in Nat /\ Len(file'[i]) = Len(f) + 1 /\ \A x \in DOMAIN f : x \in DOMAIN file'[i] /\ file'[i][x] = f[x]
    BY <1>1, <2>4
  <2>6. s.epoch # epoch[i] /\ s.offset > 0 => Len(f) + 1 < s.offset
    BY <1>4, <2>1 DEF Noticed
  <2>7. AtLineStart(f, s.offset) => AtLineStart(file'[i], s.offset)
    BY <2>5 DEF AtLineStart
  <2>8. CASE s.epoch = epoch[i]
    <3>1. s.offset <= Len(file'[i])
      BY <1>1, <1>2, <2>5, <2>8
    <3> QED BY <1>2, <2>1, <2>7, <2>8, <3>1 DEF Fits
  <2>9. CASE s.epoch # epoch[i]
    <3>1. s.offset = 0 \/ s.offset > Len(file'[i])
      BY <1>1, <1>2, <2>5, <2>6, <2>9
    <3> QED BY <2>1, <2>9, <3>1 DEF Fits
  <2> QED BY <2>8, <2>9
<1>5. CASE i = Writing /\ Truncate
  <2>1. file'[i] = <<>> /\ epoch'[i] = epoch[i] + 1
    BY <1>1, <1>5 DEF Truncate
  <2>2. s.epoch # epoch'[i]
    BY <1>1, <2>1
  <2>3. s.offset = 0 \/ s.offset > Len(file'[i])
    BY <1>1, <2>1
  <2> QED BY <2>2, <2>3 DEF Fits
<1>6. i # Writing => file'[i] = f /\ epoch'[i] = epoch[i]
  BY <1>1, EnvironmentDisk
<1>7. RotatePath \/ Rename \/ Remove => file' = file /\ epoch' = epoch
  BY DEF RotatePath, Rename, Remove
<1> QED
  BY <1>3, <1>4, <1>5, <1>6, <1>7 DEF Environment

-----------------------------------------------------------------------------
(* What a read makes of the cells it has read. *)

\* The read starts with a line, and so does the next one unless it skips.
LEMMA LinesAreWhole ==
  ASSUME NEW f \in Seq(Cells), NEW c, c.at \in 0..Len(f), c.skip \in BOOLEAN, NEW k \in c.at..Len(f),
         c.skip \/ AtLineStart(f, c.at)
  PROVE  /\ NoFragments(Pushed(f, c, k))
         /\ SkipsOn(f, c, k) \/ AtLineStart(f, ResumeOffset(f, c, k))
<1> DEFINE s == TextStart(f, c, k)
<1> DEFINE begin(e) == Max({s} \cup Newlines(f, s, e - 1))
<1> DEFINE ends == {e \in Newlines(f, s, k) : e - 1 > begin(e)}
<1>1. Len(f) \in Nat /\ c.at \in Nat /\ k \in Nat /\ k <= Len(f) /\ s \in Nat /\ s <= k
  <2>1. s \in c.at..k
    BY LoopStops
  <2> HIDE DEF s
  <2> QED BY <2>1
<1>2. \A a, b \in Nat : \A x \in Newlines(f, a, b) : x \in Nat /\ a < x /\ x <= b /\ f[x].nl
  BY DEF Newlines
<1>3. ~StillSkipping(f, c, k) => AtLineStart(f, s)
  <2>1. CASE ~c.skip
    BY <2>1, LoopStops
  <2>2. CASE c.skip /\ ~StillSkipping(f, c, k)
    <3>1. s \in Newlines(f, c.at, k)
      BY <2>2, LoopStops
    <3>2. f[s].nl /\ 0 < s
      <4> HIDE DEF s
      <4> QED BY <1>1, <1>2, <3>1
    <3>3. s \in DOMAIN f
      <4> HIDE DEF s
      <4> QED BY <1>1, <3>2
    <3> QED BY <3>2, <3>3 DEF AtLineStart
  <2> QED BY <2>1, <2>2
<1>4. ASSUME NEW e \in ends
      PROVE  Kind(f, begin(e), e - 1 - begin(e)) # "fragment"
  <2>1. e \in Newlines(f, s, k)
    OBVIOUS
  <2>2. e \in Nat /\ s < e /\ e <= k /\ e - 1 \in Nat
    <3> HIDE DEF s, ends
    <3>1. e \in Nat /\ s < e /\ e <= k
      BY <1>1, <1>2, <2>1
    <3> QED BY <1>1, <3>1
  <2>3. ~StillSkipping(f, c, k)
    <3>1. StillSkipping(f, c, k) => s = k
      BY LoopStops DEF StillSkipping
    <3> HIDE DEF s
    <3> QED BY <1>1, <2>2, <3>1
  <2>4. begin(e) \in {s} \cup Newlines(f, s, e - 1)
    <3> HIDE DEF s
    <3>1. \A x \in Newlines(f, s, e - 1) : x \in Nat /\ x <= k
      BY <1>1, <1>2, <2>2
    <3>2. {s} \cup Newlines(f, s, e - 1) \in SUBSET (0..k)
      BY <1>1, <3>1
    <3> QED BY <1>1, <3>2, MaxIsGreatest
  <2>5. begin(e) = 0 \/ f[begin(e)].nl
    <3>1. CASE begin(e) = s
      BY <1>3, <2>3, <3>1 DEF AtLineStart
    <3>2. CASE begin(e) \in Newlines(f, s, e - 1)
      <4> HIDE DEF s, begin
      <4> QED BY <1>1, <1>2, <2>2, <3>2
    <3> HIDE DEF begin, s
    <3> QED BY <2>4, <3>1, <3>2
  <2> HIDE DEF begin, s
  <2> QED BY <2>5 DEF Kind
<1>5. NoFragments(Pushed(f, c, k))
  <2> SUFFICES ASSUME NEW d \in Pushed(f, c, k)
               PROVE  d.kind # "fragment"
    BY DEF NoFragments
  <2>1. \/ \E e \in ends : d = [line |-> f[e].line, kind |-> Kind(f, begin(e), e - 1 - begin(e))]
        \/ d = [line |-> f[k].line, kind |-> "truncated"]
    BY DEF Pushed
  <2> HIDE DEF begin, ends, s
  <2>2. ASSUME NEW e \in ends, d = [line |-> f[e].line, kind |-> Kind(f, begin(e), e - 1 - begin(e))]
        PROVE  d.kind # "fragment"
    BY <1>4, <2>2
  <2> QED BY <2>1, <2>2
<1>6. ~SkipsOn(f, c, k) => AtLineStart(f, ResumeOffset(f, c, k))
  <2> SUFFICES ASSUME ~SkipsOn(f, c, k)
               PROVE  AtLineStart(f, LastEnd(f, c, k))
    BY DEF ResumeOffset
  <2>1. ~StillSkipping(f, c, k)
    BY DEF SkipsOn
  <2>2. CASE LastEnd(f, c, k) = s
    BY <1>3, <2>1, <2>2
  <2>3. CASE LastEnd(f, c, k) \in Newlines(f, c.at, k)
    <3> DEFINE l == LastEnd(f, c, k)
    <3>1. l \in Nat /\ 0 < l /\ l <= k /\ f[l].nl
      <4> HIDE DEF l
      <4> QED BY <1>1, <1>2, <2>3 DEF l
    <3>2. l \in DOMAIN f
      <4> HIDE DEF l
      <4> QED BY <1>1, <3>1
    <3> QED BY <3>1, <3>2 DEF AtLineStart
  <2> QED BY <2>2, <2>3, LoopStops
<1> QED
  BY <1>5, <1>6

-----------------------------------------------------------------------------
(* One cycle. *)

From(p) == Resumes(state, p, name[p])
At(p) == Guarded(file[name[p]], From(p))

\* A path that can be read names a file the server has written.
LEMMA CycleStarts ==
  ASSUME DiskInv, PositionsInv, SourceInv, NEW found \in BOOLEAN, Reading(found) # 0
  PROVE  /\ Reading(found) \in Paths /\ Reading(found) <= current
         /\ source # 0 => Reading(found) = source
         /\ source = 0 => Reading(found) = current
         /\ NextSource(found) \in 0..current
         /\ NextSource(found) # 0 => NextSource(found) = current /\ source # 0 /\ source < current
<1>1. current \in Paths /\ source \in 0..current /\ current \in Nat
  BY Caps DEF DiskInv, SourceInv, Paths
<1>2. source = 0 => Reading(found) = current
  BY DEF Reading
<1>3. source # 0 => Reading(found) = source
  BY DEF Reading
<1>4. NextSource(found) = 0 \/ (NextSource(found) = current /\ source # 0 /\ source # current)
  BY DEF NextSource
<1> QED
  BY <1>1, <1>2, <1>3, <1>4, Caps DEF Paths

LEMMA ReadStarts ==
  ASSUME DiskInv, PositionsInv, NEW p \in Paths, p <= current, name[p] # 0
  PROVE  /\ name[p] \in Inodes /\ name[p] <= Writing /\ (p < current => name[p] < Writing)
         /\ file[name[p]] \in Seq(Cells)
         /\ From(p).from \in 0..Len(file[name[p]]) /\ From(p).skip \in BOOLEAN /\ From(p).rotated \in BOOLEAN
         /\ From(p).rotated => From(p).from = 0
         /\ ~From(p).rotated => state.path = p /\ state.inode = name[p] /\ state.offset <= Len(file[name[p]])
                                 /\ From(p).from = state.offset /\ From(p).skip = state.skip
         /\ At(p).at \in From(p).from..Len(file[name[p]]) /\ At(p).at \in 0..Len(file[name[p]])
         /\ At(p).skip \in BOOLEAN
         /\ SkipsAhead(file[name[p]], From(p)) =>
              At(p).skip /\ From(p).from < At(p).at /\ At(p).at < Len(file[name[p]])
         /\ ~SkipsAhead(file[name[p]], From(p)) => At(p).at = From(p).from /\ At(p).skip = From(p).skip
         /\ At(p).skip \/ AtLineStart(file[name[p]], At(p).at)
<1>1. /\ name[p] \in 0..MaxFiles /\ current \in Nat /\ p \in Nat /\ Writing \in Nat
      /\ p < current => name[p] < Writing
      /\ p = current => name[p] = Writing
  <2>1. name \in [Paths -> 0..MaxFiles] /\ current \in Paths /\ Writing \in Inodes
        /\ \A q \in Paths : q < current => name[q] < Writing
    BY DEF DiskInv
  <2>2. current \in Nat /\ p \in Nat /\ Writing \in Nat
    BY <2>1, Caps DEF Paths, Inodes
  <2> QED BY <2>1, <2>2 DEF Writing
<1>2. name[p] \in Inodes /\ name[p] <= Writing
  <2>1. name[p] \in Nat
    BY <1>1, Caps
  <2> QED BY <1>1, <2>1, Caps DEF Inodes
<1>3. file \in [Inodes -> Seq(Cells)] /\ file[name[p]] \in Seq(Cells)
  BY <1>2 DEF DiskInv
<1>4. state \in AllPositions /\ Known(state) /\ Fits(state)
  BY DEF PositionsInv, Positions, Known
<1> DEFINE r == From(p)
<1> DEFINE f == file[name[p]]
<1>5. /\ r.from \in 0..Len(f) /\ r.skip \in BOOLEAN /\ r.rotated \in BOOLEAN
      /\ r.rotated => r.from = 0
      /\ ~r.rotated => state.path = p /\ state.inode = name[p] /\ state.offset <= Len(f)
                          /\ r.from = state.offset /\ r.skip = state.skip
  BY <1>2, <1>3, <1>4, ResumesInside DEF From
<1>6. /\ At(p).at \in r.from..Len(f) /\ At(p).skip \in BOOLEAN
      /\ SkipsAhead(f, r) => At(p).skip /\ r.from < At(p).at /\ At(p).at < Len(f)
      /\ ~SkipsAhead(f, r) => At(p).at = r.from /\ At(p).skip = r.skip
  BY <1>3, <1>5, GuardedInside DEF At
<1>7. At(p).at \in 0..Len(f)
  <2> HIDE DEF f, r
  <2> QED BY <1>3, <1>5, <1>6 DEF f
<1>8. r.skip \/ AtLineStart(f, r.from)
  <2>1. CASE r.rotated
    BY <1>5, <2>1 DEF AtLineStart
  <2>2. CASE ~r.rotated
    <3>1. /\ state.inode = name[p] /\ state.offset <= Len(f)
          /\ r.from = state.offset /\ r.skip = state.skip
      BY <1>5, <2>2
    <3>2. state.offset \in Nat /\ Len(f) \in Nat
      BY <1>3, <1>4 DEF AllPositions
    <3>3. state.epoch = epoch[state.inode] => state.skip \/ AtLineStart(f, state.offset)
      BY <1>4, <3>1 DEF Fits
    <3>4. state.epoch # epoch[state.inode] => state.offset = 0
      BY <1>4, <3>1, <3>2 DEF Fits
    <3> QED BY <3>1, <3>3, <3>4 DEF AtLineStart
  <2> QED BY <1>5, <2>1, <2>2
<1>9. At(p).skip \/ AtLineStart(f, At(p).at)
  BY <1>6, <1>8
<1> QED
  BY <1>1, <1>2, <1>3, <1>5, <1>6, <1>7, <1>9

\* The read of a cycle stops somewhere in the file.
LEMMA CollectReads ==
  ASSUME DiskInv, PositionsInv, SourceInv, NEW found \in BOOLEAN, Collect(found, FALSE)
  PROVE  /\ Idle /\ Reading(found) # 0 /\ name[Reading(found)] # 0
         /\ source' = Reading(found) /\ stored' = FALSE
         /\ UNCHANGED <<disk, state, pending, saved, books, faults>>
         /\ \E k \in At(Reading(found)).at..Len(file[name[Reading(found)]]) :
              ReadsTo(Reading(found), NextSource(found), From(Reading(found)), At(Reading(found)), k)
<1> DEFINE p == Reading(found)
<1> DEFINE most == Reach(file[name[p]], At(p))
<1>1. /\ Idle /\ p # 0 /\ name[p] # 0 /\ source' = p /\ stored' = FALSE
      /\ UNCHANGED <<disk, state, pending, saved, books, faults>>
      /\ \E k \in At(p).at..most : ReadsTo(p, NextSource(found), From(p), At(p), k)
  BY DEF Collect, From, At
<1>2. p \in Paths /\ p <= current
  BY <1>1, CycleStarts
<1>3. file[name[p]] \in Seq(Cells) /\ At(p).at \in 0..Len(file[name[p]])
  BY <1>1, <1>2, ReadStarts
<1>4. most \in At(p).at..Len(file[name[p]])
  BY <1>3, ReachInside
<1>5. \A k \in At(p).at..most : k \in At(p).at..Len(file[name[p]])
  <2> HIDE DEF p, most
  <2> QED BY <1>3, <1>4
<1> QED
  BY <1>1, <1>5

\* The position a read leads to.
LEMMA ReadPosition ==
  ASSUME DiskInv, PositionsInv, NEW p \in Paths, p <= current, name[p] # 0,
         NEW k \in At(p).at..Len(file[name[p]]), NEW n,
         n = Position(p, name[p], ResumeOffset(file[name[p]], At(p), k), SkipsOn(file[name[p]], At(p), k))
  PROVE  /\ n \in AllPositions /\ n # None /\ Known(n) /\ Fits(n)
         /\ n.path = p /\ n.inode = name[p] /\ n.offset = ResumeOffset(file[name[p]], At(p), k)
         /\ n.skip = SkipsOn(file[name[p]], At(p), k) /\ n.epoch = epoch[name[p]]
         /\ NoFragments(Pushed(file[name[p]], At(p), k))
         /\ n.offset <= Len(file[name[p]])
<1> DEFINE f == file[name[p]]
<1> DEFINE c == At(p)
<1>1. /\ name[p] \in Inodes /\ name[p] <= Writing /\ f \in Seq(Cells)
      /\ c.at \in 0..Len(f) /\ c.skip \in BOOLEAN /\ (c.skip \/ AtLineStart(f, c.at))
  BY ReadStarts
<1>2. /\ NoFragments(Pushed(f, c, k))
      /\ SkipsOn(f, c, k) \/ AtLineStart(f, ResumeOffset(f, c, k))
  BY <1>1, LinesAreWhole
<1>3. ResumeOffset(f, c, k) \in c.at..k
  BY <1>1, LoopStops
<1>4. ResumeOffset(f, c, k) \in Nat /\ ResumeOffset(f, c, k) <= Len(f)
  <2> HIDE DEF f, c
  <2>1. Len(f) \in Nat /\ c.at \in Nat /\ k \in Nat /\ k <= Len(f)
    BY <1>1 DEF f, c
  <2> QED BY <1>3, <2>1
<1>5. epoch[name[p]] \in Nat
  BY <1>1 DEF DiskInv
<1>6. SkipsOn(f, c, k) \in BOOLEAN
  BY DEF SkipsOn, StillSkipping, TooLong
<1>7. /\ n.path = p /\ n.inode = name[p] /\ n.offset = ResumeOffset(f, c, k)
      /\ n.skip = SkipsOn(f, c, k) /\ n.epoch = epoch[name[p]]
  BY DEF Position
<1>8. n \in AllPositions
  BY <1>1, <1>4, <1>5, <1>6 DEF Position, AllPositions
<1>9. n # None
  <2>1. DOMAIN n = {"path", "inode", "offset", "skip", "epoch"}
    BY DEF Position
  <2>2. DOMAIN None = {"none"}
    BY DEF None
  <2> QED BY <2>1, <2>2
<1>10. Known(n)
  BY <1>1, <1>5, <1>7, <1>8 DEF Known
<1>11. Fits(n)
  BY <1>2, <1>4, <1>7 DEF Fits
<1> QED
  BY <1>2, <1>4, <1>7, <1>8, <1>9, <1>10, <1>11

-----------------------------------------------------------------------------
(* What is pending is the tail of a file that was left. *)

Core == DiskInv /\ PositionsInv /\ SourceInv /\ CollectionInv /\ LinesInv

LEMMA CoreInit == Init => Core
<1> SUFFICES ASSUME Init
             PROVE  Core
  OBVIOUS
<1> USE Caps DEF Init
<1>1. 1 \in Paths /\ 1 \in Inodes
  BY DEF Paths, Inodes
<1>2. DiskInv
  <2>1. name \in [Paths -> 0..MaxFiles]
    BY DEF Paths
  <2>2. Writing = 1 /\ current = 1 /\ line \in Nat
    BY <1>1 DEF Writing
  <2>3. file \in [Inodes -> Seq(Cells)] /\ epoch \in [Inodes -> Nat]
    OBVIOUS
  <2>4. \A p \in Paths : ~(p < 1)
    BY DEF Paths
  <2> QED BY <1>1, <2>1, <2>2, <2>3, <2>4 DEF DiskInv
<1>3. /\ Start \in AllPositions /\ Start.path = 1 /\ Start.inode = 1 /\ Start.offset = 0 /\ Start.epoch = 0
      /\ epoch[1] = 0 /\ file[1] = <<>> /\ Writing = 1 /\ current = 1
  BY <1>1 DEF Start, Position, AllPositions, Writing
<1>4. PositionsInv
  <2>1. Positions = {Start}
    BY DEF Positions, Idle
  <2>2. Known(Start)
    BY <1>3 DEF Known
  <2>3. Fits(Start)
    BY <1>3 DEF Fits, AtLineStart
  <2> QED BY <2>1, <2>2, <2>3 DEF PositionsInv
<1>5. SourceInv /\ CollectionInv /\ LinesInv
  BY <1>3 DEF SourceInv, CollectionInv, LinesInv, NoFragments, Idle
<1> QED
  BY <1>2, <1>4, <1>5 DEF Core

LEMMA EnvironmentCore ==
  ASSUME Core, Environment
  PROVE  Core'
<1>1. DiskInv /\ PositionsInv /\ SourceInv /\ CollectionInv /\ LinesInv
  BY DEF Core
<1>2. /\ DiskInv' /\ current <= current' /\ current' \in Nat
      /\ UNCHANGED <<state, source, pending, collection, stored, saved, delivered>>
  BY <1>1, EnvironmentDisk, EnvironmentLeaves DEF memory
<1>3. \A s \in Positions : Known(s) /\ Known(s)' /\ Fits(s)'
  BY <1>1, EnvironmentKeepsKnown, EnvironmentKeepsFits DEF PositionsInv
<1>4. Positions' = Positions
  BY <1>2 DEF Positions, Idle
<1>5. PositionsInv'
  BY <1>3, <1>4 DEF PositionsInv
<1>6. \A s \in Positions : Left(s) => Left(s)' /\ Rest(s)' = Rest(s)
  BY <1>1, <1>3, EnvironmentKeepsKnown
<1>7. /\ state \in Positions
      /\ ~Idle /\ collection.next # None => collection.next \in Positions
  BY DEF Positions
<1>8. source \in 0..current /\ current \in Nat
  BY <1>1, Caps DEF SourceInv, DiskInv, Paths
<1>9. SourceInv'
  <2>1. source' \in 0..current'
    BY <1>2, <1>8
  <2>2. Left(state) => Left(state)' /\ Rest(state)' = Rest(state)
    BY <1>2, <1>6, <1>7 DEF Left, Rest
  <2> QED BY <1>1, <1>2, <2>1, <2>2 DEF SourceInv
<1>10. CollectionInv'
  <2> SUFFICES ASSUME ~Idle
               PROVE  CollectionInv'
    BY <1>2 DEF CollectionInv, Idle
  <2>1. /\ source # 0 /\ collection.source \in 0..current /\ collection.source # source
    BY <1>1 DEF CollectionInv
  <2>2. collection.source \in 0..current'
    BY <1>2, <1>8, <2>1
  <2>3. CASE collection.next = None
    BY <1>1, <1>2, <2>1, <2>2, <2>3 DEF CollectionInv
  <2>4. CASE collection.next # None
    <3>1. Left(collection.next) => Left(collection.next)' /\ Rest(collection.next)' = Rest(collection.next)
      BY <1>2, <1>6, <1>7, <2>4 DEF Left, Rest
    <3> QED BY <1>1, <1>2, <2>1, <2>2, <2>4, <3>1 DEF CollectionInv
  <2> QED BY <2>3, <2>4
<1>11. LinesInv'
  BY <1>1, <1>2 DEF LinesInv, Idle
<1> QED
  BY <1>2, <1>5, <1>9, <1>10, <1>11 DEF Core

LEMMA CollectCore ==
  ASSUME Core, NEW found \in BOOLEAN, Collect(found, FALSE)
  PROVE  Core'
<1> DEFINE p == Reading(found)
<1> DEFINE nxt == NextSource(found)
<1> DEFINE f == file[name[p]]
<1>1. DiskInv /\ PositionsInv /\ SourceInv /\ CollectionInv /\ LinesInv
  BY DEF Core
<1>2. /\ Idle /\ p # 0 /\ name[p] # 0 /\ source' = p /\ stored' = FALSE
      /\ UNCHANGED <<disk, state, pending, saved, books, faults>>
      /\ \E k \in At(p).at..Len(f) : ReadsTo(p, nxt, From(p), At(p), k)
  BY <1>1, CollectReads
<1>3. PICK k \in At(p).at..Len(f) : ReadsTo(p, nxt, From(p), At(p), k)
  BY <1>2
<1>4. /\ p \in Paths /\ p <= current
      /\ source # 0 => p = source
      /\ source = 0 => p = current
      /\ nxt \in 0..current
      /\ nxt # 0 => nxt = current /\ source # 0 /\ source < current
  BY <1>1, <1>2, CycleStarts
<1>5. name[p] \in Inodes /\ name[p] <= Writing /\ (p < current => name[p] < Writing)
  BY <1>1, <1>2, <1>4, ReadStarts
<1> DEFINE n == Position(p, name[p], ResumeOffset(f, At(p), k), SkipsOn(f, At(p), k))
<1>6. /\ n \in AllPositions /\ n # None /\ Known(n) /\ Fits(n)
      /\ n.path = p /\ n.inode = name[p] /\ n.offset = ResumeOffset(f, At(p), k)
      /\ NoFragments(Pushed(f, At(p), k))
  BY <1>1, <1>2, <1>4, ReadPosition
<1>7. /\ collection'.next = n /\ collection'.source = nxt
      /\ collection'.rotation = IF nxt # 0 THEN Len(f) - n.offset ELSE 0
      /\ collection'.consumes = (pending # 0)
      /\ collection'.lines = Pushed(f, At(p), k)
  <2> HIDE DEF n
  <2>1. n.offset = ResumeOffset(f, At(p), k)
    BY <1>6
  <2> QED BY <1>3, <2>1 DEF ReadsTo, TailMeasured, n
<1>8. UNCHANGED <<file, epoch, name, current, line>>
  BY <1>2 DEF disk
<1> HIDE DEF n
<1>9. DiskInv'
  BY <1>1, <1>8 DEF DiskInv, Writing
<1>10. PositionsInv'
  <2>1. \A s \in Positions' : s \in {state, saved, n}
    BY <1>2, <1>7 DEF Positions
  <2>2. state \in Positions /\ saved \in Positions
    BY DEF Positions
  <2>3. \A s \in {state, saved, n} : Known(s) /\ Fits(s)
    BY <1>1, <1>6, <2>2 DEF PositionsInv
  <2>4. \A s : Known(s) /\ Fits(s) => (Known(s) /\ Fits(s))'
    BY <1>8 DEF Known, Fits, Writing
  <2> QED BY <2>1, <2>3, <2>4 DEF PositionsInv
<1>11. SourceInv'
  <2>1. p \in 0..current
    BY <1>1, <1>4, Caps DEF DiskInv, Paths
  <2>2. pending # 0 => source # state.path /\ Left(state) /\ pending = Rest(state)
    BY <1>1 DEF SourceInv
  <2>3. pending # 0 => p # state.path
    <3>1. Left(state) => state.path # current
      BY <1>1, Caps DEF Left, DiskInv, PositionsInv, Positions, Known, AllPositions, Paths
    <3> QED BY <1>4, <2>2, <3>1
  <2>4. source' = p /\ pending' = pending /\ state' = state
    BY <1>2
  <2>5. Left(state)' = Left(state) /\ Rest(state)' = Rest(state)
    BY <1>8, <2>4 DEF Left, Rest, Writing
  <2> HIDE DEF p
  <2> QED BY <1>8, <2>1, <2>2, <2>3, <2>4, <2>5 DEF SourceInv
<1>12. CollectionInv'
  <2>1. source' = p /\ source' # 0
    BY <1>2
  <2>2. collection'.source \in 0..current'
    BY <1>4, <1>7, <1>8
  <2>3. collection'.source # source'
    <3>1. nxt # 0 => source < current /\ source \in Nat /\ current \in Nat
      BY <1>1, <1>4, Caps DEF DiskInv, Paths, SourceInv
    <3> HIDE DEF p, nxt
    <3> QED BY <1>2, <1>4, <1>7, <2>1, <3>1
  <2>4. collection'.next # None /\ collection'.next.path = source' /\ (collection'.consumes <=> pending' # 0)
    BY <1>2, <1>6, <1>7
  <2>5. ASSUME collection'.source # 0
        PROVE  Left(collection.next)' /\ collection'.rotation = Rest(collection.next)'
    <3>1. nxt = current /\ p < current
      BY <1>4, <1>7, <2>5
    <3>2. n.path < current /\ n.inode < Writing /\ n.inode = name[p]
      BY <1>5, <1>6, <3>1
    <3>3. Left(collection.next)'
      BY <1>7, <1>8, <3>2 DEF Left, Writing
    <3>4. Rest(collection.next)' = Len(file[n.inode]) - n.offset
      BY <1>7, <1>8 DEF Rest
    <3>5. collection'.rotation = Len(f) - n.offset
      BY <1>7, <2>5
    <3> QED BY <3>2, <3>3, <3>4, <3>5
  <2> HIDE DEF p, nxt, f
  <2> QED BY <2>1, <2>2, <2>3, <2>4, <2>5 DEF CollectionInv
<1>13. LinesInv'
  BY <1>1, <1>2, <1>6, <1>7 DEF LinesInv, books
<1> QED
  BY <1>9, <1>10, <1>11, <1>12, <1>13 DEF Core

\* Steps of the collector that leave the disk alone.
LEMMA PositionsStay ==
  ASSUME DiskInv, PositionsInv, UNCHANGED disk, \A s \in Positions' : s \in Positions
  PROVE  DiskInv' /\ PositionsInv'
<1>1. UNCHANGED <<file, epoch, name, current, line>>
  BY DEF disk
<1>2. \A s \in Positions : Known(s) /\ Fits(s)
  BY DEF PositionsInv
<1>3. \A s : Known(s) /\ Fits(s) => (Known(s) /\ Fits(s))'
  BY <1>1 DEF Known, Fits, Writing
<1>4. DiskInv'
  BY <1>1 DEF DiskInv, Writing
<1> QED
  BY <1>2, <1>3, <1>4 DEF PositionsInv

LEMMA CollectNothingCore ==
  ASSUME Core, NEW found \in BOOLEAN, CollectNothing(found)
  PROVE  Core'
<1> DEFINE p == Reading(found)
<1> DEFINE nxt == NextSource(found)
<1>1. DiskInv /\ PositionsInv /\ SourceInv /\ CollectionInv /\ LinesInv
  BY DEF Core
<1>2. /\ Idle /\ p # 0 /\ source' = p /\ stored' = FALSE
      /\ UNCHANGED <<disk, state, pending, saved, books>>
      /\ collection' = [next |-> None, source |-> nxt, rotation |-> pending,
                        consumes |-> FALSE, lines |-> {}, gaps |-> {}, drops |-> {}]
  BY DEF CollectNothing
<1>3. /\ p \in Paths /\ p <= current
      /\ source # 0 => p = source
      /\ source = 0 => p = current
      /\ nxt \in 0..current
      /\ nxt # 0 => nxt = current /\ source # 0 /\ source < current
  BY <1>1, <1>2, CycleStarts
<1>4. UNCHANGED <<file, epoch, name, current, line>>
  BY <1>2 DEF disk
<1>5. /\ collection'.next = None /\ collection'.source = nxt /\ collection'.rotation = pending
      /\ collection'.consumes = FALSE /\ collection'.lines = {}
  BY <1>2
<1>6. Positions' = {state, saved}
  BY <1>2, <1>5 DEF Positions
<1>7. DiskInv' /\ PositionsInv'
  <2>1. \A s \in Positions' : s \in Positions
    BY <1>6 DEF Positions
  <2> QED BY <1>1, <1>2, <2>1, PositionsStay
<1>8. /\ source \in 0..current /\ current \in Nat /\ state.path \in Nat
      /\ pending # 0 => source # state.path /\ Left(state) /\ pending = Rest(state)
  BY <1>1, Caps DEF DiskInv, Paths, SourceInv, PositionsInv, Positions, Known, AllPositions
<1>9. pending # 0 => state.path < current
  BY <1>8 DEF Left
<1>10. SourceInv'
  <2>1. p \in 0..current
    BY <1>3, <1>8, Caps DEF Paths
  <2>2. pending # 0 => p # state.path
    <3> HIDE DEF p
    <3> QED BY <1>3, <1>8, <1>9
  <2>3. Left(state)' = Left(state) /\ Rest(state)' = Rest(state)
    BY <1>2, <1>4 DEF Left, Rest, Writing
  <2> HIDE DEF p
  <2> QED BY <1>2, <1>4, <1>8, <2>1, <2>2, <2>3 DEF SourceInv
<1>11. CollectionInv'
  <2>1. collection'.source # source'
    <3> HIDE DEF p, nxt
    <3> QED BY <1>2, <1>3, <1>5, <1>8
  <2>2. pending' # 0 /\ collection'.source # 0 => collection'.source # state'.path
    <3> HIDE DEF p, nxt
    <3> QED BY <1>2, <1>3, <1>5, <1>8, <1>9
  <2> HIDE DEF p, nxt
  <2> QED BY <1>2, <1>3, <1>4, <1>5, <2>1, <2>2 DEF CollectionInv
<1>12. LinesInv'
  BY <1>1, <1>2, <1>5 DEF LinesInv, NoFragments, books
<1> QED
  BY <1>7, <1>10, <1>11, <1>12 DEF Core

LEMMA CommitCore ==
  ASSUME Core, Commit
  PROVE  Core'
<1>1. DiskInv /\ PositionsInv /\ SourceInv /\ CollectionInv /\ LinesInv
  BY DEF Core
<1>2. /\ ~Idle /\ collection' = None /\ stored' = FALSE /\ UNCHANGED <<disk, delivered>>
      /\ IF collection.next # None THEN state' = collection.next /\ saved' = collection.next
                                   ELSE UNCHANGED <<state, saved>>
      /\ source' = IF collection.source # 0 THEN collection.source
                   ELSE IF collection.next # None THEN collection.next.path ELSE source
      /\ pending' = IF collection.source # 0 THEN collection.rotation
                    ELSE IF collection.consumes THEN 0 ELSE pending
  BY DEF Commit, books
<1>3. UNCHANGED <<file, epoch, name, current, line>>
  BY <1>2 DEF disk
<1>4. DiskInv' /\ PositionsInv'
  <2>1. Positions' = {state', saved'}
    BY <1>2 DEF Positions, Idle
  <2>2. \A s \in Positions' : s \in Positions
    BY <1>2, <2>1 DEF Positions
  <2> QED BY <1>1, <1>2, <2>2, PositionsStay
<1>5. /\ source # 0 /\ collection.source \in 0..current /\ collection.source # source
      /\ IF collection.next = None
         THEN /\ collection.rotation = pending /\ ~collection.consumes
              /\ pending # 0 /\ collection.source # 0 => collection.source # state.path
         ELSE /\ collection.next.path = source /\ (collection.consumes <=> pending # 0)
              /\ collection.source # 0 =>
                   Left(collection.next) /\ collection.rotation = Rest(collection.next)
  BY <1>1, <1>2 DEF CollectionInv
<1>6. /\ source \in 0..current
      /\ pending # 0 => source # state.path /\ Left(state) /\ pending = Rest(state)
  BY <1>1 DEF SourceInv
<1>7. \A s : (Left(s) <=> Left(s)') /\ Rest(s)' = Rest(s)
  BY <1>3 DEF Left, Rest, Writing
<1>8. SourceInv'
  <2>1. CASE collection.next = None
    <3>1. state' = state /\ source' \in 0..current'
      BY <1>2, <1>3, <1>5, <1>6, <2>1
    <3>2. pending' # 0 => pending' = pending /\ pending # 0 /\ source' # state.path
      BY <1>2, <1>5, <1>6, <2>1
    <3>3. Left(state)' = Left(state) /\ Rest(state)' = Rest(state)
      BY <1>3, <3>1 DEF Left, Rest, Writing
    <3> QED BY <1>6, <3>1, <3>2, <3>3 DEF SourceInv
  <2>2. CASE collection.next # None
    <3>1. state' = collection.next /\ source' \in 0..current'
      BY <1>2, <1>3, <1>5, <1>6, <2>2
    <3>2. pending' # 0 => collection.source # 0 /\ source' = collection.source /\ pending' = collection.rotation
      BY <1>2, <1>5, <2>2
    <3>3. Left(state)' = Left(collection.next) /\ Rest(state)' = Rest(collection.next)
      BY <1>3, <3>1 DEF Left, Rest, Writing
    <3> QED BY <1>5, <2>2, <3>1, <3>2, <3>3 DEF SourceInv
  <2> QED BY <2>1, <2>2
<1>9. CollectionInv' /\ LinesInv'
  BY <1>1, <1>2 DEF CollectionInv, LinesInv, Idle
<1> QED
  BY <1>4, <1>8, <1>9 DEF Core

LEMMA OtherStepsCore ==
  ASSUME Core, LosesSource \/ Store \/ StoreFails \/ CommitFails \/ Restart \/ UNCHANGED vars
  PROVE  Core'
<1>1. DiskInv /\ PositionsInv /\ SourceInv /\ CollectionInv /\ LinesInv
  BY DEF Core
<1>2. UNCHANGED disk
  BY DEF LosesSource, Store, StoreFails, CommitFails, Restart, vars
<1>3. UNCHANGED <<file, epoch, name, current, line>>
  BY <1>2 DEF disk
<1>4. \/ UNCHANGED <<state, saved, collection>>
      \/ collection' = None /\ state' \in {state, saved}
           /\ (saved' = saved \/ (~Idle /\ collection.next # None /\ saved' = collection.next))
  BY DEF LosesSource, Store, StoreFails, CommitFails, Restart, vars, memory
<1>5. DiskInv' /\ PositionsInv'
  <2>1. \A s \in Positions' : s \in Positions
    BY <1>4 DEF Positions, Idle
  <2> QED BY <1>1, <1>2, <2>1, PositionsStay
<1>6. Known(saved) /\ Known(state)
  BY <1>1 DEF PositionsInv, Positions
<1>7. SourceInv'
  <2>1. \/ UNCHANGED <<state, source, pending>>
        \/ UNCHANGED <<state, pending>> /\ source' = 0
        \/ pending' = 0 /\ source' = saved.path
    BY DEF LosesSource, Store, StoreFails, CommitFails, Restart, vars, memory
  <2>2. saved.path \in 0..current /\ state.path # 0 /\ 0 \in 0..current
    <3>1. saved.path \in Paths /\ saved.path <= current /\ state.path \in Paths
      BY <1>6 DEF Known, AllPositions
    <3>2. current \in Paths
      BY <1>1 DEF DiskInv
    <3> QED BY <3>1, <3>2, Caps DEF Paths
  <2>3. state' = state => (Left(state)' <=> Left(state)) /\ Rest(state)' = Rest(state)
    BY <1>3 DEF Left, Rest, Writing
  <2> QED BY <1>1, <1>3, <2>1, <2>2, <2>3 DEF SourceInv
<1>8. CollectionInv'
  <2>1. \/ collection' = None
        \/ UNCHANGED <<state, collection>> /\ Idle
        \/ UNCHANGED <<state, source, pending, collection>>
    BY DEF LosesSource, Store, StoreFails, CommitFails, Restart, vars, memory
  <2>2. CASE collection' = None \/ (UNCHANGED <<state, collection>> /\ Idle)
    BY <2>2 DEF CollectionInv, Idle
  <2>3. CASE UNCHANGED <<state, source, pending, collection>>
    BY <1>1, <1>3, <2>3 DEF CollectionInv, Left, Rest, Writing, Idle
  <2> QED BY <2>1, <2>2, <2>3
<1>9. LinesInv'
  <2>1. \/ UNCHANGED <<collection, delivered>>
        \/ collection' = None /\ UNCHANGED delivered
        \/ ~Idle /\ UNCHANGED collection /\ delivered' = delivered \cup collection.lines
    BY DEF LosesSource, Store, StoreFails, CommitFails, Restart, vars, memory, books
  <2> QED BY <1>1, <2>1 DEF LinesInv, NoFragments, Idle
<1> QED
  BY <1>5, <1>7, <1>8, <1>9 DEF Core

LEMMA CoreStep ==
  ASSUME Core, [Next]_vars
  PROVE  Core'
BY EnvironmentCore, CollectCore, CollectNothingCore, CommitCore, OtherStepsCore DEF Next

-----------------------------------------------------------------------------
(* The server writes whole lines. *)

LEMMA Cuts ==
  ASSUME NEW f \in Seq(Cells), NEW x \in DOMAIN f
  PROVE  x \in Nat /\ x >= 1 /\ x <= Len(f) /\ Len(f) \in Nat /\ f[x] \in Cells
         /\ f[x].line \in Nat /\ f[x].nl \in BOOLEAN
<1>1. f[x] \in Cells
  OBVIOUS
<1> QED
  BY <1>1 DEF Cells

\* A line is unfinished when some cell of it is in the file.
LEMMA UnfinishedCells ==
  ASSUME NEW f \in Seq(Cells), Unfinished(f) > 0
  PROVE  \E x \in DOMAIN f : f[x].line = line
<1> SUFFICES ASSUME ~ \E x \in DOMAIN f : f[x].line = line
             PROVE  FALSE
  OBVIOUS
<1>1. {x \in DOMAIN f : f[x].line = line} = {}
  OBVIOUS
<1>2. Unfinished(f) = 0
  BY <1>1, FS_EmptySet DEF Unfinished
<1> QED
  BY <1>2

\* A cell that the server writes to the end of its file.
LEMMA AppendedCell ==
  ASSUME NEW f \in Seq(Cells), NEW n \in Nat, NEW nl \in BOOLEAN,
         Together(f), NoBlank(f), EndsWith(f, n),
         nl => \E x \in DOMAIN f : f[x].line = n
  PROVE  /\ Together(Append(f, Cell(n, nl))) /\ NoBlank(Append(f, Cell(n, nl)))
         /\ EndsWith(Append(f, Cell(n, nl)), IF nl THEN n + 1 ELSE n)
<1> DEFINE v == Cell(n, nl)
<1> DEFINE g == Append(f, v)
<1> DEFINE l == Len(f)
<1>1. v \in Cells /\ v.line = n /\ v.nl = nl
  BY DEF Cell, Cells
<1> HIDE DEF v
<1>2. /\ l \in Nat /\ Len(g) = l + 1 /\ DOMAIN g = 1..l+1 /\ DOMAIN f = 1..l
      /\ g[l + 1] = v /\ \A x \in 1..l : g[x] = f[x]
  BY <1>1
<1>3. \A x \in 1..l : f[x].line \in Nat /\ f[x].nl \in BOOLEAN /\ x \in Nat /\ x >= 1 /\ x <= l
  BY <1>2, Cuts
<1> HIDE DEF g, l
<1>4. l # 0 /\ ~f[l].nl => f[l].line = n
  BY DEF EndsWith, l
<1>5. \A x \in 1..l : f[x].line <= n /\ (f[x].line = n => ~f[x].nl /\ ~f[l].nl)
  BY <1>2 DEF EndsWith, l
<1>6. nl => l # 0 /\ ~f[l].nl
  BY <1>2, <1>3, <1>5
<1>7. Together(g)
  <2> SUFFICES ASSUME NEW x \in 1..l+1, NEW y \in 1..l+1, x < y, \A z \in x..y-1 : ~g[z].nl
               PROVE  g[x].line = g[y].line
    BY <1>2 DEF Together
  <2>1. x \in 1..l
    BY <1>2
  <2>2. CASE y \in 1..l
    <3>1. \A z \in x..y-1 : ~f[z].nl
      BY <1>2, <2>1, <2>2
    <3> QED BY <1>2, <2>1, <2>2, <3>1 DEF Together
  <2>3. CASE y = l + 1
    <3>1. l \in x..y-1 /\ l \in 1..l
      BY <1>2, <2>1, <2>3
    <3>2. ~f[l].nl /\ f[l].line = n
      BY <1>2, <1>4, <3>1
    <3>3. \A z \in x..l-1 : ~f[z].nl
      BY <1>2, <2>1, <2>3
    <3>4. f[x].line = f[l].line
      BY <1>2, <2>1, <3>1, <3>3 DEF Together
    <3> QED BY <1>1, <1>2, <2>1, <2>3, <3>2, <3>4
  <2> QED BY <1>2, <2>2, <2>3
<1>8. NoBlank(g)
  <2> SUFFICES ASSUME NEW x \in 1..l+1, g[x].nl
               PROVE  x > 1 /\ ~g[x - 1].nl
    BY <1>2 DEF NoBlank
  <2>1. CASE x \in 1..l
    <3>1. x > 1 /\ ~f[x - 1].nl
      BY <1>2, <2>1 DEF NoBlank
    <3>2. x - 1 \in 1..l
      BY <1>2, <2>1, <3>1
    <3> QED BY <1>2, <3>1, <3>2
  <2>2. CASE x = l + 1
    <3>1. nl
      BY <1>1, <1>2, <2>2
    <3>2. l \in 1..l /\ x - 1 = l /\ x > 1
      BY <1>2, <1>6, <2>2, <3>1
    <3> QED BY <1>2, <1>6, <3>1, <3>2
  <2> QED BY <1>2, <2>1, <2>2
<1>9. EndsWith(g, IF nl THEN n + 1 ELSE n)
  <2>1. CASE nl
    <3>1. \A x \in 1..l+1 : g[x].line <= n + 1 /\ g[x].line # n + 1
      <4> SUFFICES ASSUME NEW x \in 1..l+1
                   PROVE  g[x].line <= n + 1 /\ g[x].line # n + 1
        OBVIOUS
      <4>1. x \in 1..l \/ x = l + 1
        BY <1>2
      <4>2. g[x].line \in Nat /\ g[x].line <= n
        BY <1>1, <1>2, <1>3, <1>5, <4>1
      <4> QED BY <4>2
    <3>2. g[Len(g)].nl
      BY <1>1, <1>2, <2>1
    <3> QED BY <1>2, <2>1, <3>1, <3>2 DEF EndsWith
  <2>2. CASE ~nl
    <3>1. \A x \in 1..l+1 : g[x].line <= n /\ (g[x].line = n => ~g[x].nl)
      <4> SUFFICES ASSUME NEW x \in 1..l+1
                   PROVE  g[x].line <= n /\ (g[x].line = n => ~g[x].nl)
        OBVIOUS
      <4>1. x \in 1..l \/ x = l + 1
        BY <1>2
      <4> QED BY <1>1, <1>2, <1>5, <2>2, <4>1
    <3>2. ~g[Len(g)].nl /\ g[Len(g)].line = n
      BY <1>1, <1>2, <2>2
    <3> QED BY <1>2, <2>2, <3>1, <3>2 DEF EndsWith
  <2> QED BY <2>1, <2>2
<1> QED
  BY <1>7, <1>8, <1>9 DEF g, v

LEMMA EmptyFile ==
  ASSUME NEW n
  PROVE  Together(<<>>) /\ NoBlank(<<>>) /\ EndsWith(<<>>, n)
BY DEF Together, NoBlank, EndsWith

LEMMA FilesInit == Init => FilesInv
<1> SUFFICES ASSUME Init
             PROVE  FilesInv
  OBVIOUS
<1>1. \A i \in Inodes : file[i] = <<>>
  BY DEF Init
<1>2. Writing = 1 /\ 1 \in Inodes
  BY Caps DEF Init, Writing, Paths, Inodes
<1> QED
  BY <1>1, <1>2, EmptyFile DEF FilesInv

\* The cell a write appends, and the file it becomes.
LEMMA WriteAppends ==
  ASSUME DiskInv, FilesInv, Write
  PROVE  \E nl \in BOOLEAN :
           /\ nl => \E x \in DOMAIN file[Writing] : file[Writing][x].line = line
           /\ file'[Writing] = Append(file[Writing], Cell(line, nl))
           /\ line' = IF nl THEN line + 1 ELSE line
<1>1. Writing \in Inodes /\ file \in [Inodes -> Seq(Cells)] /\ file[Writing] \in Seq(Cells)
  BY DEF DiskInv
<1>2. \/ file' = [file EXCEPT ![Writing] = Append(@, Cell(line, FALSE))] /\ line' = line
      \/ /\ Unfinished(file[Writing]) > 0
         /\ file' = [file EXCEPT ![Writing] = Append(@, Cell(line, TRUE))] /\ line' = line + 1
  BY DEF Write
<1>3. CASE file' = [file EXCEPT ![Writing] = Append(@, Cell(line, FALSE))] /\ line' = line
  <2>1. file'[Writing] = Append(file[Writing], Cell(line, FALSE))
    BY <1>1, <1>3
  <2> QED BY <1>3, <2>1
<1>4. CASE /\ Unfinished(file[Writing]) > 0
           /\ file' = [file EXCEPT ![Writing] = Append(@, Cell(line, TRUE))] /\ line' = line + 1
  <2>1. file'[Writing] = Append(file[Writing], Cell(line, TRUE))
    BY <1>1, <1>4
  <2>2. \E x \in DOMAIN file[Writing] : file[Writing][x].line = line
    BY <1>1, <1>4, UnfinishedCells
  <2> QED BY <1>4, <2>1, <2>2
<1> QED
  BY <1>2, <1>3, <1>4

LEMMA FilesStep ==
  ASSUME DiskInv, FilesInv, Environment
  PROVE  FilesInv'
<1>1. /\ Writing \in Inodes /\ line \in Nat /\ file[Writing] \in Seq(Cells)
      /\ Writing <= Writing' /\ Writing \in Nat /\ Writing' \in Nat /\ Writing' \in Inodes
      /\ \A i \in Inodes : i # Writing => file'[i] = file[i]
  <2>1. DiskInv' /\ Writing <= Writing'
    BY EnvironmentDisk
  <2>2. Writing \in Inodes /\ Writing' \in Inodes
    BY <2>1 DEF DiskInv
  <2>3. Writing \in Nat /\ Writing' \in Nat
    BY <2>2, Caps DEF Inodes
  <2> QED BY <2>1, <2>2, <2>3, EnvironmentDisk DEF DiskInv
<1>2. /\ \A i \in Inodes : Together(file[i]) /\ NoBlank(file[i])
      /\ EndsWith(file[Writing], line)
      /\ \A i \in Inodes : i > Writing => file[i] = <<>>
  BY DEF FilesInv
<1>3. \A i \in Inodes : i > Writing' => i # Writing /\ i > Writing
  BY <1>1, Caps DEF Inodes
<1>4. \A i \in Inodes : i > Writing' => file'[i] = <<>>
  BY <1>1, <1>2, <1>3
<1>5. CASE Write
  <2>1. Writing' = Writing
    BY <1>5 DEF Write, Writing
  <2>2. PICK nl \in BOOLEAN :
          /\ nl => \E x \in DOMAIN file[Writing] : file[Writing][x].line = line
          /\ file'[Writing] = Append(file[Writing], Cell(line, nl))
          /\ line' = IF nl THEN line + 1 ELSE line
    BY <1>5, WriteAppends
  <2>3. /\ Together(file'[Writing]) /\ NoBlank(file'[Writing])
        /\ EndsWith(file'[Writing], line')
    BY <1>1, <1>2, <2>2, AppendedCell
  <2> QED BY <1>1, <1>2, <1>4, <2>1, <2>3 DEF FilesInv
<1>6. CASE Truncate
  <2>1. Writing' = Writing
    BY <1>6 DEF Truncate, Writing
  <2>2. file'[Writing] = <<>> /\ line' = line
    BY <1>1, <1>6 DEF Truncate, DiskInv
  <2> QED BY <1>1, <1>2, <1>4, <2>1, <2>2, EmptyFile DEF FilesInv
<1>7. CASE RotatePath \/ Rename
  <2>1. file' = file /\ line' = line
    BY <1>7 DEF RotatePath, Rename
  <2>2. Writing' = Writing + 1
    <3>a. name \in [Paths -> 0..MaxFiles] /\ current \in Nat
      BY <1>1, Caps DEF DiskInv, Paths
    <3>1. CASE RotatePath
      <4>1. /\ current' = current + 1 /\ current + 1 \in Paths
            /\ name' = [name EXCEPT ![current + 1] = Writing + 1]
        BY <1>1, <3>1, Caps DEF RotatePath, DiskInv, Paths
      <4> QED BY <3>a, <4>1 DEF Writing
    <3>2. CASE Rename
      <4>1. /\ current' = current /\ current \in Paths
            /\ name' = [name EXCEPT ![current] = Writing + 1]
        BY <1>1, <3>2 DEF Rename, DiskInv
      <4> QED BY <3>a, <4>1 DEF Writing
    <3> QED BY <1>7, <3>1, <3>2
  <2>3. file'[Writing'] = <<>>
    BY <1>1, <1>2, <2>1, <2>2
  <2> QED BY <1>1, <1>2, <1>4, <2>1, <2>3, EmptyFile DEF FilesInv
<1>8. CASE Remove
  <2>1. file' = file /\ line' = line /\ current' = current
    BY <1>8 DEF Remove
  <2>2. PICK p \in 1..current - 1 : name' = [name EXCEPT ![p] = 0]
    BY <1>8 DEF Remove
  <2>3. current \in Paths /\ current \in Nat /\ p # current
    BY <2>2, Caps DEF DiskInv, Paths
  <2>4. Writing' = Writing
    BY <2>1, <2>2, <2>3 DEF Writing, DiskInv
  <2> QED BY <1>2, <2>1, <2>4 DEF FilesInv
<1> QED
  BY <1>5, <1>6, <1>7, <1>8 DEF Environment

-----------------------------------------------------------------------------
(* What a read accounts for. *)

\* The cells of a piece of text without a newline belong to one line.
LEMMA OneLine ==
  ASSUME NEW f \in Seq(Cells), Together(f), NEW a \in DOMAIN f, NEW b \in DOMAIN f, a <= b,
         \A z \in a..b-1 : ~f[z].nl
  PROVE  f[a].line = f[b].line
<1>1. a = b \/ a < b
  BY Cuts
<1> QED
  BY <1>1 DEF Together

\* Every newline that the loop passes ends a line that it pushes, or the line
\* it skips.
LEMMA LinesPassed ==
  ASSUME NEW f \in Seq(Cells), NoBlank(f), NEW c, c.at \in 0..Len(f), c.skip \in BOOLEAN,
         NEW k \in c.at..Len(f), c.skip \/ AtLineStart(f, c.at),
         NEW x \in Newlines(f, c.at, k)
  PROVE  \/ f[x].line \in {d.line : d \in Pushed(f, c, k)}
         \/ c.skip /\ x = TextStart(f, c, k) /\ \A y \in Newlines(f, c.at, k) : x <= y
<1> DEFINE s == TextStart(f, c, k)
<1> DEFINE N == Newlines(f, c.at, k)
<1> DEFINE begin(e) == Max({s} \cup Newlines(f, s, e - 1))
<1> DEFINE ends == {e \in Newlines(f, s, k) : e - 1 > begin(e)}
<1>1. Len(f) \in Nat /\ c.at \in Nat /\ k \in Nat /\ k <= Len(f) /\ s \in Nat /\ s <= k
  <2>1. s \in c.at..k
    BY LoopStops
  <2> HIDE DEF s
  <2> QED BY <2>1
<1>2. \A a, b \in Nat : \A y \in Newlines(f, a, b) : y \in Nat /\ a < y /\ y <= b /\ f[y].nl
  BY DEF Newlines
<1>3. x \in Nat /\ c.at < x /\ x <= k /\ f[x].nl /\ x \in DOMAIN f
  <2>1. x \in Nat /\ c.at < x /\ x <= k /\ f[x].nl
    BY <1>1, <1>2
  <2>2. x \in 1..Len(f)
    BY <1>1, <2>1
  <2> QED BY <2>1, <2>2
<1>4. x > 1 /\ ~f[x - 1].nl
  BY <1>3 DEF NoBlank
<1>5. ~StillSkipping(f, c, k)
  BY DEF StillSkipping
<1>6. c.skip => s = Min(N) /\ s \in N /\ \A y \in N : s <= y
  <2>1. c.skip => s = Min(N)
    BY <1>5 DEF TextStart
  <2>2. N \in SUBSET Nat
    BY <1>1, <1>2
  <2>3. N # {}
    OBVIOUS
  <2> HIDE DEF N, s
  <2> QED BY <2>1, <2>2, <2>3, MinIsLeast
<1>7. ~c.skip => s = c.at
  BY LoopStops
<1>8. CASE c.skip /\ x = s
  BY <1>6, <1>8
<1>9. CASE ~(c.skip /\ x = s)
  <2>1. s < x
    <3>1. s <= x
      BY <1>1, <1>3, <1>6, <1>7
    <3>2. s # x
      BY <1>1, <1>3, <1>7, <1>9
    <3> HIDE DEF s
    <3> QED BY <1>1, <1>3, <3>1, <3>2
  <2>2. x \in Newlines(f, s, k)
    <3> HIDE DEF s
    <3> QED BY <1>1, <1>3, <2>1 DEF Newlines
  <2>3. s # x - 1
    <3>1. CASE c.skip
      <4>1. f[s].nl
        BY <1>1, <1>2, <1>6, <3>1
      <4> QED BY <1>4, <4>1
    <3>2. CASE ~c.skip
      <4>1. s = 0 \/ f[s].nl
        BY <1>7, <3>2 DEF AtLineStart
      <4> HIDE DEF s
      <4> QED BY <1>3, <1>4, <4>1
    <3> QED BY <3>1, <3>2
  <2>4. begin(x) \in {s} \cup Newlines(f, s, x - 1)
    <3> HIDE DEF s
    <3>1. \A y \in Newlines(f, s, x - 1) : y \in Nat /\ y <= k
      BY <1>1, <1>2, <1>3, <1>4
    <3>2. {s} \cup Newlines(f, s, x - 1) \in SUBSET (0..k)
      BY <1>1, <3>1
    <3> QED BY <1>1, <3>2, MaxIsGreatest
  <2>5. x - 1 > begin(x)
    <3>1. CASE begin(x) = s
      <4> HIDE DEF s, begin
      <4> QED BY <1>1, <1>3, <2>1, <2>3, <3>1
    <3>2. CASE begin(x) \in Newlines(f, s, x - 1)
      <4> HIDE DEF s, begin
      <4>1. x - 1 \in Nat
        BY <1>3, <1>4
      <4>2. begin(x) \in Nat /\ begin(x) <= x - 1 /\ f[begin(x)].nl
        BY <1>1, <1>2, <3>2, <4>1
      <4>3. begin(x) # x - 1
        BY <1>4, <4>2
      <4> QED BY <4>1, <4>2, <4>3
    <3> HIDE DEF s, begin
    <3> QED BY <2>4, <3>1, <3>2
  <2>6. x \in ends
    BY <2>2, <2>5
  <2>7. [line |-> f[x].line, kind |-> Kind(f, begin(x), x - 1 - begin(x))] \in Pushed(f, c, k)
    <3>1. {[line |-> f[e].line, kind |-> Kind(f, begin(e), e - 1 - begin(e))] : e \in ends} \subseteq Pushed(f, c, k)
      BY DEF Pushed
    <3> HIDE DEF ends, begin, s
    <3> QED BY <2>6, <3>1
  <2>8. \A d \in Pushed(f, c, k) : d.line \in {e.line : e \in Pushed(f, c, k)}
    OBVIOUS
  <2> HIDE DEF s, begin
  <2> QED BY <2>7, <2>8
<1> QED
  BY <1>8, <1>9

\* When what is in front of a read and the line it skips are accounted for, so
\* is everything in front of the position it leads to.
LEMMA ReadAccounts ==
  ASSUME NEW f \in Seq(Cells), Together(f), NoBlank(f),
         NEW c, c.at \in 0..Len(f), c.skip \in BOOLEAN, NEW k \in c.at..Len(f),
         c.skip \/ AtLineStart(f, c.at),
         NEW A, {d.line : d \in Pushed(f, c, k)} \subseteq A,
         Before(f, c.at, A), c.skip => Skipped(f, c.at, A)
  PROVE  /\ Before(f, ResumeOffset(f, c, k), A)
         /\ SkipsOn(f, c, k) => Skipped(f, ResumeOffset(f, c, k), A)
<1>1. Len(f) \in Nat /\ c.at \in Nat /\ k \in Nat /\ k <= Len(f) /\ c.at <= k /\ DOMAIN f = 1..Len(f)
  OBVIOUS
<1>2. \A x \in 1..Len(f) : x > c.at /\ x <= k /\ f[x].nl => x \in Newlines(f, c.at, k)
  BY <1>1 DEF Newlines
<1>3. \A x \in Newlines(f, c.at, k) : x \in 1..Len(f) /\ x > c.at /\ x <= k /\ f[x].nl
  BY <1>1 DEF Newlines
<1>4. \A x \in Newlines(f, c.at, k) : f[x].line \in A
  <2> SUFFICES ASSUME NEW x \in Newlines(f, c.at, k),
                      c.skip, \A y \in Newlines(f, c.at, k) : x <= y
               PROVE  f[x].line \in A
    BY LinesPassed
  <2>1. x \in 1..Len(f) /\ x > c.at /\ x <= k
    BY <1>3
  <2>2. c.at + 1 \in 1..Len(f) /\ c.at + 1 <= x /\ c.at < Len(f)
    BY <1>1, <2>1
  <2>3. f[c.at + 1].line \in A
    BY <2>2 DEF Skipped
  <2>4. \A z \in c.at+1..x-1 : ~f[z].nl
    <3> SUFFICES ASSUME NEW z \in c.at+1..x-1, f[z].nl
                 PROVE  FALSE
      OBVIOUS
    <3>1. z \in 1..Len(f) /\ z > c.at /\ z <= k /\ ~(x <= z)
      BY <1>1, <2>1
    <3> QED BY <1>2, <3>1
  <2>5. f[c.at + 1].line = f[x].line
    BY <1>1, <2>1, <2>2, <2>4, OneLine
  <2> QED BY <2>3, <2>5
<1>5. ResumeOffset(f, c, k) \in Nat /\ ResumeOffset(f, c, k) <= k
  <2>1. ResumeOffset(f, c, k) \in c.at..k
    BY LoopStops
  <2> QED BY <1>1, <2>1
<1>6. Before(f, ResumeOffset(f, c, k), A)
  <2> SUFFICES ASSUME NEW x \in 1..Len(f), x <= ResumeOffset(f, c, k), f[x].nl
               PROVE  f[x].line \in A
    BY <1>1 DEF Before
  <2>1. CASE x <= c.at
    BY <1>1, <2>1 DEF Before
  <2>2. CASE ~(x <= c.at)
    <3>1. x > c.at /\ x <= k
      BY <1>1, <1>5, <2>2
    <3> QED BY <1>2, <1>4, <3>1
  <2> QED BY <2>1, <2>2
<1>7. ASSUME SkipsOn(f, c, k)
      PROVE  Skipped(f, k, A)
  <2>1. CASE StillSkipping(f, c, k)
    <3>1. c.skip /\ \A x \in 1..Len(f) : x > c.at /\ x <= k => ~f[x].nl
      BY <1>2, <2>1 DEF StillSkipping
    <3>2. CASE k = c.at
      BY <3>1, <3>2
    <3>3. CASE k # c.at
      <4>1. c.at < Len(f) /\ c.at + 1 \in 1..Len(f) /\ k \in 1..Len(f) /\ c.at + 1 <= k
        BY <1>1, <3>3
      <4>2. f[c.at + 1].line \in A
        BY <3>1, <4>1 DEF Skipped
      <4>3. CASE k < Len(f)
        <5> DEFINE e == k + 1
        <5>1. e \in 1..Len(f) /\ c.at + 1 <= e
          BY <1>1, <4>1, <4>3
        <5>2. \A z \in c.at+1..e-1 : z \in 1..Len(f) /\ z > c.at /\ z <= k
          BY <1>1, <5>1
        <5>3. \A z \in c.at+1..e-1 : ~f[z].nl
          BY <3>1, <5>2
        <5>4. f[c.at + 1].line = f[e].line
          <6> HIDE DEF e
          <6> QED BY <1>1, <4>1, <5>1, <5>3, OneLine
        <5> QED BY <4>2, <4>3, <5>1, <5>4 DEF Skipped
      <4>4. CASE ~(k < Len(f))
        <5>1. \A z \in c.at+1..k-1 : z \in 1..Len(f) /\ z > c.at /\ z <= k
          BY <1>1, <4>1
        <5>2. f[c.at + 1].line = f[k].line
          BY <1>1, <3>1, <4>1, <5>1, OneLine
        <5>3. ~f[k].nl
          BY <1>1, <3>1, <4>1
        <5> QED BY <4>2, <4>4, <5>2, <5>3 DEF Skipped
      <4> QED BY <4>3, <4>4
    <3> QED BY <3>2, <3>3
  <2>2. CASE ~StillSkipping(f, c, k)
    <3> DEFINE l == LastEnd(f, c, k)
    <3>1. TooLong(k - l)
      BY <1>7, <2>2 DEF SkipsOn
    <3>2. l \in Nat /\ l >= c.at /\ l <= k /\ \A x \in Newlines(f, c.at, k) : x <= l
      <4>1. TextStart(f, c, k) \in c.at..k /\ l \in TextStart(f, c, k)..k /\ \A x \in Newlines(f, c.at, k) : x <= l
        BY LoopStops
      <4> HIDE DEF l
      <4>2. TextStart(f, c, k) \in Nat /\ TextStart(f, c, k) >= c.at
        BY <1>1, <4>1
      <4> QED BY <1>1, <4>1, <4>2
    <3>3. l < k
      <4>1. k - l > MaxLineLen /\ MaxLineLen \in Nat
        BY <3>1, Caps DEF TooLong
      <4> HIDE DEF l
      <4> QED BY <1>1, <3>2, <4>1
    <3>4. k \in 1..Len(f) /\ k > c.at /\ ~f[k].nl
      <4> HIDE DEF l
      <4>1. k \in 1..Len(f) /\ k > c.at
        BY <1>1, <3>2, <3>3
      <4>2. k \notin Newlines(f, c.at, k)
        BY <1>1, <3>2, <3>3
      <4> QED BY <1>1, <1>2, <4>1, <4>2
    <3>5. f[k].line \in A
      <4>1. [line |-> f[k].line, kind |-> "truncated"] \in Pushed(f, c, k)
        BY <3>1 DEF Pushed
      <4>2. \A d \in Pushed(f, c, k) : d.line \in A
        OBVIOUS
      <4> QED BY <4>1, <4>2
    <3>6. CASE k < Len(f)
      <4>1. k + 1 \in 1..Len(f) /\ k <= k + 1 /\ k..(k+1)-1 = {k}
        BY <1>1, <3>6
      <4>2. f[k].line = f[k + 1].line
        BY <1>1, <3>4, <4>1, OneLine
      <4> QED BY <3>5, <3>6, <4>2 DEF Skipped
    <3>7. CASE ~(k < Len(f))
      BY <3>4, <3>5, <3>7 DEF Skipped
    <3> QED BY <3>6, <3>7
  <2> QED BY <2>1, <2>2
<1> QED
  BY <1>6, <1>7 DEF ResumeOffset

-----------------------------------------------------------------------------
(* Nothing is lost silently. *)

LEMMA PassedGrows ==
  ASSUME NEW F, NEW E, NEW s, NEW A, NEW B, A \subseteq B, Passed(F, E, s, A)
  PROVE  Passed(F, E, s, B)
BY DEF Passed, Before, Skipped

\* What was passed stays passed: the server appends behind it or cuts the file.
LEMMA EnvironmentKeepsPassed ==
  ASSUME DiskInv, FilesInv, Environment, NEW s, Known(s), Fits(s), NEW A,
         Passed(file, epoch, s, A)
  PROVE  Passed(file', epoch', s, A)
<1> DEFINE i == s.inode
<1> DEFINE f == file[i]
<1>1. /\ i \in Inodes /\ s.offset \in Nat /\ f \in Seq(Cells) /\ epoch[i] \in Nat /\ s.epoch \in Nat
      /\ i <= Writing /\ s.epoch <= epoch[i] /\ Writing \in Inodes
      /\ file \in [Inodes -> Seq(Cells)] /\ epoch \in [Inodes -> Nat] /\ line \in Nat
  BY DEF Known, AllPositions, DiskInv
<1>2. \A j \in Inodes : j # Writing => file'[j] = file[j] /\ epoch'[j] = epoch[j]
  BY EnvironmentDisk
<1>3. \A j \in Inodes : j < i => LinesOf(file'[j]) \subseteq A
  <2> SUFFICES ASSUME NEW j \in Inodes, j < i
               PROVE  LinesOf(file'[j]) \subseteq A
    OBVIOUS
  <2>1. j # Writing
    BY <1>1, Caps DEF Inodes
  <2>2. file'[j] = file[j]
    BY <1>2, <2>1
  <2> QED BY <2>2 DEF Passed
<1>4. CASE file'[i] = f /\ epoch'[i] = epoch[i]
  BY <1>3, <1>4 DEF Passed
<1>5. CASE i = Writing /\ Write
  <2>1. PICK nl \in BOOLEAN : file'[i] = Append(f, Cell(line, nl))
    BY <1>5, WriteAppends
  <2>2. epoch' = epoch
    BY <1>5 DEF Write
  <2>3. Cell(line, nl) \in Cells /\ Cell(line, nl).line = line
    BY <1>1 DEF Cell, Cells
  <2>4. /\ Len(f) \in Nat /\ Len(file'[i]) = Len(f) + 1 /\ DOMAIN f = 1..Len(f) /\ DOMAIN file'[i] = 1..Len(f)+1
        /\ \A x \in 1..Len(f) : file'[i][x] = f[x]
        /\ file'[i][Len(f) + 1].line = line
    BY <1>1, <2>1, <2>3
  <2> SUFFICES ASSUME s.epoch = epoch[i]
               PROVE  /\ Before(file'[i], s.offset, A)
                      /\ s.skip /\ s.offset > 0 => Skipped(file'[i], s.offset, A)
    BY <1>3, <2>2 DEF Passed
  <2>5. /\ Before(f, s.offset, A)
        /\ s.skip /\ s.offset > 0 => Skipped(f, s.offset, A)
    BY DEF Passed
  <2>6. s.offset <= Len(f)
    BY DEF Fits
  <2>7. Before(file'[i], s.offset, A)
    <3> SUFFICES ASSUME NEW x \in 1..Len(f)+1, x <= s.offset, file'[i][x].nl
                 PROVE  file'[i][x].line \in A
      BY <2>4 DEF Before
    <3>1. x \in 1..Len(f)
      BY <1>1, <2>4, <2>6
    <3> QED BY <2>4, <2>5, <3>1 DEF Before
  <2>8. ASSUME s.skip, s.offset > 0
        PROVE  Skipped(file'[i], s.offset, A)
    <3>1. CASE s.offset < Len(f)
      <4>1. s.offset + 1 \in 1..Len(f) /\ s.offset < Len(file'[i])
        BY <1>1, <2>4, <3>1
      <4>2. f[s.offset + 1].line \in A
        BY <2>5, <2>8, <3>1 DEF Skipped
      <4> QED BY <2>4, <4>1, <4>2 DEF Skipped
    <3>2. CASE s.offset = Len(f)
      <4>1. ~f[Len(f)].nl /\ f[Len(f)].line \in A /\ f # <<>>
        BY <1>1, <2>5, <2>8, <3>2 DEF Skipped
      <4>2. f[Len(f)].line = line
        BY <1>5, <4>1 DEF FilesInv, EndsWith
      <4>3. s.offset < Len(file'[i])
        BY <2>4, <3>2
      <4> QED BY <2>4, <3>2, <4>1, <4>2, <4>3 DEF Skipped
    <3> QED BY <1>1, <2>4, <2>6, <3>1, <3>2
  <2> QED BY <2>7, <2>8
<1>6. CASE i = Writing /\ Truncate
  <2>1. epoch'[i] = epoch[i] + 1
    BY <1>1, <1>6 DEF Truncate
  <2>2. s.epoch # epoch'[i]
    BY <1>1, <2>1
  <2> QED BY <1>3, <2>2 DEF Passed
<1>7. RotatePath \/ Rename \/ Remove => file' = file /\ epoch' = epoch
  BY DEF RotatePath, Rename, Remove
<1> QED
  BY <1>1, <1>2, <1>4, <1>5, <1>6, <1>7 DEF Environment

\* What the journal holds or stands for only grows.
LEMMA AccountedGrows ==
  ASSUME [Next]_vars
  PROVE  /\ delivered \subseteq delivered' /\ excused \subseteq excused' /\ dropped \subseteq dropped'
         /\ Booked \subseteq Booked'
<1>1. delivered \subseteq delivered' /\ excused \subseteq excused' /\ dropped \subseteq dropped'
  BY DEF Next, Environment, Write, RotatePath, Rename, Truncate, Remove, LosesSource, Collect,
         CollectNothing, Store, StoreFails, Commit, CommitFails, Restart, vars, books
<1> QED
  BY <1>1 DEF Booked, Accounted, Delivered

\* The lines that the gap rows of a read stand for, and the one it drops.
LEMMA GapsHold ==
  ASSUME NEW st, NEW i, NEW r, NEW c, file[i] \in Seq(Cells)
  PROVE  /\ r.rotated => \A j \in st.inode..i-1 : LinesOf(file[j]) \subseteq GapLines(st, i, r, c)
         /\ SkipsAhead(file[i], r) =>
              \A x \in r.from+1..c.at+1 : file[i][x].line \in GapLines(st, i, r, c)
         /\ r.from = 0 /\ r.skip /\ Len(file[i]) > 0 =>
              file[i][1].line \in GapLines(st, i, r, c) \cup Unannounced(i, r)
<1> DEFINE J == IF r.rotated THEN st.inode..i-1 ELSE {}
<1> DEFINE X == IF SkipsAhead(file[i], r) THEN r.from+1..c.at+1 ELSE {}
<1> DEFINE Y == IF r.rotated /\ r.skip THEN 1..Min({1, Len(file[i])}) ELSE {}
<1> DEFINE Z == IF r.from = 0 /\ r.skip /\ ~r.rotated THEN 1..Min({1, Len(file[i])}) ELSE {}
<1> DEFINE U == UNION {LinesOf(file[j]) : j \in J}
<1> DEFINE V == {file[i][x].line : x \in X}
<1> DEFINE W == {file[i][x].line : x \in Y}
<1> DEFINE D == {file[i][x].line : x \in Z}
<1>1. GapLines(st, i, r, c) = U \cup V \cup W /\ Unannounced(i, r) = D
  BY Zenon DEF GapLines, Unannounced
<1>2. \A j \in J : LinesOf(file[j]) \subseteq U
  OBVIOUS
<1>3. \A x \in X : file[i][x].line \in V
  OBVIOUS
<1>4. (\A x \in Y : file[i][x].line \in W) /\ (\A x \in Z : file[i][x].line \in D)
  OBVIOUS
<1>5. ASSUME r.from = 0, r.skip, Len(file[i]) > 0
      PROVE  1 \in Y \/ 1 \in Z
  <2>1. Len(file[i]) \in Nat
    OBVIOUS
  <2> DEFINE S == {1, Len(file[i])}
  <2>2. S \in SUBSET Nat /\ S # {}
    BY <2>1
  <2>3. Min(S) \in S /\ \A y \in S : Min(S) <= y
    <3> HIDE DEF S
    <3> QED BY <2>2, MinIsLeast
  <2>4. Min(S) = 1
    BY <1>5, <2>1, <2>3
  <2>5. 1 \in 1..Min(S)
    BY <2>4
  <2> QED BY <1>5, <2>5
<1>6. r.rotated => J = st.inode..i-1
  OBVIOUS
<1>7. SkipsAhead(file[i], r) => X = r.from+1..c.at+1
  OBVIOUS
<1> HIDE DEF J, X, Y, Z, U, V, W, D
<1>8. ASSUME r.from = 0, r.skip, Len(file[i]) > 0
      PROVE  file[i][1].line \in W \cup D
  BY <1>4, <1>5, <1>8
<1> QED
  BY <1>1, <1>2, <1>3, <1>6, <1>7, <1>8

LEMMA CollectAccounts ==
  ASSUME Core, FilesInv, AccountedInv, NEW found \in BOOLEAN, Collect(found, FALSE)
  PROVE  Passed(file, epoch, collection'.next, Booked \cup Brought(collection'))
<1> DEFINE p == Reading(found)
<1> DEFINE i == name[p]
<1> DEFINE f == file[i]
<1> DEFINE r == From(p)
<1> DEFINE c == At(p)
<1> DEFINE A == Booked \cup Brought(collection')
<1>1. DiskInv /\ PositionsInv /\ SourceInv
  BY DEF Core
<1>2. /\ p # 0 /\ name[p] # 0
      /\ \E k \in c.at..Len(f) : ReadsTo(p, NextSource(found), r, c, k)
  BY <1>1, CollectReads
<1>3. PICK k \in c.at..Len(f) : ReadsTo(p, NextSource(found), r, c, k)
  BY <1>2
<1>4. p \in Paths /\ p <= current
  BY <1>1, <1>2, CycleStarts
<1>5. /\ i \in Inodes /\ f \in Seq(Cells)
      /\ r.from \in 0..Len(f) /\ r.skip \in BOOLEAN /\ r.rotated \in BOOLEAN
      /\ r.rotated => r.from = 0
      /\ ~r.rotated => state.path = p /\ state.inode = i /\ state.offset <= Len(f)
                          /\ r.from = state.offset /\ r.skip = state.skip
      /\ c.at \in r.from..Len(f) /\ c.at \in 0..Len(f) /\ c.skip \in BOOLEAN
      /\ SkipsAhead(f, r) => c.skip /\ r.from < c.at /\ c.at < Len(f)
      /\ ~SkipsAhead(f, r) => c.at = r.from /\ c.skip = r.skip
      /\ c.skip \/ AtLineStart(f, c.at)
  BY <1>1, <1>2, <1>4, ReadStarts
<1> DEFINE n == Position(p, i, ResumeOffset(f, c, k), SkipsOn(f, c, k))
<1>6. /\ n.inode = i /\ n.offset = ResumeOffset(f, c, k) /\ n.skip = SkipsOn(f, c, k) /\ n.epoch = epoch[i]
  BY <1>1, <1>2, <1>4, ReadPosition
<1>7. /\ collection'.next = n /\ collection'.lines = Pushed(f, c, k)
      /\ collection'.gaps = GapLines(state, i, r, c) /\ collection'.drops = Unannounced(i, r)
  BY <1>3 DEF ReadsTo
<1>8. /\ Booked \subseteq A /\ {d.line : d \in Pushed(f, c, k)} \subseteq A
      /\ GapLines(state, i, r, c) \subseteq A /\ Unannounced(i, r) \subseteq A
  BY <1>7 DEF Brought
<1>9. /\ r.rotated => \A j \in state.inode..i-1 : LinesOf(file[j]) \subseteq A
      /\ SkipsAhead(f, r) => \A x \in r.from+1..c.at+1 : f[x].line \in A
      /\ r.from = 0 /\ r.skip /\ Len(f) > 0 => f[1].line \in A
  <2>1. /\ r.rotated => \A j \in state.inode..i-1 : LinesOf(file[j]) \subseteq GapLines(state, i, r, c)
        /\ SkipsAhead(f, r) => \A x \in r.from+1..c.at+1 : f[x].line \in GapLines(state, i, r, c)
        /\ r.from = 0 /\ r.skip /\ Len(f) > 0 => f[1].line \in GapLines(state, i, r, c) \cup Unannounced(i, r)
    BY <1>5, GapsHold
  <2> HIDE DEF A, f, r, c, i
  <2> QED BY <1>8, <2>1
<1>10. /\ state \in AllPositions /\ Fits(state) /\ Passed(file, epoch, state, A)
  <2>1. Passed(file, epoch, state, Booked)
    BY DEF AccountedInv
  <2>2. Passed(file, epoch, state, A)
    <3> HIDE DEF A
    <3> QED BY <1>8, <2>1, PassedGrows
  <2> QED BY <1>1, <2>2 DEF PositionsInv, Positions, Known
<1>11. Together(f) /\ NoBlank(f)
  BY <1>5 DEF FilesInv
<1> DEFINE brought == {d.line : d \in Pushed(f, c, k)}
<1> HIDE DEF A, n, r, c, f, i, p, brought
<1>12. Len(f) \in Nat /\ r.from \in Nat /\ c.at \in Nat /\ r.from <= Len(f) /\ r.from <= c.at /\ c.at <= Len(f)
       /\ state.offset \in Nat /\ state.inode \in Nat /\ i \in Nat /\ DOMAIN f = 1..Len(f)
       /\ state.inode \in Inodes
  BY <1>5, <1>10, Caps DEF AllPositions, Inodes
<1>13. \A j \in Inodes : j < i => LinesOf(file[j]) \subseteq A
  <2> SUFFICES ASSUME NEW j \in Inodes, j < i
               PROVE  LinesOf(file[j]) \subseteq A
    OBVIOUS
  <2>1. j < state.inode \/ j \in state.inode..i-1
    BY <1>12, Caps DEF Inodes
  <2>2. CASE j < state.inode
    BY <1>10, <2>2 DEF Passed
  <2>3. CASE j \in state.inode..i-1
    <3>1. r.rotated
      <4>1. state.inode # i
        BY <1>12, <2>3
      <4> QED BY <1>5, <4>1
    <3> QED BY <1>9, <2>3, <3>1
  <2> QED BY <2>1, <2>2, <2>3
\* A read that goes on from the committed position goes on in the same file.
<1>14. ~r.rotated /\ r.from > 0 =>
         /\ state.inode = i /\ r.from = state.offset /\ r.skip = state.skip
         /\ Before(f, r.from, A)
         /\ r.skip => Skipped(f, r.from, A)
  <2> SUFFICES ASSUME ~r.rotated, r.from > 0
               PROVE  /\ state.inode = i /\ r.from = state.offset /\ r.skip = state.skip
                      /\ Before(f, r.from, A)
                      /\ r.skip => Skipped(f, r.from, A)
    OBVIOUS
  <2>1. state.inode = i /\ r.from = state.offset /\ r.skip = state.skip /\ file[state.inode] = f
    BY <1>5 DEF f
  <2>2. state.epoch = epoch[state.inode]
    BY <1>10, <1>12, <2>1 DEF Fits
  <2> QED BY <1>10, <2>1, <2>2 DEF Passed
<1>15. r.from = 0 => Before(f, r.from, A)
  BY <1>12 DEF Before
<1>16. Before(f, c.at, A)
  <2>1. Before(f, r.from, A)
    BY <1>5, <1>12, <1>14, <1>15
  <2>2. CASE ~SkipsAhead(f, r)
    BY <1>5, <2>1, <2>2
  <2>3. CASE SkipsAhead(f, r)
    <3> SUFFICES ASSUME NEW x \in 1..Len(f), x <= c.at, f[x].nl
                 PROVE  f[x].line \in A
      BY <1>12 DEF Before
    <3>1. x <= r.from \/ x \in r.from+1..c.at+1
      BY <1>12
    <3> QED BY <1>9, <1>12, <2>1, <2>3, <3>1 DEF Before
  <2> QED BY <2>2, <2>3
<1>17. c.skip => Skipped(f, c.at, A)
  <2> SUFFICES ASSUME c.skip
               PROVE  Skipped(f, c.at, A)
    OBVIOUS
  <2>1. CASE SkipsAhead(f, r)
    <3>1. c.at < Len(f) /\ c.at + 1 \in r.from+1..c.at+1
      BY <1>5, <1>12, <2>1
    <3> QED BY <1>9, <2>1, <3>1 DEF Skipped
  <2>2. CASE ~SkipsAhead(f, r) /\ r.from = 0
    <3>1. c.at = 0 /\ r.skip
      BY <1>5, <2>2
    <3>2. CASE Len(f) > 0
      BY <1>9, <2>2, <3>1, <3>2 DEF Skipped
    <3>3. CASE Len(f) = 0
      BY <3>1, <3>3 DEF Skipped
    <3> QED BY <1>12, <3>2, <3>3
  <2>3. CASE ~SkipsAhead(f, r) /\ r.from > 0
    <3>1. c.at = r.from /\ r.skip
      BY <1>5, <2>3
    <3>2. ~r.rotated
      BY <1>5, <2>3
    <3> QED BY <1>14, <2>3, <3>1, <3>2
  <2> QED BY <1>12, <2>1, <2>2, <2>3
<1>18. /\ Before(f, ResumeOffset(f, c, k), A)
       /\ SkipsOn(f, c, k) => Skipped(f, ResumeOffset(f, c, k), A)
  BY <1>5, <1>8, <1>11, <1>16, <1>17, ReadAccounts DEF brought
<1>19. Passed(file, epoch, n, A)
  <2>1. file[n.inode] = f /\ epoch[n.inode] = epoch[i]
    BY <1>6 DEF f
  <2> QED BY <1>6, <1>13, <1>18, <2>1 DEF Passed
<1> QED
  BY <1>7, <1>19 DEF A

LEMMA AccountedInit == Init => AccountedInv
<1> SUFFICES ASSUME Init
             PROVE  AccountedInv
  OBVIOUS
<1>1. /\ state = Start /\ saved = Start /\ Idle
      /\ Start.inode = 1 /\ Start.offset = 0 /\ file[1] = <<>>
  BY Caps DEF Init, Start, Position, Idle, Inodes
<1>2. \A i \in Inodes : ~(i < 1)
  BY Caps DEF Inodes
<1>3. Passed(file, epoch, Start, Booked)
  BY <1>1, <1>2 DEF Passed, Before
<1> QED
  BY <1>1, <1>3 DEF AccountedInv

LEMMA EnvironmentAccounted ==
  ASSUME Core, FilesInv, AccountedInv, Environment
  PROVE  AccountedInv'
<1>1. UNCHANGED <<state, source, pending, collection, stored, saved, delivered>>
  BY EnvironmentLeaves DEF memory
<1>2. Booked \subseteq Booked' /\ excused \subseteq excused' /\ dropped \subseteq dropped'
  BY AccountedGrows DEF Next
<1>3. \A s \in Positions : Known(s) /\ Fits(s)
  BY DEF Core, PositionsInv
<1>4. DiskInv
  BY DEF Core
<1>5. \A s \in Positions : \A A : Passed(file, epoch, s, A) => Passed(file', epoch', s, A)
  BY <1>3, <1>4, EnvironmentKeepsPassed
<1>6. state \in Positions /\ saved \in Positions
      /\ (~Idle /\ collection.next # None => collection.next \in Positions)
  BY DEF Positions
<1>7. Passed(file', epoch', state, Booked') /\ Passed(file', epoch', saved, Booked')
  <2>1. Passed(file', epoch', state, Booked) /\ Passed(file', epoch', saved, Booked)
    BY <1>5, <1>6 DEF AccountedInv
  <2> QED BY <1>2, <2>1, PassedGrows
<1>8. ASSUME ~Idle
      PROVE  /\ collection.next # None =>
                  Passed(file', epoch', collection.next, Booked' \cup Brought(collection))
             /\ stored => collection.lines \subseteq delivered /\ collection.gaps \subseteq excused' /\ collection.drops \subseteq dropped'
  <2>1. ASSUME collection.next # None
        PROVE  Passed(file', epoch', collection.next, Booked' \cup Brought(collection))
    <3>1. Passed(file', epoch', collection.next, Booked \cup Brought(collection))
      BY <1>5, <1>6, <1>8, <2>1 DEF AccountedInv
    <3>2. Booked \cup Brought(collection) \subseteq Booked' \cup Brought(collection)
      BY <1>2
    <3> QED BY <3>1, <3>2, PassedGrows
  <2>2. stored => collection.lines \subseteq delivered /\ collection.gaps \subseteq excused' /\ collection.drops \subseteq dropped'
    BY <1>2, <1>8 DEF AccountedInv
  <2> QED BY <2>1, <2>2
<1> QED
  BY <1>1, <1>7, <1>8 DEF AccountedInv, Idle

\* A collection whose rows are stored brings nothing new.
LEMMA StoredIsAccounted ==
  ASSUME Core, AccountedInv, ~Idle, stored
  PROVE  Booked \cup Brought(collection) = Booked
<1>1. collection.lines \subseteq delivered /\ collection.gaps \subseteq excused /\ collection.drops \subseteq dropped
  BY DEF AccountedInv
<1>2. \A d \in collection.lines : d.kind # "fragment"
  BY DEF Core, LinesInv, NoFragments
<1> QED
  BY <1>1, <1>2 DEF Booked, Accounted, Delivered, Brought

LEMMA AccountedStep ==
  ASSUME Core, FilesInv, AccountedInv, [Next]_vars
  PROVE  AccountedInv'
<1>1. CASE Environment
  BY <1>1, EnvironmentAccounted
<1>2. CASE ~Environment
  <2>1. UNCHANGED <<file, epoch>>
    BY <1>2 DEF Next, LosesSource, Collect, CollectNothing, Store, StoreFails, Commit, CommitFails, Restart,
               vars, disk
  <2>2. /\ delivered \subseteq delivered' /\ excused \subseteq excused' /\ dropped \subseteq dropped'
        /\ Booked \subseteq Booked'
    BY AccountedGrows
  <2>3. Passed(file', epoch', state, Booked') /\ Passed(file', epoch', saved, Booked')
    <3>1. Passed(file, epoch, state, Booked) /\ Passed(file, epoch, saved, Booked)
      BY DEF AccountedInv
    <3> QED BY <2>1, <2>2, <3>1, PassedGrows
  <2>4. ~Idle /\ stored /\ collection.next # None => Passed(file', epoch', collection.next, Booked')
    <3> SUFFICES ASSUME ~Idle, stored, collection.next # None
                 PROVE  Passed(file', epoch', collection.next, Booked')
      OBVIOUS
    <3>1. Passed(file, epoch, collection.next, Booked \cup Brought(collection))
      BY DEF AccountedInv
    <3>2. Passed(file, epoch, collection.next, Booked)
      BY <3>1, StoredIsAccounted
    <3> QED BY <2>1, <2>2, <3>2, PassedGrows
  <2>5. \/ UNCHANGED <<state, saved>>
        \/ state' = saved /\ saved' = saved
        \/ /\ ~Idle /\ stored /\ collection.next # None
           /\ state' \in {state, collection.next} /\ saved' \in {saved, collection.next}
    BY <1>2 DEF Next, LosesSource, Collect, CollectNothing, Store, StoreFails, Commit, CommitFails, MayCommit,
               Restart, vars, memory
  <2>6. Passed(file', epoch', state', Booked') /\ Passed(file', epoch', saved', Booked')
    BY <2>3, <2>4, <2>5
  <2>7. \/ collection' = None
        \/ \E found \in BOOLEAN : Collect(found, FALSE)
        \/ stored' = FALSE /\ collection'.next = None
        \/ UNCHANGED <<collection, stored>>
        \/ ~Idle /\ UNCHANGED collection /\ collection.lines \subseteq delivered' /\ collection.gaps \subseteq excused' /\ collection.drops \subseteq dropped'
    <3>1. CASE \E found \in BOOLEAN : Collect(found, FALSE)
      BY <3>1
    <3>2. CASE \E found \in BOOLEAN : CollectNothing(found)
      <4>1. PICK found \in BOOLEAN : CollectNothing(found)
        BY <3>2
      <4>2. stored' = FALSE /\ collection'.next = None
        BY <4>1 DEF CollectNothing
      <4> QED BY <4>2
    <3>3. CASE Store
      BY <3>3 DEF Store
    <3>4. CASE StoreFails \/ Commit \/ CommitFails \/ Restart
      BY <3>4 DEF StoreFails, Commit, CommitFails, Restart
    <3>5. CASE LosesSource \/ UNCHANGED vars
      BY <3>5 DEF LosesSource, vars, memory
    <3> QED BY <1>2, <3>1, <3>2, <3>3, <3>4, <3>5 DEF Next
  <2>8. ASSUME ~Idle, UNCHANGED collection, collection.next # None
        PROVE  Passed(file', epoch', collection.next, Booked' \cup Brought(collection))
    <3>1. Passed(file, epoch, collection.next, Booked \cup Brought(collection))
      BY <2>8 DEF AccountedInv
    <3>2. Booked \cup Brought(collection) \subseteq Booked' \cup Brought(collection)
      BY <2>2
    <3> QED BY <2>1, <3>1, <3>2, PassedGrows
  <2>9. ASSUME ~Idle'
        PROVE  /\ collection'.next # None =>
                    Passed(file', epoch', collection'.next, Booked' \cup Brought(collection'))
               /\ stored' => collection'.lines \subseteq delivered' /\ collection'.gaps \subseteq excused' /\ collection'.drops \subseteq dropped'
    <3>1. ASSUME NEW found \in BOOLEAN, Collect(found, FALSE)
          PROVE  /\ Passed(file', epoch', collection'.next, Booked' \cup Brought(collection'))
                 /\ stored' = FALSE
      <4>1. Passed(file, epoch, collection'.next, Booked \cup Brought(collection'))
        BY <3>1, CollectAccounts
      <4>2. Booked \cup Brought(collection') \subseteq Booked' \cup Brought(collection')
        BY <2>2
      <4>3. stored' = FALSE
        BY <3>1 DEF Collect
      <4> QED BY <2>1, <4>1, <4>2, <4>3, PassedGrows
    <3>2. CASE UNCHANGED <<collection, stored>>
      <4>1. ~Idle
        BY <2>9, <3>2 DEF Idle
      <4>2. stored => collection.lines \subseteq delivered' /\ collection.gaps \subseteq excused' /\ collection.drops \subseteq dropped'
        BY <2>2, <4>1 DEF AccountedInv
      <4> QED BY <2>8, <3>2, <4>1, <4>2
    <3>3. CASE ~Idle /\ UNCHANGED collection /\ collection.lines \subseteq delivered' /\ collection.gaps \subseteq excused' /\ collection.drops \subseteq dropped'
      BY <2>8, <3>3
    <3>4. collection' # None
      BY <2>9 DEF Idle
    <3> QED BY <2>7, <3>1, <3>2, <3>3, <3>4
  <2> QED BY <2>6, <2>9 DEF AccountedInv
<1> QED
  BY <1>1, <1>2

-----------------------------------------------------------------------------
\* The invariant that the theorems below rest on, for every size of the line,
\* the read, the backlog and its tail, and every mix of rotations and faults.
THEOREM TailerInductive == Spec => []TailerInv
<1>1. Init => TailerInv
  BY CoreInit, FilesInit, AccountedInit DEF TailerInv, Core
<1>2. TailerInv /\ [Next]_vars => TailerInv'
  <2> SUFFICES ASSUME TailerInv, [Next]_vars
               PROVE  TailerInv'
    OBVIOUS
  <2>1. Core /\ FilesInv /\ AccountedInv /\ DiskInv
    BY DEF TailerInv, Core
  <2>2. Core'
    BY <2>1, CoreStep
  <2>3. FilesInv'
    <3>1. CASE Environment
      BY <2>1, <3>1, FilesStep
    <3>2. CASE ~Environment
      <4>1. UNCHANGED disk
        BY <3>2 DEF Next, LosesSource, Collect, CollectNothing, Store, StoreFails, Commit, CommitFails, Restart,
                   vars
      <4> QED BY <2>1, <4>1 DEF FilesInv, disk, Writing
    <3> QED BY <3>1, <3>2
  <2>4. AccountedInv'
    BY <2>1, AccountedStep
  <2> QED BY <2>2, <2>3, <2>4 DEF TailerInv, Core
<1> QED
  BY <1>1, <1>2, PTL DEF Spec

\* Rotations, truncated files, cut lines, failed appends, failed saves and
\* restarts lose no complete line silently, but for the first line of a file
\* that was committed empty while the end of a line was still awaited: each
\* other line in front of the saved position is in the journal, or a gap row in
\* the journal stands for it.
THEOREM NothingLostSilently == Spec => []NoSilentLoss
<1>1. TailerInv => NoSilentLoss
  <2> SUFFICES ASSUME TailerInv
               PROVE  NoSilentLoss
    OBVIOUS
  <2>1. Passed(file, epoch, saved, Booked)
    BY DEF TailerInv, AccountedInv
  <2>2. Known(saved) /\ Fits(saved) /\ saved \in AllPositions /\ file \in [Inodes -> Seq(Cells)]
    BY DEF TailerInv, PositionsInv, Positions, Known, DiskInv
  <2>3. saved.inode \in Inodes /\ saved.offset \in Nat /\ file[saved.inode] \in Seq(Cells)
    BY <2>2 DEF AllPositions
  <2>4. \A i \in 1..saved.inode - 1 : i \in Inodes /\ i < saved.inode
    BY <2>3, Caps DEF Inodes
  <2>5. \A i \in 1..saved.inode - 1 : LinesOf(file[i]) \subseteq Booked
    BY <2>1, <2>4 DEF Passed
  <2>6. ASSUME saved.epoch = epoch[saved.inode], NEW x \in Newlines(file[saved.inode], 0, saved.offset)
        PROVE  file[saved.inode][x].line \in Booked
    <3>1. x \in 0+1..saved.offset /\ file[saved.inode][x].nl
      BY DEF Newlines
    <3>2. saved.offset <= Len(file[saved.inode])
      BY <2>2, <2>6 DEF Fits
    <3>3. x \in DOMAIN file[saved.inode] /\ x <= saved.offset
      BY <2>3, <3>1, <3>2
    <3> QED BY <2>1, <2>6, <3>1, <3>3 DEF Passed, Before
  <2> DEFINE X == IF saved.epoch = epoch[saved.inode]
                  THEN Newlines(file[saved.inode], 0, saved.offset) ELSE {}
  <2>7. PassedLines = (UNION {LinesOf(file[i]) : i \in 1..saved.inode - 1})
                        \cup {file[saved.inode][x].line : x \in X}
    BY Zenon DEF PassedLines
  <2>8. \A x \in X : file[saved.inode][x].line \in Booked
    BY <2>6
  <2> HIDE DEF X
  <2>9. PassedLines \subseteq Booked
    BY <2>5, <2>7, <2>8
  <2> QED BY <2>9 DEF NoSilentLoss, Booked
<1> QED
  BY <1>1, TailerInductive, PTL

\* However often its reading is interrupted, repeated or resumed in the middle,
\* a line that is not marked as cut is delivered whole.
THEOREM LinesStayWhole == Spec => []WholeLines
<1>1. TailerInv => WholeLines
  BY DEF TailerInv, LinesInv, NoFragments, WholeLines
<1> QED
  BY <1>1, TailerInductive, PTL

\* The bytes reported for a path switch are the unread rest of the file that
\* was left, also when a second switch or a missing file comes in between.
THEOREM TailsMeasured == Spec => []PendingIsTheTail
<1>1. TailerInv => PendingIsTheTail
  BY DEF TailerInv, SourceInv, Rest, PendingIsTheTail
<1> QED
  BY <1>1, TailerInductive, PTL
=============================================================================
