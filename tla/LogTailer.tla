------------------------------ MODULE LogTailer ------------------------------
(***************************************************************************)
(* The PostgreSQL log source: discovery of the current file, one bounded   *)
(* read of it per cycle, and the commit of the position once the rows are  *)
(* stored (kronika-source-log: tailer.rs, collector.rs, state.rs, and      *)
(* pg_log_source.rs of the collector), beside a server that writes lines   *)
(* piecewise, switches to a new path, and files that are renamed,          *)
(* truncated in place or removed.                                          *)
(*                                                                         *)
(* A file is a sequence of cells, the unit of an offset: a cell is a piece *)
(* of the text of a numbered line, or its newline.  Binary and sparse      *)
(* content is left out.  The model begins behind the first commit.         *)
(***************************************************************************)
EXTENDS Naturals, Sequences, FiniteSetsExt

CONSTANTS
  MaxLineLen,      \* TailCaps::max_line_len
  MaxBytes,        \* max_bytes
  MaxBacklog,      \* max_backlog_bytes
  BacklogTail,     \* backlog_tail_bytes
  Rotations,       \* what happens to files
  MaxLines, MaxText, MaxFiles, MaxCuts, MaxFaults \* bounds

\* tailer.rs: 64 KiB, 1 MiB, 64 MiB and 1 MiB.
ASSUME CapsAssumption ==
  /\ {MaxLineLen, MaxBytes, MaxBacklog, BacklogTail} \subseteq Nat \ {0}
  /\ MaxLineLen < MaxBytes /\ BacklogTail <= MaxBacklog
ASSUME BoundsAssumption ==
  /\ {MaxLines, MaxText, MaxFiles, MaxCuts, MaxFaults} \subseteq Nat /\ MaxFiles # 0
  /\ Rotations \subseteq {"path", "rename", "truncate", "remove"}

VARIABLES
  \* the server and the file system
  file,      \* [inode -> its cells]
  epoch,     \* [inode -> how often it was truncated]
  name,      \* [path -> the inode there, or 0]
  current,   \* pg_current_logfile
  line,      \* the line being written
  \* LogCollector
  state,     \* the committed position
  source,    \* the path being read, or 0
  pending,   \* pending_rotation_bytes_skipped
  collection, \* the LogCollection under way, or None
  stored,    \* its rows are in the journal
  saved,     \* the state file
  \* bookkeeping
  delivered, \* lines that reached the journal, and how
  excused,   \* lines a gap row in the journal stands for
  dropped,   \* lines passed over with neither
  faults

disk == <<file, epoch, name, current, line>>
memory == <<state, source, pending, collection, stored>>
books == <<delivered, excused, dropped>>
vars == <<disk, memory, saved, books, faults>>

Inodes == 1..MaxFiles
Paths == 1..MaxFiles
None == [none |-> TRUE]
Idle == collection = None
Fault == faults < MaxFaults /\ faults' = faults + 1

-----------------------------------------------------------------------------
(* One read of a file f. *)

Cell(n, nl) == [line |-> n, nl |-> nl]
LinesOf(f) == {f[x].line : x \in {y \in DOMAIN f : f[y].nl}}
Newlines(f, a, b) == {x \in a+1..b : f[x].nl}

SameFile(st, i) == st.inode = i /\ Len(file[i]) >= st.offset
\* initial_offset
Resumes(st, p, i) ==
  IF st.path # p THEN [from |-> 0, skip |-> FALSE, rotated |-> TRUE]
  ELSE IF SameFile(st, i) THEN [from |-> st.offset, skip |-> st.skip, rotated |-> FALSE]
  ELSE [from |-> 0, skip |-> st.skip, rotated |-> TRUE]

\* apply_backlog_guard
SkipsAhead(f, r) == Len(f) - r.from > MaxBacklog
Guarded(f, r) ==
  IF SkipsAhead(f, r) THEN [at |-> Len(f) - BacklogTail, skip |-> TRUE]
  ELSE [at |-> r.from, skip |-> r.skip]

\* How far the loop may come; the line and the time budget stop it anywhere before.
Reach(f, c) == Min({Len(f), c.at + MaxBytes})

\* (broken) An unterminated line waits for its newline however long it grows.
NeverTooLong(n) == FALSE
TooLong(n) == n > MaxLineLen

\* What the loop makes of the cells c.at+1..k: the lines it pushes, and the
\* unterminated rest.
StillSkipping(f, c, k) == c.skip /\ Newlines(f, c.at, k) = {}
TextStart(f, c, k) ==
  IF ~c.skip THEN c.at
  ELSE IF StillSkipping(f, c, k) THEN k ELSE Min(Newlines(f, c.at, k))
LastEnd(f, c, k) == Max({TextStart(f, c, k)} \cup Newlines(f, c.at, k))
Kind(f, b, len) ==
  IF TooLong(len) THEN "truncated" ELSE IF b = 0 \/ f[b].nl THEN "whole" ELSE "fragment"
Pushed(f, c, k) ==
  LET s == TextStart(f, c, k)
      begin(e) == Max({s} \cup Newlines(f, s, e - 1))
      ends == {e \in Newlines(f, s, k) : e - 1 > begin(e)}
      rest == k - LastEnd(f, c, k)
  IN {[line |-> f[e].line, kind |-> Kind(f, begin(e), e - 1 - begin(e))] : e \in ends}
       \cup (IF TooLong(rest) THEN {[line |-> f[k].line, kind |-> "truncated"]} ELSE {})

\* (broken) The next read starts with a line wherever this one ended.
ForgetsSkip(f, c, k) == FALSE
SkipsOn(f, c, k) == StillSkipping(f, c, k) \/ TooLong(k - LastEnd(f, c, k))
\* (broken) Everything read counts as consumed.
AllRead(f, c, k) == k
\* resume_offset: an incomplete line is read again.
ResumeOffset(f, c, k) == IF SkipsOn(f, c, k) THEN k ELSE LastEnd(f, c, k)

\* next_state
Position(p, i, off, sk) ==
  [path |-> p, inode |-> i, offset |-> off, skip |-> sk, epoch |-> epoch[i]]

\* The lines that the gap rows of a read stand for: behind a rotation what was
\* left of the files before, what the backlog guard jumps over and the line it
\* lands in, and the first line of a new file when the old one was being skipped
\* (the flag is kept although the file is another).  A row is there only when the
\* read itself has met the rotation.
GapLines(st, i, r, c) ==
  LET f == file[i] IN
  (UNION {LinesOf(file[j]) : j \in IF r.rotated THEN st.inode..i-1 ELSE {}})
    \cup {f[x].line : x \in IF SkipsAhead(f, r) THEN r.from+1..c.at+1 ELSE {}}
    \cup {f[x].line : x \in IF r.rotated /\ r.skip THEN 1..Min({1, Len(f)}) ELSE {}}

\* A file that was still empty when its rotation was noticed has been committed
\* with the flag: its first line is passed over later, by a read without a row.
Unannounced(i, r) ==
  {file[i][x].line : x \in IF r.from = 0 /\ r.skip /\ ~r.rotated
                          THEN 1..Min({1, Len(file[i])}) ELSE {}}

-----------------------------------------------------------------------------
(* The server and the file system. *)

Start == Position(1, 1, 0, FALSE)
Init ==
  /\ file = [i \in Inodes |-> <<>>] /\ epoch = [i \in Inodes |-> 0]
  /\ name = [p \in Paths |-> IF p = 1 THEN 1 ELSE 0]
  /\ current = 1 /\ line = 1
  /\ state = Start /\ saved = Start /\ source = 1 /\ pending = 0
  /\ collection = None /\ stored = FALSE
  /\ delivered = {} /\ excused = {} /\ dropped = {} /\ faults = 0

Writing == name[current]
\* Cells of the unfinished line at the end of a file.
Unfinished(f) == Cardinality({x \in DOMAIN f : f[x].line = line})
Positions == {state, saved} \cup (IF Idle \/ collection.next = None THEN {} ELSE {collection.next})
\* A file truncated in place is looked at before it has grown past the offset:
\* the size is all the tailer can tell it by.
Noticed ==
  \A s \in Positions : s.inode = Writing /\ s.epoch # epoch[Writing] /\ s.offset > 0 =>
    Len(file[Writing]) + 1 < s.offset

Write ==
  /\ line <= MaxLines /\ Noticed
  /\ \/ /\ Unfinished(file[Writing]) < MaxText
        /\ file' = [file EXCEPT ![Writing] = Append(@, Cell(line, FALSE))] /\ UNCHANGED line
     \/ /\ Unfinished(file[Writing]) > 0
        /\ file' = [file EXCEPT ![Writing] = Append(@, Cell(line, TRUE))] /\ line' = line + 1
  /\ UNCHANGED <<epoch, name, current, memory, saved, books, faults>>

\* Files end with whole lines.
AtLineEnd == Unfinished(file[Writing]) = 0

RotatePath ==
  /\ "path" \in Rotations /\ AtLineEnd /\ Writing < MaxFiles
  /\ current' = current + 1 /\ name' = [name EXCEPT ![current + 1] = Writing + 1]
  /\ UNCHANGED <<file, epoch, line, memory, saved, books, faults>>
Rename ==
  /\ "rename" \in Rotations /\ AtLineEnd /\ Writing < MaxFiles
  /\ name' = [name EXCEPT ![current] = Writing + 1]
  /\ UNCHANGED <<file, epoch, current, line, memory, saved, books, faults>>
\* What is cut off nobody can read any more.
Truncate ==
  /\ "truncate" \in Rotations /\ AtLineEnd /\ file[Writing] # <<>>
  /\ epoch[Writing] < MaxCuts
  /\ excused' = excused \cup LinesOf(file[Writing])
  /\ file' = [file EXCEPT ![Writing] = <<>>] /\ epoch' = [epoch EXCEPT ![Writing] = @ + 1]
  /\ UNCHANGED <<name, current, line, memory, saved, delivered, dropped, faults>>
Remove ==
  /\ "remove" \in Rotations
  /\ \E p \in 1..current - 1 : name[p] # 0 /\ name' = [name EXCEPT ![p] = 0]
  /\ UNCHANGED <<file, epoch, current, line, memory, saved, books, faults>>

-----------------------------------------------------------------------------
(* collect_at. *)

\* pg_current_logfile names none, or one of a format that is not read.
LosesSource ==
  /\ Idle /\ source # 0 /\ source' = 0
  /\ UNCHANGED <<disk, state, pending, collection, stored, saved, books, faults>>

\* The source of this cycle and the one that follows it.
Reading(found) == IF source = 0 /\ found THEN current ELSE source
NextSource(found) == IF found /\ source \notin {0, current} THEN current ELSE 0

\* (broken) The measured tail is added to what an earlier switch left.
TailAdded(n) == pending + n
TailMeasured(n) == n

\* A read that ends at cell k.
ReadsTo(p, nxt, r, c, k) ==
  LET i == name[p]  f == file[i]  off == ResumeOffset(f, c, k) IN
  collection' =
    [next |-> Position(p, i, off, SkipsOn(f, c, k)), source |-> nxt,
     rotation |-> IF nxt # 0 THEN TailMeasured(Len(f) - off) ELSE 0,
     consumes |-> pending # 0,
     lines |-> Pushed(f, c, k), gaps |-> GapLines(state, i, r, c), drops |-> Unannounced(i, r)]

Collect(found, fully) ==
  LET p == Reading(found) IN
  /\ Idle /\ p # 0 /\ name[p] # 0
  /\ source' = p
  /\ LET r == Resumes(state, p, name[p])
         c == Guarded(file[name[p]], r)
         most == Reach(file[name[p]], c)
     IN \E k \in IF fully THEN {most} ELSE c.at..most : ReadsTo(p, NextSource(found), r, c, k)
  /\ stored' = FALSE
  /\ UNCHANGED <<disk, state, pending, saved, books, faults>>

\* The file is missing or cannot be read: a discovered path is still taken.
CollectNothing(found) ==
  LET p == Reading(found) IN
  /\ Idle /\ p # 0 /\ (IF name[p] = 0 THEN UNCHANGED faults ELSE Fault)
  /\ source' = p
  /\ collection' = [next |-> None, source |-> NextSource(found), rotation |-> pending,
                    consumes |-> FALSE, lines |-> {}, gaps |-> {}, drops |-> {}]
  /\ stored' = FALSE
  /\ UNCHANGED <<disk, state, pending, saved, books>>

-----------------------------------------------------------------------------
(* The rows are appended, then the position is committed. *)

Store ==
  /\ ~Idle /\ ~stored /\ stored' = TRUE
  /\ delivered' = delivered \cup collection.lines
  /\ excused' = excused \cup collection.gaps
  /\ dropped' = dropped \cup collection.drops
  /\ UNCHANGED <<disk, state, source, pending, collection, saved, faults>>
\* The append fails and the collection is dropped.
StoreFails ==
  /\ ~Idle /\ ~stored /\ Fault /\ collection' = None
  /\ UNCHANGED <<disk, state, source, pending, stored, saved, books>>

MayCommit == stored

\* commit
Commit ==
  /\ ~Idle /\ MayCommit
  /\ IF collection.next # None THEN state' = collection.next /\ saved' = collection.next
                               ELSE UNCHANGED <<state, saved>>
  /\ source' = IF collection.source # 0 THEN collection.source
               ELSE IF collection.next # None THEN collection.next.path ELSE source
  /\ pending' = IF collection.source # 0 THEN collection.rotation
                ELSE IF collection.consumes THEN 0 ELSE pending
  /\ collection' = None /\ stored' = FALSE
  /\ UNCHANGED <<disk, books, faults>>
\* The save fails, before or behind its rename: nothing in memory changes.
CommitFails ==
  /\ ~Idle /\ MayCommit /\ collection.next \notin {None, state} /\ Fault
  /\ saved' \in {saved, collection.next}
  /\ collection' = None /\ stored' = FALSE
  /\ UNCHANGED <<disk, state, source, pending, books>>

\* The process ends; LogCollector::new loads the state file.
Restart ==
  /\ Fault
  /\ state' = saved /\ source' = saved.path /\ pending' = 0
  /\ collection' = None /\ stored' = FALSE
  /\ UNCHANGED <<disk, saved, books>>

-----------------------------------------------------------------------------
CollectFully == Collect(TRUE, TRUE) \/ (name[Reading(TRUE)] = 0 /\ CollectNothing(TRUE))
Environment == Write \/ RotatePath \/ Rename \/ Truncate \/ Remove
Next ==
  \/ Environment
  \/ LosesSource \/ \E found \in BOOLEAN : Collect(found, FALSE) \/ CollectNothing(found)
  \/ Store \/ StoreFails \/ Commit \/ CommitFails \/ Restart

\* Cycles go on, discovery succeeds in some of them, and not every read is
\* stopped by its time budget.
Spec == Init /\ [][Next]_vars /\ SF_vars(CollectFully) /\ WF_vars(Store) /\ WF_vars(Commit)

-----------------------------------------------------------------------------
(* Properties. *)

Delivered == {d.line : d \in {e \in delivered : e.kind # "fragment"}}
Accounted == Delivered \cup excused

\* The complete lines a restart does not look at again.
PassedLines ==
  (UNION {LinesOf(file[i]) : i \in 1..saved.inode - 1})
    \cup {file[saved.inode][x].line : x \in IF saved.epoch = epoch[saved.inode]
                                             THEN Newlines(file[saved.inode], 0, saved.offset)
                                             ELSE {}}

\* Whatever a restart finds behind the saved position is in the journal or a
\* gap row in the journal stands for it: rotations, truncated files, cut
\* lines, failed appends, failed saves and restarts lose no complete line
\* silently, but for the first line of a file that was committed empty while
\* the end of a line was still awaited.
NoSilentLoss == PassedLines \subseteq Accounted \cup dropped

\* What the test repeated_copytruncate_never_loses_complete_lines says, with
\* nothing left out.
NeverLosesCompleteLines == PassedLines \subseteq Accounted

\* A line that is not marked as cut is delivered whole, however often its
\* reading was interrupted, repeated or resumed in the middle.
WholeLines == \A d \in delivered : d.kind # "fragment"

\* The bytes reported for a path switch are the unread rest of the file that
\* was left, also when a second switch or a missing file comes in between.
PendingIsTheTail ==
  pending # 0 =>
    /\ source # state.path
    /\ pending = Len(file[state.inode]) - state.offset

\* Once the server is quiet every complete line is delivered or accounted for
\* by a gap, long lines and lines of files that were left included, but for
\* those of NoSilentLoss.
EventuallyAccounted == <>[](1..line - 1 \subseteq Accounted \cup dropped)
=============================================================================
