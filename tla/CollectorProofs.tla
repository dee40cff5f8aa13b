--------------------------- MODULE CollectorProofs ---------------------------
(***************************************************************************)
(* Theorems about Collector for every value of its constants.  The         *)
(* inductive invariant CInv is proved layer by layer: Control and Open     *)
(* action by action; Kept, Identity and Position from what a step may do   *)
(* to the files, the segments, the window in hand and the position.        *)
(* RestartInv adds what restarts give back, ArchiveInv what the steps of   *)
(* Archive ask for, on the same step lemmas.                               *)
(***************************************************************************)
EXTENDS CollectorInvariant, SequenceTheorems, FiniteSetTheorems, TLAPS

USE FilesAssumption, CollectorBoundsAssumption
    DEF FilesAssumption, CollectorBoundsAssumption

-----------------------------------------------------------------------------
(* Contents of a journal. *)

LEMMA ContentTypes ==
  /\ Empty \in Contents /\ Empty.wins = <<>>
  /\ \A c \in Contents, i \in 0..MaxWindows, w \in Windows :
       /\ With(c, i, w) \in Contents /\ Damaged(c, i) \in Contents
       /\ Interrupted(c, i, w) \subseteq Contents
  /\ \A c \in Contents :
       /\ HeaderTorn(c) \subseteq Contents /\ HalfReset(c) \subseteq Contents
       /\ Verified(c) \in Seq(Windows)
<1>1. Empty \in Contents /\ Empty.wins = <<>>
  BY EmptySeq DEF Empty, Contents, None
<1>2. ASSUME NEW c \in Contents, NEW i \in 0..MaxWindows, NEW w \in Windows
      PROVE  /\ With(c, i, w) \in Contents /\ Damaged(c, i) \in Contents
             /\ Interrupted(c, i, w) \subseteq Contents
  <2>1. c.wins \in Seq(Windows) /\ Append(c.wins, w) \in Seq(Windows)
    BY AppendProperties DEF Contents
  <2>2. With(c, i, w) \in Contents
    BY <2>1 DEF With, Contents
  <2>3. \A d \in Contents : Damaged(d, i) \in Contents
    BY DEF Damaged, Contents
  <2> QED BY <2>2, <2>3 DEF Interrupted
<1>3. ASSUME NEW c \in Contents
      PROVE  /\ HeaderTorn(c) \subseteq Contents /\ HalfReset(c) \subseteq Contents
             /\ Verified(c) \in Seq(Windows)
  BY <1>1, EmptySeq DEF HeaderTorn, HalfReset, Verified, Contents, Damaged
<1> QED BY <1>1, <1>2, <1>3

LEMMA InSeq ==
  ASSUME NEW S, NEW s \in Seq(S)
  PROVE  /\ In(s) \subseteq S
         /\ \A k \in 1..Len(s) : s[k] \in In(s)
         /\ s = <<>> => In(s) = {}
         /\ \A e \in S : In(Append(s, e)) = In(s) \cup {e} /\ Append(s, e) # <<>>
<1>1. Len(s) \in Nat /\ DOMAIN s = 1..Len(s) /\ \A k \in 1..Len(s) : s[k] \in S
  BY LenProperties, ElementOfSeq
<1>2. ASSUME NEW e \in S PROVE In(Append(s, e)) = In(s) \cup {e} /\ Append(s, e) # <<>>
  <2>1. /\ Append(s, e) \in Seq(S) /\ Len(Append(s, e)) = Len(s) + 1
        /\ \A k \in 1..Len(s) : Append(s, e)[k] = s[k]
        /\ Append(s, e)[Len(s) + 1] = e
    BY AppendProperties
  <2>2. DOMAIN Append(s, e) = 1..Len(s) + 1
    BY <2>1, LenProperties
  <2> QED BY <1>1, <2>1, <2>2, EmptySeq DEF In
<1> QED BY <1>1, <1>2, EmptySeq DEF In

-----------------------------------------------------------------------------
(* Control: who holds what, action by action. *)

LEMMA Callers ==
  /\ \A t \in RunTasks : AfterFailedSeal(t) = "check"
  /\ AfterFailedSeal("recovery") = "rotate" /\ AfterReset("recovery") = "scan"
  /\ \A t \in EvidenceTasks : AfterFailedSeal(t) = "reset2" /\ AfterReset(t) = "settle"
  /\ AfterReset("run") = "commit" /\ AfterReset("early") = "append" /\ AfterReset("age") = "check"
BY DEF AfterFailedSeal, AfterReset, RunTasks, EvidenceTasks

\* The process is gone, whatever it left on disk.
LEMMA GoneControl ==
  ASSUME Control, Gone, DiskTypes', place' = place,
         acked' = acked, next' = next, pos' = pos
  PROVE  Control'
<1> USE DEF Gone, None, NoWin
<1>1. ProcessTypes'
  <2>1. pc' \in Pcs /\ win' \in Windows
    BY DEF Pcs, Windows
  <2>2. touched' \in BOOLEAN /\ published' \in BOOLEAN /\ poisoned' \in BOOLEAN
    OBVIOUS
  <2>3. first' \in 0..MaxWindows /\ mem' \in Nat /\ jf' \in Files \cup {None}
        /\ src' \in Files \cup {None} /\ todo' \subseteq Files
    OBVIOUS
  <2> QED BY <2>1, <2>2, <2>3 DEF Control, ProcessTypes
<1>2. TaskByPc' /\ HandleByPc'
  BY DEF TaskByPc, HandleByPc, Starting, Resets, EvidenceTasks
<1>3. FilesByPc'
  BY DEF Control, FilesByPc, EvidenceTasks
<1> QED BY <1>1, <1>2, <1>3 DEF Control

\* One file gets another content, or another place.
LEMMA FileChanged ==
  ASSUME DiskTypes, NEW f \in Files,
         NEW c \in Contents, content' = [content EXCEPT ![f] = c],
         UNCHANGED <<place, segs, unsynced>>
  PROVE  DiskTypes'
BY DEF DiskTypes

LEMMA FailedSealControl ==
  ASSUME Control, pc \in {"seal", "sync"}, SealFails, UNCHANGED next, DiskTypes'
  PROVE  Control'
<1> USE DEF None, NoWin, Resets, RunTasks, EvidenceTasks
<1>a. \/ task \in RunTasks /\ pc' = "check" /\ task' = "none" /\ jf' = jf
      \/ task = "recovery" /\ pc' = "rotate" /\ task' = "none" /\ jf' = None
      \/ task \in EvidenceTasks /\ pc' = "reset2" /\ task' = task /\ jf' = jf
  BY Callers DEF SealFails, Control, TaskByPc, ProcessTypes
<1> USE <1>a DEF SealFails, files, recovery, segment
<1>1. ProcessTypes'
  <2>1. win' \in Windows
    BY DEF Windows
  <2> QED BY <2>1 DEF Control, ProcessTypes, Pcs
<1>2. TaskByPc'
  BY DEF Control, TaskByPc
<1>3. FilesByPc'
  BY DEF Control, FilesByPc, TaskByPc
<1>4. HandleByPc'
  BY DEF Control, HandleByPc, TaskByPc, Starting
<1> QED BY <1>1, <1>2, <1>3, <1>4 DEF Control

LEMMA InitControl == Init => Control
<1> SUFFICES ASSUME Init PROVE Control
  OBVIOUS
<1> USE DEF Init, None
<1>1. DiskTypes
  <2>1. <<>> \in Seq(Windows)
    BY EmptySeq
  <2> QED BY <2>1, ContentTypes DEF DiskTypes, Places
<1>2. ProcessTypes
  <2>1. pc \in Pcs /\ win \in Windows
    BY DEF Pcs, NoWin, Windows
  <2>2. touched \in BOOLEAN /\ published \in BOOLEAN /\ poisoned \in BOOLEAN
    OBVIOUS
  <2>3. first \in 0..MaxWindows /\ next \in 0..MaxWindows /\ mem \in Nat /\ pos \in Nat
    OBVIOUS
  <2> QED BY <2>1, <2>2, <2>3 DEF ProcessTypes
<1>3. TaskByPc /\ FilesByPc /\ HandleByPc
  BY DEF TaskByPc, FilesByPc, HandleByPc, Starting, Resets, EvidenceTasks
<1> QED BY <1>1, <1>2, <1>3 DEF Control

\* The next frame of a replay, and its place in the file.
LEMMA NextReplayed ==
  ASSUME Control, Open, Replaying, ~ReplayEnds(Replayed)
  PROVE  /\ jf \in Files /\ src \in Files /\ jf # src
         /\ content[jf] \in Contents /\ content[src] \in Contents
         /\ ReplayId(src) \in Ids /\ NextWindow \in In(Verified(content[src]))
         /\ NextWindow \in Windows /\ CopyOf(content[jf], content[src])
         /\ Replayed + 1 \in 1..Len(Verified(content[src]))
         /\ NextWindow = Verified(content[src])[Replayed + 1]
<1>1. jf \in Files /\ src \in Files /\ content[jf] \in Contents /\ content[src] \in Contents
  BY DEF Replaying, Control, TaskByPc, FilesByPc, ProcessTypes, DiskTypes
<1>2. CopyOf(content[jf], content[src])
  BY DEF Replaying, Open, OpenHolds
<1>3. /\ Verified(content[src]) \in Seq(Windows) /\ content[jf].wins \in Seq(Windows)
      /\ Len(Verified(content[src])) \in Nat /\ Replayed \in Nat
  BY <1>1, ContentTypes, LenProperties DEF Contents, Replayed
<1>4. Replayed + 1 \in 1..Len(Verified(content[src]))
  BY <1>2, <1>3 DEF CopyOf, ReplayEnds, Replayed
<1>5. NextWindow \in In(Verified(content[src])) /\ NextWindow \in Windows
  BY <1>3, <1>4, InSeq DEF NextWindow
<1>6. content[src].wins # <<>>
  BY DEF Replaying, Verified
<1>7. ReplayId(src) \in Ids
  BY <1>1, <1>6 DEF Open, Identified, ReplayId
<1>8. jf # src
  BY <1>2, <1>3, <1>4, <1>6, EmptySeq DEF Open, OpenHolds, Replaying, Replayed, Control,
     FilesByPc, FilesAssumption, None
<1> QED BY <1>1, <1>2, <1>4, <1>5, <1>7, <1>8 DEF NextWindow

\* The window of an append, and its identity.
LEMMA Appended ==
  ASSUME Control, pc = "append"
  PROVE  jf \in Files /\ content[jf] \in Contents /\ AppendId \in 0..MaxWindows /\ win \in Windows
BY DEF AppendId, Windows, Control, FilesByPc, ProcessTypes, DiskTypes

\* A new generation is an empty file with a pending name.
LEMMA NewGenerationTypes ==
  ASSUME DiskTypes, NEW t, NEW p, NewGeneration(t, p)
  PROVE  DiskTypes'
<1>1. PICK f \in Files : /\ place' = [place EXCEPT ![f] = "pending"]
                         /\ content' = [content EXCEPT ![f] = Empty]
  BY DEF NewGeneration, Fresh
<1>2. UNCHANGED <<segs, unsynced>>
  BY DEF NewGeneration, segments
<1>3. Empty \in Contents /\ "pending" \in Places
  BY ContentTypes DEF Places
<1>4. content' \in [Files -> Contents] /\ place' \in [Files -> Places]
  BY <1>1, <1>3 DEF DiskTypes
<1> QED BY <1>2, <1>4 DEF DiskTypes

LEMMA RecoverControl == ASSUME CInv, Recover PROVE Control'
<1> USE DEF None, NoWin, Resets, RunTasks, EvidenceTasks, files, segments, recovery, segment,
   cycle, bounds
<1>a. Control
  BY DEF CInv
<1> USE <1>a
<1>1. CASE OpenFresh
  <2> USE <1>1 DEF OpenFresh, ActiveFile, Fresh
  <2>1. ProcessTypes'
    BY DEF Control, ProcessTypes, FilesByPc, Pcs
  <2>2. DiskTypes'
    BY ContentTypes DEF Control, DiskTypes, ProcessTypes, FilesByPc, Places
  <2>3. TaskByPc' /\ HandleByPc'
    BY DEF Control, TaskByPc, HandleByPc, FilesByPc, ProcessTypes, Starting
  <2>4. FilesByPc'
    BY ContentTypes DEF Control, FilesByPc, TaskByPc, ProcessTypes, DiskTypes
  <2> QED BY <2>1, <2>2, <2>3, <2>4 DEF Control
<1>2. CASE OpenExisting
  <2> USE <1>2 DEF OpenExisting, ActiveFile
  <2>1. ProcessTypes'
    BY DEF Control, ProcessTypes, FilesByPc, Pcs
  <2>2. DiskTypes'
    BY ContentTypes DEF Control, DiskTypes, ProcessTypes, FilesByPc, Places
  <2>3. TaskByPc' /\ HandleByPc'
    BY DEF Control, TaskByPc, HandleByPc, FilesByPc, ProcessTypes, Starting
  <2>4. FilesByPc'
    BY ContentTypes DEF Control, FilesByPc, TaskByPc, ProcessTypes, DiskTypes
  <2> QED BY <2>1, <2>2, <2>3, <2>4 DEF Control
<1>3. CASE OpenDamaged
  <2> USE <1>3 DEF OpenDamaged, ActiveFile
  <2>1. ProcessTypes'
    BY DEF Control, ProcessTypes, FilesByPc, Pcs
  <2>2. DiskTypes'
    BY ContentTypes DEF Control, DiskTypes, ProcessTypes, FilesByPc, Places
  <2>3. TaskByPc' /\ HandleByPc'
    BY DEF Control, TaskByPc, HandleByPc, FilesByPc, ProcessTypes, Starting
  <2>4. FilesByPc'
    BY ContentTypes DEF Control, FilesByPc, TaskByPc, ProcessTypes, DiskTypes
  <2> QED BY <2>1, <2>2, <2>3, <2>4 DEF Control
<1>4. CASE BeginRotation
  <2>2. DiskTypes'
    <3>1. NewGeneration("rotated", "activate")
      BY <1>4 DEF BeginRotation
    <3> QED BY <3>1, NewGenerationTypes DEF Control
  <2> USE <1>4 DEF BeginRotation, NewGeneration, ActiveFile, Fresh
  <2>1. ProcessTypes'
    BY DEF Control, ProcessTypes, TaskByPc, FilesByPc, Pcs
  <2>3. TaskByPc' /\ HandleByPc'
    BY DEF Control, TaskByPc, FilesByPc, HandleByPc, ProcessTypes, Starting, Pcs
  <2>4. FilesByPc'
    BY DEF Control, FilesByPc, TaskByPc, ProcessTypes, DiskTypes, Places
  <2> QED BY <2>1, <2>2, <2>3, <2>4 DEF Control
<1>5. CASE BeginFails
  <2>2. DiskTypes'
    <3>1. NewGeneration("retained", "evidence")
      BY <1>5 DEF BeginFails
    <3> QED BY <3>1, NewGenerationTypes DEF Control
  <2> USE <1>5 DEF BeginFails, NewGeneration, ActiveFile, Fresh, Fault
  <2>1. ProcessTypes'
    BY DEF Control, ProcessTypes, TaskByPc, FilesByPc, Pcs
  <2>3. TaskByPc' /\ HandleByPc'
    BY DEF Control, TaskByPc, FilesByPc, HandleByPc, ProcessTypes, Starting, Pcs
  <2>4. FilesByPc'
    BY DEF Control, FilesByPc, TaskByPc, ProcessTypes, DiskTypes, Places
  <2> QED BY <2>1, <2>2, <2>3, <2>4 DEF Control
<1>6. CASE Exchange
  <2> USE <1>6 DEF Exchange, RotationStep
  <2>1. ProcessTypes'
    BY DEF Control, ProcessTypes, TaskByPc, FilesByPc, Pcs
  <2>2. DiskTypes'
    BY DEF Control, DiskTypes, ProcessTypes, Places
  <2>3. TaskByPc' /\ HandleByPc'
    BY DEF Control, TaskByPc, FilesByPc, HandleByPc, ProcessTypes, Starting, Pcs
  <2>4. FilesByPc'
    BY DEF Control, FilesByPc, TaskByPc, ProcessTypes, DiskTypes, Places
  <2> QED BY <2>1, <2>2, <2>3, <2>4 DEF Control
<1>7. CASE MoveAside
  <2> USE <1>7 DEF MoveAside, RotationStep, Fault
  <2>1. ProcessTypes'
    BY DEF Control, ProcessTypes, FilesByPc, Pcs
  <2>2. DiskTypes'
    BY ContentTypes DEF Control, DiskTypes, ProcessTypes, FilesByPc, Places
  <2>3. TaskByPc' /\ HandleByPc'
    BY DEF Control, TaskByPc, HandleByPc, FilesByPc, ProcessTypes, Starting
  <2>4. FilesByPc'
    <3>1. src \in Files /\ place[src] = "active" /\ task = "rotated"
      BY DEF Control, FilesByPc, TaskByPc, ProcessTypes, None, EvidenceTasks
    <3>2. \A f \in Files : place'[f] = IF f = src THEN "pending" ELSE place[f]
      BY DEF Control, DiskTypes
    <3>3. /\ pc' = "promote" /\ content' = content /\ todo' = todo /\ task' = task
          /\ jf' = jf /\ src' = src
      BY DEF recovery, files
    <3> QED BY <3>1, <3>2, <3>3 DEF Control, FilesByPc, ProcessTypes
  <2> QED BY <2>1, <2>2, <2>3, <2>4 DEF Control
<1>8. CASE Promote
  <2> USE <1>8 DEF Promote, RotationStep
  <2>1. ProcessTypes'
    BY DEF Control, ProcessTypes, FilesByPc, Pcs
  <2>2. DiskTypes'
    BY ContentTypes DEF Control, DiskTypes, ProcessTypes, FilesByPc, Places
  <2>3. TaskByPc' /\ HandleByPc'
    BY DEF Control, TaskByPc, HandleByPc, FilesByPc, ProcessTypes, Starting
  <2>4. FilesByPc'
    BY ContentTypes DEF Control, FilesByPc, TaskByPc, ProcessTypes, DiskTypes
  <2> QED BY <2>1, <2>2, <2>3, <2>4 DEF Control
<1>9. CASE KeepAlternate
  <2> USE <1>9 DEF KeepAlternate, RotationStep, Fault
  <2>1. ProcessTypes'
    BY DEF Control, ProcessTypes, FilesByPc, Pcs
  <2>2. DiskTypes'
    BY ContentTypes DEF Control, DiskTypes, ProcessTypes, FilesByPc, Places
  <2>3. TaskByPc' /\ HandleByPc'
    BY DEF Control, TaskByPc, HandleByPc, FilesByPc, ProcessTypes, Starting
  <2>4. FilesByPc'
    BY ContentTypes DEF Control, FilesByPc, TaskByPc, ProcessTypes, DiskTypes
  <2> QED BY <2>1, <2>2, <2>3, <2>4 DEF Control
<1>10. CASE Replay
  <2>a. Replaying /\ ~ReplayEnds(Replayed) /\ Evidence("evidence") /\ touched' = TRUE
        /\ content' = [content EXCEPT ![jf] = With(content[jf], ReplayId(src), NextWindow)]
        /\ UNCHANGED <<poisoned, bounds>>
    BY <1>10 DEF Replay
  <2>2. DiskTypes'
    <3>1. With(content[jf], ReplayId(src), NextWindow) \in Contents
      <4>1. content[jf] \in Contents /\ ReplayId(src) \in Ids /\ NextWindow \in Windows
        BY <2>a, NextReplayed DEF CInv
      <4>2. ReplayId(src) \in 0..MaxWindows
        BY <4>1 DEF Ids
      <4> QED BY <4>1, <4>2, ContentTypes
    <3> QED BY <2>a, <3>1, FileChanged, NextReplayed DEF Evidence, Control, CInv
  <2> USE <2>a DEF Replaying, Evidence
  <2>1. ProcessTypes'
    BY DEF Control, ProcessTypes, TaskByPc, FilesByPc, Pcs
  <2>3. TaskByPc' /\ HandleByPc'
    BY DEF Control, TaskByPc, FilesByPc, HandleByPc, ProcessTypes, Starting, Pcs
  <2>4. FilesByPc'
    BY DEF Control, FilesByPc, TaskByPc, ProcessTypes, DiskTypes, Places
  <2> QED BY <2>1, <2>2, <2>3, <2>4 DEF Control
<1>11. CASE ReplayDone
  <2> USE <1>11 DEF ReplayDone, Replaying, Evidence
  <2>1. ProcessTypes'
    BY DEF Control, ProcessTypes, Pcs
  <2>2. DiskTypes' /\ TaskByPc' /\ HandleByPc'
    BY DEF Control, DiskTypes, TaskByPc, HandleByPc, Starting
  <2>3. FilesByPc'
    BY DEF Control, FilesByPc
  <2> QED BY <2>1, <2>2, <2>3 DEF Control
<1>12. CASE ReplayNothing
  <2> USE <1>12 DEF ReplayNothing, Replaying, Evidence
  <2>1. ProcessTypes'
    BY DEF Control, ProcessTypes, TaskByPc, FilesByPc, Pcs
  <2>2. DiskTypes'
    BY ContentTypes DEF Control, DiskTypes, ProcessTypes, Places
  <2>3. TaskByPc' /\ HandleByPc'
    BY DEF Control, TaskByPc, FilesByPc, HandleByPc, ProcessTypes, Starting, Pcs
  <2>4. FilesByPc'
    BY DEF Control, FilesByPc, TaskByPc, ProcessTypes, DiskTypes, Places
  <2> QED BY <2>1, <2>2, <2>3, <2>4 DEF Control
<1>13. CASE ReplayRolledBack
  <2> USE <1>13 DEF ReplayRolledBack, Replaying, Evidence, Fault
  <2>1. ProcessTypes'
    BY DEF Control, ProcessTypes, TaskByPc, FilesByPc, Pcs
  <2>2. DiskTypes'
    BY DEF Control, DiskTypes, ProcessTypes, Places
  <2>3. TaskByPc' /\ HandleByPc'
    BY DEF Control, TaskByPc, FilesByPc, HandleByPc, ProcessTypes, Starting, Pcs
  <2>4. FilesByPc'
    BY DEF Control, FilesByPc, TaskByPc, ProcessTypes, DiskTypes, Places
  <2> QED BY <2>1, <2>2, <2>3, <2>4 DEF Control
<1>14. CASE ReplayPoisons
  <2>a. PICK c \in Interrupted(content[jf], ReplayId(src), NextWindow) :
          content' = [content EXCEPT ![jf] = c]
    BY <1>14 DEF ReplayPoisons
  <2>b. Replaying /\ ~ReplayEnds(Replayed) /\ UNCHANGED <<place, segs, unsynced, pos, acked, next>>
    BY <1>14 DEF ReplayPoisons, Fault, Evidence
  <2>2. DiskTypes'
    <3>1. c \in Contents
      <4>1. content[jf] \in Contents /\ ReplayId(src) \in Ids /\ NextWindow \in Windows
        BY <2>b, NextReplayed DEF CInv
      <4>2. ReplayId(src) \in 0..MaxWindows
        BY <4>1 DEF Ids
      <4>3. Interrupted(content[jf], ReplayId(src), NextWindow) \subseteq Contents
        BY <4>1, <4>2, ContentTypes
      <4> QED BY <4>3
    <3> QED BY <2>a, <2>b, <3>1, FileChanged, NextReplayed DEF Control, CInv
  <2>3. CASE Gone
    BY <2>b, <2>2, <2>3, GoneControl
  <2>4. CASE ~Gone
    <3> USE <2>a, <2>b, <2>2, <2>4, <1>14 DEF ReplayPoisons, Replaying, Evidence, Fault
    <3>1. ProcessTypes'
      BY DEF Control, ProcessTypes, TaskByPc, FilesByPc, Pcs
    <3>2. TaskByPc' /\ HandleByPc'
      BY DEF Control, TaskByPc, FilesByPc, HandleByPc, ProcessTypes, Starting, Pcs
    <3>3. FilesByPc'
      BY DEF Control, FilesByPc, TaskByPc, ProcessTypes, DiskTypes, Places
    <3> QED BY <3>1, <3>2, <3>3 DEF Control
  <2> QED BY <2>3, <2>4
<1>15. CASE InspectFails
  <2> USE <1>15 DEF InspectFails, Evidence, Fault
  <2>1. ProcessTypes'
    BY DEF Control, ProcessTypes, FilesByPc, Pcs
  <2>2. DiskTypes'
    BY ContentTypes DEF Control, DiskTypes, ProcessTypes, FilesByPc, Places
  <2>3. TaskByPc' /\ HandleByPc'
    BY DEF Control, TaskByPc, HandleByPc, FilesByPc, ProcessTypes, Starting
  <2>4. FilesByPc'
    BY ContentTypes DEF Control, FilesByPc, TaskByPc, ProcessTypes, DiskTypes
  <2> QED BY <2>1, <2>2, <2>3, <2>4 DEF Control
<1>16. CASE Settle
  <2> USE <1>16 DEF Settle, Fault
  <2>1. ProcessTypes'
    BY DEF Control, ProcessTypes, TaskByPc, FilesByPc, Pcs
  <2>2. DiskTypes'
    BY ContentTypes DEF Control, DiskTypes, ProcessTypes, Places
  <2>3. TaskByPc' /\ HandleByPc'
    BY DEF Control, TaskByPc, FilesByPc, HandleByPc, ProcessTypes, Starting, Pcs
  <2>4. FilesByPc'
    BY DEF Control, FilesByPc, TaskByPc, ProcessTypes, DiskTypes, Places
  <2> QED BY <2>1, <2>2, <2>3, <2>4 DEF Control
<1>17. CASE Scan
  <2> USE <1>17 DEF Scan, PendingRootEntries
  <2>1. ProcessTypes'
    BY DEF Control, ProcessTypes, TaskByPc, FilesByPc, Pcs
  <2>2. DiskTypes'
    BY ContentTypes DEF Control, DiskTypes, ProcessTypes, Places
  <2>3. TaskByPc' /\ HandleByPc'
    BY DEF Control, TaskByPc, FilesByPc, HandleByPc, ProcessTypes, Starting, Pcs
  <2>4. FilesByPc'
    BY DEF Control, FilesByPc, TaskByPc, ProcessTypes, DiskTypes, Places
  <2> QED BY <2>1, <2>2, <2>3, <2>4 DEF Control
<1>18. CASE NextPending
  <2>a. \/ src' \in todo /\ pc' = "evidence" /\ task' = "pending" /\ todo' = todo
        \/ UNCHANGED <<src, task, pc>> /\ todo' \subseteq todo
    BY <1>18 DEF NextPending
  <2>b. pc = "pending" /\ UNCHANGED <<files, segments, pos, jf, touched, segment, poisoned, cycle, acked, next>>
    BY <1>18 DEF NextPending, Fault
  <2> USE <2>a, <2>b
  <2>1. ProcessTypes'
    BY DEF Control, ProcessTypes, TaskByPc, FilesByPc, Pcs
  <2>2. DiskTypes'
    BY DEF Control, DiskTypes
  <2>3. TaskByPc' /\ HandleByPc'
    BY DEF Control, TaskByPc, FilesByPc, HandleByPc, ProcessTypes, Starting, Pcs
  <2>4. FilesByPc'
    <3>1. CASE UNCHANGED <<src, task, pc>> /\ todo' \subseteq todo
      BY <3>1 DEF Control, FilesByPc
    <3>2. CASE src' \in todo /\ pc' = "evidence" /\ task' = "pending" /\ todo' = todo
      <4>1. src' \in Files /\ src' # None /\ place[src'] # "none" /\ jf # None
        BY <3>2 DEF Control, FilesByPc, ProcessTypes
      <4> QED BY <3>2, <4>1 DEF Control, FilesByPc
    <3> QED BY <3>1, <3>2
  <2> QED BY <2>1, <2>2, <2>3, <2>4 DEF Control
<1>19. CASE Ready
  <2> USE <1>19 DEF Ready
  <2>1. ProcessTypes'
    BY DEF Control, ProcessTypes, TaskByPc, FilesByPc, Pcs
  <2>2. DiskTypes'
    BY ContentTypes DEF Control, DiskTypes, ProcessTypes, Places
  <2>3. TaskByPc' /\ HandleByPc'
    BY DEF Control, TaskByPc, FilesByPc, HandleByPc, ProcessTypes, Starting, Pcs
  <2>4. FilesByPc'
    BY DEF Control, FilesByPc, TaskByPc, ProcessTypes, DiskTypes, Places
  <2> QED BY <2>1, <2>2, <2>3, <2>4 DEF Control
<1> QED BY <1>1, <1>2, <1>3, <1>4, <1>5, <1>6, <1>7, <1>8, <1>9, <1>10, <1>11, <1>12, <1>13,
   <1>14, <1>15, <1>16, <1>17, <1>18, <1>19 DEF Recover

\* A seal or a reset works on an identified content.
LEMMA Sealed ==
  ASSUME Control, Open, Sealing
  PROVE  jf \in Files /\ content[jf] \in Contents /\ content[jf].id \in Ids /\ content[jf].wins \in Seq(Windows)
<1>1. jf \in Files /\ content[jf] \in Contents
  BY DEF Sealing, Resets, Control, FilesByPc, ProcessTypes, DiskTypes
<1> QED BY <1>1 DEF Open, OpenHolds, Identified, Contents

LEMMA SealControl == ASSUME CInv, Seal PROVE Control'
<1> USE DEF None, NoWin, Resets, RunTasks, EvidenceTasks, files, segments, recovery, segment,
   cycle, bounds
<1>a. Control
  BY DEF CInv
<1> USE <1>a
<1>1. CASE Link
  <2>a. content[jf].id \in Ids /\ content[jf].wins \in Seq(Windows)
    BY <1>1, Sealed DEF Link, Sealing, CInv
  <2> USE <1>1 DEF Link
  <2>1. ProcessTypes'
    BY DEF Control, ProcessTypes, TaskByPc, FilesByPc, Pcs
  <2>2. DiskTypes'
    BY <2>a DEF Control, DiskTypes
  <2>3. TaskByPc' /\ HandleByPc'
    BY DEF Control, TaskByPc, FilesByPc, HandleByPc, ProcessTypes, Starting, Pcs
  <2>4. FilesByPc'
    BY DEF Control, FilesByPc, TaskByPc, ProcessTypes, DiskTypes, Places
  <2> QED BY <2>1, <2>2, <2>3, <2>4 DEF Control
<1>2. CASE AlreadyLinked
  <2> USE <1>2 DEF AlreadyLinked
  <2>1. ProcessTypes'
    BY DEF Control, ProcessTypes, TaskByPc, FilesByPc, Pcs
  <2>2. DiskTypes'
    BY ContentTypes DEF Control, DiskTypes, ProcessTypes, Places
  <2>3. TaskByPc' /\ HandleByPc'
    BY DEF Control, TaskByPc, FilesByPc, HandleByPc, ProcessTypes, Starting, Pcs
  <2>4. FilesByPc'
    BY DEF Control, FilesByPc, TaskByPc, ProcessTypes, DiskTypes, Places
  <2> QED BY <2>1, <2>2, <2>3, <2>4 DEF Control
<1>3. CASE LinkedByAnother
  <2>1. DiskTypes'
    BY <1>3 DEF LinkedByAnother, SealFails, Control, DiskTypes
  <2>2. SealFails /\ UNCHANGED next
    BY <1>3 DEF LinkedByAnother, Fault
  <2> QED BY <1>3, <2>1, <2>2, FailedSealControl DEF LinkedByAnother
<1>4. CASE TemporaryFails
  <2>1. DiskTypes'
    BY <1>4 DEF TemporaryFails, SealFails, Control, DiskTypes
  <2>2. SealFails /\ UNCHANGED next
    BY <1>4 DEF TemporaryFails, Fault
  <2> QED BY <1>4, <2>1, <2>2, FailedSealControl DEF TemporaryFails
<1>5. CASE SyncDay
  <2> USE <1>5 DEF SyncDay, DaySynced, PublicationNoted
  <2>1. ProcessTypes'
    BY DEF Control, ProcessTypes, Pcs
  <2>2. DiskTypes' /\ TaskByPc'
    BY DEF Control, DiskTypes, TaskByPc
  <2>3. HandleByPc'
    BY DEF Control, HandleByPc, TaskByPc, Starting
  <2>4. FilesByPc'
    BY DEF Control, FilesByPc
  <2> QED BY <2>1, <2>2, <2>3, <2>4 DEF Control
<1>6. CASE PublishFails
  <2>1. DiskTypes'
    BY <1>6 DEF PublishFails, SealFails, DaySynced, Control, DiskTypes
  <2>2. SealFails /\ UNCHANGED next
    BY <1>6 DEF PublishFails, Fault
  <2> QED BY <1>6, <2>1, <2>2, FailedSealControl DEF PublishFails
<1>7. CASE Reset
  <2>a. \/ task \in EvidenceTasks /\ pc' = "settle" /\ task' = task
        \/ task = "recovery" /\ pc' = "scan" /\ task' = "none"
        \/ task \in RunTasks /\ pc' \in {"commit", "append", "check"} /\ task' = "none"
    BY <1>7, Callers DEF Reset, Control, TaskByPc, ProcessTypes
  <2>b. jf \in Files
    BY <1>7 DEF Reset, Control, FilesByPc, ProcessTypes
  <2>c. content' = [content EXCEPT ![jf] = Empty] /\ first' = None /\ published' = FALSE
        /\ UNCHANGED <<place, segments, pos, jf, recovery, poisoned, cycle, acked, next>>
    BY <1>7 DEF Reset, StateCleared
  <2> USE <2>a, <2>b, <2>c
  <2>1. ProcessTypes'
    <3>1. first' \in 0..MaxWindows
      OBVIOUS
    <3> QED BY <3>1 DEF Control, ProcessTypes, Pcs
  <2>2. DiskTypes'
    BY ContentTypes, FileChanged DEF Control
  <2>3. TaskByPc' /\ HandleByPc'
    BY <1>7 DEF Reset, Control, TaskByPc, HandleByPc, Starting
  <2>4. FilesByPc'
    BY <1>7 DEF Reset, Control, FilesByPc, TaskByPc, ProcessTypes
  <2> QED BY <2>1, <2>2, <2>3, <2>4 DEF Control
<1>8. CASE ResetFails
  <2>a. PICK c \in HalfReset(content[jf]) : content' = [content EXCEPT ![jf] = c]
    BY <1>8 DEF ResetFails
  <2>b. pc \in Resets /\ UNCHANGED <<place, segments, pos, acked, next>>
    BY <1>8 DEF ResetFails, Fault
  <2>2. DiskTypes'
    <3>1. jf \in Files /\ c \in Contents
      BY <2>b, Sealed, ContentTypes DEF Sealing, CInv
    <3> QED BY <2>a, <2>b, <3>1, FileChanged DEF Control
  <2>3. CASE Gone
    BY <2>b, <2>2, <2>3, GoneControl
  <2>4. CASE task = "recovery" /\ pc' = "rotate" /\ task' = "none" /\ jf' = None
             /\ UNCHANGED <<recovery, segment, poisoned, cycle>>
    <3> USE <2>b, <2>2, <2>4
    <3>1. ProcessTypes'
      BY DEF Control, ProcessTypes, Pcs
    <3>2. TaskByPc' /\ HandleByPc'
      BY DEF Control, TaskByPc, HandleByPc, Starting
    <3>3. FilesByPc'
      BY DEF Control, FilesByPc, TaskByPc
    <3> QED BY <3>1, <3>2, <3>3 DEF Control
  <2>5. CASE task \in EvidenceTasks /\ pc' \in {"reset2", "reset3"}
             /\ UNCHANGED <<task, jf, recovery, segment, poisoned, cycle>>
    <3> USE <2>b, <2>2, <2>5
    <3>1. ProcessTypes'
      BY DEF Control, ProcessTypes, Pcs
    <3>2. TaskByPc' /\ HandleByPc'
      BY DEF Control, TaskByPc, HandleByPc, Starting
    <3>3. FilesByPc'
      BY DEF Control, FilesByPc, TaskByPc
    <3> QED BY <3>1, <3>2, <3>3 DEF Control
  <2>6. CASE task \in RunTasks /\ pc' = "check" /\ task' = "none" /\ win' = NoWin
             /\ poisoned' \in BOOLEAN /\ UNCHANGED <<jf, recovery, segment, mem>>
    <3> USE <2>b, <2>2, <2>6
    <3>1. ProcessTypes'
      <4>1. win' \in Windows
        BY DEF Windows
      <4> QED BY <4>1 DEF Control, ProcessTypes, Pcs
    <3>2. TaskByPc' /\ HandleByPc'
      BY DEF Control, TaskByPc, HandleByPc, Starting
    <3>3. FilesByPc'
      BY DEF Control, FilesByPc, TaskByPc
    <3> QED BY <3>1, <3>2, <3>3 DEF Control
  <2> QED BY <1>8, <2>3, <2>4, <2>5, <2>6 DEF ResetFails
<1> QED BY <1>1, <1>2, <1>3, <1>4, <1>5, <1>6, <1>7, <1>8 DEF Seal

LEMMA CycleControl == ASSUME CInv, Cycle PROVE Control'
<1> USE DEF None, NoWin, Resets, RunTasks, EvidenceTasks, files, segments, recovery, segment,
   cycle, bounds
<1>a. Control
  BY DEF CInv
<1> USE <1>a
<1>1. CASE EarlySeal
  <2> USE <1>1 DEF EarlySeal, Refused, Full
  <2>1. ProcessTypes'
    BY DEF Control, ProcessTypes, FilesByPc, Pcs
  <2>2. DiskTypes'
    BY ContentTypes DEF Control, DiskTypes, ProcessTypes, FilesByPc, Places
  <2>3. TaskByPc' /\ HandleByPc'
    BY DEF Control, TaskByPc, HandleByPc, FilesByPc, ProcessTypes, Starting
  <2>4. FilesByPc'
    BY ContentTypes DEF Control, FilesByPc, TaskByPc, ProcessTypes, DiskTypes
  <2> QED BY <2>1, <2>2, <2>3, <2>4 DEF Control
<1>2. CASE AppendWindow
  <2>a. /\ jf \in Files /\ content[jf] \in Contents /\ AppendId \in 0..MaxWindows /\ win \in Windows
        /\ pc = "append" /\ ~Refused
    BY <1>2, Appended DEF AppendWindow
  <2>b. content' = [content EXCEPT ![jf] = With(content[jf], AppendId, win)]
        /\ acked' = acked \cup {win} /\ first' = AppendId
        /\ \/ pc' = "seal" /\ task' = "run"
           \/ pc' = "commit" /\ task' = task
        /\ UNCHANGED <<place, segments, pos, jf, recovery, published, poisoned, cycle, bounds>>
    BY <1>2 DEF AppendWindow
  <2> USE <2>a, <2>b
  <2>1. ProcessTypes'
    BY DEF Control, ProcessTypes, TaskByPc, FilesByPc, Pcs
  <2>2. DiskTypes'
    BY ContentTypes, FileChanged DEF Control
  <2>3. TaskByPc' /\ HandleByPc'
    BY DEF Control, TaskByPc, FilesByPc, HandleByPc, ProcessTypes, Starting, Pcs, Refused
  <2>4. FilesByPc'
    BY DEF Control, FilesByPc, TaskByPc
  <2> QED BY <2>1, <2>2, <2>3, <2>4 DEF Control
<1>3. CASE AppendFails
  <2>a. /\ jf \in Files /\ content[jf] \in Contents /\ AppendId \in 0..MaxWindows /\ win \in Windows
        /\ pc = "append"
    BY <1>3, Appended DEF AppendFails
  <2>b. /\ \/ content' = content
           \/ \E c \in Interrupted(content[jf], AppendId, win) : content' = [content EXCEPT ![jf] = c]
        /\ poisoned' \in {poisoned, TRUE} /\ pc' = "check" /\ win' = NoWin
        /\ UNCHANGED <<place, segments, pos, task, jf, recovery, segment, mem, acked, next>>
    BY <1>3 DEF AppendFails, Fault
  <2> USE <2>a, <2>b
  <2>1. ProcessTypes'
    <3>1. win' \in Windows
      BY DEF Windows
    <3> QED BY <3>1 DEF Control, ProcessTypes, Pcs
  <2>2. DiskTypes'
    <3>1. CASE content' = content
      BY <3>1 DEF Control, DiskTypes
    <3>2. ASSUME NEW c \in Interrupted(content[jf], AppendId, win), content' = [content EXCEPT ![jf] = c]
          PROVE  DiskTypes'
      BY <3>2, ContentTypes, FileChanged DEF Control
    <3> QED BY <3>1, <3>2
  <2>3. TaskByPc' /\ HandleByPc'
    BY DEF Control, TaskByPc, FilesByPc, HandleByPc, ProcessTypes, Starting, Pcs
  <2>4. FilesByPc'
    BY DEF Control, FilesByPc, TaskByPc
  <2> QED BY <2>1, <2>2, <2>3, <2>4 DEF Control
<1>4. CASE Commit
  <2>a. pos' \in Nat /\ mem' \in Nat /\ win' \in Windows
    BY <1>4 DEF Commit, PositionOfBatch, Windows, Control, ProcessTypes
  <2>b. pc = "commit" /\ pc' = "check"
        /\ UNCHANGED <<files, segments, task, jf, recovery, segment, poisoned, acked, next>>
    BY <1>4 DEF Commit, Fault
  <2> USE <2>a, <2>b
  <2>1. ProcessTypes'
    BY DEF Control, ProcessTypes, TaskByPc, FilesByPc, Pcs
  <2>2. DiskTypes'
    BY DEF Control, DiskTypes
  <2>3. TaskByPc' /\ HandleByPc'
    BY DEF Control, TaskByPc, FilesByPc, HandleByPc, ProcessTypes, Starting, Pcs
  <2>4. FilesByPc'
    BY DEF Control, FilesByPc, TaskByPc, ProcessTypes, DiskTypes, Places
  <2> QED BY <2>1, <2>2, <2>3, <2>4 DEF Control
<1>5. CASE Check
  <2>1. CASE Gone
    <3>1. DiskTypes' /\ UNCHANGED <<place, acked, next, pos>>
      BY <1>5 DEF Check, Control, DiskTypes
    <3> QED BY <2>1, <3>1, GoneControl
  <2>2. CASE ~published /\ ~poisoned /\ pc = "check" /\ pc' = "tick"
             /\ UNCHANGED <<files, segments, pos, task, jf, recovery, segment, poisoned, cycle, acked, bounds>>
    <3> USE <2>2
    <3>1. ProcessTypes' /\ DiskTypes'
      BY DEF Control, ProcessTypes, DiskTypes, Pcs
    <3>2. TaskByPc' /\ HandleByPc'
      BY DEF Control, TaskByPc, HandleByPc, Starting
    <3>3. FilesByPc'
      BY DEF Control, FilesByPc, TaskByPc
    <3> QED BY <3>1, <3>2, <3>3 DEF Control
  <2> QED BY <1>5, <2>1, <2>2 DEF Check
<1> QED BY <1>1, <1>2, <1>3, <1>4, <1>5 DEF Cycle

\* A call in flight leaves a content.
LEMMA InFlightTypes ==
  ASSUME Control, Open, jf # None, NEW torn \in SUBSET Contents
  PROVE  jf \in Files /\ InFlight(torn) \subseteq Contents
<1>1. jf \in Files /\ content[jf] \in Contents
  BY DEF Control, ProcessTypes, DiskTypes
<1>2. CASE pc = "append" /\ ~Refused /\ ~Full
  <2>1. InFlight(torn) = Interrupted(content[jf], AppendId, win) \cup torn
    BY <1>2 DEF InFlight, Replaying, Resets
  <2> QED BY <1>1, <1>2, <2>1, Appended, ContentTypes
<1>3. CASE ~(pc = "append" /\ ~Refused /\ ~Full) /\ Replaying /\ ~ReplayEnds(Replayed)
  <2>1. InFlight(torn) = Interrupted(content[jf], ReplayId(src), NextWindow) \cup torn
    BY <1>3 DEF InFlight, Replaying, Resets
  <2>2. ReplayId(src) \in 0..MaxWindows /\ NextWindow \in Windows
    BY <1>3, NextReplayed DEF Ids
  <2> QED BY <1>1, <2>1, <2>2, ContentTypes
<1>4. CASE ~(pc = "append" /\ ~Refused /\ ~Full) /\ ~(Replaying /\ ~ReplayEnds(Replayed)) /\ pc \in Resets
  <2>1. InFlight(torn) = HalfReset(content[jf])
    BY <1>4 DEF InFlight
  <2> QED BY <1>1, <2>1, ContentTypes
<1>5. CASE ~(pc = "append" /\ ~Refused /\ ~Full) /\ ~(Replaying /\ ~ReplayEnds(Replayed)) /\ pc \notin Resets
  <2>1. InFlight(torn) = {content[jf]}
    BY <1>5 DEF InFlight
  <2> QED BY <1>1, <2>1
<1> QED BY <1>1, <1>2, <1>3, <1>4, <1>5

LEMMA DiesControl ==
  ASSUME CInv, NEW torn \in SUBSET Contents, Dies(torn),
         segs' \in [Ids -> Seq(Windows)], unsynced' \subseteq Ids
  PROVE  Control'
<1>1. content' \in [Files -> Contents]
  <2>1. CASE jf = None
    BY <2>1 DEF Dies, CInv, Control, DiskTypes
  <2>2. CASE jf # None
    <3>1. PICK c \in InFlight(torn) : content' = [content EXCEPT ![jf] = c]
      BY <2>2 DEF Dies
    <3>2. jf \in Files /\ c \in Contents
      BY <2>2, InFlightTypes DEF CInv
    <3> QED BY <3>1, <3>2 DEF CInv, Control, DiskTypes
  <2> QED BY <2>1, <2>2
<1>2. Gone /\ UNCHANGED <<place, pos, acked, next>>
  BY DEF Dies
<1>3. DiskTypes'
  BY <1>1, <1>2 DEF DiskTypes, CInv, Control
<1> QED BY <1>2, <1>3, GoneControl DEF CInv

LEMMA OtherControl ==
  ASSUME CInv, Start \/ StartupFails \/ Collect \/ AgeSeal \/ Stop \/ Kill \/ PowerLoss
  PROVE  Control'
<1> USE DEF None, NoWin, Resets, RunTasks, EvidenceTasks, files, segments, recovery, segment,
   cycle, bounds
<1>a. Control
  BY DEF CInv
<1> USE <1>a
<1>1. CASE Start
  <2> USE <1>1 DEF Start
  <2>1. ProcessTypes'
    BY DEF Control, ProcessTypes, FilesByPc, Pcs
  <2>2. DiskTypes'
    BY ContentTypes DEF Control, DiskTypes, ProcessTypes, FilesByPc, Places
  <2>3. TaskByPc' /\ HandleByPc'
    BY DEF Control, TaskByPc, HandleByPc, FilesByPc, ProcessTypes, Starting
  <2>4. FilesByPc'
    BY ContentTypes DEF Control, FilesByPc, TaskByPc, ProcessTypes, DiskTypes
  <2> QED BY <2>1, <2>2, <2>3, <2>4 DEF Control
<1>2. CASE StartupFails
  <2>1. DiskTypes' /\ Gone /\ UNCHANGED <<place, acked, next, pos>>
    BY <1>2 DEF StartupFails, Fault, files, segments, bounds, Control, DiskTypes
  <2> QED BY <2>1, GoneControl
<1>3. CASE Collect
  <2>a. win' \in Windows /\ next' \in 0..MaxWindows
    BY <1>3 DEF Collect, Windows, Control, ProcessTypes, CInv, Position
  <2> USE <1>3, <2>a DEF Collect
  <2>1. ProcessTypes'
    BY DEF Control, ProcessTypes, TaskByPc, FilesByPc, Pcs
  <2>2. DiskTypes'
    BY DEF Control, DiskTypes
  <2>3. TaskByPc' /\ HandleByPc'
    BY DEF Control, TaskByPc, FilesByPc, HandleByPc, ProcessTypes, Starting, Pcs
  <2>4. FilesByPc'
    BY DEF Control, FilesByPc, TaskByPc, ProcessTypes, DiskTypes, Places
  <2> QED BY <2>1, <2>2, <2>3, <2>4 DEF Control
<1>4. CASE AgeSeal
  <2> USE <1>4 DEF AgeSeal
  <2>1. ProcessTypes'
    BY DEF Control, ProcessTypes, FilesByPc, Pcs
  <2>2. DiskTypes'
    BY ContentTypes DEF Control, DiskTypes, ProcessTypes, FilesByPc, Places
  <2>3. TaskByPc' /\ HandleByPc'
    BY DEF Control, TaskByPc, HandleByPc, FilesByPc, ProcessTypes, Starting
  <2>4. FilesByPc'
    BY ContentTypes DEF Control, FilesByPc, TaskByPc, ProcessTypes, DiskTypes
  <2> QED BY <2>1, <2>2, <2>3, <2>4 DEF Control
<1>5. CASE Stop
  <2>1. DiskTypes' /\ Gone /\ UNCHANGED <<place, acked, next, pos>>
    BY <1>5 DEF Stop, files, segments, bounds, Control, DiskTypes
  <2> QED BY <2>1, GoneControl
<1>6. CASE Kill
  <2>1. segs' \in [Ids -> Seq(Windows)] /\ unsynced' \subseteq Ids
    BY <1>6 DEF Kill, Control, DiskTypes
  <2> QED BY <1>6, <2>1, DiesControl DEF Kill
<1>7. CASE PowerLoss
  <2>1. segs' \in [Ids -> Seq(Windows)] /\ unsynced' \subseteq Ids
    <3>1. <<>> \in Seq(Windows)
      BY EmptySeq
    <3> QED BY <1>7, <3>1 DEF PowerLoss, Control, DiskTypes
  <2>2. (IF jf = None THEN {} ELSE HeaderTorn(content[jf])) \subseteq Contents
    <3>1. jf # None => content[jf] \in Contents
      BY DEF Control, ProcessTypes, DiskTypes
    <3> QED BY <3>1, ContentTypes
  <2> QED BY <1>7, <2>1, <2>2, DiesControl DEF PowerLoss
<1> QED BY <1>1, <1>2, <1>3, <1>4, <1>5, <1>6, <1>7 DEF Next

-----------------------------------------------------------------------------
(* Open: what the open journal holds, action by action. *)

LEMMA EmptyCopy ==
  ASSUME NEW c \in Contents, NEW d \in Contents, c.wins = <<>>
  PROVE  CopyOf(c, d)
<1>1. Len(c.wins) = 0 /\ Len(Verified(d)) \in Nat
  BY ContentTypes, EmptySeq, LenProperties
<1> QED BY <1>1 DEF CopyOf

\* One file gets another content, which names its segment.
LEMMA StillIdentified ==
  ASSUME DiskTypes, Identified, NEW f \in Files, NEW c \in Contents,
         content' = [content EXCEPT ![f] = c], c.wins # <<>> => c.id \in Ids
  PROVE  Identified'
BY DEF DiskTypes, Identified

\* Whatever is left of an append names its segment when it holds a window.
LEMMA InterruptedIdentified ==
  ASSUME NEW c \in Contents, NEW i \in Ids, NEW w \in Windows, c.wins # <<>> => c.id \in Ids
  PROVE  \A d \in Interrupted(c, i, w) : d.wins # <<>> => d.id \in Ids
<1>1. /\ With(c, i, w).id = i /\ Damaged(c, i).id = i /\ Damaged(With(c, i, w), i).id = i
  <2>1. i \in 0..MaxWindows
    BY DEF Ids
  <2>2. With(c, i, w) \in Contents
    BY <2>1, ContentTypes
  <2>3. \A d \in Contents : Damaged(d, i).id = i
    BY DEF Damaged, Contents
  <2> QED BY <2>2, <2>3 DEF With
<1>2. \A d \in Interrupted(c, i, w) : d = c \/ d.id = i
  BY <1>1 DEF Interrupted
<1> QED BY <1>2

LEMMA HalfResetIdentified ==
  ASSUME NEW c \in Contents, c.id \in Ids
  PROVE  \A d \in HalfReset(c) : d.wins # <<>> => d.id \in Ids
BY ContentTypes DEF HalfReset, Damaged, Contents

LEMMA GoneOpen == ASSUME Gone, Identified' PROVE Open'
BY DEF Gone, Open, Described, OpenHolds, Sealing, Resets, None

LEMMA InitOpen == Init => Open
BY ContentTypes DEF Init, Open, Identified, Described, OpenHolds, Sealing, Resets, None

LEMMA RecoverOpen == ASSUME CInv, Control', Recover PROVE Open'
<1> USE DEF None, NoWin, Resets, RunTasks, EvidenceTasks, files, segments, recovery, segment,
   cycle, bounds
<1>a. Control /\ Open
  BY DEF CInv
<1> USE <1>a
<1>1. CASE OpenFresh
  <2>a. PICK f \in Files : content' = [content EXCEPT ![f] = Empty] /\ jf' = f
    BY <1>1 DEF OpenFresh, Fresh
  <2> USE <1>1, <2>a DEF OpenFresh
  <2>1. Identified'
    BY ContentTypes, StillIdentified DEF Open, Control
  <2>2. Described'
    BY DEF Described, TaskByPc, Control
  <2>3. OpenHolds'
    <3>1. content'[jf'] = Empty
      BY DEF Control, DiskTypes
    <3> QED BY <3>1, ContentTypes DEF Control, TaskByPc, FilesByPc, OpenHolds, Sealing, ActiveFile
  <2> QED BY <2>1, <2>2, <2>3 DEF Open
<1>2. CASE OpenExisting
  <2>a. jf' \in Files /\ ~poisoned /\ first = None /\ src = None
        /\ UNCHANGED <<content, segs, unsynced, src, first, published, poisoned>>
        /\ IF content[jf'].wins # <<>> THEN pc' = "seal" /\ task' = "recovery"
                                      ELSE pc' = "scan" /\ task' = "none"
    BY <1>2 DEF OpenExisting, ActiveFile, SealedFirst, Control, HandleByPc, TaskByPc, FilesByPc,
       Starting
  <2> USE <2>a
  <2>1. Identified' /\ Described'
    BY DEF Open, Identified, Described
  <2>2. OpenHolds'
    BY DEF OpenHolds, Sealing
  <2> QED BY <2>1, <2>2 DEF Open
<1>3. CASE OpenDamaged
  <2> USE <1>3 DEF OpenDamaged, ActiveFile
  <2>1. Identified'
    BY DEF Open, Identified
  <2>2. Described'
    BY DEF Control, DiskTypes, ProcessTypes, TaskByPc, FilesByPc, HandleByPc, Open, OpenHolds,
       Described, Starting, Sealing
  <2>3. OpenHolds'
    BY DEF Control, DiskTypes, ProcessTypes, TaskByPc, FilesByPc, HandleByPc, Open, OpenHolds,
       Described, Starting, Sealing
  <2> QED BY <2>1, <2>2, <2>3 DEF Open
<1>4. CASE BeginRotation
  <2>a. PICK f \in Files : content' = [content EXCEPT ![f] = Empty] /\ jf' = f
    BY <1>4 DEF BeginRotation, NewGeneration, Fresh
  <2> USE <1>4, <2>a DEF BeginRotation, NewGeneration
  <2>1. Identified'
    BY ContentTypes, StillIdentified DEF Open, Control
  <2>2. Described'
    BY DEF Described, TaskByPc, Control
  <2>3. OpenHolds'
    <3>1. content'[jf'] = Empty
      BY DEF Control, DiskTypes
    <3> QED BY <3>1, ContentTypes DEF Control, TaskByPc, FilesByPc, OpenHolds, Sealing, ActiveFile
  <2> QED BY <2>1, <2>2, <2>3 DEF Open
<1>5. CASE BeginFails
  <2>a. PICK f \in Files : /\ content' = [content EXCEPT ![f] = Empty] /\ jf' = f
                              /\ place[f] = "none"
    BY <1>5 DEF BeginFails, NewGeneration, Fresh
  <2>b. src' \in Files /\ place[src'] = "active" /\ pc' = "evidence" /\ task' = "retained"
        /\ UNCHANGED <<segs, unsynced, published, poisoned>>
    BY <1>5 DEF BeginFails, NewGeneration, ActiveFile
  <2>1. Identified'
    BY <2>a, ContentTypes, StillIdentified DEF Open, Control
  <2>2. Described'
    BY <2>b DEF Described
  <2>3. OpenHolds'
    <3>1. content'[jf'] = Empty /\ content'[src'] \in Contents /\ jf' # src'
      BY <2>a, <2>b, ContentTypes DEF Control, DiskTypes
    <3>2. CopyOf(content[jf], content[src])'
      BY <3>1, ContentTypes, EmptyCopy
    <3> QED BY <2>b, <3>1, <3>2 DEF OpenHolds, Sealing
  <2> QED BY <2>1, <2>2, <2>3 DEF Open
<1>6. CASE Exchange
  <2>a. pc' = "evidence" /\ CopyOf(content[jf], content[src]) /\ jf # src
    <3>1. content[jf] = Empty /\ jf # src /\ content[src] \in Contents
      BY <1>6 DEF Exchange, Control, FilesByPc, TaskByPc, DiskTypes, ProcessTypes
    <3> QED BY <1>6, <3>1, ContentTypes, EmptyCopy DEF Exchange, RotationStep
  <2>b. UNCHANGED <<content, segs, unsynced, task, jf, src, first, published, poisoned>>
    BY <1>6 DEF Exchange, RotationStep
  <2> USE <2>a, <2>b
  <2>1. Identified' /\ Described'
    BY DEF Open, Identified, Described
  <2>2. OpenHolds'
    BY DEF OpenHolds, Sealing
  <2> QED BY <2>1, <2>2 DEF Open
<1>7. CASE MoveAside
  <2> USE <1>7 DEF MoveAside, RotationStep, Fault
  <2>1. Identified'
    BY DEF Open, Identified
  <2>2. Described'
    BY DEF Control, DiskTypes, ProcessTypes, TaskByPc, FilesByPc, HandleByPc, Open, OpenHolds,
       Described, Starting, Sealing
  <2>3. OpenHolds'
    BY DEF Control, DiskTypes, ProcessTypes, TaskByPc, FilesByPc, HandleByPc, Open, OpenHolds,
       Described, Starting, Sealing
  <2> QED BY <2>1, <2>2, <2>3 DEF Open
<1>8. CASE Promote
  <2>a. pc' = "evidence" /\ CopyOf(content[jf], content[src]) /\ jf # src
    <3>1. content[jf] = Empty /\ jf # src /\ content[src] \in Contents
      BY <1>8 DEF Promote, Control, FilesByPc, TaskByPc, DiskTypes, ProcessTypes
    <3> QED BY <1>8, <3>1, ContentTypes, EmptyCopy DEF Promote, RotationStep
  <2>b. UNCHANGED <<content, segs, unsynced, task, jf, src, first, published, poisoned>>
    BY <1>8 DEF Promote, RotationStep
  <2> USE <2>a, <2>b
  <2>1. Identified' /\ Described'
    BY DEF Open, Identified, Described
  <2>2. OpenHolds'
    BY DEF OpenHolds, Sealing
  <2> QED BY <2>1, <2>2 DEF Open
<1>9. CASE KeepAlternate
  <2>a. pc' = "evidence" /\ CopyOf(content[jf], content[src]) /\ jf # src
    <3>1. content[jf] = Empty /\ jf # src /\ content[src] \in Contents
      BY <1>9 DEF KeepAlternate, Control, FilesByPc, TaskByPc, DiskTypes, ProcessTypes
    <3> QED BY <1>9, <3>1, ContentTypes, EmptyCopy DEF KeepAlternate, RotationStep
  <2>b. UNCHANGED <<content, segs, unsynced, task, jf, src, first, published, poisoned>>
    BY <1>9 DEF KeepAlternate, RotationStep
  <2> USE <2>a, <2>b
  <2>1. Identified' /\ Described'
    BY DEF Open, Identified, Described
  <2>2. OpenHolds'
    BY DEF OpenHolds, Sealing
  <2> QED BY <2>1, <2>2 DEF Open
<1>10. CASE Replay
  <2>a. Replaying /\ ~ReplayEnds(Replayed)
    BY <1>10 DEF Replay
  <2> DEFINE c == With(content[jf], ReplayId(src), NextWindow)
  <2>b. /\ content' = [content EXCEPT ![jf] = c]
        /\ UNCHANGED <<segs, unsynced, pc, task, jf, src, first, published, poisoned>>
        /\ pc = "evidence" /\ ~poisoned
    BY <1>10 DEF Replay, Replaying, Evidence
  <2>c. /\ jf \in Files /\ src \in Files /\ jf # src
        /\ content[jf] \in Contents /\ content[src] \in Contents
        /\ ReplayId(src) \in Ids /\ NextWindow \in Windows /\ CopyOf(content[jf], content[src])
        /\ Len(content[jf].wins) + 1 \in 1..Len(Verified(content[src]))
        /\ NextWindow = Verified(content[src])[Len(content[jf].wins) + 1]
    BY <2>a, NextReplayed DEF Replayed
  <2>d. c \in Contents /\ c.id = content[src].id /\ c.wins = Append(content[jf].wins, NextWindow)
    <3>1. ReplayId(src) \in 0..MaxWindows
      BY <2>c DEF Ids
    <3> QED BY <2>c, <3>1, ContentTypes DEF With, ReplayId
  <2>1. Identified'
    BY <2>b, <2>c, <2>d, StillIdentified DEF Open, Control, ReplayId
  <2>2. Described'
    BY <2>b DEF Described
  <2>3. OpenHolds'
    <3>1. content'[jf] = c /\ content'[src] = content[src]
      BY <2>b, <2>c DEF Control, DiskTypes
    <3>2. /\ Len(c.wins) = Len(content[jf].wins) + 1
          /\ \A k \in 1..Len(content[jf].wins) : c.wins[k] = content[jf].wins[k]
          /\ c.wins[Len(content[jf].wins) + 1] = NextWindow
          /\ Len(content[jf].wins) \in Nat
      <4>1. content[jf].wins \in Seq(Windows) /\ NextWindow \in Windows
        BY <2>c DEF Contents
      <4>2. Len(content[jf].wins) \in Nat
        BY <4>1, LenProperties
      <4> QED BY <2>d, <4>1, <4>2, AppendProperties
    <3>3. CopyOf(c, content[src])
      <4> DEFINE n == Len(content[jf].wins)
      <4>1. n \in Nat /\ Len(c.wins) = n + 1 /\ n + 1 \in 1..Len(Verified(content[src]))
        BY <2>c, <3>2
      <4>2. \A k \in 1..n : content[jf].wins[k] = Verified(content[src])[k]
        BY <2>c DEF CopyOf
      <4>3. ASSUME NEW k \in 1..Len(c.wins) PROVE c.wins[k] = Verified(content[src])[k]
        <5>1. k \in 1..n \/ k = n + 1
          BY <4>1
        <5>2. CASE k \in 1..n
          BY <3>2, <4>2, <5>2
        <5>3. CASE k = n + 1
          BY <2>c, <3>2, <5>3
        <5> QED BY <5>1, <5>2, <5>3
      <4> HIDE DEF n
      <4>4. Len(c.wins) <= Len(Verified(content[src]))
        BY <4>1
      <4> QED BY <2>d, <4>3, <4>4 DEF CopyOf
    <3> QED BY <2>b, <2>c, <3>1, <3>3 DEF OpenHolds, Sealing
  <2> QED BY <2>1, <2>2, <2>3 DEF Open
<1>11. CASE ReplayDone
  <2>a. /\ pc = "evidence" /\ pc' = "seal" /\ ~poisoned /\ task \in EvidenceTasks
        /\ UNCHANGED <<content, segs, unsynced, task, jf, src, first, published, poisoned>>
        /\ Verified(content[src]) # <<>> /\ Len(content[jf].wins) = Len(Verified(content[src]))
    BY <1>11 DEF ReplayDone, Replaying, Evidence, ReplayEnds, Replayed, Control, TaskByPc
  <2>b. content[jf].wins # <<>>
    <3>1. content[jf] \in Contents /\ Verified(content[src]) \in Seq(Windows)
      BY <2>a, ContentTypes DEF Control, DiskTypes, ProcessTypes, FilesByPc
    <3> QED BY <2>a, <3>1, EmptySeq DEF Contents
  <2> USE <2>a, <2>b
  <2>1. Identified'
    BY DEF Open, Identified
  <2>2. Described'
    BY DEF Described
  <2>3. OpenHolds'
    BY DEF Open, OpenHolds, Sealing
  <2> QED BY <2>1, <2>2, <2>3 DEF Open
<1>12. CASE ReplayNothing
  <2>a. /\ pc = "evidence" /\ pc' = "settle"
        /\ UNCHANGED <<content, segs, unsynced, task, jf, src, first, published, poisoned>>
        /\ Verified(content[src]) = <<>> \/ poisoned
    BY <1>12 DEF ReplayNothing, Replaying, Evidence
  <2>b. ~poisoned => content[jf].wins = <<>>
    <3>1. content[jf] \in Contents
      BY <2>a DEF Control, DiskTypes, ProcessTypes, FilesByPc
    <3>2. ~poisoned => Len(content[jf].wins) <= 0
      BY <2>a, EmptySeq DEF Open, OpenHolds, CopyOf
    <3> QED BY <3>1, <3>2, EmptySeq, LenProperties DEF Contents
  <2> USE <2>a, <2>b
  <2>1. Identified'
    BY DEF Open, Identified
  <2>2. Described'
    BY DEF Described
  <2>3. OpenHolds'
    BY DEF Open, OpenHolds, Sealing
  <2> QED BY <2>1, <2>2, <2>3 DEF Open
<1>13. CASE ReplayRolledBack
  <2> USE <1>13 DEF ReplayRolledBack, Replaying, Evidence, Fault
  <2>1. Identified'
    BY DEF Open, Identified
  <2>2. Described'
    BY DEF Control, DiskTypes, ProcessTypes, TaskByPc, FilesByPc, HandleByPc, Open, OpenHolds,
       Described, Starting, Sealing
  <2>3. OpenHolds'
    BY DEF Control, DiskTypes, ProcessTypes, TaskByPc, FilesByPc, HandleByPc, Open, OpenHolds,
       Described, Starting, Sealing
  <2> QED BY <2>1, <2>2, <2>3 DEF Open
<1>14. CASE ReplayPoisons
  <2>a. PICK c \in Interrupted(content[jf], ReplayId(src), NextWindow) :
          content' = [content EXCEPT ![jf] = c]
    BY <1>14 DEF ReplayPoisons
  <2>b. Replaying /\ ~ReplayEnds(Replayed)
    BY <1>14 DEF ReplayPoisons
  <2>1. Identified'
    <3>1. /\ jf \in Files /\ content[jf] \in Contents /\ ReplayId(src) \in Ids
          /\ NextWindow \in Windows
      BY <2>b, NextReplayed
    <3>2. c.wins # <<>> => c.id \in Ids
      BY <3>1, InterruptedIdentified DEF Open, Identified
    <3>3. c \in Contents
      <4>1. ReplayId(src) \in 0..MaxWindows
        BY <3>1 DEF Ids
      <4> QED BY <3>1, <4>1, ContentTypes
    <3> QED BY <2>a, <3>1, <3>2, <3>3, StillIdentified DEF Open, Control
  <2>2. CASE Gone
    BY <2>1, <2>2, GoneOpen
  <2>3. CASE ~Gone
    <3>1. pc' = "settle" /\ poisoned' = TRUE
      BY <1>14, <2>3 DEF ReplayPoisons, Evidence
    <3>2. Described' /\ OpenHolds'
      BY <3>1 DEF Described, OpenHolds, Sealing
    <3> QED BY <2>1, <3>2 DEF Open
  <2> QED BY <2>2, <2>3
<1>15. CASE InspectFails
  <2>a. /\ pc = "evidence" /\ pc' = "settle" /\ Len(content[jf].wins) = 0
        /\ UNCHANGED <<content, segs, unsynced, task, jf, src, first, published, poisoned>>
    BY <1>15 DEF InspectFails, Evidence, Replayed
  <2>b. content[jf].wins = <<>>
    <3>1. content[jf] \in Contents
      BY <2>a DEF Control, DiskTypes, ProcessTypes, FilesByPc
    <3> QED BY <2>a, <3>1, EmptySeq DEF Contents
  <2> USE <2>a, <2>b
  <2>1. Identified'
    BY DEF Open, Identified
  <2>2. Described'
    BY DEF Described
  <2>3. OpenHolds'
    BY DEF Open, OpenHolds, Sealing
  <2> QED BY <2>1, <2>2, <2>3 DEF Open
<1>16. CASE Settle
  <2> USE <1>16 DEF Settle, Fault
  <2>1. Identified'
    BY DEF Open, Identified
  <2>2. Described'
    BY DEF Control, DiskTypes, ProcessTypes, TaskByPc, FilesByPc, HandleByPc, Open, OpenHolds,
       Described, Starting, Sealing
  <2>3. OpenHolds'
    BY DEF Control, DiskTypes, ProcessTypes, TaskByPc, FilesByPc, HandleByPc, Open, OpenHolds,
       Described, Starting, Sealing
  <2> QED BY <2>1, <2>2, <2>3 DEF Open
<1>17. CASE Scan
  <2> USE <1>17 DEF Scan, PendingRootEntries
  <2>1. Identified'
    BY DEF Open, Identified
  <2>2. Described'
    BY DEF Control, DiskTypes, ProcessTypes, TaskByPc, FilesByPc, HandleByPc, Open, OpenHolds,
       Described, Starting, Sealing
  <2>3. OpenHolds'
    BY DEF Control, DiskTypes, ProcessTypes, TaskByPc, FilesByPc, HandleByPc, Open, OpenHolds,
       Described, Starting, Sealing
  <2> QED BY <2>1, <2>2, <2>3 DEF Open
<1>18. CASE NextPending
  <2>a. \/ src' \in todo /\ pc' = "evidence" /\ task' = "pending"
        \/ UNCHANGED <<src, task, pc>>
    BY <1>18 DEF NextPending
  <2>b. pc = "pending" /\ UNCHANGED <<content, segs, unsynced, jf, first, published, poisoned>>
    BY <1>18 DEF NextPending
  <2>c. src' \in todo /\ ~poisoned => CopyOf(content[jf], content[src'])
    <3>1. src' \in todo => content[jf] \in Contents /\ content[src'] \in Contents
      BY <2>b DEF Control, FilesByPc, ProcessTypes, DiskTypes
    <3> QED BY <2>b, <3>1, EmptyCopy DEF Open, OpenHolds
  <2> USE <2>a, <2>b, <2>c
  <2>1. Identified'
    BY DEF Open, Identified
  <2>2. Described'
    BY DEF Described
  <2>3. OpenHolds'
    BY DEF Open, OpenHolds, Sealing, Control, FilesByPc
  <2> QED BY <2>1, <2>2, <2>3 DEF Open
<1>19. CASE Ready
  <2> USE <1>19 DEF Ready
  <2>1. Identified'
    BY DEF Open, Identified
  <2>2. Described'
    BY DEF Control, DiskTypes, ProcessTypes, TaskByPc, FilesByPc, HandleByPc, Open, OpenHolds,
       Described, Starting, Sealing
  <2>3. OpenHolds'
    BY DEF Control, DiskTypes, ProcessTypes, TaskByPc, FilesByPc, HandleByPc, Open, OpenHolds,
       Described, Starting, Sealing
  <2> QED BY <2>1, <2>2, <2>3 DEF Open
<1> QED BY <1>1, <1>2, <1>3, <1>4, <1>5, <1>6, <1>7, <1>8, <1>9, <1>10, <1>11, <1>12, <1>13,
   <1>14, <1>15, <1>16, <1>17, <1>18, <1>19 DEF Recover

LEMMA SealOpen == ASSUME CInv, Control', Seal PROVE Open'
<1> USE DEF None, NoWin, Resets, RunTasks, EvidenceTasks, files, segments, recovery, segment,
   cycle, bounds
<1>a. Control /\ Open
  BY DEF CInv
<1> USE <1>a
<1>1. CASE Link
  <2> USE <1>1 DEF Link, NameFree
  <2>1. Identified'
    BY DEF Open, Identified
  <2>2. Described'
    BY DEF Control, DiskTypes, ProcessTypes, TaskByPc, FilesByPc, HandleByPc, Open, OpenHolds,
       Described, Starting, Sealing
  <2>3. OpenHolds'
    BY DEF Control, DiskTypes, ProcessTypes, TaskByPc, FilesByPc, HandleByPc, Open, OpenHolds,
       Described, Starting, Sealing
  <2> QED BY <2>1, <2>2, <2>3 DEF Open
<1>2. CASE AlreadyLinked
  <2>a. /\ pc = "seal" /\ pc' = "sync" /\ segs[content[jf].id] = content[jf].wins
        /\ UNCHANGED <<content, segs, unsynced, task, jf, src, first, published, poisoned>>
    BY <1>2 DEF AlreadyLinked, Identical
  <2> USE <2>a
  <2>1. Identified'
    BY DEF Open, Identified
  <2>2. Described'
    BY DEF Open, Described
  <2>3. OpenHolds'
    BY DEF Open, OpenHolds, Sealing
  <2> QED BY <2>1, <2>2, <2>3 DEF Open
<1>3. CASE LinkedByAnother
  <2> USE <1>3 DEF LinkedByAnother, SealFails, AfterFailedSeal
  <2>1. Identified'
    BY DEF Open, Identified
  <2>2. Described'
    BY DEF Control, DiskTypes, ProcessTypes, TaskByPc, FilesByPc, HandleByPc, Open, OpenHolds,
       Described, Starting, Sealing
  <2>3. OpenHolds'
    BY DEF Control, DiskTypes, ProcessTypes, TaskByPc, FilesByPc, HandleByPc, Open, OpenHolds,
       Described, Starting, Sealing
  <2> QED BY <2>1, <2>2, <2>3 DEF Open
<1>4. CASE TemporaryFails
  <2> USE <1>4 DEF TemporaryFails, SealFails, AfterFailedSeal, Fault
  <2>1. Identified'
    BY DEF Open, Identified
  <2>2. Described'
    BY DEF Control, DiskTypes, ProcessTypes, TaskByPc, FilesByPc, HandleByPc, Open, OpenHolds,
       Described, Starting, Sealing
  <2>3. OpenHolds'
    BY DEF Control, DiskTypes, ProcessTypes, TaskByPc, FilesByPc, HandleByPc, Open, OpenHolds,
       Described, Starting, Sealing
  <2> QED BY <2>1, <2>2, <2>3 DEF Open
<1>5. CASE SyncDay
  <2> USE <1>5 DEF SyncDay, DaySynced, PublicationNoted
  <2>1. Identified'
    BY DEF Open, Identified
  <2>2. Described'
    BY DEF Control, DiskTypes, ProcessTypes, TaskByPc, FilesByPc, HandleByPc, Open, OpenHolds,
       Described, Starting, Sealing
  <2>3. OpenHolds'
    BY DEF Control, DiskTypes, ProcessTypes, TaskByPc, FilesByPc, HandleByPc, Open, OpenHolds,
       Described, Starting, Sealing
  <2> QED BY <2>1, <2>2, <2>3 DEF Open
<1>6. CASE PublishFails
  <2> USE <1>6 DEF PublishFails, SealFails, AfterFailedSeal, Fault, DaySynced
  <2>1. Identified'
    BY DEF Open, Identified
  <2>2. Described'
    BY DEF Control, DiskTypes, ProcessTypes, TaskByPc, FilesByPc, HandleByPc, Open, OpenHolds,
       Described, Starting, Sealing
  <2>3. OpenHolds'
    BY DEF Control, DiskTypes, ProcessTypes, TaskByPc, FilesByPc, HandleByPc, Open, OpenHolds,
       Described, Starting, Sealing
  <2> QED BY <2>1, <2>2, <2>3 DEF Open
<1>7. CASE Reset
  <2>a. \/ task \in EvidenceTasks /\ pc' = "settle" /\ task' = task
        \/ task = "recovery" /\ pc' = "scan" /\ task' = "none"
        \/ task \in RunTasks /\ pc' \in {"commit", "append", "check"} /\ task' = "none"
    BY <1>7, Callers DEF Reset, Control, TaskByPc, ProcessTypes
  <2>b. jf \in Files /\ content' = [content EXCEPT ![jf] = Empty]
    BY <1>7 DEF Reset, Control, FilesByPc, ProcessTypes
  <2>c. content'[jf'] = Empty /\ first' = None
    BY <1>7, <2>b DEF Reset, StateCleared, Control, DiskTypes
  <2>1. Identified'
    BY <2>b, ContentTypes, StillIdentified DEF Open, Control
  <2>2. Described'
    BY <2>c, ContentTypes DEF Described
  <2>3. OpenHolds'
    BY <2>a, <2>c, ContentTypes DEF OpenHolds, Sealing
  <2> QED BY <2>1, <2>2, <2>3 DEF Open
<1>8. CASE ResetFails
  <2>a. PICK c \in HalfReset(content[jf]), rolledBack \in BOOLEAN :
          /\ rolledBack => c = content[jf]
          /\ content' = [content EXCEPT ![jf] = c]
          /\ \/ task = "recovery" /\ pc' = "rotate" /\ task' = "none" /\ src' = src
             \/ /\ task \in EvidenceTasks /\ rolledBack
                /\ pc' \in {"reset2", "reset3"} /\ UNCHANGED <<task, jf, src, poisoned>>
             \/ Gone
             \/ /\ task \in RunTasks /\ pc' = "check" /\ task' = "none"
                /\ poisoned' = ~rolledBack /\ UNCHANGED <<jf, src, first, published>>
    BY <1>8 DEF ResetFails
  <2>b. Sealing /\ jf \in Files /\ content[jf] \in Contents /\ content[jf].id \in Ids
    BY <1>8, Sealed DEF ResetFails, Sealing
  <2>1. Identified'
    BY <2>a, <2>b, ContentTypes, HalfResetIdentified, StillIdentified DEF Open, Control
  <2>c. rolledBack => content' = content
    BY <2>a, <2>b DEF Control, DiskTypes
  <2>2. CASE task = "recovery" /\ pc' = "rotate" /\ task' = "none" /\ src' = src
    <3>1. src = None
      BY <2>2 DEF Control, FilesByPc
    <3> QED BY <2>1, <2>2, <3>1 DEF Open, Described, OpenHolds, Sealing
  <2>3. CASE /\ task \in EvidenceTasks /\ rolledBack
             /\ pc' \in {"reset2", "reset3"} /\ UNCHANGED <<task, jf, src, poisoned>>
    BY <2>1, <2>b, <2>c, <2>3 DEF Open, Described, OpenHolds, Sealing
  <2>4. CASE Gone
    BY <2>1, <2>4, GoneOpen
  <2>5. CASE /\ task \in RunTasks /\ pc' = "check" /\ task' = "none"
             /\ poisoned' = ~rolledBack /\ UNCHANGED <<jf, src, first, published>>
    <3>1. src = None
      BY <2>5 DEF Control, FilesByPc
    <3>2. published
      BY <1>8, <2>5 DEF ResetFails, Control, TaskByPc, HandleByPc
    <3> QED BY <2>1, <2>5, <2>c, <3>1, <3>2 DEF Open, Described, OpenHolds, Sealing
  <2> QED BY <2>a, <2>2, <2>3, <2>4, <2>5
<1> QED BY <1>1, <1>2, <1>3, <1>4, <1>5, <1>6, <1>7, <1>8 DEF Seal

LEMMA CycleOpen == ASSUME CInv, Control', Cycle PROVE Open'
<1> USE DEF None, NoWin, Resets, RunTasks, EvidenceTasks, files, segments, recovery, segment,
   cycle, bounds
<1>a. Control /\ Open
  BY DEF CInv
<1> USE <1>a
<1>1. CASE EarlySeal
  <2> USE <1>1 DEF EarlySeal, Refused, Full
  <2>1. Identified'
    BY DEF Open, Identified
  <2>2. Described'
    BY DEF Control, DiskTypes, ProcessTypes, TaskByPc, FilesByPc, HandleByPc, Open, OpenHolds,
       Described, Starting, Sealing
  <2>3. OpenHolds'
    BY DEF Control, DiskTypes, ProcessTypes, TaskByPc, FilesByPc, HandleByPc, Open, OpenHolds,
       Described, Starting, Sealing
  <2> QED BY <2>1, <2>2, <2>3 DEF Open
<1>2. CASE AppendWindow
  <2>a. /\ jf \in Files /\ content[jf] \in Contents /\ AppendId \in 0..MaxWindows /\ win \in Windows
        /\ pc = "append" /\ ~poisoned /\ src = None /\ AppendId # None
    BY <1>2, Appended DEF AppendWindow, Refused, Control, FilesByPc, TaskByPc, AppendId,
       CInv, Identity, InHand
  <2>b. /\ content' = [content EXCEPT ![jf] = With(content[jf], AppendId, win)]
        /\ first' = AppendId
        /\ \/ pc' = "seal" /\ task' = "run"
           \/ pc' = "commit" /\ task' = task
        /\ UNCHANGED <<segs, unsynced, jf, src, published, poisoned>>
    BY <1>2 DEF AppendWindow
  <2>c. /\ With(content[jf], AppendId, win) \in Contents
        /\ With(content[jf], AppendId, win).wins # <<>>
        /\ With(content[jf], AppendId, win).id = AppendId
    <3>1. With(content[jf], AppendId, win) \in Contents
      BY <2>a, ContentTypes
    <3>2. content[jf].wins \in Seq(Windows)
      BY <2>a DEF Contents
    <3>3. Append(content[jf].wins, win) # <<>>
      BY <2>a, <3>2, InSeq
    <3> QED BY <3>1, <3>3 DEF With
  <2>d. content'[jf'] = With(content[jf], AppendId, win)
    BY <2>a, <2>b DEF Control, DiskTypes
  <2>1. Identified'
    <3>1. AppendId \in Ids
      BY <2>a DEF Ids
    <3> QED BY <2>a, <2>b, <2>c, <3>1, StillIdentified DEF Open, Control
  <2>2. Described'
    BY <2>b, <2>c, <2>d DEF Described
  <2>3. OpenHolds'
    BY <2>a, <2>b, <2>c, <2>d DEF OpenHolds, Sealing, Control, TaskByPc
  <2> QED BY <2>1, <2>2, <2>3 DEF Open
<1>3. CASE AppendFails
  <2>a. /\ jf \in Files /\ content[jf] \in Contents /\ win \in Windows
        /\ pc = "append" /\ AppendId \in Ids
    BY <1>3, Appended DEF AppendFails, AppendId, CInv, Identity, InHand, Ids
  <2>b. /\ \/ content' = content /\ poisoned' = poisoned
           \/ /\ \E c \in Interrupted(content[jf], AppendId, win) : content' = [content EXCEPT ![jf] = c]
              /\ poisoned' = TRUE
        /\ pc' = "check"
        /\ UNCHANGED <<segs, unsynced, task, jf, src, first, published>>
    BY <1>3 DEF AppendFails
  <2>c. task = "none" /\ src = None
    BY <2>a DEF Control, TaskByPc, FilesByPc
  <2>1. Identified'
    <3>1. CASE content' = content
      BY <3>1 DEF Open, Identified
    <3>2. ASSUME NEW c \in Interrupted(content[jf], AppendId, win), content' = [content EXCEPT ![jf] = c]
          PROVE  Identified'
      <4>1. c \in Contents
        <5>1. AppendId \in 0..MaxWindows
          BY <2>a DEF Ids
        <5> QED BY <2>a, <5>1, ContentTypes
      <4>2. c.wins # <<>> => c.id \in Ids
        BY <2>a, InterruptedIdentified DEF Open, Identified
      <4> QED BY <2>a, <3>2, <4>1, <4>2, StillIdentified DEF Open, Control
    <3> QED BY <2>b, <3>1, <3>2
  <2>2. Described'
    BY <2>a, <2>b DEF Open, Described
  <2>3. OpenHolds'
    BY <2>b, <2>c DEF OpenHolds, Sealing
  <2> QED BY <2>1, <2>2, <2>3 DEF Open
<1>4. CASE Commit
  <2> USE <1>4 DEF Commit, PositionOfBatch, Fault
  <2>1. Identified'
    BY DEF Open, Identified
  <2>2. Described'
    BY DEF Control, DiskTypes, ProcessTypes, TaskByPc, FilesByPc, HandleByPc, Open, OpenHolds,
       Described, Starting, Sealing
  <2>3. OpenHolds'
    BY DEF Control, DiskTypes, ProcessTypes, TaskByPc, FilesByPc, HandleByPc, Open, OpenHolds,
       Described, Starting, Sealing
  <2> QED BY <2>1, <2>2, <2>3 DEF Open
<1>5. CASE Check
  <2> USE <1>5 DEF Check, Gone
  <2>1. Identified'
    BY DEF Open, Identified
  <2>2. Described'
    BY DEF Control, DiskTypes, ProcessTypes, TaskByPc, FilesByPc, HandleByPc, Open, OpenHolds,
       Described, Starting, Sealing
  <2>3. OpenHolds'
    BY DEF Control, DiskTypes, ProcessTypes, TaskByPc, FilesByPc, HandleByPc, Open, OpenHolds,
       Described, Starting, Sealing
  <2> QED BY <2>1, <2>2, <2>3 DEF Open
<1> QED BY <1>1, <1>2, <1>3, <1>4, <1>5 DEF Cycle

\* A call in flight leaves a content that names its segment.
LEMMA InFlightIdentified ==
  ASSUME CInv, jf # None, NEW torn \in SUBSET Contents,
         \A c \in torn : c.wins # <<>> => c.id \in Ids
  PROVE  \A c \in InFlight(torn) : c.wins # <<>> => c.id \in Ids
<1>1. jf \in Files /\ content[jf] \in Contents /\ (content[jf].wins # <<>> => content[jf].id \in Ids)
  BY DEF CInv, Control, ProcessTypes, DiskTypes, Open, Identified
<1>2. CASE pc = "append" /\ ~Refused /\ ~Full
  <2>1. InFlight(torn) = Interrupted(content[jf], AppendId, win) \cup torn
    BY <1>2 DEF InFlight, Replaying, Resets
  <2>2. AppendId \in Ids /\ win \in Windows
    BY <1>2, Appended DEF AppendId, CInv, Identity, InHand, Ids, None
  <2> QED BY <1>1, <2>1, <2>2, InterruptedIdentified
<1>3. CASE ~(pc = "append" /\ ~Refused /\ ~Full) /\ Replaying /\ ~ReplayEnds(Replayed)
  <2>1. InFlight(torn) = Interrupted(content[jf], ReplayId(src), NextWindow) \cup torn
    BY <1>3 DEF InFlight, Replaying, Resets
  <2>2. ReplayId(src) \in Ids /\ NextWindow \in Windows
    BY <1>3, NextReplayed DEF CInv
  <2> QED BY <1>1, <2>1, <2>2, InterruptedIdentified
<1>4. CASE ~(pc = "append" /\ ~Refused /\ ~Full) /\ ~(Replaying /\ ~ReplayEnds(Replayed)) /\ pc \in Resets
  <2>1. InFlight(torn) = HalfReset(content[jf])
    BY <1>4 DEF InFlight
  <2>2. content[jf].id \in Ids
    BY <1>4, Sealed DEF Sealing, CInv
  <2> QED BY <1>1, <2>1, <2>2, HalfResetIdentified
<1>5. CASE ~(pc = "append" /\ ~Refused /\ ~Full) /\ ~(Replaying /\ ~ReplayEnds(Replayed)) /\ pc \notin Resets
  <2>1. InFlight(torn) = {content[jf]}
    BY <1>5 DEF InFlight
  <2> QED BY <1>1, <2>1
<1> QED BY <1>2, <1>3, <1>4, <1>5

LEMMA DiesOpen ==
  ASSUME CInv, NEW torn \in SUBSET Contents, Dies(torn),
         \A c \in torn : c.wins # <<>> => c.id \in Ids
  PROVE  Open'
<1>1. Identified'
  <2>1. CASE jf = None
    BY <2>1 DEF Dies, CInv, Open, Identified
  <2>2. CASE jf # None
    <3>1. PICK c \in InFlight(torn) : content' = [content EXCEPT ![jf] = c]
      BY <2>2 DEF Dies
    <3>2. jf \in Files /\ c \in Contents
      BY <2>2, InFlightTypes DEF CInv
    <3>3. c.wins # <<>> => c.id \in Ids
      BY <2>2, InFlightIdentified
    <3> QED BY <3>1, <3>2, <3>3, StillIdentified DEF CInv, Control, Open
  <2> QED BY <2>1, <2>2
<1> QED BY <1>1, GoneOpen DEF Dies

LEMMA TornIdentified ==
  ASSUME CInv
  PROVE  LET torn == IF jf = None THEN {} ELSE HeaderTorn(content[jf])
         IN  torn \subseteq Contents /\ \A c \in torn : c.wins # <<>> => c.id \in Ids
<1>1. jf # None => content[jf] \in Contents /\ (content[jf].wins # <<>> => content[jf].id \in Ids)
  BY DEF CInv, Control, ProcessTypes, DiskTypes, Open, Identified
<1>2. jf # None => HeaderTorn(content[jf]) \subseteq Contents
  BY <1>1, ContentTypes
<1> QED BY <1>1, <1>2 DEF HeaderTorn, Contents

LEMMA OtherOpen ==
  ASSUME CInv, Control', Start \/ StartupFails \/ Collect \/ AgeSeal \/ Stop \/ Kill \/
         PowerLoss
  PROVE  Open'
<1> USE DEF None, NoWin, Resets, RunTasks, EvidenceTasks, files, segments, recovery, segment,
   cycle, bounds
<1>a. Control /\ Open
  BY DEF CInv
<1> USE <1>a
<1>1. CASE Start
  <2> USE <1>1 DEF Start
  <2>1. Identified'
    BY DEF Open, Identified
  <2>2. Described'
    BY DEF Control, DiskTypes, ProcessTypes, TaskByPc, FilesByPc, HandleByPc, Open, OpenHolds,
       Described, Starting, Sealing
  <2>3. OpenHolds'
    BY DEF Control, DiskTypes, ProcessTypes, TaskByPc, FilesByPc, HandleByPc, Open, OpenHolds,
       Described, Starting, Sealing
  <2> QED BY <2>1, <2>2, <2>3 DEF Open
<1>2. CASE StartupFails
  <2>1. Gone /\ Identified'
    BY <1>2 DEF StartupFails, Fault, Open, Identified
  <2> QED BY <2>1, GoneOpen
<1>3. CASE Collect
  <2> USE <1>3 DEF Collect
  <2>1. Identified'
    BY DEF Open, Identified
  <2>2. Described'
    BY DEF Control, DiskTypes, ProcessTypes, TaskByPc, FilesByPc, HandleByPc, Open, OpenHolds,
       Described, Starting, Sealing
  <2>3. OpenHolds'
    BY DEF Control, DiskTypes, ProcessTypes, TaskByPc, FilesByPc, HandleByPc, Open, OpenHolds,
       Described, Starting, Sealing
  <2> QED BY <2>1, <2>2, <2>3 DEF Open
<1>4. CASE AgeSeal
  <2> USE <1>4 DEF AgeSeal
  <2>1. Identified'
    BY DEF Open, Identified
  <2>2. Described'
    BY DEF Control, DiskTypes, ProcessTypes, TaskByPc, FilesByPc, HandleByPc, Open, OpenHolds,
       Described, Starting, Sealing
  <2>3. OpenHolds'
    BY DEF Control, DiskTypes, ProcessTypes, TaskByPc, FilesByPc, HandleByPc, Open, OpenHolds,
       Described, Starting, Sealing
  <2> QED BY <2>1, <2>2, <2>3 DEF Open
<1>5. CASE Stop
  <2>1. Gone /\ Identified'
    BY <1>5 DEF Stop, Open, Identified
  <2> QED BY <2>1, GoneOpen
<1>6. CASE Kill
  BY <1>6, DiesOpen DEF Kill
<1>7. CASE PowerLoss
  BY <1>7, DiesOpen, TornIdentified DEF PowerLoss
<1> QED BY <1>1, <1>2, <1>3, <1>4, <1>5, <1>6, <1>7 DEF Next

-----------------------------------------------------------------------------
(* What a step may do to the files and the segments. *)

\* What a step may leave in the open journal.
Left(c) ==
  \/ pc = "append" /\ ~Refused /\ c \in Interrupted(content[jf], AppendId, win)
  \/ Replaying /\ ~ReplayEnds(Replayed) /\ c \in Interrupted(content[jf], ReplayId(src), NextWindow)
  \/ pc \in Resets /\ c \in HalfReset(content[jf])
  \/ c \in {content[jf]} \cup HeaderTorn(content[jf])
FileStep ==
  \/ content' = content
  \/ \E f \in Files : place[f] = "none" /\ content' = [content EXCEPT ![f] = Empty]
  \/ jf \in Files /\ \E c \in Contents : Left(c) /\ content' = [content EXCEPT ![jf] = c]
PlaceStep == \A f \in Files : place[f] # "none" => place'[f] # "none"
SegmentStep ==
  \/ segs' = segs /\ unsynced' \subseteq unsynced
  \/ Link
  \/ /\ \E gone \in SUBSET unsynced : segs' = [i \in Ids |-> IF i \in gone THEN <<>> ELSE segs[i]]
     /\ unsynced' = {}

\* A journal file that loses windows is unused or is being reset.
LEMMA EachFileStep == ASSUME CInv, Next PROVE FileStep
<1> USE DEF files, segments, recovery, segment, cycle, bounds
<1>a. Control /\ Open
  BY DEF CInv
<1>1. CASE \/ Start \/ StartupFails \/ Collect \/ AgeSeal \/ Stop
           \/ OpenExisting \/ OpenDamaged \/ Exchange \/ MoveAside \/ Promote \/ KeepAlternate
           \/ ReplayDone \/ ReplayNothing \/ ReplayRolledBack \/ InspectFails
           \/ Settle \/ Scan \/ NextPending \/ Ready
  BY <1>1 DEF FileStep, Start, StartupFails, Collect, AgeSeal, Stop, OpenExisting, OpenDamaged,
     Exchange, MoveAside, Promote, KeepAlternate, RotationStep, ReplayDone, ReplayNothing,
     ReplayRolledBack, InspectFails, Settle, Scan, NextPending, Ready
<1>2. CASE \/ Link \/ AlreadyLinked \/ LinkedByAnother \/ TemporaryFails \/ SyncDay \/ PublishFails
           \/ EarlySeal \/ Commit \/ Check
  BY <1>2 DEF FileStep, Link, AlreadyLinked, LinkedByAnother, TemporaryFails, SyncDay,
     PublishFails, SealFails, EarlySeal, Commit, Check
<1>3. CASE OpenFresh \/ BeginRotation \/ BeginFails
  BY <1>3 DEF FileStep, OpenFresh, BeginRotation, BeginFails, NewGeneration, Fresh
<1>4. CASE Replay \/ ReplayPoisons
  <2>1. /\ jf \in Files /\ content[jf] \in Contents /\ Replaying /\ ~ReplayEnds(Replayed)
        /\ ReplayId(src) \in 0..MaxWindows /\ NextWindow \in Windows
    <3>1. Replaying /\ ~ReplayEnds(Replayed)
      BY <1>4 DEF Replay, ReplayPoisons
    <3> QED BY <1>a, <3>1, NextReplayed DEF Ids
  <2>2. \E c \in Interrupted(content[jf], ReplayId(src), NextWindow) :
          content' = [content EXCEPT ![jf] = c]
    BY <1>4 DEF Replay, ReplayPoisons, Interrupted
  <2>3. Interrupted(content[jf], ReplayId(src), NextWindow) \subseteq Contents
    BY <2>1, ContentTypes
  <2> QED BY <2>1, <2>2, <2>3 DEF FileStep, Left
<1>5. CASE AppendWindow \/ AppendFails
  <2>1. /\ jf \in Files /\ content[jf] \in Contents /\ pc = "append"
        /\ AppendId \in 0..MaxWindows /\ win \in Windows
    BY <1>5, <1>a, Appended DEF AppendWindow, AppendFails
  <2>2. \/ content' = content
        \/ /\ ~Refused
           /\ \E c \in Interrupted(content[jf], AppendId, win) : content' = [content EXCEPT ![jf] = c]
    BY <1>5 DEF AppendWindow, AppendFails, Interrupted
  <2>3. Interrupted(content[jf], AppendId, win) \subseteq Contents
    BY <2>1, ContentTypes
  <2> QED BY <2>1, <2>2, <2>3 DEF FileStep, Left
<1>6. CASE Reset \/ ResetFails
  <2>1. jf \in Files /\ content[jf] \in Contents /\ pc \in Resets
    BY <1>6, <1>a, Sealed DEF Reset, ResetFails, Sealing
  <2>2. \E c \in HalfReset(content[jf]) : content' = [content EXCEPT ![jf] = c]
    BY <1>6 DEF Reset, ResetFails, HalfReset
  <2>3. HalfReset(content[jf]) \subseteq Contents
    BY <2>1, ContentTypes
  <2> QED BY <2>1, <2>2, <2>3 DEF FileStep, Left
<1>7. CASE Kill \/ PowerLoss
  <2>1. CASE jf = None
    BY <1>7, <2>1 DEF FileStep, Kill, PowerLoss, Dies
  <2>2. CASE jf # None
    <3>1. jf \in Files /\ content[jf] \in Contents
      BY <1>a, <2>2 DEF Control, ProcessTypes, DiskTypes
    <3>2. PICK torn \in {{}, HeaderTorn(content[jf])} :
            \E c \in InFlight(torn) : content' = [content EXCEPT ![jf] = c]
      BY <1>7, <2>2 DEF Kill, PowerLoss, Dies
    <3>6. PICK c \in InFlight(torn) : content' = [content EXCEPT ![jf] = c]
      BY <3>2
    <3>3. torn \subseteq Contents
      BY <3>1, ContentTypes
    <3>4. c \in Contents
      BY <1>a, <2>2, <3>3, InFlightTypes DEF CInv
    <3>5. Left(c)
      BY <3>2 DEF InFlight, Left
    <3> QED BY <3>1, <3>4, <3>5, <3>6 DEF FileStep
  <2> QED BY <2>1, <2>2
<1> QED BY <1>1, <1>2, <1>3, <1>4, <1>5, <1>6, <1>7 DEF Next, Work, Recover, Seal, Cycle

LEMMA EachPlaceStep == ASSUME CInv, Next PROVE PlaceStep
<1> USE DEF files, segments, recovery, segment, cycle, bounds
<1>a. place \in [Files -> Places]
  BY DEF CInv, Control, DiskTypes
<1>1. CASE \/ Start \/ StartupFails \/ Collect \/ AgeSeal \/ Stop \/ Kill \/ PowerLoss
           \/ OpenExisting \/ OpenDamaged \/ KeepAlternate
           \/ Replay \/ ReplayDone \/ ReplayNothing \/ ReplayRolledBack \/ ReplayPoisons
           \/ InspectFails \/ Scan \/ NextPending \/ Ready
  BY <1>1 DEF PlaceStep, Start, StartupFails, Collect, AgeSeal, Stop, Kill, PowerLoss, Dies,
     OpenExisting, OpenDamaged, KeepAlternate, Replay, ReplayDone, ReplayNothing, Evidence,
     ReplayRolledBack, ReplayPoisons, InspectFails, Scan, NextPending, Ready
<1>2. CASE Seal \/ Cycle
  BY <1>2 DEF PlaceStep, Seal, Cycle, Link, AlreadyLinked, LinkedByAnother, TemporaryFails,
     SyncDay,
     PublishFails, SealFails, Reset, ResetFails, EarlySeal, AppendWindow, AppendFails, Commit, Check
<1>3. CASE OpenFresh \/ BeginRotation \/ BeginFails
  BY <1>a, <1>3 DEF PlaceStep, OpenFresh, BeginRotation, BeginFails, NewGeneration
<1>4. CASE Exchange \/ MoveAside \/ Promote \/ Settle
  BY <1>a, <1>4 DEF PlaceStep, Exchange, MoveAside, Promote, Settle
<1> QED BY <1>1, <1>2, <1>3, <1>4 DEF Next, Work, Recover

LEMMA EachSegmentStep == ASSUME Next PROVE SegmentStep
<1> USE DEF files, segments, recovery, segment, cycle, bounds
<1>1. CASE \/ Start \/ StartupFails \/ Collect \/ AgeSeal \/ Stop \/ Kill \/ Cycle
  BY <1>1 DEF SegmentStep, Start, StartupFails, Collect, AgeSeal, Stop, Kill, Cycle, EarlySeal,
     AppendWindow, AppendFails, Commit, Check
<1>2. CASE Recover
  BY <1>2 DEF SegmentStep, Recover, OpenFresh, OpenExisting, OpenDamaged, BeginRotation,
     BeginFails,
     NewGeneration, Exchange, MoveAside, Promote, KeepAlternate, RotationStep, Replay, ReplayDone,
     ReplayNothing, ReplayRolledBack, ReplayPoisons, Evidence, InspectFails, Settle, Scan,
     NextPending, Ready
<1>3. CASE Seal
  BY <1>3 DEF SegmentStep, Seal, AlreadyLinked, LinkedByAnother, TemporaryFails, SyncDay,
     PublishFails, DaySynced, SealFails, Reset, ResetFails
<1>4. CASE PowerLoss
  BY <1>4 DEF SegmentStep, PowerLoss
<1> QED BY <1>1, <1>2, <1>3, <1>4 DEF Next, Work

-----------------------------------------------------------------------------
(* Kept: a stored window stays stored. *)

\* What may be left of an append holds what was there before it.
LEMMA InterruptedHolds ==
  ASSUME NEW c \in Contents, NEW i \in 0..MaxWindows, NEW w \in Windows,
         NEW d \in Interrupted(c, i, w)
  PROVE  /\ In(c.wins) \subseteq In(d.wins)
         /\ In(d.wins) \subseteq In(c.wins) \cup {w}
         /\ d = c \/ d.id = i
<1>1. In(Append(c.wins, w)) = In(c.wins) \cup {w}
  BY InSeq DEF Contents
<1>2. With(c, i, w) \in Contents
  BY ContentTypes
<1>3. \A e \in Contents : Damaged(e, i).wins = e.wins /\ Damaged(e, i).id = i
  BY DEF Damaged, Contents
<1>4. With(c, i, w).wins = Append(c.wins, w) /\ With(c, i, w).id = i
  BY DEF With
<1>5. d \in {c, With(c, i, w), Damaged(c, i), Damaged(With(c, i, w), i)}
  BY DEF Interrupted
<1> QED BY <1>1, <1>2, <1>3, <1>4, <1>5

LEMMA HeaderTornHolds ==
  ASSUME NEW c \in Contents, NEW d \in HeaderTorn(c)
  PROVE  d.wins = c.wins /\ d.id = c.id
BY DEF HeaderTorn, Contents

LEMMA HalfResetHolds ==
  ASSUME NEW c \in Contents, NEW d \in HalfReset(c)
  PROVE  (d.wins = c.wins \/ d = Empty) /\ (d.id = c.id \/ d = Empty)
BY DEF HalfReset, Damaged, Contents

\* A reset loses no window: the copy of the segment is synchronized, that of
\* the evidence is where it was.
LEMMA ResetCovered ==
  ASSUME CInv, pc \in Resets, NEW w \in In(content[jf].wins)
  PROVE  InSegment(w) \/ \E f \in Files \ {jf} : place[f] # "none" /\ w \in In(content[f].wins)
<1>a. /\ Control /\ OpenHolds /\ Sealing /\ jf \in Files /\ content[jf] \in Contents
      /\ content[jf].id \in Ids
  BY Sealed DEF CInv, Sealing, Open
<1>1. CASE pc = "reset"
  BY <1>a, <1>1 DEF OpenHolds, InSegment
<1>2. CASE pc \in {"reset2", "reset3"}
  <2>1. task \in EvidenceTasks /\ src \in Files /\ ~poisoned /\ place[src] # "none"
    BY <1>a, <1>2 DEF Control, TaskByPc, FilesByPc, HandleByPc, ProcessTypes, None
  <2>2. CopyOf(content[jf], content[src]) /\ src # jf
    BY <1>a, <2>1 DEF OpenHolds, None
  <2>3. content[src] \in Contents /\ Verified(content[src]) \in Seq(Windows)
        /\ content[jf].wins \in Seq(Windows)
    <3>1. content[src] \in Contents
      BY <1>a, <2>1 DEF Control, DiskTypes
    <3> QED BY <1>a, <3>1, ContentTypes DEF Contents
  <2>4. PICK k \in 1..Len(content[jf].wins) : w = content[jf].wins[k]
    BY <2>3, LenProperties DEF In
  <2>5. w \in In(Verified(content[src]))
    <3>1. Len(content[jf].wins) \in Nat /\ Len(Verified(content[src])) \in Nat
      BY <2>3, LenProperties
    <3>2. k \in 1..Len(Verified(content[src])) /\ w = Verified(content[src])[k]
      BY <2>2, <2>4, <3>1 DEF CopyOf
    <3> QED BY <2>3, <3>2, InSeq
  <2>6. w \in In(content[src].wins)
    BY <2>3, <2>5, InSeq, EmptySeq DEF Verified
  <2> QED BY <2>1, <2>2, <2>6
<1> QED BY <1>1, <1>2 DEF Resets

\* The journal in use has lost nothing, or was being reset.
LEMMA LeftHolds ==
  ASSUME CInv, jf \in Files, NEW c \in Contents, Left(c), pc \notin Resets
  PROVE  In(content[jf].wins) \subseteq In(c.wins)
<1>a. Control /\ Open /\ content[jf] \in Contents
  BY DEF CInv, Control, DiskTypes
<1>1. CASE pc = "append" /\ ~Refused /\ c \in Interrupted(content[jf], AppendId, win)
  BY <1>a, <1>1, Appended, InterruptedHolds
<1>2. CASE Replaying /\ ~ReplayEnds(Replayed) /\ c \in Interrupted(content[jf], ReplayId(src), NextWindow)
  <2>1. ReplayId(src) \in 0..MaxWindows /\ NextWindow \in Windows
    BY <1>a, <1>2, NextReplayed DEF Ids
  <2> QED BY <1>a, <1>2, <2>1, InterruptedHolds
<1>3. CASE c \in {content[jf]} \cup HeaderTorn(content[jf])
  BY <1>a, <1>3, HeaderTornHolds
<1> QED BY <1>1, <1>2, <1>3 DEF Left

Stored(w) == InSegment(w) \/ InFile(w)

LEMMA SegmentStays ==
  ASSUME CInv, SegmentStep, NEW w \in Windows, InSegment(w)
  PROVE  InSegment(w)'
<1>a. segs \in [Ids -> Seq(Windows)] /\ unsynced \subseteq Ids
  BY DEF CInv, Control, DiskTypes
<1>1. PICK i \in Ids : w \in In(segs[i]) /\ i \notin unsynced
  BY DEF InSegment
<1>2. segs[i] # <<>>
  BY <1>a, <1>1, InSeq
<1>3. CASE segs' = segs /\ unsynced' \subseteq unsynced
  BY <1>1, <1>3 DEF InSegment
<1>4. CASE Link
  <2>1. segs'[i] = segs[i] /\ i \notin unsynced'
    BY <1>a, <1>1, <1>2, <1>4 DEF Link, NameFree
  <2> QED BY <1>1, <2>1 DEF InSegment
<1>5. CASE /\ \E gone \in SUBSET unsynced : segs' = [j \in Ids |-> IF j \in gone THEN <<>> ELSE segs[j]]
           /\ unsynced' = {}
  <2>1. segs'[i] = segs[i] /\ i \notin unsynced'
    BY <1>1, <1>5
  <2> QED BY <1>1, <2>1 DEF InSegment
<1> QED BY <1>3, <1>4, <1>5 DEF SegmentStep

\* A stored window stays stored.
LEMMA StoredStays ==
  ASSUME CInv, Next, NEW w \in Windows, Stored(w)
  PROVE  Stored(w)'
<1>a. FileStep /\ PlaceStep /\ SegmentStep
  BY EachFileStep, EachPlaceStep, EachSegmentStep
<1>b. content \in [Files -> Contents]
  BY DEF CInv, Control, DiskTypes
<1>c. \A v \in Windows : InSegment(v) => InSegment(v)'
  BY <1>a, SegmentStays
<1>1. CASE InSegment(w)
  BY <1>c, <1>1 DEF Stored
<1>2. CASE InFile(w)
  <2>1. PICK f \in Files : place[f] # "none" /\ w \in In(content[f].wins)
    BY <1>2 DEF InFile
  <2>2. place'[f] # "none"
    BY <1>a, <2>1 DEF PlaceStep
  <2>3. CASE content'[f] = content[f]
    BY <2>1, <2>2, <2>3 DEF Stored, InFile
  <2>4. CASE content'[f] # content[f]
    <3>1. PICK c \in Contents : jf = f /\ Left(c) /\ content' = [content EXCEPT ![f] = c]
      BY <1>a, <1>b, <2>1, <2>4 DEF FileStep
    <3>2. CASE pc \notin Resets
      <4>1. w \in In(c.wins) /\ content'[f] = c
        BY <1>b, <2>1, <3>1, <3>2, LeftHolds
      <4> QED BY <2>2, <4>1 DEF Stored, InFile
    <3>3. CASE pc \in Resets
      <4>1. InSegment(w) \/ \E g \in Files \ {f} : place[g] # "none" /\ w \in In(content[g].wins)
        BY <2>1, <3>1, <3>3, ResetCovered
      <4>2. CASE InSegment(w)
        BY <1>c, <4>2 DEF Stored
      <4>3. ASSUME NEW g \in Files \ {f}, place[g] # "none", w \in In(content[g].wins)
            PROVE  Stored(w)'
        BY <1>a, <1>b, <3>1, <4>3 DEF PlaceStep, Stored, InFile
      <4> QED BY <4>1, <4>2, <4>3
    <3> QED BY <3>2, <3>3
  <2> QED BY <2>3, <2>4
<1> QED BY <1>1, <1>2 DEF Stored

\* append acknowledges a window only when the journal holds it.
LEMMA AckedStored ==
  ASSUME CInv, Next
  PROVE  \A w \in acked' : w \in acked \/ (AppendWindow /\ w = win /\ Stored(w)')
<1> USE DEF files, segments, recovery, segment, cycle, bounds
<1>1. CASE AppendWindow
  <2>1. /\ jf \in Files /\ content[jf] \in Contents /\ win \in Windows /\ place[jf] # "none"
        /\ content \in [Files -> Contents] /\ pc = "append"
    BY <1>1, Appended DEF CInv, AppendWindow, Control, DiskTypes, FilesByPc, None
  <2>2. content'[jf].wins = Append(content[jf].wins, win)
    BY <1>1, <2>1 DEF AppendWindow, With
  <2>3. win \in In(content'[jf].wins)
    BY <2>1, <2>2, InSeq DEF Contents
  <2>4. place'[jf] # "none"
    BY <1>1, <2>1 DEF AppendWindow
  <2>5. win' = win
    BY <1>1 DEF AppendWindow
  <2>6. Stored(win)'
    BY <2>1, <2>3, <2>4, <2>5 DEF Stored, InFile
  <2>7. acked' = acked \cup {win}
    BY <1>1 DEF AppendWindow
  <2> QED BY <1>1, <2>5, <2>6, <2>7
<1>2. CASE Start \/ StartupFails \/ Collect \/ AgeSeal \/ Stop \/ Kill \/ PowerLoss
  BY <1>2 DEF Start, StartupFails, Collect, AgeSeal, Stop, Kill, PowerLoss, Dies
<1>3. CASE Recover
  BY <1>3 DEF Recover, OpenFresh, OpenExisting, OpenDamaged, BeginRotation, BeginFails,
     NewGeneration, Exchange, MoveAside, Promote, KeepAlternate, RotationStep, Replay, ReplayDone,
     ReplayNothing, ReplayRolledBack, ReplayPoisons, Evidence, InspectFails, Settle, Scan,
     NextPending, Ready
<1>4. CASE Seal
  BY <1>4 DEF Seal, Link, AlreadyLinked, LinkedByAnother, TemporaryFails, SyncDay,
     PublishFails, SealFails, Reset, ResetFails
<1>5. CASE EarlySeal \/ AppendFails \/ Commit \/ Check
  BY <1>5 DEF EarlySeal, AppendFails, Commit, Check
<1> QED BY <1>1, <1>2, <1>3, <1>4, <1>5 DEF Next, Work, Cycle

LEMMA NextKept == ASSUME CInv, Next PROVE Kept'
<1>1. acked \subseteq Windows /\ \A w \in acked : Stored(w)
  BY DEF CInv, Kept, NothingVanishes, Stored, Control, ProcessTypes
<1>2. \A w \in acked : Stored(w)'
  BY <1>1, StoredStays
<1>3. \A w \in acked' : Stored(w)'
  BY <1>2, AckedStored
<1> QED BY <1>3 DEF Kept, NothingVanishes, Stored

-----------------------------------------------------------------------------
(* Identity: where a window gets its names. *)

\* What a step may do with the window in hand.
HandStep ==
  /\ next' \in {next, next + 1}
  /\ InHand' => \/ Collect
                \/ /\ InHand /\ UNCHANGED <<win, next>>
                   /\ pc = "append" => UNCHANGED <<content, segs>>

\* Only a collected window is new in hand, and it is in hand until it is written.
LEMMA EachHandStep == ASSUME CInv, Next PROVE HandStep
<1> USE DEF files, segments, recovery, segment, cycle, bounds, EvidenceTasks
<1>a. Control
  BY DEF CInv
<1>1. CASE Start \/ StartupFails \/ AgeSeal \/ Stop \/ Kill \/ PowerLoss
  BY <1>a, <1>1 DEF HandStep, InHand, Start, StartupFails, AgeSeal, Stop, Kill, PowerLoss, Dies,
     Gone, Fault, Control, TaskByPc
<1>2. CASE Recover
  <2>1. pc' # "append" /\ task' # "early"
    <3>1. pc \notin {"append", "seal", "sync"} \cup Resets /\ task # "early"
      BY <1>a, <1>2 DEF Control, TaskByPc, Recover, OpenFresh, OpenExisting, OpenDamaged,
         BeginRotation, BeginFails, NewGeneration, Exchange, MoveAside, Promote, KeepAlternate, Replay,
         ReplayDone, ReplayNothing, ReplayRolledBack, ReplayPoisons, Replaying, InspectFails, Settle, Scan,
         NextPending, Ready, Resets
    <3>2. CASE OpenFresh \/ OpenExisting \/ OpenDamaged \/ BeginRotation \/ BeginFails
               \/ Exchange \/ MoveAside \/ Promote \/ KeepAlternate
      BY <3>1, <3>2 DEF OpenFresh, OpenExisting, OpenDamaged, BeginRotation, BeginFails,
         NewGeneration, Exchange, MoveAside, Promote, KeepAlternate, RotationStep
    <3>3. CASE Replay \/ ReplayDone \/ ReplayNothing \/ ReplayRolledBack \/ ReplayPoisons \/ InspectFails
      BY <3>1, <3>3 DEF Replay, ReplayDone, ReplayNothing, ReplayRolledBack, ReplayPoisons,
         Evidence, InspectFails, Gone
    <3>4. CASE Settle \/ Scan \/ NextPending \/ Ready
      BY <3>1, <3>4 DEF Settle, Scan, NextPending, Ready
    <3> QED BY <1>2, <3>2, <3>3, <3>4 DEF Recover
  <2>2. next' = next
    BY <1>2 DEF Recover, OpenFresh, OpenExisting, OpenDamaged, BeginRotation, BeginFails,
       NewGeneration, Exchange, MoveAside, Promote, KeepAlternate, Replay, ReplayDone,
       ReplayNothing, ReplayRolledBack, ReplayPoisons, InspectFails, Settle, Scan,
       NextPending, Ready, Fault
  <2> QED BY <2>1, <2>2 DEF HandStep, InHand
<1>3. CASE Link \/ AlreadyLinked \/ SyncDay
  BY <1>3 DEF HandStep, InHand, Link, AlreadyLinked, SyncDay
<1>4. CASE LinkedByAnother \/ TemporaryFails \/ PublishFails
  <2>1. pc' \in {"check", "rotate", "reset2"} /\ task' \in {"none"} \cup EvidenceTasks
    <3>1. SealFails /\ task \in RunTasks \cup {"recovery"} \cup EvidenceTasks
      BY <1>a, <1>4 DEF Control, TaskByPc, ProcessTypes, LinkedByAnother, TemporaryFails,
         PublishFails
    <3> QED BY <3>1, Callers DEF SealFails
  <2>2. next' = next
    BY <1>4 DEF LinkedByAnother, TemporaryFails, PublishFails, Fault
  <2> QED BY <2>1, <2>2 DEF HandStep, InHand
<1>5. CASE Reset
  <2>1. task \in RunTasks \cup {"recovery"} \cup EvidenceTasks
    BY <1>a, <1>5 DEF Reset, Control, TaskByPc, ProcessTypes
  <2>2. task' # "early" /\ (pc' = "append" => task = "early")
    BY <1>5, <2>1, Callers DEF Reset, RunTasks
  <2> QED BY <1>5, <2>2 DEF Reset, HandStep, InHand, Resets
<1>6. CASE ResetFails
  <2>1. pc' # "append" /\ task' # "early"
    BY <1>6 DEF ResetFails, Gone
  <2> QED BY <1>6, <2>1 DEF ResetFails, Fault, HandStep, InHand
<1>7. CASE Cycle
  <2>1. CASE EarlySeal
    BY <2>1 DEF EarlySeal, HandStep, InHand
  <2>2. CASE AppendWindow \/ AppendFails \/ Commit \/ Check
    <3>1. task # "early" /\ pc' # "append" /\ task' # "early"
      BY <1>a, <2>2 DEF Control, TaskByPc, AppendWindow, AppendFails, Commit, Check, Gone, Resets
    <3> QED BY <2>2, <3>1 DEF AppendWindow, AppendFails, Commit, Check, Fault, HandStep, InHand
  <2> QED BY <1>7, <2>1, <2>2 DEF Cycle
<1>8. CASE Collect
  BY <1>8 DEF Collect, HandStep
<1> QED BY <1>1, <1>2, <1>3, <1>4, <1>5, <1>6, <1>7, <1>8 DEF Next, Work, Seal

\* What the journal in use gains is the window in hand under the segment's
\* identity, or a window of the evidence under its own.
LEMMA LeftClaims ==
  ASSUME CInv, jf \in Files, NEW c \in Contents, Left(c), NEW w \in In(c.wins)
  PROVE  \/ c.id \in Claims(w)
         \/ pc = "append" /\ ~Refused /\ w = win /\ c.id = AppendId
<1>a. Control /\ Open /\ content[jf] \in Contents
  BY DEF CInv, Control, DiskTypes
<1>b. w \in In(content[jf].wins) => content[jf].id \in Claims(w) /\ content[jf].wins # <<>>
  BY <1>a, InSeq DEF Claims, Contents
<1>1. CASE pc = "append" /\ ~Refused /\ c \in Interrupted(content[jf], AppendId, win)
  <2>1. w \in In(content[jf].wins) \cup {win} /\ (c = content[jf] \/ c.id = AppendId)
    BY <1>a, <1>1, Appended, InterruptedHolds
  <2>2. CASE w \in In(content[jf].wins)
    <3>1. content[jf].id = AppendId
      BY <1>a, <1>1, <1>b, <2>2 DEF Open, Described, Identified, AppendId, Refused, Ids, None
    <3> QED BY <1>b, <2>1, <2>2, <3>1
  <2>3. CASE w \notin In(content[jf].wins)
    BY <1>1, <2>1, <2>3
  <2> QED BY <2>2, <2>3
<1>2. CASE Replaying /\ ~ReplayEnds(Replayed) /\ c \in Interrupted(content[jf], ReplayId(src), NextWindow)
  <2>1. /\ ReplayId(src) \in 0..MaxWindows /\ NextWindow \in Windows /\ src \in Files
        /\ content[src] \in Contents /\ CopyOf(content[jf], content[src])
        /\ NextWindow \in In(Verified(content[src]))
    BY <1>a, <1>2, NextReplayed DEF Ids
  <2>2. w \in In(content[jf].wins) \cup {NextWindow} /\ (c = content[jf] \/ c.id = content[src].id)
    <3>1. /\ In(c.wins) \subseteq In(content[jf].wins) \cup {NextWindow}
          /\ c = content[jf] \/ c.id = ReplayId(src)
      <4> DEFINE d == content[jf]
                 i == ReplayId(src)
                 n == NextWindow
      <4>1. d \in Contents /\ i \in 0..MaxWindows /\ n \in Windows /\ c \in Interrupted(d, i, n)
        BY <1>a, <1>2, <2>1
      <4> HIDE DEF d, i, n
      <4>2. In(c.wins) \subseteq In(d.wins) \cup {n} /\ (c = d \/ c.id = i)
        BY <4>1, InterruptedHolds
      <4> QED BY <4>2 DEF d, i, n
    <3> QED BY <3>1 DEF ReplayId
  <2>3. NextWindow \in In(content[src].wins)
    BY <2>1, InSeq, EmptySeq DEF Verified
  <2>4. content[src].id \in Claims(NextWindow)
    BY <2>1, <2>3 DEF Claims
  <2>5. CASE w \in In(content[jf].wins)
    BY <1>b, <2>1, <2>2, <2>5 DEF CopyOf
  <2>6. CASE w \notin In(content[jf].wins)
    BY <2>2, <2>4, <2>6
  <2> QED BY <2>5, <2>6
<1>3. CASE pc \in Resets /\ c \in HalfReset(content[jf])
  <2>1. c.wins # <<>>
    BY InSeq DEF Contents
  <2>2. c.wins = content[jf].wins /\ c.id = content[jf].id
    BY <1>a, <1>3, <2>1, HalfResetHolds, ContentTypes
  <2> QED BY <1>b, <2>2
<1>4. CASE c \in {content[jf]} \cup HeaderTorn(content[jf])
  BY <1>a, <1>b, <1>4, HeaderTornHolds
<1> QED BY <1>1, <1>2, <1>3, <1>4 DEF Left

\* A segment gets the windows of the journal, under its identity.
LEMMA NoNewSegmentClaims ==
  ASSUME CInv, Next, NEW w \in Windows, NEW i \in Ids, w \in In(segs'[i])
  PROVE  i \in Claims(w)
<1>a. SegmentStep /\ Control /\ Open
  BY EachSegmentStep DEF CInv
<1>b. segs \in [Ids -> Seq(Windows)] /\ In(<<>>) = {}
  BY InSeq, EmptySeq DEF CInv, Control, DiskTypes
<1>1. CASE segs' = segs
  BY <1>1 DEF Claims
<1>2. CASE Link
  <2>1. jf \in Files /\ content[jf].id \in Ids
    BY <1>a, <1>2, Sealed DEF Link, Sealing
  <2>2. segs'[i] = segs[i] \/ (i = content[jf].id /\ segs'[i] = content[jf].wins)
    BY <1>b, <1>2 DEF Link
  <2> QED BY <2>1, <2>2 DEF Claims
<1>3. ASSUME NEW gone \in SUBSET unsynced,
             segs' = [j \in Ids |-> IF j \in gone THEN <<>> ELSE segs[j]]
      PROVE  i \in Claims(w)
  <2>1. segs'[i] = <<>> \/ segs'[i] = segs[i]
    BY <1>3
  <2> QED BY <1>b, <2>1 DEF Claims
<1> QED BY <1>a, <1>1, <1>2, <1>3 DEF SegmentStep

\* A window gets a new identity only when the journal takes it from the hand.
LEMMA NewClaims ==
  ASSUME CInv, Next, NEW w \in Windows, NEW i \in Claims(w)'
  PROVE  \/ i \in Claims(w)
         \/ pc = "append" /\ ~Refused /\ w = win /\ i = AppendId /\ ~InHand'
<1>a. FileStep /\ HandStep
  BY EachFileStep, EachHandStep
<1>b. content \in [Files -> Contents] /\ In(<<>>) = {}
  BY InSeq, EmptySeq DEF CInv, Control, DiskTypes
<1>1. i \in Ids /\ w \in In(segs'[i]) => i \in Claims(w)
  BY NoNewSegmentClaims
<1>2. ASSUME NEW f \in Files, w \in In(content'[f].wins), i = content'[f].id
      PROVE  \/ i \in Claims(w)
             \/ pc = "append" /\ ~Refused /\ w = win /\ i = AppendId /\ ~InHand'
  <2>1. CASE content'[f] = content[f]
    BY <1>2, <2>1 DEF Claims
  <2>2. CASE content'[f] # content[f]
    <3>1. content'[f] # Empty
      BY <1>2, <1>b, ContentTypes
    <3>2. PICK c \in Contents : jf = f /\ Left(c) /\ content'[f] = c
      BY <1>a, <1>b, <2>2, <3>1 DEF FileStep
    <3>3. pc = "append" => ~InHand'
      BY <1>a, <2>2 DEF HandStep, Collect
    <3> QED BY <1>2, <3>2, <3>3, LeftClaims
  <2> QED BY <2>1, <2>2
<1> QED BY <1>1, <1>2 DEF Claims

\* Every identity is the number of a collected window.
LEMMA OpenSegmentNumber ==
  ASSUME CInv, pc = "append", ~Refused
  PROVE  AppendId \in Nat /\ AppendId <= next
<1>a. Control /\ Open /\ Identity /\ jf \in Files /\ content[jf] \in Contents /\ win.n = next /\ next \in Nat
  BY Appended DEF CInv, Identity, InHand, Control, ProcessTypes
<1>1. CASE first = None
  BY <1>a, <1>1 DEF AppendId
<1>2. CASE first # None
  <2>1. first = content[jf].id /\ content[jf].wins # <<>> /\ AppendId = first
    BY <1>a, <1>2 DEF Open, Described, Refused, AppendId
  <2>2. content[jf].wins \in Seq(Windows) /\ Len(content[jf].wins) \in Nat
    BY <1>a, LenProperties DEF Contents
  <2>3. 1 \in 1..Len(content[jf].wins)
    BY <2>1, <2>2, EmptySeq
  <2>4. content[jf].wins[1] \in Windows /\ content[jf].id \in Claims(content[jf].wins[1])
    BY <1>a, <2>2, <2>3, InSeq DEF Claims
  <2>5. content[jf].id \in Nat
    BY <1>a DEF Contents
  <2> QED BY <1>a, <2>1, <2>4, <2>5 DEF Identity
<1> QED BY <1>1, <1>2

LEMMA NextIdentity == ASSUME CInv, Control', Next PROVE Identity'
<1>a. Control /\ Identity /\ HandStep /\ next \in Nat /\ win \in Windows /\ next' \in Nat
  BY EachHandStep DEF CInv, Control, ProcessTypes
<1>1. InHand' => win'.n = next' /\ win'.n # 0
  BY <1>a DEF Identity, HandStep, Collect
<1>2. ASSUME NEW w \in Windows, NEW i \in Claims(w)'
      PROVE  w.n <= next' /\ i <= next' /\ (InHand' => win'.n \notin {w.n, i})
  <2>1. w.n \in Nat
    BY DEF Windows
  <2>2. CASE i \in Claims(w)
    <3>1. w.n <= next /\ i <= next /\ (InHand => win.n \notin {w.n, i})
      BY <1>a, <2>2 DEF Identity
    <3>2. i \in Nat
      BY <2>2 DEF Claims, CInv, Control, DiskTypes, Contents, Ids
    <3>3. w.n <= next' /\ i <= next'
      BY <1>a, <2>1, <3>1, <3>2 DEF HandStep
    <3>4. InHand' => win'.n \notin {w.n, i}
      BY <1>a, <2>1, <3>1, <3>2 DEF HandStep, Collect
    <3> QED BY <3>3, <3>4
  <2>3. CASE pc = "append" /\ ~Refused /\ w = win /\ i = AppendId /\ ~InHand'
    BY <1>a, <2>1, <2>3, OpenSegmentNumber DEF Identity, InHand, HandStep
  <2> QED BY <2>2, <2>3, NewClaims
<1>3. ASSUME NEW w \in Windows, NEW i \in Claims(w)', NEW j \in Claims(w)'
      PROVE  i = j
  <2>1. CASE i \in Claims(w) /\ j \in Claims(w)
    BY <1>a, <2>1 DEF Identity
  <2>2. CASE w = win /\ pc = "append" /\ i = AppendId /\ j = AppendId
    BY <2>2
  <2>3. CASE w = win /\ pc = "append" /\ (i \in Claims(w) \/ j \in Claims(w))
    BY <1>a, <2>3 DEF Identity, InHand
  <2> QED BY <2>1, <2>2, <2>3, NewClaims
<1> QED BY <1>1, <1>2, <1>3 DEF Identity

-----------------------------------------------------------------------------
(* Position: what is committed was written before. *)

\* The window in hand is written, its position is not.
Due == pc = "commit" \/ task = "run"
PositionStep ==
  /\ acked \subseteq acked'
  /\ pos' = pos \/ (pc = "commit" /\ pos' = win.e)
  /\ mem' \in {0, mem, pos'}
  /\ Due' => \/ AppendWindow
             \/ Due /\ UNCHANGED <<win, mem, next>>
  /\ InHand' => UNCHANGED mem

LEMMA EachPositionStep == ASSUME CInv, Next PROVE PositionStep
<1> USE DEF files, segments, recovery, segment, cycle, bounds, EvidenceTasks, PositionStep
<1>a. Control
  BY DEF CInv
<1>1. CASE Start \/ StartupFails \/ AgeSeal \/ Stop \/ Kill \/ PowerLoss \/ Collect
  <2>1. ~InHand' \/ mem' = mem
    BY <1>a, <1>1 DEF InHand, Start, StartupFails, AgeSeal, Stop, Kill, PowerLoss, Dies, Collect,
       Gone, Control, TaskByPc, Resets
  <2>2. ~Due'
    BY <1>a, <1>1 DEF Due, Start, StartupFails, AgeSeal, Stop, Kill, PowerLoss, Dies, Collect,
       Gone, Control, TaskByPc, Resets
  <2>3. acked' = acked /\ pos' = pos /\ mem' \in {0, mem, pos'}
    BY <1>1 DEF Start, StartupFails, AgeSeal, Stop, Kill, PowerLoss, Dies, Collect, Gone
  <2> QED BY <2>1, <2>2, <2>3
<1>2. CASE Recover
  <2>1. pc' \notin {"append", "commit"} /\ task' \notin {"early", "run"}
    <3>1. pc \notin {"append", "seal", "sync", "commit"} \cup Resets /\ task \notin {"early", "run"}
      BY <1>a, <1>2 DEF Control, TaskByPc, Recover, OpenFresh, OpenExisting, OpenDamaged,
         BeginRotation, BeginFails, NewGeneration, Exchange, MoveAside, Promote, KeepAlternate, Replay,
         ReplayDone, ReplayNothing, ReplayRolledBack, ReplayPoisons, Replaying, InspectFails, Settle, Scan,
         NextPending, Ready, Resets
    <3>2. CASE OpenFresh \/ OpenExisting \/ OpenDamaged \/ BeginRotation \/ BeginFails
               \/ Exchange \/ MoveAside \/ Promote \/ KeepAlternate
      BY <3>1, <3>2 DEF OpenFresh, OpenExisting, OpenDamaged, BeginRotation, BeginFails,
         NewGeneration, Exchange, MoveAside, Promote, KeepAlternate, RotationStep
    <3>3. CASE Replay \/ ReplayDone \/ ReplayNothing \/ ReplayRolledBack \/ ReplayPoisons \/ InspectFails
      BY <3>1, <3>3 DEF Replay, ReplayDone, ReplayNothing, ReplayRolledBack, ReplayPoisons,
         Evidence, InspectFails, Gone
    <3>4. CASE Settle \/ Scan \/ NextPending \/ Ready
      BY <3>1, <3>4 DEF Settle, Scan, NextPending, Ready
    <3> QED BY <1>2, <3>2, <3>3, <3>4 DEF Recover
  <2>2. acked' = acked /\ pos' = pos /\ mem' \in {0, mem}
    BY <1>2 DEF Recover, OpenFresh, OpenExisting, OpenDamaged, BeginRotation, BeginFails,
       NewGeneration, Exchange, MoveAside, Promote, KeepAlternate, RotationStep, Replay, ReplayDone,
       ReplayNothing, ReplayRolledBack, ReplayPoisons, Evidence, InspectFails, Settle, Scan,
       NextPending, Ready, Gone
  <2> QED BY <2>1, <2>2 DEF InHand, Due
<1>3. CASE Link \/ AlreadyLinked \/ SyncDay
  BY <1>3 DEF Due, Link, AlreadyLinked, SyncDay
<1>4. CASE LinkedByAnother \/ TemporaryFails \/ PublishFails
  <2>1. pc' \in {"check", "rotate", "reset2"} /\ task' \in {"none"} \cup EvidenceTasks
    <3>1. SealFails /\ task \in RunTasks \cup {"recovery"} \cup EvidenceTasks
      BY <1>a, <1>4 DEF Control, TaskByPc, ProcessTypes, LinkedByAnother, TemporaryFails,
         PublishFails
    <3> QED BY <3>1, Callers DEF SealFails
  <2>2. acked' = acked /\ pos' = pos /\ mem' = mem
    BY <1>4 DEF LinkedByAnother, TemporaryFails, PublishFails, SealFails
  <2> QED BY <2>1, <2>2 DEF Due
<1>5. CASE Reset
  <2>1. task \in RunTasks \cup {"recovery"} \cup EvidenceTasks
    BY <1>a, <1>5 DEF Reset, Control, TaskByPc, ProcessTypes
  <2>2. task' # "run" /\ (pc' = "commit" => task = "run")
    BY <1>5, <2>1, Callers DEF Reset, RunTasks
  <2> QED BY <1>5, <2>2 DEF Reset, Due, Resets
<1>6. CASE ResetFails
  <2>1. pc' \notin {"append", "commit"} /\ task' \notin {"early", "run"}
    BY <1>6 DEF ResetFails, Gone
  <2>2. acked' = acked /\ pos' = pos /\ mem' \in {0, mem}
    BY <1>6 DEF ResetFails, Gone
  <2> QED BY <2>1, <2>2 DEF InHand, Due
<1>7. CASE EarlySeal
  BY <1>7 DEF EarlySeal, InHand, Due
<1>8. CASE AppendWindow
  BY <1>8 DEF AppendWindow, InHand
<1>9. CASE AppendFails \/ Commit \/ Check
  <2>1. task \notin {"early", "run"} /\ pc' \notin {"append", "commit"} /\ task' \notin {"early", "run"}
    BY <1>a, <1>9 DEF Control, TaskByPc, AppendFails, Commit, Check, Gone, Resets
  <2>2. acked' = acked
    BY <1>9 DEF AppendFails, Commit, Check
  <2>3. /\ pos' = pos \/ (pc = "commit" /\ pos' = win.e)
        /\ mem' \in {0, mem, pos'}
    BY <1>9 DEF AppendFails, Commit, PositionOfBatch, Check, Gone
  <2> QED BY <2>1, <2>2, <2>3 DEF InHand, Due
<1> QED BY <1>1, <1>2, <1>3, <1>4, <1>5, <1>6, <1>7, <1>8, <1>9 DEF Next, Work, Seal, Cycle

LEMMA NextPosition == ASSUME CInv, Next PROVE Position'
<1>a. /\ Control /\ Position /\ HandStep /\ PositionStep
      /\ next \in Nat /\ win \in Windows /\ pos \in Nat /\ mem \in Nat
  BY EachHandStep, EachPositionStep DEF CInv, Control, ProcessTypes
<1>b. win.e \in Nat /\ win.n \in Nat
  BY <1>a DEF Windows
<1>c. pc = "commit" => Due /\ win.e = mem + 1 /\ win.e <= next /\ win \in acked
  BY <1>a, <1>b DEF Position, Due
<1>1. mem' <= pos' /\ pos' <= next'
  BY <1>a, <1>b, <1>c DEF Position, HandStep, PositionStep
<1>2. ASSUME NEW e \in 1..pos' PROVE \E w \in acked' : w.e = e
  <2>1. CASE e \in 1..pos
    BY <1>a, <2>1 DEF Position, PositionStep
  <2>2. CASE e \notin 1..pos
    <3>1. e = win.e /\ win \in acked
      BY <1>a, <1>b, <1>c, <2>2 DEF Position, PositionStep
    <3> QED BY <1>a, <3>1 DEF PositionStep
  <2> QED BY <2>1, <2>2
<1>3. InHand' \/ Due' => win'.e = mem' + 1 /\ win'.e <= win'.n /\ win'.n <= next'
  <2>1. CASE Collect
    BY <1>a, <2>1 DEF Collect, Position, cycle
  <2>2. CASE AppendWindow
    BY <1>a, <2>2 DEF AppendWindow, Position, InHand, cycle, bounds
  <2>3. CASE ~Collect /\ ~AppendWindow
    BY <1>a, <2>3 DEF HandStep, PositionStep, Position, Due
  <2> QED BY <2>1, <2>2, <2>3
<1>4. Due' => win' \in acked'
  <2>1. CASE AppendWindow
    BY <2>1 DEF AppendWindow, cycle
  <2>2. CASE ~AppendWindow
    BY <1>a, <2>2 DEF PositionStep, Position, Due
  <2> QED BY <2>1, <2>2
<1> QED BY <1>1, <1>2, <1>3, <1>4 DEF Position, Due

-----------------------------------------------------------------------------
(* The invariant, and what follows from it. *)

LEMMA InitCInv == Init => CInv
<1> SUFFICES ASSUME Init PROVE CInv
  OBVIOUS
<1>1. Control /\ Open
  BY InitControl, InitOpen
<1>2. Kept
  BY DEF Init, Kept, NothingVanishes
<1>3. \A w \in Windows : Claims(w) = {}
  <2>1. In(<<>>) = {}
    BY InSeq, EmptySeq
  <2>2. (\A f \in Files : content[f].wins = <<>>) /\ \A i \in Ids : segs[i] = <<>>
    BY ContentTypes DEF Init
  <2> QED BY <2>1, <2>2 DEF Claims
<1>4. Identity
  BY <1>3 DEF Init, Identity, InHand
<1>5. Position
  BY DEF Init, Position, InHand
<1> QED BY <1>1, <1>2, <1>4, <1>5 DEF CInv

LEMMA StepCInv == ASSUME CInv, [Next]_vars PROVE CInv'
<1>1. CASE Next
  <2>1. Control'
    BY <1>1, RecoverControl, SealControl, CycleControl, OtherControl DEF Next, Work
  <2>2. Open'
    BY <1>1, <2>1, RecoverOpen, SealOpen, CycleOpen, OtherOpen DEF Next, Work
  <2> QED BY <1>1, <2>1, <2>2, NextKept, NextIdentity, NextPosition DEF CInv
<1>2. CASE UNCHANGED vars
  <2> USE <1>2 DEF vars, files, segments, recovery, segment, cycle, bounds
  <2>1. Control'
    BY DEF CInv, Control, DiskTypes, ProcessTypes, TaskByPc, FilesByPc, HandleByPc, Starting
  <2>2. Open'
    BY DEF CInv, Open, Identified, Described, OpenHolds, Sealing, CopyOf, Verified
  <2>3. Kept'
    BY DEF CInv, Kept, NothingVanishes, InSegment, InFile
  <2>4. Identity'
    <3>1. \A w \in Windows : Claims(w)' = Claims(w)
      BY DEF Claims
    <3>2. Identity
      BY DEF CInv
    <3> QED BY <3>1, <3>2 DEF Identity, InHand
  <2>5. Position'
    BY DEF CInv, Position, InHand
  <2> QED BY <2>1, <2>2, <2>3, <2>4, <2>5 DEF CInv
<1> QED BY <1>1, <1>2

\* The invariant holds in every reachable state: through every failed append,
\* seal and reset, rotation, replay, quarantine and crash of the storage path.
THEOREM CollectorInductive == Spec => []CInv
BY InitCInv, StepCInv, PTL DEF Spec

\* Every variable stays in its type, and an exchange or a pair of renames never
\* leaves two files under the name active.parts.
THEOREM TypesHold == Spec => []TypeOK
<1>1. CInv => TypeOK
  <2> SUFFICES ASSUME CInv PROVE TypeOK
    OBVIOUS
  <2>1. Control /\ Position
    BY DEF CInv
  <2>2. \A f \in Files :
          /\ content[f].id \in 0..MaxWindows
          /\ content[f].cond \in {"ok", "torn", "lost"}
          /\ In(content[f].wins) \subseteq Windows
          /\ place[f] \in {"none", "active", "pending", "quarantine"}
    BY <2>1, InSeq DEF Control, DiskTypes, Contents, Places
  <2>3. Cardinality(ActiveFile) <= 1
    <3>1. CASE ActiveFile = {}
      BY <3>1, FS_EmptySet
    <3>2. CASE ActiveFile # {}
      <4>1. \A f, g \in Files : place[f] = "active" /\ place[g] = "active" => f = g
        BY <2>1 DEF Control, FilesByPc
      <4>2. PICK f \in Files : place[f] = "active"
        BY <3>2 DEF ActiveFile
      <4>3. ActiveFile = {f}
        BY <4>1, <4>2 DEF ActiveFile
      <4>4. Cardinality({f}) = 1
        BY ONLY FS_Singleton
      <4> QED BY ONLY <4>3, <4>4
    <3> QED BY <3>1, <3>2
  <2>4. \A i \in Ids : In(segs[i]) \subseteq Windows
    BY <2>1, InSeq DEF Control, DiskTypes
  <2>5. unsynced \subseteq Ids /\ pos \in 0..MaxWindows /\ mem \in 0..MaxWindows
    BY <2>1 DEF Control, DiskTypes, ProcessTypes, Position
  <2> QED BY <2>1, <2>2, <2>3, <2>4, <2>5 DEF TypeOK, Control, ProcessTypes, Pcs
<1> QED BY <1>1, CollectorInductive, PTL

\* What append acknowledged is in a journal file or in a synchronized segment
\* in every state: reset_after_seal, the rollback of a replay and the quarantine
\* only drop copies, for any number of crashes and I/O errors.
THEOREM WindowsKept == Spec => []NothingVanishes
<1>1. CInv => NothingVanishes
  BY DEF CInv, Kept
<1> QED BY <1>1, CollectorInductive, PTL

\* The log position in the state file covers stored windows only:
\* commit_log_collection runs after the append, never before it.
THEOREM PositionKept == Spec => []PositionCovered
<1>1. CInv => PositionCovered
  BY DEF CInv, Kept, NothingVanishes, Position, PositionCovered
<1> QED BY <1>1, CollectorInductive, PTL

\* A window has one segment identity wherever it is: a replay keeps the identity
\* of its evidence, so no restart publishes a window under two names.
THEOREM IdentityKept == Spec => []OneIdentity
<1>1. CInv => OneIdentity
  <2> SUFFICES ASSUME CInv, NEW w \in acked PROVE Cardinality(Claims(w)) = 1
    BY DEF OneIdentity
  <2>1. w \in Windows
    BY DEF CInv, Control, ProcessTypes
  <2>2. PICK i : i \in Claims(w)
    BY DEF CInv, Kept, NothingVanishes, InSegment, InFile, Claims
  <2>3. Claims(w) = {i}
    BY <2>1, <2>2 DEF CInv, Identity
  <2> QED BY <2>3, FS_Singleton
<1> QED BY <1>1, CollectorInductive, PTL

\* SegmentState::first_id is the identity in the open journal, and None exactly
\* when it is empty, after any failed or rolled back call of the run.
THEOREM StateDescribes == Spec => []StateMatchesJournal
<1>1. CInv => StateMatchesJournal
  BY DEF CInv, Open, Described, StateMatchesJournal
<1> QED BY <1>1, CollectorInductive, PTL

-----------------------------------------------------------------------------
(* Nothing joins a published journal. *)

\* The main loop has the journal open, and has not just published it.
Running ==
  \/ pc \in {"tick", "append", "commit"}
  \/ pc = "seal" /\ task \in RunTasks
  \/ pc = "check" /\ ~published

\* Only a link publishes the open segment, and only a window with a new number
\* opens the next one.
LEMMA NextUnpublished ==
  ASSUME CInv, Unpublished, "publish" \notin FaultKinds, Next
  PROVE  Unpublished'
<1> USE DEF files, segments, recovery, segment, cycle, bounds
<1>a. Control /\ Open /\ Identity /\ (Running /\ first # None => segs[first] = <<>>)
  BY DEF CInv, Unpublished, Running
<1> SUFFICES Running' /\ first' # None => segs'[first'] = <<>>
  BY DEF Unpublished, Running
<1>1. CASE Recover
  <2>1. CASE Ready
    BY <1>a, <2>1 DEF Ready, Control, HandleByPc, Starting
  <2>2. CASE OpenExisting
    BY <1>a, <2>2 DEF OpenExisting, Running, RunTasks, Control, TaskByPc, Resets
  <2>3. CASE \/ OpenFresh \/ OpenDamaged \/ BeginRotation \/ BeginFails \/ Exchange \/ MoveAside
             \/ Promote \/ KeepAlternate \/ Settle \/ Scan
    BY <2>3 DEF Running, OpenFresh, OpenDamaged, BeginRotation, BeginFails, NewGeneration,
       Exchange, MoveAside, Promote, KeepAlternate, RotationStep, Settle, Scan
  <2>4. CASE NextPending
    BY <2>4 DEF Running, NextPending
  <2>5. CASE Replay \/ ReplayDone \/ ReplayNothing \/ ReplayRolledBack \/ ReplayPoisons \/ InspectFails
    <3>1. task \in EvidenceTasks
      BY <1>a, <2>5 DEF Control, TaskByPc, Replay, ReplayDone, ReplayNothing, ReplayRolledBack,
         ReplayPoisons, Replaying, InspectFails
    <3> QED BY <2>5, <3>1 DEF Running, Replay, ReplayDone, ReplayNothing, ReplayRolledBack,
         ReplayPoisons, InspectFails, Evidence, Gone, EvidenceTasks, RunTasks
  <2> QED BY <1>1, <2>1, <2>2, <2>3, <2>4, <2>5 DEF Recover
<1>2. CASE Start \/ StartupFails \/ Stop \/ Kill \/ PowerLoss
  BY <1>2 DEF Running, Start, StartupFails, Stop, Kill, PowerLoss, Dies, Gone
<1>3. CASE Collect \/ AgeSeal
  BY <1>a, <1>3 DEF Running, Collect, AgeSeal
<1>4. CASE Link \/ AlreadyLinked \/ SyncDay
  BY <1>4 DEF Running, Link, AlreadyLinked, SyncDay
<1>5. CASE LinkedByAnother \/ TemporaryFails
  <2>1. SealFails /\ pc = "seal" /\ UNCHANGED <<segs, first>>
    BY <1>5 DEF LinkedByAnother, TemporaryFails, SealFails
  <2>2. task \in RunTasks \/ pc' \in {"rotate", "reset2"}
    BY <1>a, <2>1, Callers DEF SealFails, Control, TaskByPc, ProcessTypes
  <2> QED BY <1>a, <2>1, <2>2 DEF Running
<1>6. CASE PublishFails
  BY <1>6 DEF PublishFails, Fault
<1>7. CASE Reset
  BY <1>7 DEF Reset, StateCleared
<1>8. CASE ResetFails
  <2>1. pc' = "check" => published' = published /\ task \in RunTasks
    BY <1>8 DEF ResetFails, Gone
  <2>2. task \in RunTasks => published
    BY <1>a, <1>8 DEF ResetFails, Resets, Control, TaskByPc, HandleByPc, RunTasks, EvidenceTasks
  <2>3. pc' \in {"rotate", "reset2", "reset3", "down", "check"}
    BY <1>8 DEF ResetFails, Gone
  <2> QED BY <2>1, <2>2, <2>3 DEF Running
<1>9. CASE EarlySeal \/ AppendFails \/ Commit \/ Check
  <2>1. first' = None \/ (Running /\ UNCHANGED <<segs, first>>)
    BY <1>9 DEF Running, EarlySeal, AppendFails, Commit, Check, Gone
  <2> QED BY <1>a, <2>1
<1>10. CASE AppendWindow
  <2>1. /\ pc = "append" /\ first' = AppendId /\ segs' = segs /\ win \in Windows
        /\ segs \in [Ids -> Seq(Windows)]
    BY <1>a, <1>10, Appended DEF AppendWindow, Control, DiskTypes
  <2>2. CASE first = None
    <3>1. AppendId = win.n /\ win.n \in Ids
      BY <1>a, <2>1, <2>2 DEF AppendId, Identity, InHand, Windows, Ids
    <3>2. ASSUME segs[win.n] # <<>> PROVE FALSE
      <4>1. segs[win.n] \in Seq(Windows) /\ 1 \in 1..Len(segs[win.n])
        BY <2>1, <3>1, <3>2, EmptySeq, LenProperties
      <4>2. segs[win.n][1] \in Windows /\ segs[win.n][1] \in In(segs[win.n])
        BY <4>1, InSeq
      <4>3. win.n \in Claims(segs[win.n][1])
        BY <3>1, <4>2 DEF Claims
      <4> QED BY <1>a, <2>1, <4>2, <4>3 DEF Identity, InHand
    <3> QED BY <2>1, <3>1, <3>2
  <2>3. CASE first # None
    BY <1>a, <2>1, <2>3 DEF AppendId, Running
  <2> QED BY <2>2, <2>3
<1> QED BY <1>1, <1>2, <1>3, <1>4, <1>5, <1>6, <1>7, <1>8, <1>9, <1>10 DEF Next, Work, Seal, Cycle

\* While no synchronization of a published segment reports an error, no window
\* joins a journal that a segment was already made of (ensure_append_allowed,
\* stop_if_persistence_unhealthy); collector_publish shows why the error matters.
THEOREM NothingJoinsPublished ==
  ASSUME "publish" \notin FaultKinds
  PROVE  Spec => NoAppendAfterPublish
<1>1. Init => Unpublished
  BY DEF Init, Unpublished
<1>2. CInv /\ Unpublished /\ [Next]_vars => Unpublished'
  <2> SUFFICES ASSUME CInv, Unpublished, [Next]_vars PROVE Unpublished'
    OBVIOUS
  <2>1. CASE Next
    BY <2>1, NextUnpublished
  <2>2. CASE UNCHANGED vars
    BY <2>2 DEF vars, segments, segment, Unpublished
  <2> QED BY <2>1, <2>2
<1>3. CInv /\ Unpublished /\ [Next]_vars
      => [acked' # acked /\ content[jf].wins # <<>> => segs[content[jf].id] = <<>>]_vars
  <2> SUFFICES ASSUME CInv, Unpublished, Next, acked' # acked, content[jf].wins # <<>>
               PROVE  segs[content[jf].id] = <<>>
    OBVIOUS
  <2>1. AppendWindow
    <3>1. (\A w \in acked : w \in acked') /\ (\A w \in acked' : w \in acked) => acked' = acked
      OBVIOUS
    <3> QED BY <3>1, AckedStored, EachPositionStep DEF PositionStep
  <2>2. pc = "append" /\ ~Refused
    BY <2>1 DEF AppendWindow
  <2>3. jf \in Files /\ Open
    BY <2>2, Appended DEF CInv
  <2>4. first = content[jf].id /\ first # None
    <3>1. content[jf].id \in Ids
      BY <2>3 DEF Open, Identified
    <3>2. first = content[jf].id
      BY <2>2, <2>3 DEF Open, Described, Refused
    <3> QED BY <3>1, <3>2 DEF Ids, None
  <2> QED BY <2>2, <2>4 DEF Unpublished
<1> QED BY <1>1, <1>2, <1>3, CollectorInductive, PTL DEF Spec, NoAppendAfterPublish

-----------------------------------------------------------------------------
(* Restarts give everything back. *)

\* What does not happen without the errors in Losing.
LEMMA RuledOut ==
  ASSUME FaultKinds \cap Losing = {}, CInv, OneContent
  PROVE  /\ ~BeginFails /\ ~KeepAlternate /\ ~ReplayRolledBack /\ ~ReplayPoisons
         /\ ~InspectFails /\ ~PublishFails /\ ~LinkedByAnother
         /\ TemporaryFails => task \notin EvidenceTasks
<1>1. \A k \in Losing : ~Fault(k)
  BY DEF Fault
<1>2. ~BeginFails /\ ~KeepAlternate /\ ~ReplayRolledBack /\ ~ReplayPoisons /\ ~InspectFails
      /\ ~PublishFails
  BY <1>1 DEF Losing, BeginFails, KeepAlternate, ReplayRolledBack, ReplayPoisons, InspectFails,
     PublishFails
<1>3. TemporaryFails => task \notin EvidenceTasks
  BY <1>1 DEF Losing, TemporaryFails
<1>4. ASSUME LinkedByAnother PROVE FALSE
  <2>1. pc = "seal" /\ jf \in Files /\ content[jf].wins # <<>>
    BY <1>4, Sealed DEF LinkedByAnother, Sealing, CInv, Open, OpenHolds
  <2> QED BY <1>4, <2>1 DEF OneContent, Whole, LinkedByAnother, NameFree, Identical
<1> QED BY <1>2, <1>3, <1>4

\* An interrupted call leaves a header that names the segment.
LEMMA NextReadable ==
  ASSUME ~TornHeaders, CInv, Next, \A f \in Files : content[f].cond # "lost"
  PROVE  \A f \in Files : content'[f].cond # "lost"
<1>a. FileStep /\ content \in [Files -> Contents]
  BY EachFileStep DEF CInv, Control, DiskTypes
<1>1. ASSUME NEW c \in Contents, c.cond # "lost", NEW i, NEW w, NEW d \in Interrupted(c, i, w)
      PROVE  d.cond # "lost"
  <2>1. With(c, i, w).cond = "ok"
    BY DEF With
  <2>2. Damaged(c, i).cond = "torn"
    BY <1>1 DEF Damaged, Contents
  <2>3. Damaged(With(c, i, w), i).cond = "torn"
    BY DEF Damaged, With
  <2> QED BY <1>1, <2>1, <2>2, <2>3 DEF Interrupted
<1>2. ASSUME NEW c \in Contents, c.cond # "lost", NEW d \in HalfReset(c) \cup HeaderTorn(c)
      PROVE  d.cond # "lost"
  <2>1. HeaderTorn(c) = {}
    BY DEF HeaderTorn
  <2>2. Damaged(c, c.id).cond = "torn" /\ Empty.cond = "ok"
    BY DEF Damaged, Contents, Empty
  <2> QED BY <1>2, <2>1, <2>2 DEF HalfReset
<1>3. Empty.cond # "lost"
  BY DEF Empty
<1>4. ASSUME jf \in Files, NEW c \in Contents, Left(c) PROVE c.cond # "lost"
  BY <1>a, <1>1, <1>2, <1>4 DEF Left
<1> QED BY <1>a, <1>3, <1>4 DEF FileStep

LEMMA GonePlaced ==
  ASSUME Gone, \A f \in Files : content'[f].cond # "lost"
  PROVE  Placed' /\ CopyComplete'
BY DEF Gone, Placed, CopyComplete, Sealing, Resets, None

LEMMA RecoverPlaced ==
  ASSUME FaultKinds \cap Losing = {}, CInv, Placed, OneContent, Recover,
         \A f \in Files : content'[f].cond # "lost"
  PROVE  Placed'
<1> USE DEF None, EvidenceTasks, files, segments, recovery, segment, cycle, bounds
<1>a. Control /\ place \in [Files -> Places] /\ jf \in Files \cup {None} /\ src \in Files \cup {None}
  BY DEF CInv, Control, DiskTypes, ProcessTypes
<1>1. CASE OpenFresh
  BY <1>a, <1>1 DEF OpenFresh, Fresh, Placed, Control, TaskByPc, FilesByPc
<1>2. CASE OpenExisting
  BY <1>a, <1>2 DEF OpenExisting, ActiveFile, Placed, Control, TaskByPc, FilesByPc, Resets
<1>3. CASE OpenDamaged
  BY <1>a, <1>3 DEF OpenDamaged, Placed, Control, TaskByPc, FilesByPc
<1>4. CASE BeginRotation
  BY <1>a, <1>4 DEF BeginRotation, NewGeneration, Fresh, ActiveFile, Placed, Control, TaskByPc, FilesByPc, Resets
<1>5. CASE Exchange \/ MoveAside \/ Promote
  <2>1. jf \in Files /\ src \in Files /\ jf # src /\ task = "rotated" /\ todo = {}
    BY <1>a, <1>5 DEF Exchange, MoveAside, Promote, Control, TaskByPc, FilesByPc, Placed
  <2> QED BY <1>a, <1>5, <2>1 DEF Exchange, MoveAside, Promote, RotationStep, Placed
<1>6. CASE Replay \/ ReplayDone \/ ReplayNothing
  BY <1>a, <1>6 DEF Replay, ReplayDone, ReplayNothing, Replaying, Evidence, Placed, Control
<1>7. CASE Settle
  <2>1. jf \in Files /\ src \in Files /\ place[jf] = "active" /\ place[src] = "pending"
    BY <1>a, <1>7 DEF Settle, Control, TaskByPc, FilesByPc, Placed, Resets
  <2>2. /\ \A f \in Files : f # src => place'[f] = place[f]
        /\ todo' = todo \ {src} /\ src' = None /\ task' = "none" /\ jf' = jf
        /\ pc' = IF task = "pending" THEN "pending" ELSE "scan"
        /\ poisoned' = poisoned /\ pc = "settle"
    BY <1>a, <1>7 DEF Settle, Fault
  <2>3. todo \subseteq Files
    BY <1>a DEF Control, ProcessTypes
  <2> QED BY <2>1, <2>2, <2>3 DEF Placed
<1>8. CASE Scan
  BY <1>a, <1>8 DEF Scan, PendingRootEntries, Placed, Control, TaskByPc, FilesByPc
<1>9. CASE NextPending
  <2>1. /\ pc = "pending" /\ todo' \subseteq todo /\ UNCHANGED <<jf, poisoned, place>>
        /\ \/ src' \in todo /\ task' = "pending" /\ pc' = "evidence" /\ todo' = todo
           \/ UNCHANGED <<src, task, pc>>
    BY <1>9 DEF NextPending
  <2> QED BY <1>a, <2>1 DEF Placed, Control, TaskByPc
<1>10. CASE Ready
  BY <1>a, <1>10 DEF Ready, Placed
<1> QED BY <1>1, <1>2, <1>3, <1>4, <1>5, <1>6, <1>7, <1>8, <1>9, <1>10, RuledOut DEF Recover

LEMMA SealPlaced ==
  ASSUME FaultKinds \cap Losing = {}, CInv, Placed, OneContent, Seal,
         \A f \in Files : content'[f].cond # "lost"
  PROVE  Placed'
<1> USE DEF None, EvidenceTasks, files, segments, recovery, segment, cycle, bounds
<1>a. Control /\ place \in [Files -> Places] /\ jf \in Files \cup {None} /\ src \in Files \cup {None}
  BY DEF CInv, Control, DiskTypes, ProcessTypes
<1>1. CASE Link \/ AlreadyLinked \/ SyncDay
  BY <1>a, <1>1 DEF Link, AlreadyLinked, SyncDay, Placed
<1>2. CASE TemporaryFails
  <2>1. /\ UNCHANGED <<place, src, todo, poisoned>> /\ jf' \in {jf, None} /\ pc = "seal"
        /\ task \in {"recovery"} \cup RunTasks /\ task' = "none" /\ pc' \in {"check", "rotate"}
    BY <1>a, <1>2, RuledOut, Callers DEF TemporaryFails, SealFails, Control, TaskByPc, ProcessTypes,
       Resets
  <2> QED BY <1>a, <2>1 DEF Placed, RunTasks, Control, FilesByPc
<1>3. CASE Reset
  <2>1. /\ UNCHANGED <<place, src, todo, poisoned, jf>> /\ pc \in Resets
        /\ \/ task \in EvidenceTasks /\ pc' = "settle" /\ task' = task
           \/ task \in {"recovery"} \cup RunTasks /\ task' = "none"
              /\ pc' \in {"scan", "commit", "append", "check"}
    BY <1>a, <1>3, Callers DEF Reset, Control, TaskByPc, ProcessTypes, RunTasks
  <2> QED BY <1>a, <2>1 DEF Placed, RunTasks, Control, FilesByPc, Resets
<1>4. CASE ResetFails
  <2>1. CASE Gone
    BY <2>1, GonePlaced
  <2>2. CASE ~Gone
    <3>1. /\ UNCHANGED <<place, src, todo>> /\ pc \in Resets /\ jf' \in {jf, None}
          /\ \/ task \in EvidenceTasks /\ pc' \in {"reset2", "reset3"} /\ task' = task
                /\ poisoned' = poisoned
             \/ task = "recovery" /\ task' = "none" /\ pc' = "rotate" /\ poisoned' = poisoned
             \/ task \in RunTasks /\ task' = "none" /\ pc' = "check"
      BY <1>4, <2>2 DEF ResetFails
    <3> QED BY <1>a, <3>1 DEF Placed, RunTasks, Control, FilesByPc, Resets
  <2> QED BY <2>1, <2>2
<1> QED BY <1>1, <1>2, <1>3, <1>4, RuledOut DEF Seal

LEMMA NextPlaced ==
  ASSUME FaultKinds \cap Losing = {}, ~TornHeaders, CInv, Placed, OneContent, Next
  PROVE  Placed'
<1> USE DEF None, EvidenceTasks, files, segments, recovery, segment, cycle, bounds
<1>a. Control
  BY DEF CInv
<1>b. \A f \in Files : content'[f].cond # "lost"
  BY NextReadable DEF Placed
<1>1. CASE Recover \/ Seal
  BY <1>b, <1>1, RecoverPlaced, SealPlaced
<1>2. CASE Gone
  BY <1>b, <1>2, GonePlaced
<1>3. CASE Start \/ Collect \/ AgeSeal \/ EarlySeal \/ AppendWindow \/ Commit
  <2>1. /\ UNCHANGED <<place, src, todo, poisoned, jf>> /\ pc \in {"down", "tick", "append", "commit"}
        /\ task' \notin EvidenceTasks /\ pc' \notin {"activate", "promote"} 
    BY <1>a, <1>3 DEF Start, Collect, AgeSeal, EarlySeal, AppendWindow, Commit, Control, TaskByPc,
       Resets
  <2>2. task = "none" /\ (jf = None \/ pc # "down")
    BY <1>a, <2>1 DEF Control, TaskByPc, FilesByPc, Resets
  <2> QED BY <1>a, <1>b, <2>1, <2>2 DEF Placed
<1>4. CASE AppendFails
  <2>1. /\ UNCHANGED <<place, src, todo, jf, task>> /\ pc = "append" /\ pc' = "check"
    BY <1>4 DEF AppendFails
  <2> QED BY <1>a, <1>b, <2>1 DEF Placed, Control, TaskByPc, FilesByPc, Resets
<1>5. CASE Check /\ ~Gone
  <2>1. /\ UNCHANGED <<place, src, todo, jf, task, poisoned>> /\ pc = "check" /\ pc' = "tick" /\ ~poisoned
    BY <1>5 DEF Check
  <2> QED BY <1>a, <1>b, <2>1 DEF Placed, Control, TaskByPc, FilesByPc, Resets
<1> QED BY <1>1, <1>2, <1>3, <1>4, <1>5 DEF Next, Work, Cycle, StartupFails, Stop, Kill, PowerLoss, Dies

\* A replay that has ended has copied everything.
LEMMA CopiedAll ==
  ASSUME Control, Open, Placed, Replaying, ReplayEnds(Replayed)
  PROVE  /\ jf \in Files /\ src \in Files /\ jf # src /\ content[src].wins # <<>>
         /\ content[jf].wins = content[src].wins /\ content[jf].id = content[src].id
<1>1. /\ jf \in Files /\ src \in Files /\ content[jf] \in Contents /\ content[src] \in Contents
      /\ place[jf] = "active" /\ place[src] = "pending"
  BY DEF Replaying, Control, TaskByPc, FilesByPc, ProcessTypes, DiskTypes, Placed
<1>2. CopyOf(content[jf], content[src])
  BY DEF Replaying, Open, OpenHolds
<1>3. Verified(content[src]) = content[src].wins
  BY <1>1 DEF Placed, Verified
<1>4. content[jf].wins \in Seq(Windows) /\ content[src].wins \in Seq(Windows)
      /\ Len(content[jf].wins) = Len(content[src].wins)
  BY <1>1, <1>3 DEF Contents, ReplayEnds, Replayed
<1>5. \A k \in 1..Len(content[jf].wins) : content[jf].wins[k] = content[src].wins[k]
  BY <1>2, <1>3 DEF CopyOf
<1>6. content[jf].wins = content[src].wins
  BY <1>4, <1>5, SeqEqual
<1>7. content[src].wins # <<>>
  BY <1>3 DEF Replaying
<1> QED BY <1>1, <1>2, <1>6, <1>7 DEF CopyOf

\* Only a replay that has copied everything is sealed, and only a reset whose
\* segment is durable is tried again.
LEMMA NextCopyComplete ==
  ASSUME FaultKinds \cap Losing = {}, CInv, Placed, CopyComplete, OneContent, Next
  PROVE  CopyComplete'
<1> USE DEF None, files, segments, recovery, segment, cycle, bounds
<1>a. Control /\ Open /\ content \in [Files -> Contents]
  BY DEF CInv, Control, DiskTypes
<1>1. CASE ~(Sealing' /\ task' \in EvidenceTasks)
  <2>1. pc' \in {"reset2", "reset3"} => task' \in EvidenceTasks
    <3>1. Control'
      BY StepCInv DEF CInv
    <3> QED BY <3>1 DEF Control, TaskByPc
  <2> QED BY <1>1, <2>1 DEF CopyComplete, Sealing, Resets
<1>2. CASE Sealing' /\ task' \in EvidenceTasks /\ Sealing
  <2>1. CASE Link \/ AlreadyLinked \/ SyncDay
    <3>1. /\ content' = content /\ jf' = jf /\ src' = src /\ task' = task
          /\ pc' \notin {"reset2", "reset3"}
      BY <2>1 DEF Link, AlreadyLinked, SyncDay
    <3> QED BY <1>2, <3>1 DEF CopyComplete
  <2>2. CASE TemporaryFails
    BY <1>2, <2>2, RuledOut DEF TemporaryFails, SealFails, EvidenceTasks
  <2>3. CASE Reset
    <3>1. pc' = AfterReset(task) /\ task \in EvidenceTasks
      BY <1>2, <2>3 DEF Reset, EvidenceTasks
    <3> QED BY <1>2, <3>1, Callers DEF Sealing, Resets
  <2>4. CASE ResetFails
    <3>1. /\ content' = [content EXCEPT ![jf] = content[jf]] /\ pc \in Resets
          /\ UNCHANGED <<jf, src, task, segs, unsynced>>
      BY <1>2, <2>4 DEF ResetFails, Gone, EvidenceTasks
    <3>2. content' = content
      BY <1>a, <3>1
    <3>3. segs[content[jf].id] = content[jf].wins /\ content[jf].id \notin unsynced
      BY <1>a, <3>1 DEF Open, OpenHolds, CopyComplete, Resets
    <3> QED BY <1>2, <3>1, <3>2, <3>3 DEF CopyComplete
  <2>5. CASE Kill \/ PowerLoss
    BY <1>2, <2>5 DEF Kill, PowerLoss, Dies, Gone, EvidenceTasks
  <2>6. Seal \/ Kill \/ PowerLoss
    <3>1. pc \in {"seal", "sync", "reset", "reset2", "reset3"}
      BY <1>2 DEF Sealing, Resets
    <3> QED BY <3>1 DEF Next, Work, Recover, Cycle, Start, StartupFails, Collect, AgeSeal, Stop,
       OpenFresh, OpenExisting, OpenDamaged, BeginRotation, BeginFails, NewGeneration, Exchange,
       MoveAside, Promote, KeepAlternate, Replay, ReplayDone, ReplayNothing, ReplayRolledBack,
       ReplayPoisons, Replaying, InspectFails, Settle, Scan, NextPending, Ready, EarlySeal,
       AppendWindow, AppendFails, Commit, Check
  <2> QED BY <2>1, <2>2, <2>3, <2>4, <2>5, <2>6, RuledOut DEF Seal
<1>3. CASE Sealing' /\ task' \in EvidenceTasks /\ ~Sealing
  <2>1. ReplayDone
    <3>1. ~Seal
      BY <1>3 DEF Sealing, Resets, Seal, Link, AlreadyLinked, LinkedByAnother, TemporaryFails,
         SyncDay, PublishFails, Reset, ResetFails
    <3>2. ~(Start \/ StartupFails \/ Collect \/ AgeSeal \/ Stop \/ Kill \/ PowerLoss \/ Cycle)
      BY <1>3 DEF Sealing, Resets, EvidenceTasks, Start, StartupFails, Collect, AgeSeal, Stop,
         Kill, PowerLoss, Dies, Gone, Cycle, EarlySeal, AppendWindow, AppendFails, Commit, Check
    <3>3. Recover => ReplayDone
      BY <1>3, RuledOut DEF Sealing, Resets, EvidenceTasks, Recover, OpenFresh, OpenExisting,
         OpenDamaged, BeginRotation, NewGeneration, Exchange, MoveAside, Promote, RotationStep,
         Replay, ReplayNothing, Evidence, Settle, Scan, NextPending, Ready
    <3> QED BY <3>1, <3>2, <3>3 DEF Next, Work
  <2>2. /\ content' = content /\ jf' = jf /\ src' = src /\ pc' = "seal"
        /\ Replaying /\ ReplayEnds(Replayed)
    BY <2>1 DEF ReplayDone, Evidence
  <2> QED BY <1>a, <2>2, CopiedAll DEF CopyComplete
<1> QED BY <1>1, <1>2, <1>3

\* The identity an append writes under has no segment and no other file.
LEMMA AppendIsAlone ==
  ASSUME CInv, Unpublished, OneContent, pc = "append", ~Refused
  PROVE  /\ AppendId \in Ids /\ segs[AppendId] = <<>>
         /\ \A g \in Files \ {jf} : content[g].wins # <<>> => content[g].id # AppendId
<1>a. /\ Control /\ Identity /\ win \in Windows /\ jf \in Files
      /\ content \in [Files -> Contents] /\ segs \in [Ids -> Seq(Windows)]
  BY Appended DEF CInv, Control, DiskTypes
<1>1. CASE first = None
  <2>1. AppendId = win.n /\ win.n \in Ids
    BY <1>a, <1>1 DEF AppendId, Identity, InHand, Windows, Ids
  <2>2. ASSUME NEW s \in Seq(Windows), s # <<>>
        PROVE  \E w \in Windows : w \in In(s)
    <3>1. 1 \in 1..Len(s)
      BY <2>2, EmptySeq, LenProperties
    <3> QED BY <3>1, InSeq
  <2>3. ASSUME segs[win.n] # <<>> PROVE FALSE
    <3>1. PICK w \in Windows : w \in In(segs[win.n])
      BY <1>a, <2>1, <2>2, <2>3
    <3>2. win.n \in Claims(w)
      BY <2>1, <3>1 DEF Claims
    <3> QED BY <1>a, <3>2 DEF Identity, InHand
  <2>4. ASSUME NEW g \in Files, content[g].wins # <<>>, content[g].id = win.n PROVE FALSE
    <3>1. PICK w \in Windows : w \in In(content[g].wins)
      BY <1>a, <2>2, <2>4 DEF Contents
    <3>2. win.n \in Claims(w)
      BY <2>4, <3>1 DEF Claims
    <3> QED BY <1>a, <3>2 DEF Identity, InHand
  <2> QED BY <2>1, <2>3, <2>4
<1>2. CASE first # None
  <2>1. AppendId = first /\ first \in Ids
    BY <1>a, <1>2 DEF AppendId, Control, ProcessTypes, Ids, None
  <2> QED BY <1>2, <2>1 DEF Unpublished, OneContent
<1> QED BY <1>1, <1>2

\* Whatever becomes of an append, the windows are under that identity.
LEMMA AppendLeaves ==
  ASSUME CInv, pc = "append", ~Refused, NEW c \in Interrupted(content[jf], AppendId, win),
         c.wins # <<>>
  PROVE  c.id = AppendId
<1>a. Control /\ Open /\ jf \in Files /\ content[jf] \in Contents
  BY Appended DEF CInv
<1>1. c = content[jf] \/ c.id = AppendId
  BY <1>a, Appended, InterruptedHolds
<1>2. content[jf].wins # <<>> => content[jf].id = AppendId
  BY <1>a DEF Open, Described, Identified, AppendId, Refused, Ids, None
<1> QED BY <1>1, <1>2

LEMMA EvidenceSteps ==
  ASSUME FaultKinds \cap Losing = {}, CInv, OneContent, Next, pc = "evidence"
  PROVE  Replay \/ ReplayDone \/ ReplayNothing \/ Kill \/ PowerLoss
<1>1. ~Seal /\ ~Cycle /\ ~StartupFails
  BY DEF Seal, Link, AlreadyLinked, LinkedByAnother, TemporaryFails, SyncDay, PublishFails, Reset,
     ResetFails, Resets, Cycle, EarlySeal, AppendWindow, AppendFails, Commit, Check, StartupFails
<1>2. ~Start /\ ~Collect /\ ~AgeSeal /\ ~Stop
  BY DEF Start, Collect, AgeSeal, Stop
<1>3. Recover => Replay \/ ReplayDone \/ ReplayNothing
  BY RuledOut DEF Recover, OpenFresh, OpenExisting, OpenDamaged, BeginRotation, NewGeneration,
     Exchange, MoveAside, Promote, Settle, Scan, NextPending, Ready
<1> QED BY <1>1, <1>2, <1>3 DEF Next, Work

\* A file with windows has those of a file before the step, or of an append.
LEMMA WholeStep ==
  ASSUME FaultKinds \cap Losing = {}, ~TornHeaders, CInv, Placed, OneContent, Next, Undisturbed,
         NEW f \in Files, Whole(f)'
  PROVE  \/ pc = "append" /\ ~Refused /\ f = jf /\ content'[f].id = AppendId
         \/ \E g \in Files : /\ Whole(g) /\ (g = f \/ pc = "evidence")
                             /\ content'[f].id = content[g].id /\ content'[f].wins = content[g].wins
<1>a. /\ Control /\ Open /\ FileStep /\ content \in [Files -> Contents]
      /\ content'[f].wins # <<>> /\ (pc' = "evidence" => f # jf')
  BY EachFileStep DEF CInv, Control, DiskTypes, Whole
<1>1. CASE pc = "evidence" /\ f = jf
  <2>1. ~Replay
    BY <1>a, <1>1 DEF Replay, Evidence
  <2>2. ~Copying
    BY <1>1, <2>1, EvidenceSteps DEF Undisturbed, Copying, ReplayDone, ReplayNothing
  <2>3. content'[jf] = content[jf]
    <3>1. CASE ReplayDone \/ ReplayNothing
      BY <3>1 DEF ReplayDone, ReplayNothing
    <3>2. CASE Kill \/ PowerLoss
      <4>1. \A torn : InFlight(torn) = {content[jf]}
        BY <1>1, <2>2 DEF InFlight, Copying, Resets
      <4> QED BY <1>a, <1>1, <3>2, <4>1 DEF Kill, PowerLoss, Dies
    <3> QED BY <1>1, <2>1, <3>1, <3>2, EvidenceSteps
  <2>4. Replaying
    <3>1. CopyOf(content[jf], content[src])
      BY <1>a, <1>1 DEF Open, OpenHolds, Placed
    <3>2. content[jf].wins \in Seq(Windows) /\ Len(content[jf].wins) # 0 /\ Len(content[jf].wins) \in Nat
      BY <1>a, <1>1, <2>3, EmptySeq, LenProperties DEF Contents
    <3>3. Verified(content[src]) # <<>>
      BY <3>1, <3>2 DEF CopyOf
    <3> QED BY <1>1, <3>3 DEF Replaying, Placed
  <2>5. /\ src \in Files /\ jf # src /\ content[src].wins # <<>>
        /\ content[jf].wins = content[src].wins /\ content[jf].id = content[src].id
    BY <1>a, <2>2, <2>4, CopiedAll DEF Copying
  <2> QED BY <1>1, <2>3, <2>5 DEF Whole
<1>2. CASE ~(pc = "evidence" /\ f = jf) /\ content'[f] = content[f]
  BY <1>a, <1>2 DEF Whole
<1>3. CASE ~(pc = "evidence" /\ f = jf) /\ content'[f] # content[f]
  <2>1. content'[f] # Empty
    BY <1>a, ContentTypes
  <2>2. PICK c \in Contents : jf = f /\ Left(c) /\ content'[f] = c
    BY <1>a, <1>3, <2>1 DEF FileStep
  <2>3. CASE pc = "append" /\ ~Refused /\ c \in Interrupted(content[jf], AppendId, win)
    BY <1>a, <2>2, <2>3, AppendLeaves
  <2>4. CASE pc \in Resets /\ c \in HalfReset(content[jf])
    <3>1. c.wins = content[f].wins /\ c.id = content[f].id
      BY <1>a, <2>1, <2>2, <2>4, HalfResetHolds
    <3> QED BY <1>a, <1>3, <2>2, <3>1 DEF Whole
  <2>5. HeaderTorn(content[jf]) = {} /\ ~Replaying
    BY <1>3, <2>2 DEF HeaderTorn, Replaying
  <2> QED BY <1>3, <2>2, <2>3, <2>4, <2>5 DEF Left
<1> QED BY <1>1, <1>2, <1>3

\* A step links the journal, takes a segment away, or leaves it.
LEMMA SegmentOf ==
  ASSUME CInv, Next, NEW i \in Ids
  PROVE  \/ segs'[i] \in {segs[i], <<>>}
         \/ /\ pc = "seal" /\ i = content[jf].id /\ segs'[i] = content[jf].wins
            /\ content' = content /\ jf \in Files /\ content[jf].wins # <<>>
<1>a. SegmentStep /\ Control /\ Open /\ segs \in [Ids -> Seq(Windows)]
  BY EachSegmentStep DEF CInv, Control, DiskTypes
<1>1. CASE Link
  <2>1. jf \in Files /\ content[jf].wins # <<>> /\ content[jf].id \in Ids
    BY <1>a, <1>1, Sealed DEF Link, Sealing, Open, OpenHolds
  <2>2. pc = "seal" /\ content' = content /\ segs' = [segs EXCEPT ![content[jf].id] = content[jf].wins]
    BY <1>1 DEF Link, files
  <2> QED BY <1>a, <2>1, <2>2
<1>2. CASE segs' = segs
  BY <1>2
<1>3. CASE \E gone \in SUBSET unsynced : segs' = [j \in Ids |-> IF j \in gone THEN <<>> ELSE segs[j]]
  BY <1>3
<1> QED BY <1>a, <1>1, <1>2, <1>3 DEF SegmentStep

LEMMA FirstStep ==
  ASSUME CInv, Next, first' # None
  PROVE  AppendWindow \/ (first' = first /\ jf' = jf)
<1> USE DEF files, segments, recovery, segment, cycle, bounds
<1>a. Starting => first = None
  BY DEF CInv, Control, HandleByPc
<1>1. CASE Recover
  BY <1>a, <1>1 DEF Recover, OpenFresh, OpenExisting, OpenDamaged, BeginRotation, BeginFails,
     NewGeneration, Exchange, MoveAside, Promote, KeepAlternate, RotationStep, Replay, ReplayDone,
     ReplayNothing, ReplayRolledBack, ReplayPoisons, Evidence, InspectFails, Settle, Scan,
     NextPending, Ready, Gone, Starting, None
<1>2. CASE Start \/ StartupFails \/ Collect \/ AgeSeal \/ Stop \/ Kill \/ PowerLoss
  BY <1>2 DEF Start, StartupFails, Collect, AgeSeal, Stop, Kill, PowerLoss, Dies, Gone, None
<1>3. CASE Seal
  <2>1. CASE task = "recovery"
    BY <1>a, <1>3, <2>1 DEF Starting, Seal, Link, AlreadyLinked, LinkedByAnother, TemporaryFails,
       SyncDay, PublishFails, SealFails, Reset, ResetFails, Gone, StateCleared, None
  <2>2. CASE task # "recovery"
    BY <1>3, <2>2 DEF Seal, Link, AlreadyLinked, LinkedByAnother, TemporaryFails,
       SyncDay, PublishFails, SealFails, Reset, ResetFails, Gone, StateCleared, None
  <2> QED BY <2>1, <2>2
<1>4. CASE Cycle
  BY <1>4 DEF Cycle, EarlySeal, AppendFails, Commit, Check, Gone, None
<1> QED BY <1>1, <1>2, <1>3, <1>4 DEF Next, Work

\* A seal, a crash, a replay or an append never gives an identity a second content.
LEMMA NextOneContent ==
  ASSUME FaultKinds \cap Losing = {}, ~TornHeaders, CInv, Unpublished, Placed, OneContent, Next,
         Undisturbed
  PROVE  OneContent'
<1> DEFINE Written(f) == pc = "append" /\ ~Refused /\ f = jf /\ content'[f].id = AppendId
           From(f, g) == /\ Whole(g) /\ (g = f \/ pc = "evidence")
                         /\ content'[f].id = content[g].id /\ content'[f].wins = content[g].wins
<1>a. /\ Control /\ Open /\ FileStep /\ content \in [Files -> Contents]
  BY EachFileStep DEF CInv, Control, DiskTypes
<1>b. \A f \in Files : Whole(f)' => Written(f) \/ \E g \in Files : From(f, g)
  BY WholeStep
<1>c. \A f \in Files : Whole(f) => content[f].id \in Ids
  BY <1>a DEF Open, Identified, Whole
<1>d. pc = "append" /\ ~Refused =>
        /\ AppendId \in Ids /\ segs[AppendId] = <<>>
        /\ \A g \in Files \ {jf} : content[g].wins # <<>> => content[g].id # AppendId
  BY AppendIsAlone
<1>1. ASSUME NEW f \in Files, Whole(f)' PROVE segs'[content'[f].id] \in {<<>>, content'[f].wins}
  <2>1. CASE Written(f)
    <3>1. segs'[AppendId] \in {segs[AppendId], <<>>}
      BY <1>d, <2>1, SegmentOf
    <3> QED BY <1>d, <2>1, <3>1
  <2>2. ASSUME NEW g \in Files, From(f, g)
        PROVE  segs'[content'[f].id] \in {<<>>, content'[f].wins}
    <3> DEFINE i == content[g].id
    <3>1. i \in Ids /\ segs[i] \in {<<>>, content[g].wins}
      BY <1>c, <2>2 DEF OneContent
    <3>2. CASE segs'[i] \in {segs[i], <<>>}
      BY <2>2, <3>1, <3>2
    <3>3. CASE /\ pc = "seal" /\ i = content[jf].id /\ segs'[i] = content[jf].wins
               /\ content' = content /\ jf \in Files /\ content[jf].wins # <<>>
      <4>1. Whole(jf)
        BY <3>3 DEF Whole
      <4> QED BY <2>2, <3>3, <4>1 DEF OneContent
    <3> QED BY <3>1, <3>2, <3>3, SegmentOf
  <2> QED BY <1>1, <1>b, <2>1, <2>2
<1>2. ASSUME NEW f \in Files, NEW g \in Files, Whole(f)', Whole(g)', content'[f].id = content'[g].id
      PROVE  content'[f].wins = content'[g].wins
  <2>1. ASSUME NEW h \in Files, NEW k \in Files, Written(h), h # k, From(k, k)
        PROVE  content'[h].id # content'[k].id
    BY <1>d, <2>1 DEF Whole
  <2>2. CASE Written(f) \/ Written(g)
    <3>1. f = g \/ (Written(f) /\ From(g, g)) \/ (Written(g) /\ From(f, f))
      BY <1>2, <1>b, <2>2
    <3> QED BY <1>2, <2>1, <3>1
  <2>3. CASE ~Written(f) /\ ~Written(g)
    <3>1. PICK h \in Files, k \in Files : From(f, h) /\ From(g, k)
      BY <1>2, <1>b, <2>3
    <3> QED BY <1>2, <3>1 DEF OneContent
  <2> QED BY <2>2, <2>3
<1>3. ASSUME first' # None, NEW g \in Files \ {jf'}, content'[g].wins # <<>>
      PROVE  content'[g].id # first'
  <2>1. jf' = jf
    BY <1>3, FirstStep DEF AppendWindow
  <2>2. content'[g] \in {content[g], Empty}
    BY <1>a, <1>3, <2>1 DEF FileStep
  <2>3. content'[g] = content[g] /\ content[g].wins # <<>>
    BY <1>3, <2>2, ContentTypes
  <2>4. CASE AppendWindow
    BY <1>3, <1>d, <2>1, <2>3, <2>4 DEF AppendWindow
  <2>5. CASE first' = first
    BY <1>3, <2>1, <2>3, <2>5 DEF OneContent
  <2> QED BY <1>3, <2>4, <2>5, FirstStep
<1> QED BY <1>1, <1>2, <1>3 DEF OneContent

-----------------------------------------------------------------------------
\* What the startup holds, it holds in the root.
LEMMA HeldInRoot == ASSUME CInv, Placed PROVE Held \subseteq InRoot
<1>a. Control
  BY DEF CInv
<1>1. ASSUME jf \in Files PROVE place[jf] \in {"active", "pending"}
  BY <1>1 DEF Placed, None
<1>2. ASSUME src \in Files PROVE place[src] \in {"active", "pending"}
  BY <1>a, <1>2 DEF Placed, Control, FilesByPc, None
<1>3. \A f \in todo : place[f] \in {"active", "pending"}
  BY DEF Placed
<1> QED BY <1>1, <1>2, <1>3 DEF Held, InRoot

\* No file in the root leaves it, but for evidence that is settled.
LEMMA RootStep ==
  ASSUME CInv, Next, NEW f \in InRoot
  PROVE  f \in InRoot' \/ (Settle /\ f = src)
<1> USE DEF files, InRoot
<1>a. place \in [Files -> Places] /\ f \in Files
  BY DEF CInv, Control, DiskTypes
<1>1. CASE \/ Start \/ StartupFails \/ Collect \/ AgeSeal \/ Stop \/ Kill \/ PowerLoss
           \/ OpenExisting \/ OpenDamaged \/ KeepAlternate
           \/ Replay \/ ReplayDone \/ ReplayNothing \/ ReplayRolledBack \/ ReplayPoisons
           \/ InspectFails \/ Scan \/ NextPending \/ Ready
  BY <1>1 DEF Start, StartupFails, Collect, AgeSeal, Stop, Kill, PowerLoss, Dies,
     OpenExisting, OpenDamaged, KeepAlternate, Replay, ReplayDone, ReplayNothing, Evidence,
     ReplayRolledBack, ReplayPoisons, InspectFails, Scan, NextPending, Ready
<1>2. CASE Seal \/ Cycle
  BY <1>2 DEF Seal, Cycle, Link, AlreadyLinked, LinkedByAnother, TemporaryFails, SyncDay,
     PublishFails, SealFails, Reset, ResetFails, EarlySeal, AppendWindow, AppendFails, Commit, Check
<1>3. CASE OpenFresh \/ BeginRotation \/ BeginFails \/ Exchange \/ MoveAside \/ Promote
  BY <1>a, <1>3 DEF OpenFresh, BeginRotation, BeginFails, NewGeneration, Exchange, MoveAside, Promote
<1>4. CASE Settle
  BY <1>a, <1>4 DEF Settle
<1> QED BY <1>1, <1>2, <1>3, <1>4 DEF Next, Work, Recover

\* The startup lets go of no file but settled evidence.
LEMMA HeldStep ==
  ASSUME FaultKinds \cap Losing = {}, CInv, Placed, OneContent, Next, NEW f \in Held
  PROVE  f \in Held' \/ (Settle /\ f = src)
<1> USE DEF files, segments, recovery, segment, cycle, bounds, EvidenceTasks, RunTasks, Resets
<1>a. Control /\ f \in Files /\ f \in InRoot /\ None \notin Files
  BY HeldInRoot DEF CInv, InRoot, None
<1>b. f \in InRoot' \/ (Settle /\ f = src)
  BY <1>a, RootStep
<1>c. ~Unscanned => f \in {jf, src} \cup todo
  BY DEF Held
<1>1. CASE Unscanned'
  BY <1>b, <1>1 DEF Held
<1>2. CASE ~Unscanned'
  <2>1. CASE Scan
    <3>1. f = jf \/ place[f] = "pending"
      <4>1. place[jf] = "active" /\ jf \in Files
        BY <1>a, <2>1 DEF Scan, Control, FilesByPc, ProcessTypes, Placed, None
      <4> QED BY <1>a, <4>1 DEF InRoot, Control, FilesByPc
    <3>2. jf' = jf /\ todo' = PendingRootEntries
      BY <2>1 DEF Scan
    <3> QED BY <1>a, <1>2, <3>1, <3>2 DEF Held, PendingRootEntries
  <2>2. CASE NextPending
    <3>1. /\ f \in {jf, src} \cup todo /\ src \notin Files /\ jf' = jf
      BY <1>a, <1>c, <2>2 DEF NextPending, Unscanned, Control, TaskByPc, FilesByPc, ProcessTypes
    <3>2. CASE todo' = todo
      BY <1>a, <1>2, <3>1, <3>2 DEF Held
    <3>3. CASE todo' # todo
      <4>1. PICK g \in todo : ~Unchanged(g) \/ Fault("inspect")
        BY <2>2, <3>3 DEF NextPending
      <4>2. ~Fault("inspect")
        BY DEF Losing, Fault
      <4>3. g = jf /\ place[g] = "pending" /\ place[jf] = "active"
        BY <1>a, <2>2, <4>1, <4>2 DEF Unchanged, Placed, NextPending, Control, FilesByPc
      <4> QED BY <4>3
    <3> QED BY <3>2, <3>3
  <2>3. CASE Settle
    <3>1. jf' = jf /\ todo' = todo \ {src} /\ (Unscanned => pc' = "scan")
      BY <1>a, <2>3 DEF Settle, Unscanned
    <3>2. ~Unscanned
      BY <1>2, <3>1 DEF Unscanned
    <3> QED BY <1>a, <1>2, <1>c, <2>3, <3>1, <3>2 DEF Held
  <2>4. CASE ~Scan /\ ~NextPending /\ ~Settle
    <3>1. UNCHANGED <<jf, src, todo>> /\ ~Unscanned
      <4>1. CASE Recover
        BY <1>a, <1>2, <2>4, <4>1, RuledOut DEF Recover, OpenFresh, OpenExisting, OpenDamaged,
           BeginRotation, NewGeneration, Exchange, MoveAside, Promote, RotationStep, Replay,
           ReplayDone, ReplayNothing, Replaying, Evidence, Ready, Unscanned, Control, TaskByPc
      <4>2. CASE Start \/ StartupFails \/ Stop \/ Kill \/ PowerLoss \/ Collect \/ AgeSeal
        BY <1>a, <1>2, <4>2 DEF Start, StartupFails, Stop, Kill, PowerLoss, Dies, Gone, Collect,
           AgeSeal, Unscanned, Control, TaskByPc
      <4>3. CASE Link \/ AlreadyLinked \/ SyncDay
        BY <1>2, <4>3 DEF Link, AlreadyLinked, SyncDay, Unscanned
      <4>4. CASE TemporaryFails
        BY <1>a, <1>2, <4>4, Callers DEF TemporaryFails, SealFails, Unscanned, Control, TaskByPc
      <4>5. CASE Reset
        BY <1>a, <1>2, <4>5, Callers DEF Reset, Unscanned, Control, TaskByPc
      <4>6. CASE ResetFails
        BY <1>a, <1>2, <4>6 DEF ResetFails, Gone, Unscanned, Control, TaskByPc
      <4>7. CASE Cycle
        BY <1>a, <1>2, <4>7 DEF Cycle, EarlySeal, AppendWindow, AppendFails, Commit, Check, Gone,
           Unscanned, Control, TaskByPc
      <4> QED BY <4>1, <4>2, <4>3, <4>4, <4>5, <4>6, <4>7, RuledOut DEF Next, Work, Seal
    <3> QED BY <1>a, <1>2, <1>c, <3>1 DEF Held
  <2> QED BY <2>1, <2>2, <2>3, <2>4
<1> QED BY <1>1, <1>2

\* What a reset clears is in a durable segment.
LEMMA ResetIsDurable ==
  ASSUME CInv, CopyComplete, pc \in Resets
  PROVE  \A w \in In(content[jf].wins) : InSegment(w)
<1>1. content[jf].id \in Ids
  BY Sealed DEF CInv, Sealing
<1>2. segs[content[jf].id] = content[jf].wins /\ content[jf].id \notin unsynced
  BY DEF CInv, Open, OpenHolds, CopyComplete, Resets
<1> QED BY <1>1, <1>2 DEF InSegment

\* What can be recovered stays so: a window leaves the files in hand only when
\* its segment is durable.
LEMMA RecoverableStays ==
  ASSUME FaultKinds \cap Losing = {}, CInv, Placed, CopyComplete, OneContent, Recovered, Next,
         NEW w \in Windows, Recoverable(w)
  PROVE  Recoverable(w)'
<1>a. /\ FileStep /\ content \in [Files -> Contents]
      /\ InSegment(w) => InSegment(w)'
  BY EachFileStep, EachSegmentStep, SegmentStays DEF CInv, Control, DiskTypes
<1>1. CASE InSegment(w)
  BY <1>a, <1>1 DEF Recoverable
<1>2. CASE ~InSegment(w)
  <2>1. PICK f \in Held : w \in In(content[f].wins)
    BY <1>2 DEF Recoverable
  <2>2. f \in Files /\ place[f] # "none"
    BY <2>1, HeldInRoot DEF InRoot
  <2>3. f \in Held'
    BY <1>2, <2>1, HeldStep DEF Settle, Recovered
  <2>4. w \in In(content'[f].wins)
    <3>1. CASE content'[f] = content[f]
      BY <2>1, <3>1
    <3>2. CASE content'[f] # content[f]
      <4>1. PICK c \in Contents : jf = f /\ Left(c) /\ content'[f] = c
        BY <1>a, <2>2, <3>2 DEF FileStep
      <4>2. pc \notin Resets
        BY <1>2, <2>1, <4>1, ResetIsDurable
      <4> QED BY <2>1, <2>2, <4>1, <4>2, LeftHolds
    <3> QED BY <3>1, <3>2
  <2> QED BY <2>3, <2>4 DEF Recoverable
<1> QED BY <1>1, <1>2

\* Evidence is settled when its windows are in a durable segment.
LEMMA SettledIsDurable ==
  ASSUME FaultKinds \cap Losing = {}, CInv, Placed, CopyComplete, OneContent, Next, pc' = "settle"
  PROVE  \A w \in In(content'[src'].wins) : InSegment(w)'
<1>a. /\ Control /\ Open /\ content \in [Files -> Contents] /\ segs \in [Ids -> Seq(Windows)]
  BY DEF CInv, Control, DiskTypes
<1>1. ReplayNothing \/ (Reset /\ task \in EvidenceTasks)
  <2>1. CASE Recover
    BY <2>1, RuledOut DEF Recover, OpenFresh, OpenExisting, OpenDamaged, BeginRotation,
       NewGeneration, Exchange, MoveAside, Promote, RotationStep, Replay, ReplayDone, Evidence,
       Settle, Scan, NextPending, Ready
  <2>2. CASE Seal
    <3>1. Reset
      BY <1>a, <2>2, RuledOut, Callers DEF Seal, Link, AlreadyLinked, TemporaryFails, SealFails,
         SyncDay, ResetFails, Gone, Control, TaskByPc, ProcessTypes, Resets
    <3> QED BY <1>a, <3>1, Callers DEF Reset, Control, TaskByPc, ProcessTypes, RunTasks
  <2>3. CASE Cycle \/ Start \/ StartupFails \/ Collect \/ AgeSeal \/ Stop \/ Kill \/ PowerLoss
    BY <2>3 DEF Cycle, EarlySeal, AppendWindow, AppendFails, Commit, Check, Start, StartupFails,
       Collect, AgeSeal, Stop, Kill, PowerLoss, Dies, Gone
  <2> QED BY <2>1, <2>2, <2>3 DEF Next, Work
<1>2. CASE ReplayNothing
  <2>1. src \in Files /\ src' = src /\ content' = content /\ ~Replaying /\ pc = "evidence"
    BY <1>a, <1>2 DEF ReplayNothing, Evidence, Control, TaskByPc, FilesByPc, ProcessTypes
  <2>2. content[src].wins = <<>>
    BY <1>a, <2>1 DEF Replaying, Placed, Verified
  <2> QED BY <2>1, <2>2, InSeq, EmptySeq
<1>3. CASE Reset /\ task \in EvidenceTasks
  <2>1. /\ jf \in Files /\ src \in Files /\ jf # src /\ src' = src /\ pc \in Resets
        /\ content' = [content EXCEPT ![jf] = Empty] /\ UNCHANGED <<segs, unsynced>>
    <3>1. pc \in Resets /\ src' = src /\ UNCHANGED <<segs, unsynced>>
          /\ content' = [content EXCEPT ![jf] = Empty]
      BY <1>3 DEF Reset, recovery, segments
    <3>2. jf \in Files /\ src \in Files
      BY <1>a, <1>3, <3>1 DEF Control, FilesByPc, ProcessTypes, Resets
    <3>3. place[jf] = "active" /\ place[src] = "pending"
      BY <3>1, <3>2 DEF Placed, Resets, None
    <3> QED BY <3>1, <3>2, <3>3
  <2>2. content'[src].wins = content[src].wins /\ content[jf].wins = content[src].wins
    BY <1>a, <1>3, <2>1 DEF CopyComplete, Sealing
  <2>3. \A w \in In(content[jf].wins) : InSegment(w)
    BY <2>1, ResetIsDurable
  <2>4. \A w : InSegment(w) => InSegment(w)'
    BY <2>1 DEF InSegment
  <2> QED BY <2>1, <2>2, <2>3, <2>4
<1> QED BY <1>1, <1>2, <1>3

LEMMA NextRecovered ==
  ASSUME FaultKinds \cap Losing = {}, CInv, Placed, CopyComplete, OneContent, Recovered, Next
  PROVE  Recovered'
<1>1. acked \subseteq Windows /\ \A w \in acked : Recoverable(w)'
  BY RecoverableStays DEF CInv, Control, ProcessTypes, Recovered
<1>2. AppendWindow => Recoverable(win)'
  <2> SUFFICES ASSUME AppendWindow PROVE Recoverable(win)'
    OBVIOUS
  <2>1. /\ jf \in Files /\ content[jf] \in Contents /\ win \in Windows /\ pc = "append"
        /\ content \in [Files -> Contents] /\ Control
    BY Appended DEF AppendWindow, CInv, Control, DiskTypes
  <2>2. content'[jf].wins = Append(content[jf].wins, win) /\ jf' = jf /\ win' = win
        /\ place' = place /\ pc' \in {"seal", "commit"} /\ (task' = "run" \/ task' = task)
    BY <2>1 DEF AppendWindow, With, cycle
  <2>3. win' \in In(content'[jf].wins)
    BY <2>1, <2>2, InSeq DEF Contents
  <2>4. jf \in Held'
    BY <2>1, <2>2 DEF Held, Unscanned, Control, TaskByPc, Resets
  <2> QED BY <2>3, <2>4 DEF Recoverable
<1>3. \A w \in acked' : Recoverable(w)'
  <2>1. \A w \in acked' : w \in acked \/ (AppendWindow /\ w = win)
    BY AckedStored
  <2>2. AppendWindow => win' = win
    BY DEF AppendWindow, cycle
  <2> QED BY <1>1, <1>2, <2>1, <2>2
<1> QED BY <1>3, SettledIsDurable DEF Recovered

\* Whatever restarts, torn appends, half resets, failed rotations by rename and
\* power losses a collector goes through, when open_collector_journal is done
\* every acknowledged window is in a segment or in the open journal.  The
\* hypotheses leave out what does lose windows to quarantine: the errors in
\* Losing, a torn header, and a crash between two frames of a replay
\* (collector_replay).
THEOREM RestartsLoseNothing ==
  ASSUME FaultKinds \cap Losing = {}, ~TornHeaders
  PROVE  Spec /\ [][Undisturbed]_vars => []RestartLosesNothing
<1> DEFINE Inv == CInv /\ Unpublished /\ RestartInv
<1>1. Init => Inv
  <2> SUFFICES ASSUME Init PROVE Unpublished /\ RestartInv
    BY InitCInv
  <2>1. Unpublished
    BY DEF Init, Unpublished
  <2>2. Placed /\ CopyComplete
    BY DEF Init, Placed, CopyComplete, Sealing, Resets, Empty, None
  <2>3. OneContent
    <3>1. \A f \in Files : content[f].wins = <<>>
      BY ContentTypes DEF Init
    <3> QED BY <3>1 DEF Init, OneContent, Whole
  <2>4. Recovered
    BY DEF Init, Recovered
  <2> QED BY <2>1, <2>2, <2>3, <2>4 DEF RestartInv
<1>2. Inv /\ [Next]_vars /\ [Undisturbed]_vars => Inv'
  <2> SUFFICES ASSUME Inv, [Next]_vars, [Undisturbed]_vars PROVE Inv'
    OBVIOUS
  <2>1. CInv'
    BY StepCInv
  <2>2. CASE vars' = vars
    <3> USE <2>2 DEF vars, files, segments, recovery, segment, cycle, bounds
    <3>1. Unpublished'
      BY DEF Unpublished
    <3>2. Placed'
      BY DEF RestartInv, Placed
    <3>3. CopyComplete'
      <4>1. CopyComplete
        BY DEF RestartInv
      <4> QED BY <4>1 DEF CopyComplete, Sealing
    <3>4. OneContent'
      <4>1. OneContent
        BY DEF RestartInv
      <4>2. \A f \in Files : Whole(f)' <=> Whole(f)
        BY DEF Whole
      <4> QED BY <4>1, <4>2 DEF OneContent
    <3>5. Recovered'
      <4>1. Held' = Held
        BY DEF Held, Unscanned, InRoot
      <4>2. \A w : Recoverable(w)' = Recoverable(w) /\ InSegment(w)' = InSegment(w)
        BY <4>1 DEF Recoverable, InSegment
      <4> QED BY <4>2 DEF RestartInv, Recovered
    <3> QED BY <2>1, <3>1, <3>2, <3>3, <3>4, <3>5 DEF RestartInv
  <2>3. CASE Next /\ Undisturbed
    <3>1. "publish" \notin FaultKinds
      BY DEF Losing
    <3> QED BY <2>1, <2>3, <3>1, NextUnpublished, NextPlaced, NextCopyComplete, NextOneContent,
          NextRecovered DEF RestartInv
  <2> QED BY <2>2, <2>3
<1>3. Inv => RestartLosesNothing
  <2> SUFFICES ASSUME Inv, pc = "tick", NEW w \in acked, ~InSegment(w) PROVE Reachable(w)
    BY DEF RestartLosesNothing, Reachable, InSegment
  <2>1. Control /\ task = "none" /\ src = None /\ todo = {} /\ None \notin Files
    BY DEF CInv, RestartInv, Placed, Control, TaskByPc, FilesByPc, Resets, EvidenceTasks, None
  <2>2. PICK f \in Held : w \in In(content[f].wins)
    BY DEF RestartInv, Recovered, Recoverable
  <2>3. f = jf /\ f \in Files
    BY <2>1, <2>2 DEF Held, Unscanned
  <2>4. Verified(content[jf]) = content[jf].wins
    BY <2>3 DEF RestartInv, Placed, Verified
  <2> QED BY <2>2, <2>3, <2>4 DEF Reachable
<1> QED BY <1>1, <1>2, <1>3, PTL DEF Spec

-----------------------------------------------------------------------------
(* Published segments are immutable. *)

SegsInv == segs = [i \in Ids |-> segs[i]]

\* Startup, rotation, replay, quarantine and the scan leave segments alone.
LEMMA RecoverKeepsSegments == Recover \/ StartupFails => UNCHANGED segs
<1> USE DEF segments
<1>1. OpenFresh \/ OpenExisting \/ OpenDamaged \/ StartupFails => UNCHANGED segs
  BY DEF OpenFresh, OpenExisting, OpenDamaged, StartupFails
<1>2. BeginRotation \/ BeginFails => UNCHANGED segs
  BY DEF BeginRotation, BeginFails, NewGeneration
<1>3. Exchange \/ MoveAside \/ Promote \/ KeepAlternate => UNCHANGED segs
  BY DEF Exchange, MoveAside, Promote, KeepAlternate, RotationStep
<1>4. Replay \/ ReplayDone \/ ReplayNothing \/ ReplayRolledBack \/ InspectFails => UNCHANGED segs
  BY DEF Replay, ReplayDone, ReplayNothing, ReplayRolledBack, InspectFails, Evidence
<1>5. ReplayPoisons => UNCHANGED segs
  BY DEF ReplayPoisons, Evidence
<1>6. Settle \/ Scan \/ NextPending \/ Ready => UNCHANGED segs
  BY DEF Settle, Scan, NextPending, Ready
<1>7. QED
  BY <1>1, <1>2, <1>3, <1>4, <1>5, <1>6 DEF Recover

\* Of the steps of a seal only the link touches them.
LEMMA SealKeepsSegments == Seal => Link \/ UNCHANGED segs
<1>1. AlreadyLinked \/ LinkedByAnother \/ TemporaryFails => UNCHANGED segs
  BY DEF AlreadyLinked, LinkedByAnother, TemporaryFails, segments
<1>2. SyncDay \/ PublishFails => UNCHANGED segs
  BY DEF SyncDay, PublishFails
<1>3. Reset \/ ResetFails => UNCHANGED segs
  BY DEF Reset, ResetFails, segments
<1>4. QED
  BY <1>1, <1>2, <1>3 DEF Seal

\* The cycles of the main loop, a stop and a kill leave them alone.
LEMMA CycleKeepsSegments ==
  Cycle \/ Start \/ Collect \/ AgeSeal \/ Stop \/ Kill => UNCHANGED segs
<1> USE DEF segments
<1>1. EarlySeal \/ AppendWindow \/ AppendFails \/ Commit \/ Check => UNCHANGED segs
  BY DEF EarlySeal, AppendWindow, AppendFails, Commit, Check
<1>2. Start \/ Collect \/ AgeSeal \/ Stop \/ Kill => UNCHANGED segs
  BY DEF Start, Collect, AgeSeal, Stop, Kill
<1>3. QED
  BY <1>1, <1>2 DEF Cycle

LEMMA OnlyLinkAndPowerLoss == [Next]_vars => Link \/ PowerLoss \/ UNCHANGED segs
<1>1. UNCHANGED vars => UNCHANGED segs
  BY DEF vars, segments
<1>2. Work => Link \/ UNCHANGED segs
  BY RecoverKeepsSegments, SealKeepsSegments, CycleKeepsSegments DEF Work
<1>3. QED
  BY <1>1, <1>2, CycleKeepsSegments DEF Next

LEMMA SegsFunction == Spec => []SegsInv
<1>1. Init => SegsInv
  BY DEF Init, SegsInv
<1>2. SegsInv /\ [Next]_vars => SegsInv'
  <2> SUFFICES ASSUME SegsInv, [Next]_vars PROVE SegsInv'
    OBVIOUS
  <2>1. CASE Link
    BY <2>1 DEF Link, SegsInv, Ids
  <2>2. CASE PowerLoss
    BY <2>2 DEF PowerLoss, SegsInv, Ids
  <2>3. CASE UNCHANGED segs
    BY <2>3 DEF SegsInv, Ids
  <2>4. QED
    BY <2>1, <2>2, <2>3, OnlyLinkAndPowerLoss
<1>3. QED
  BY <1>1, <1>2, PTL DEF Spec

\* A published PGM is never replaced or changed by the seal, the restart or the
\* recovery of any later process (PgmTemp::publish links, it never renames).
THEOREM SegmentsImmutable == Spec => NeverOverwritten
<1> DEFINE Untouched == \A i \in Ids : segs[i] # <<>> /\ segs'[i] # segs[i] => i \in unsynced /\ segs'[i] = <<>>
<1>1. SegsInv /\ [Next]_vars => [Untouched]_vars
  <2> SUFFICES ASSUME SegsInv, [Next]_vars PROVE Untouched
    OBVIOUS
  <2>1. CASE Link
    BY <2>1 DEF Link, NameFree, SegsInv
  <2>2. CASE PowerLoss
    BY <2>2 DEF PowerLoss
  <2>3. CASE UNCHANGED segs
    BY <2>3
  <2>4. QED
    BY <2>1, <2>2, <2>3, OnlyLinkAndPowerLoss
<1>2. QED
  BY <1>1, SegsFunction, PTL DEF Spec, NeverOverwritten

-----------------------------------------------------------------------------
(* The storage path is an archive: order and titles. *)

LEMMA ChronicleMeaning ==
  ASSUME NEW i, NEW s \in Seq(Windows)
  PROVE  Chronicle(i, s) <=>
           /\ s # <<>> => s[1].n = i
           /\ \A j, k \in 1..Len(s) : j < k => s[j].n < s[k].n
<1>1. DOMAIN s = 1..Len(s)
  BY LenProperties
<1> QED BY <1>1 DEF Chronicle, Promise!Titled, Promise!InOrder

\* A window later than those before it, under the title they have or its own.
LEMMA ChronicleGoesOn ==
  ASSUME NEW i, NEW h, NEW s \in Seq(Windows), NEW w \in Windows, Chronicle(i, s),
         \A k \in 1..Len(s) : s[k].n < w.n,
         h = IF s = <<>> THEN w.n ELSE i
  PROVE  Chronicle(h, Append(s, w))
<1> DEFINE t == Append(s, w)
<1>1. /\ t \in Seq(Windows) /\ Len(t) = Len(s) + 1 /\ Len(s) \in Nat
      /\ \A k \in 1..Len(s) : t[k] = s[k]
      /\ t[Len(s) + 1] = w
  BY AppendProperties, LenProperties
<1>2. /\ s # <<>> => s[1].n = i
      /\ \A j, k \in 1..Len(s) : j < k => s[j].n < s[k].n
  BY ChronicleMeaning
<1> HIDE DEF t
<1>3. t[1].n = h
  <2>1. CASE s = <<>>
    <3>1. Len(s) = 0
      BY <2>1, EmptySeq
    <3> QED BY <1>1, <2>1, <3>1
  <2>2. CASE s # <<>>
    <3>1. 1 \in 1..Len(s)
      BY <1>1, <2>2, EmptySeq
    <3> QED BY <1>1, <1>2, <2>2, <3>1
  <2> QED BY <2>1, <2>2
<1>4. ASSUME NEW j \in 1..Len(t), NEW k \in 1..Len(t), j < k
      PROVE  t[j].n < t[k].n
  <2>1. j \in 1..Len(s) /\ t[j] = s[j]
    BY <1>1, <1>4
  <2>2. CASE k \in 1..Len(s)
    BY <1>1, <1>2, <1>4, <2>1, <2>2
  <2>3. CASE k = Len(s) + 1
    BY <1>1, <2>1, <2>3
  <2> QED BY <1>1, <2>2, <2>3
<1>5. Chronicle(h, t)
  BY <1>1, <1>3, <1>4, ChronicleMeaning
<1> QED BY <1>5 DEF t

\* However much of an append is left.
LEMMA InterruptedChronicle ==
  ASSUME NEW c \in Contents, NEW i \in 0..MaxWindows, NEW w \in Windows,
         Chronicle(c.id, c.wins), \A k \in 1..Len(c.wins) : c.wins[k].n < w.n,
         i = IF c.wins = <<>> THEN w.n ELSE c.id,
         NEW d \in Interrupted(c, i, w)
  PROVE  Chronicle(d.id, d.wins)
<1>1. c.wins \in Seq(Windows) /\ With(c, i, w) \in Contents
  BY ContentTypes DEF Contents
<1>2. \A e \in Contents : Damaged(e, i).wins = e.wins /\ Damaged(e, i).id = i
  BY DEF Damaged, Contents
<1>3. With(c, i, w).wins = Append(c.wins, w) /\ With(c, i, w).id = i
  BY DEF With
<1>4. Chronicle(i, Append(c.wins, w))
  BY <1>1, ChronicleGoesOn
<1>5. Chronicle(i, c.wins)
  <2>1. c.wins # <<>> => i = c.id
    OBVIOUS
  <2>2. /\ c.wins # <<>> => c.wins[1].n = c.id
        /\ \A j, k \in 1..Len(c.wins) : j < k => c.wins[j].n < c.wins[k].n
    BY <1>1, ChronicleMeaning
  <2> QED BY <1>1, <2>1, <2>2, ChronicleMeaning
<1>6. d \in {c, With(c, i, w), Damaged(c, i), Damaged(With(c, i, w), i)}
  BY DEF Interrupted
<1>7. CASE d = c
  BY <1>7
<1>8. CASE d = With(c, i, w)
  BY <1>3, <1>4, <1>8
<1>9. CASE d = Damaged(c, i)
  <2>1. d.wins = c.wins /\ d.id = i
    BY <1>2, <1>9
  <2> QED BY <1>5, <2>1
<1>10. CASE d = Damaged(With(c, i, w), i)
  <2>1. d.wins = Append(c.wins, w) /\ d.id = i
    BY <1>1, <1>2, <1>3, <1>10
  <2> QED BY <1>4, <2>1
<1> QED BY <1>6, <1>7, <1>8, <1>9, <1>10

LEMMA EmptyChronicle == ASSUME NEW i PROVE Chronicle(i, <<>>)
<1> DEFINE s == <<>>
<1>1. s \in Seq(Windows) /\ Len(s) = 0 /\ s = <<>>
  BY EmptySeq
<1> HIDE DEF s
<1>2. \A k : k \notin 1..Len(s)
  BY <1>1
<1>3. Chronicle(i, s) <=> /\ s # <<>> => s[1].n = i
                          /\ \A j, k \in 1..Len(s) : j < k => s[j].n < s[k].n
  BY <1>1, ChronicleMeaning
<1>4. Chronicle(i, s)
  BY <1>1, <1>2, <1>3
<1> QED BY <1>4 DEF s

\* The window of an append is later than all that have an identity.
LEMMA HandIsLatest ==
  ASSUME CInv, pc = "append", NEW w \in Windows, Claims(w) # {}
  PROVE  w.n < win.n
<1>1. w.n <= next /\ win.n = next /\ win.n # w.n /\ next \in Nat /\ w.n \in Nat
  BY DEF CInv, Identity, InHand, Control, ProcessTypes, Windows
<1> QED BY <1>1

LEMMA LeftChronicle ==
  ASSUME CInv, Chronicles, jf \in Files, NEW c \in Contents, Left(c)
  PROVE  Chronicle(c.id, c.wins)
<1>a. /\ Control /\ Open /\ content[jf] \in Contents /\ Chronicle(content[jf].id, content[jf].wins)
      /\ content[jf].wins \in Seq(Windows)
  BY DEF CInv, Control, DiskTypes, Chronicles, Contents
<1>1. CASE pc = "append" /\ ~Refused /\ c \in Interrupted(content[jf], AppendId, win)
  <2>1. AppendId \in 0..MaxWindows /\ win \in Windows
    BY <1>a, <1>1, Appended
  <2>2. AppendId = IF content[jf].wins = <<>> THEN win.n ELSE content[jf].id
    <3>1. first = IF content[jf].wins = <<>> THEN None ELSE content[jf].id
      BY <1>a, <1>1 DEF Open, Described, Refused
    <3>2. content[jf].wins # <<>> => content[jf].id # None
      BY <1>a DEF Open, Identified, Ids, None
    <3> QED BY <3>1, <3>2 DEF AppendId
  <2>3. ASSUME NEW k \in 1..Len(content[jf].wins)
        PROVE  content[jf].wins[k].n < win.n
    <3>1. content[jf].wins[k] \in Windows /\ content[jf].wins[k] \in In(content[jf].wins)
      BY <1>a, InSeq
    <3>2. Claims(content[jf].wins[k]) # {}
      BY <3>1 DEF Claims
    <3> QED BY <1>1, <3>1, <3>2, HandIsLatest
  <2> DEFINE d == content[jf]
             i == AppendId
  <2>4. /\ d \in Contents /\ i \in 0..MaxWindows /\ Chronicle(d.id, d.wins) /\ c \in Interrupted(d, i, win)
        /\ \A k \in 1..Len(d.wins) : d.wins[k].n < win.n
        /\ i = IF d.wins = <<>> THEN win.n ELSE d.id
    BY <1>a, <1>1, <2>1, <2>2, <2>3
  <2> HIDE DEF d, i
  <2> QED BY <2>1, <2>4, InterruptedChronicle
<1>2. CASE Replaying /\ ~ReplayEnds(Replayed) /\ c \in Interrupted(content[jf], ReplayId(src), NextWindow)
  <2> DEFINE d == content[jf]
             e == content[src]
             i == ReplayId(src)
             w == NextWindow
             v == Verified(content[src])
             r == Replayed
  <2>1. /\ d \in Contents /\ i \in 0..MaxWindows /\ w \in Windows /\ src \in Files /\ e \in Contents
        /\ r + 1 \in 1..Len(v) /\ w = v[r + 1] /\ c \in Interrupted(d, i, w) /\ r = Len(d.wins)
        /\ i = e.id /\ d.wins \in Seq(Windows) /\ Chronicle(d.id, d.wins)
    BY <1>a, <1>2, NextReplayed DEF Ids, Replayed, ReplayId
  <2>2. Len(d.wins) <= Len(v) /\ (\A k \in 1..Len(d.wins) : d.wins[k] = v[k]) /\ (d.wins # <<>> => d.id = e.id)
    BY <1>a, <1>2, NextReplayed DEF CopyOf
  <2>3. v \in Seq(Windows) /\ Len(v) \in Nat /\ v = e.wins
    <3>1. v \in Seq(Windows)
      BY <2>1, ContentTypes
    <3>2. v # <<>>
      BY <1>2 DEF Replaying
    <3> QED BY <3>1, <3>2, LenProperties DEF Verified
  <2>4. Chronicle(e.id, v)
    BY <2>1, <2>3 DEF Chronicles
  <2> HIDE DEF d, e, i, w, v, r
  <2>5. /\ v # <<>> => v[1].n = e.id
        /\ \A j, k \in 1..Len(v) : j < k => v[j].n < v[k].n
    BY <2>3, <2>4, ChronicleMeaning
  <2>6. r \in Nat
    BY <2>1, LenProperties
  <2>7. \A k \in 1..Len(d.wins) : d.wins[k].n < w.n
    <3> SUFFICES ASSUME NEW k \in 1..Len(d.wins) PROVE d.wins[k].n < w.n
      OBVIOUS
    <3>1. k \in 1..Len(v) /\ k < r + 1 /\ d.wins[k] = v[k]
      BY <2>1, <2>2, <2>3, <2>6
    <3> QED BY <2>1, <2>5, <3>1
  <2>8. i = IF d.wins = <<>> THEN w.n ELSE d.id
    <3>1. CASE d.wins = <<>>
      <4>1. r = 0
        BY <2>1, <3>1, EmptySeq
      <4>2. w = v[1] /\ v # <<>>
        BY <2>1, <2>3, <4>1, EmptySeq
      <4> QED BY <2>1, <2>5, <3>1, <4>2
    <3>2. CASE d.wins # <<>>
      BY <2>1, <2>2, <3>2
    <3> QED BY <3>1, <3>2
  <2> QED BY <2>1, <2>7, <2>8, InterruptedChronicle
<1>3. CASE pc \in Resets /\ c \in HalfReset(content[jf])
  <2>1. c = Empty \/ (c.wins = content[jf].wins /\ c.id = content[jf].id)
    BY <1>a, <1>3, HalfResetHolds
  <2> QED BY <1>a, <2>1, ContentTypes, EmptyChronicle
<1>4. CASE c \in {content[jf]} \cup HeaderTorn(content[jf])
  BY <1>a, <1>4, HeaderTornHolds
<1> QED BY <1>1, <1>2, <1>3, <1>4 DEF Left

LEMMA NextChronicles == ASSUME CInv, Chronicles, Next PROVE Chronicles'
<1>a. FileStep /\ SegmentStep /\ Control /\ Open
  BY EachFileStep, EachSegmentStep DEF CInv
<1>b. content \in [Files -> Contents] /\ segs \in [Ids -> Seq(Windows)]
  BY <1>a DEF Control, DiskTypes
<1>1. ASSUME NEW f \in Files
      PROVE  Chronicle(content'[f].id, content'[f].wins)
  <2>1. CASE content'[f] = content[f]
    BY <2>1 DEF Chronicles
  <2>2. CASE content'[f] = Empty
    BY <2>2, ContentTypes, EmptyChronicle
  <2>3. ASSUME NEW c \in Contents, jf = f, Left(c), content'[f] = c
        PROVE  Chronicle(content'[f].id, content'[f].wins)
    BY <2>3, LeftChronicle
  <2>4. \/ content'[f] = content[f] \/ content'[f] = Empty
        \/ \E c \in Contents : jf = f /\ Left(c) /\ content'[f] = c
    BY <1>a, <1>b DEF FileStep
  <2> QED BY <2>1, <2>2, <2>3, <2>4
<1>2. ASSUME NEW i \in Ids
      PROVE  Chronicle(i, segs'[i])
  <2>1. CASE segs' = segs
    BY <2>1 DEF Chronicles
  <2>2. CASE Link
    <3>1. jf \in Files /\ content[jf].id \in Ids
      BY <1>a, <2>2, Sealed DEF Link, Sealing
    <3>2. segs'[i] = segs[i] \/ (i = content[jf].id /\ segs'[i] = content[jf].wins)
      BY <1>b, <2>2 DEF Link
    <3> QED BY <3>1, <3>2 DEF Chronicles
  <2>3. ASSUME NEW gone \in SUBSET unsynced,
               segs' = [j \in Ids |-> IF j \in gone THEN <<>> ELSE segs[j]]
        PROVE  Chronicle(i, segs'[i])
    <3>1. segs'[i] = <<>> \/ segs'[i] = segs[i]
      BY <2>3
    <3> QED BY <3>1, EmptyChronicle DEF Chronicles
  <2> QED BY <1>a, <2>1, <2>2, <2>3 DEF SegmentStep
<1> QED BY <1>1, <1>2 DEF Chronicles

-----------------------------------------------------------------------------
(* What is on stable storage stays, and gains the window in hand only. *)

LEMMA OnDiskMeaning ==
  /\ \A w : w \in OnDisk <=> Stored(w)
  /\ \A w : w \in OnDisk' <=> Stored(w)'
<1>1. \A w : w \in OnDisk <=> Stored(w)
  <2>1. ASSUME NEW w
        PROVE  InSegment(w) <=> \E s \in {In(segs[i]) : i \in Ids \ unsynced} : w \in s
    BY DEF InSegment
  <2>2. ASSUME NEW w
        PROVE  InFile(w) <=> \E s \in {In(content[f].wins) : f \in {g \in Files : place[g] # "none"}} : w \in s
    BY DEF InFile
  <2> QED BY <2>1, <2>2 DEF OnDisk, Stored
<1>2. \A w : w \in OnDisk' <=> Stored(w)'
  <2>1. ASSUME NEW w
        PROVE  InSegment(w)' <=> \E s \in {In(segs'[i]) : i \in Ids \ unsynced'} : w \in s
    BY DEF InSegment
  <2>2. ASSUME NEW w
        PROVE  InFile(w)' <=> \E s \in {In(content'[f].wins) : f \in {g \in Files : place'[g] # "none"}} : w \in s
    BY DEF InFile
  <2> QED BY <2>1, <2>2 DEF OnDisk, Stored
<1> QED BY <1>1, <1>2

\* What is stored is a window and has an identity.
LEMMA StoredClaims ==
  /\ DiskTypes => \A w : Stored(w) => w \in Windows /\ Claims(w) # {}
  /\ DiskTypes' => \A w : Stored(w)' => w \in Windows /\ Claims(w)' # {}
<1>1. ASSUME DiskTypes, NEW w, Stored(w)
      PROVE  w \in Windows /\ Claims(w) # {}
  <2>1. CASE InSegment(w)
    <3>1. PICK i \in Ids : w \in In(segs[i])
      BY <2>1 DEF InSegment
    <3>2. segs[i] \in Seq(Windows)
      BY <1>1 DEF DiskTypes
    <3> QED BY <3>1, <3>2, InSeq DEF Claims
  <2>2. CASE InFile(w)
    <3>1. PICK f \in Files : w \in In(content[f].wins)
      BY <2>2 DEF InFile
    <3>2. content[f].wins \in Seq(Windows)
      BY <1>1 DEF DiskTypes, Contents
    <3>3. w \in Windows
      BY <3>1, <3>2, InSeq
    <3>4. content[f].id \in Claims(w)
      BY <3>1 DEF Claims
    <3> QED BY <3>3, <3>4
  <2> QED BY <1>1, <2>1, <2>2 DEF Stored
<1>2. ASSUME DiskTypes', NEW w, Stored(w)'
      PROVE  w \in Windows /\ Claims(w)' # {}
  <2>1. CASE InSegment(w)'
    <3>1. PICK i \in Ids : w \in In(segs'[i])
      BY <2>1 DEF InSegment
    <3>2. segs'[i] \in Seq(Windows)
      BY <1>2 DEF DiskTypes
    <3> QED BY <3>1, <3>2, InSeq DEF Claims
  <2>2. CASE InFile(w)'
    <3>1. PICK f \in Files : w \in In(content'[f].wins)
      BY <2>2 DEF InFile
    <3>2. content'[f].wins \in Seq(Windows)
      BY <1>2 DEF DiskTypes, Contents
    <3>3. w \in Windows
      BY <3>1, <3>2, InSeq
    <3>4. content'[f].id \in Claims(w)'
      BY <3>1 DEF Claims
    <3> QED BY <3>3, <3>4
  <2> QED BY <1>2, <2>1, <2>2 DEF Stored
<1> QED BY <1>1, <1>2

\* A window without an identity gets one in the open journal, which has a name.
LEMMA NewClaimIsStored ==
  ASSUME CInv, Next, NEW w \in Windows, Claims(w) = {}, Claims(w)' # {}
  PROVE  Stored(w)'
<1>a. FileStep /\ PlaceStep /\ Control
  BY EachFileStep, EachPlaceStep DEF CInv
<1>b. content \in [Files -> Contents] /\ In(<<>>) = {}
  BY <1>a, InSeq, EmptySeq DEF Control, DiskTypes
<1>1. \A i \in Ids : w \notin In(segs'[i])
  BY NoNewSegmentClaims
<1>2. PICK f \in Files : w \in In(content'[f].wins)
  BY <1>1 DEF Claims
<1>3. content'[f] # content[f]
  BY <1>2 DEF Claims
<1>4. content'[f] # Empty
  BY <1>2, <1>b, ContentTypes
<1>5. jf = f
  BY <1>a, <1>b, <1>3, <1>4 DEF FileStep
<1>6. place[f] # "none"
  BY <1>a, <1>5 DEF Control, FilesByPc, None
<1>7. place'[f] # "none"
  BY <1>a, <1>6 DEF PlaceStep
<1> QED BY <1>2, <1>7 DEF Stored, InFile

LEMMA NextBacked == ASSUME CInv, Backed, Next PROVE Backed'
<1> SUFFICES ASSUME NEW w \in Windows, Claims(w)' # {} PROVE w \in OnDisk'
  BY DEF Backed
<1>1. CASE Claims(w) = {}
  BY <1>1, NewClaimIsStored, OnDiskMeaning
<1>2. CASE Claims(w) # {}
  <2>1. Stored(w)
    BY <1>2, OnDiskMeaning DEF Backed
  <2> QED BY <2>1, StoredStays, OnDiskMeaning
<1> QED BY <1>1, <1>2

\* What a step stores is the window in hand, at an append.
LEMMA OnDiskStep ==
  ASSUME CInv, Backed, Next, Control'
  PROVE  /\ OnDisk \subseteq OnDisk'
         /\ \A w \in OnDisk' : w \in OnDisk \/ (w = win /\ pc = "append" /\ ~Refused)
<1>1. DiskTypes /\ DiskTypes'
  BY DEF CInv, Control
<1>2. ASSUME NEW w \in OnDisk PROVE w \in OnDisk'
  <2>1. w \in Windows /\ Stored(w)
    BY <1>1, <1>2, OnDiskMeaning, StoredClaims
  <2> QED BY <2>1, StoredStays, OnDiskMeaning
<1>3. ASSUME NEW w \in OnDisk', w \notin OnDisk PROVE w = win /\ pc = "append" /\ ~Refused
  <2>1. w \in Windows /\ Claims(w)' # {}
    BY <1>1, <1>3, OnDiskMeaning, StoredClaims
  <2>2. Claims(w) = {}
    BY <1>3, <2>1 DEF Backed
  <2>3. PICK i : i \in Claims(w)'
    BY <2>1
  <2>4. i \in Claims(w) \/ (pc = "append" /\ ~Refused /\ w = win /\ i = AppendId /\ ~InHand')
    BY <2>1, <2>3, NewClaims
  <2> QED BY <2>2, <2>4
<1> QED BY <1>2, <1>3

-----------------------------------------------------------------------------
(* The position, in the state file and in memory. *)

CopyStep ==
  \/ pc' = "down"
  \/ mem' = pos'
  \/ pc # "down" /\ mem' = mem /\ (pos' = pos \/ (pc = "commit" /\ pos' = win.e))

LEMMA EachCopyStep == ASSUME Next PROVE CopyStep /\ (pos' # pos => Commit)
<1> USE DEF files, segments, recovery, segment, cycle, bounds, CopyStep, Gone
<1>1. CASE Start \/ StartupFails \/ AgeSeal \/ Stop \/ Kill \/ PowerLoss \/ Collect
  BY <1>1 DEF Start, StartupFails, AgeSeal, Stop, Kill, PowerLoss, Dies, Collect
<1>2. CASE OpenFresh \/ OpenExisting \/ OpenDamaged \/ BeginRotation \/ BeginFails
           \/ Exchange \/ MoveAside \/ Promote \/ KeepAlternate
  BY <1>2 DEF OpenFresh, OpenExisting, OpenDamaged, BeginRotation, BeginFails, NewGeneration,
     Exchange, MoveAside, Promote, KeepAlternate, RotationStep
<1>3. CASE Replay \/ ReplayDone \/ ReplayNothing \/ ReplayRolledBack \/ ReplayPoisons \/ InspectFails
  BY <1>3 DEF Replay, ReplayDone, ReplayNothing, ReplayRolledBack, ReplayPoisons, Replaying, Evidence,
     InspectFails
<1>4. CASE Settle \/ Scan \/ NextPending \/ Ready
  BY <1>4 DEF Settle, Scan, NextPending, Ready
<1>5. CASE Link \/ AlreadyLinked \/ LinkedByAnother \/ TemporaryFails \/ SyncDay \/ PublishFails
  BY <1>5 DEF Link, AlreadyLinked, LinkedByAnother, TemporaryFails, SyncDay, PublishFails, SealFails
<1>6. CASE Reset \/ ResetFails
  BY <1>6 DEF Reset, ResetFails, Resets
<1>7. CASE EarlySeal \/ AppendWindow \/ AppendFails
  BY <1>7 DEF EarlySeal, AppendWindow, AppendFails
<1>8. CASE Commit
  BY <1>8 DEF Commit, PositionOfBatch
<1>9. CASE Check
  BY <1>9 DEF Check
<1> QED BY <1>1, <1>2, <1>3, <1>4, <1>5, <1>6, <1>7, <1>8, <1>9 DEF Next, Work, Recover, Seal, Cycle

LEMMA NextBehind == ASSUME CInv, Behind, Next PROVE Behind'
<1>1. /\ CopyStep /\ mem \in Nat /\ pos \in Nat
      /\ pc = "commit" => win.e = mem + 1
  BY EachCopyStep DEF CInv, Control, ProcessTypes, Position
<1> QED BY <1>1 DEF Behind, CopyStep

-----------------------------------------------------------------------------
(* Every step is a step of Archive. *)

LEMMA InitArchiveInv == Init => ArchiveInv /\ Promise!Init
<1> SUFFICES ASSUME Init PROVE ArchiveInv /\ Promise!Init
  OBVIOUS
<1>1. (\A f \in Files : content[f].wins = <<>>) /\ \A i \in Ids : segs[i] = <<>>
  BY ContentTypes DEF Init
<1>2. In(<<>>) = {}
  BY InSeq, EmptySeq
<1>3. \A w \in Windows : Claims(w) = {}
  BY <1>1, <1>2 DEF Claims
<1>4. OnDisk = {}
  BY <1>1, <1>2, OnDiskMeaning DEF Stored, InSegment, InFile
<1>5. Filed = [i \in Ids |-> <<>>]
  BY <1>1 DEF Filed, Init
<1>6. Chronicles
  BY <1>1, EmptyChronicle DEF Chronicles
<1>7. Behind /\ Backed
  BY <1>3 DEF Init, Behind, Backed
<1> QED BY <1>4, <1>5, <1>6, <1>7 DEF ArchiveInv, Promise!Init, Init

LEMMA StepArchiveInv == ASSUME CInv, ArchiveInv, [Next]_vars PROVE ArchiveInv'
<1>1. CASE Next
  BY <1>1, NextBehind, NextChronicles, NextBacked DEF ArchiveInv
<1>2. CASE UNCHANGED vars
  <2> USE <1>2 DEF vars, files, segments, cycle, bounds
  <2>1. Behind' /\ Chronicles'
    BY DEF ArchiveInv, Behind, Chronicles
  <2>2. OnDisk' = OnDisk
    BY DEF OnDisk
  <2>3. \A w : Claims(w)' = Claims(w)
    BY DEF Claims
  <2> QED BY <2>1, <2>2, <2>3 DEF ArchiveInv, Backed
<1> QED BY <1>1, <1>2

\* Synchronized segments are kept as they are, and new ones are filed as
\* Archive asks.
LEMMA StepFiles ==
  ASSUME CInv, CInv', ArchiveInv', Next
  PROVE  Promise!File
<1>a. SegmentStep /\ DiskTypes /\ DiskTypes' /\ Identity'
  BY EachSegmentStep DEF CInv, Control
<1>1. Filed' \in [Ids -> Seq(Windows)]
  BY <1>a, EmptySeq DEF Filed, DiskTypes
<1>2. ASSUME NEW i \in Ids, Filed[i] # <<>>
      PROVE  Filed'[i] = Filed[i]
  <2>1. i \notin unsynced /\ segs[i] # <<>> /\ Filed[i] = segs[i]
    BY <1>2 DEF Filed
  <2>2. i \notin unsynced' /\ segs'[i] = segs[i]
    <3>1. CASE segs' = segs /\ unsynced' \subseteq unsynced
      BY <2>1, <3>1
    <3>2. CASE Link
      BY <1>a, <2>1, <3>2 DEF Link, NameFree, DiskTypes
    <3>3. CASE /\ \E gone \in SUBSET unsynced : segs' = [j \in Ids |-> IF j \in gone THEN <<>> ELSE segs[j]]
               /\ unsynced' = {}
      BY <2>1, <3>3
    <3> QED BY <1>a, <3>1, <3>2, <3>3 DEF SegmentStep
  <2> QED BY <2>1, <2>2 DEF Filed
<1>3. ASSUME NEW i \in Ids
      PROVE  /\ Promise!Titled(i, Filed'[i]) /\ Promise!InOrder(Filed'[i])
             /\ \A w \in Promise!Members(Filed'[i]) :
                  w \in OnDisk' /\ w \in Windows /\ i \in Claims(w)'
  <2>1. CASE i \in unsynced'
    <3>1. Filed'[i] = <<>>
      BY <2>1 DEF Filed
    <3>2. Chronicle(i, <<>>) /\ In(<<>>) = {}
      BY EmptyChronicle, EmptySeq, InSeq
    <3>3. Promise!Members(<<>>) = {}
      BY <3>2 DEF Promise!Members, In
    <3> QED BY <3>1, <3>2, <3>3 DEF Chronicle
  <2>2. CASE i \notin unsynced'
    <3>1. Filed'[i] = segs'[i]
      BY <2>2 DEF Filed
    <3>2. Chronicle(i, segs'[i])
      BY DEF ArchiveInv, Chronicles
    <3>3. Promise!Members(segs'[i]) = In(segs'[i])
      BY DEF Promise!Members, In
    <3>4. ASSUME NEW w \in In(segs'[i])
          PROVE  w \in OnDisk' /\ w \in Windows /\ i \in Claims(w)'
      <4>1. Stored(w)' /\ i \in Claims(w)'
        BY <2>2, <3>4 DEF Stored, InSegment, Claims
      <4> QED BY <1>a, <4>1, OnDiskMeaning, StoredClaims
    <3> QED BY <3>1, <3>2, <3>3, <3>4 DEF Chronicle
  <2> QED BY <2>1, <2>2
<1>4. ASSUME NEW i \in Ids, NEW j \in Ids, i # j
      PROVE  Promise!Members(Filed'[i]) \cap Promise!Members(Filed'[j]) = {}
  <2> SUFFICES ASSUME NEW w, w \in Promise!Members(Filed'[i]), w \in Promise!Members(Filed'[j])
               PROVE  FALSE
    OBVIOUS
  <2>1. w \in Windows /\ i \in Claims(w)' /\ j \in Claims(w)'
    BY <1>3
  <2> QED BY <1>4, <1>a, <2>1 DEF Identity
<1> QED BY <1>1, <1>2, <1>3, <1>4 DEF Promise!File

LEMMA StepKeeps ==
  ASSUME CInv, CInv', ArchiveInv, Next
  PROVE  UNCHANGED <<OnDisk, acked>> \/ \E w \in Windows \ OnDisk : Promise!Keep(w)
<1>1. /\ OnDisk \subseteq OnDisk'
      /\ \A w \in OnDisk' : w \in OnDisk \/ (w = win /\ pc = "append" /\ ~Refused)
  BY OnDiskStep DEF CInv, ArchiveInv
<1>2. acked \subseteq acked' /\ \A w \in acked' : w \in acked \/ (AppendWindow /\ w = win /\ Stored(w)')
  BY AckedStored, EachPositionStep DEF PositionStep
<1>3. acked \subseteq OnDisk
  BY OnDiskMeaning DEF CInv, Kept, NothingVanishes, Stored
<1>4. ASSUME win \in OnDisk', pc = "append"
      PROVE  \E w \in Windows \ OnDisk : Promise!Keep(w)
  <2>1. win \in Windows /\ win \notin OnDisk /\ \A v \in OnDisk : v.n < win.n
    <3>1. win \in Windows /\ DiskTypes
      BY DEF CInv, Control, ProcessTypes
    <3>2. \A v \in OnDisk : v \in Windows /\ Claims(v) # {}
      BY <3>1, OnDiskMeaning, StoredClaims
    <3>3. \A v \in OnDisk : v.n < win.n
      BY <1>4, <3>2, HandIsLatest
    <3>4. win.n \in Nat
      BY <3>1 DEF Windows
    <3> QED BY <3>1, <3>3, <3>4
  <2>2. win.e \in {pos, pos + 1}
    <3>1. win.e = mem + 1 /\ mem \in Nat /\ pos \in {mem, mem + 1}
      BY <1>4 DEF CInv, Position, InHand, ArchiveInv, Behind, Control, ProcessTypes
    <3> QED BY <3>1
  <2>3. OnDisk' = OnDisk \cup {win}
    BY <1>1, <1>4
  <2>4. acked' \in {acked, acked \cup {win}}
    BY <1>2
  <2>5. Promise!Keep(win)
    BY <2>1, <2>2, <2>3, <2>4 DEF Promise!Keep
  <2> QED BY <2>1, <2>5
<1>5. CASE OnDisk' = OnDisk /\ acked' = acked
  BY <1>5
<1>6. CASE OnDisk' # OnDisk
  <2>1. win \in OnDisk' /\ pc = "append"
    BY <1>1, <1>6
  <2> QED BY <1>4, <2>1
<1>7. CASE acked' # acked
  <2>1. AppendWindow /\ Stored(win)' /\ win' = win
    <3>1. \E w \in acked' : w \notin acked
      BY <1>2, <1>7
    <3>2. AppendWindow /\ \E w : w = win /\ Stored(w)'
      BY <1>2, <3>1
    <3> QED BY <3>2 DEF AppendWindow, cycle
  <2>2. win \in OnDisk' /\ pc = "append"
    BY <2>1, OnDiskMeaning DEF AppendWindow
  <2> QED BY <1>4, <2>2
<1> QED BY <1>5, <1>6, <1>7

LEMMA StepArchives ==
  ASSUME CInv, CInv', ArchiveInv, ArchiveInv', [Next]_vars
  PROVE  [Promise!Next]_(Promise!archive)
<1>1. CASE UNCHANGED vars
  <2>1. OnDisk' = OnDisk /\ Filed' = Filed /\ acked' = acked /\ pos' = pos
    BY <1>1 DEF vars, files, segments, OnDisk, Filed
  <2> QED BY <2>1 DEF Promise!archive
<1>2. CASE Next /\ pos' = pos
  <2>1. Promise!File
    BY <1>2, StepFiles
  <2>2. UNCHANGED <<OnDisk, acked>> \/ \E w \in Windows \ OnDisk : Promise!Keep(w)
    BY <1>2, StepKeeps
  <2>3. Promise!Store
    BY <1>2, <2>1, <2>2 DEF Promise!Store
  <2> QED BY <2>3 DEF Promise!Next
<1>3. CASE Next /\ pos' # pos
  <2>1. Commit
    BY <1>3, EachCopyStep
  <2>2. OnDisk' = OnDisk /\ Filed' = Filed /\ acked' = acked /\ pos' = win.e
    BY <1>3, <2>1 DEF Commit, PositionOfBatch, files, segments, OnDisk, Filed
  <2>3. win \in acked /\ win.e = mem + 1 /\ pos \in {mem, mem + 1} /\ mem \in Nat
    BY <2>1 DEF Commit, CInv, Position, ArchiveInv, Behind, Control, ProcessTypes
  <2>4. win.e = pos + 1
    BY <1>3, <2>2, <2>3
  <2>5. Promise!Advance
    BY <2>2, <2>3, <2>4 DEF Promise!Advance
  <2> QED BY <2>5 DEF Promise!Next
<1> QED BY <1>1, <1>2, <1>3

\* The storage path implements Archive: whatever call fails and wherever the
\* process or the machine dies, windows are kept in order and never dropped,
\* segments are filed for good, in order, under the number of the first window
\* and with no window in two of them, and the position skips no batch.
THEOREM RefinesArchive == Spec => ImplementsArchive
<1>1. Init => ArchiveInv /\ Promise!Init
  BY InitArchiveInv
<1>2. CInv /\ ArchiveInv /\ [Next]_vars => ArchiveInv'
  BY StepArchiveInv
<1>3. CInv /\ CInv' /\ ArchiveInv /\ ArchiveInv' /\ [Next]_vars => [Promise!Next]_(Promise!archive)
  BY StepArchives
<1> QED BY <1>1, <1>2, <1>3, CollectorInductive, PTL DEF Spec, ImplementsArchive, Promise!Spec
=============================================================================
