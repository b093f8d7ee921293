------------------------- MODULE SnapshotFileProofs -------------------------
(***************************************************************************)
(* Proofs about SnapshotFile: the types for any number of savers, and the  *)
(* promise of spec 011, no partial file, for one saver at a time.  The     *)
(* runs with two savers show that the restriction is needed.               *)
(***************************************************************************)
EXTENDS SnapshotFile, SequenceTheorems, TLAPS

\* The text of a snapshot is a non-empty sequence of cells.
LEMMA TextType ==
  ASSUME NEW x \in Snapshots
  PROVE  /\ Length[x] \in Nat \ {0}
         /\ Text(x) \in Seq(Snapshots)
         /\ Len(Text(x)) = Length[x]
  <1>1. Length[x] \in Nat \ {0}
    BY SnapshotFileAssumption
  <1> QED BY <1>1, IsASeq, LenProperties DEF Text

\* A write leaves a sequence of cells.
LEMMA OverlayType ==
  ASSUME NEW old \in Seq(Snapshots), NEW new \in Seq(Snapshots)
  PROVE  Overlay(old, new) \in Seq(Snapshots)
  <1>1. SubSeq(old, Len(new) + 1, Len(old)) \in Seq(Snapshots)
    BY SubSeqProperties, LenProperties
  <1> QED BY <1>1, ConcatProperties DEF Overlay

\* A write into an empty file leaves exactly what is written.
LEMMA OverlayEmpty ==
  ASSUME NEW new \in Seq(Snapshots)
  PROVE  Overlay(<<>>, new) = new
  <1>1. SubSeq(<<>>, Len(new) + 1, Len(<<>>)) = <<>>
    BY SubSeqProperties, LenProperties, EmptySeq
  <1> QED BY <1>1, ConcatEmptySeq DEF Overlay

\* A part of a text is a sequence of cells.
LEMMA PartType ==
  ASSUME NEW x \in Snapshots, NEW k \in 0..(Length[x] - 1)
  PROVE  SubSeq(Text(x), 1, k) \in Seq(Snapshots)
  BY TextType, SubSeqProperties, LenProperties

\* Every step of a Save, a failure included, and every crash keeps the types.
LEMMA TypeStep == TypeOK /\ [Next]_fileVars => TypeOK'
  <1> SUFFICES ASSUME TypeOK, [Next]_fileVars PROVE TypeOK'
    OBVIOUS
  <1> USE SnapshotFileAssumption DEF TypeOK
  <1>1. ASSUME NEW w \in Savers, Open(w) PROVE TypeOK'
    BY <1>1, EmptySeq DEF Open
  <1>2. ASSUME NEW w \in Savers, Encode(w) PROVE TypeOK'
    <2>1. fd[w] \in Inodes /\ snap[w] \in Snapshots
      BY <1>2 DEF Encode
    <2>2. Overlay(content[fd[w]], Text(snap[w])) \in Seq(Snapshots)
      BY <2>1, TextType, OverlayType
    <2> QED BY <1>2, <2>1, <2>2 DEF Encode
  <1>3. ASSUME NEW w \in Savers, Sync(w) PROVE TypeOK'
    BY <1>3 DEF Sync
  <1>4. ASSUME NEW w \in Savers, Close(w) PROVE TypeOK'
    BY <1>4 DEF Close
  <1>5. ASSUME NEW w \in Savers, Rename(w) PROVE TypeOK'
    BY <1>5 DEF Rename
  <1>6. ASSUME NEW w \in Savers, Fail(w) PROVE TypeOK'
    <2>1. content' \in [Inodes -> Seq(Snapshots)]
      <3>1. CASE at[w] = "encode"
        <4>1. fd[w] \in Inodes /\ snap[w] \in Snapshots
          BY <3>1
        <4>2. PICK k \in 0..(Length[snap[w]] - 1) :
                content' = [content EXCEPT
                  ![fd[w]] = Overlay(content[fd[w]], SubSeq(Text(snap[w]), 1, k))]
          BY <1>6, <3>1 DEF Fail
        <4>3. Overlay(content[fd[w]], SubSeq(Text(snap[w]), 1, k)) \in Seq(Snapshots)
          BY <4>1, PartType, OverlayType
        <4> QED BY <4>1, <4>2, <4>3
      <3>2. CASE at[w] # "encode"
        BY <1>6, <3>2 DEF Fail
      <3> QED BY <3>1, <3>2
    <2> QED BY <1>6, <2>1 DEF Fail
  <1>7. CASE Crash
    BY <1>7 DEF Crash
  <1>8. CASE UNCHANGED fileVars
    BY <1>8 DEF fileVars
  <1> QED BY <1>1, <1>2, <1>3, <1>4, <1>5, <1>6, <1>7, <1>8 DEF Next, SaveStep

\* Any number of requests may be in Save: the variables keep their types, and
\* a Save holds a descriptor exactly between OpenFile and Close.
THEOREM FileTypeCorrect == Spec => []TypeOK
  <1>1. Init => TypeOK
    BY SnapshotFileAssumption, EmptySeq DEF Init, TypeOK
  <1> QED BY <1>1, TypeStep, PTL DEF Spec
-----------------------------------------------------------------------------
\* What one Save keeps true: it writes the file of the temporary name and no
\* other, that file is not the published one, and it is empty until Encode has
\* put the whole text into it.
OneSaverInv(w) ==
  /\ TypeOK
  /\ NeverPartial
  /\ path # NoInode => path # tmp
  /\ at[w] # "idle" => tmp # NoInode
  /\ fd[w] # NoInode => fd[w] = tmp
  /\ at[w] = "encode" => content[tmp] = <<>>
  /\ at[w] \in {"sync", "close", "rename"} => content[tmp] = Text(snap[w])

\* Encode of the only saver completes the temporary file.
LEMMA EncodeCompletes ==
  ASSUME NEW w \in Savers, OneSaverInv(w), Encode(w)
  PROVE  content' = [content EXCEPT ![tmp] = Text(snap[w])] /\ tmp \in Inodes
  <1>1. fd[w] = tmp /\ tmp \in Inodes /\ content[tmp] = <<>> /\ snap[w] \in Snapshots
    BY DEF OneSaverInv, Encode, TypeOK
  <1>2. Overlay(content[fd[w]], Text(snap[w])) = Text(snap[w])
    BY <1>1, TextType, OverlayEmpty
  <1> QED BY <1>1, <1>2 DEF Encode

\* No step of the only saver, no failure and no crash leaves a partial file.
LEMMA OneSaverStep ==
  ASSUME NEW w, Savers = {w}
  PROVE  OneSaverInv(w) /\ [Next]_fileVars => OneSaverInv(w)'
  <1> SUFFICES ASSUME OneSaverInv(w), [Next]_fileVars PROVE OneSaverInv(w)'
    OBVIOUS
  <1>0. TypeOK'
    BY TypeStep DEF OneSaverInv
  <1> USE <1>0, SnapshotFileAssumption DEF OneSaverInv, TypeOK, NeverPartial, Complete
  <1>1. CASE Open(w)
    BY <1>1 DEF Open, Unused
  <1>2. CASE Encode(w)
    BY <1>2, EncodeCompletes DEF Encode
  <1>3. CASE Sync(w)
    BY <1>3 DEF Sync
  <1>4. CASE Close(w)
    BY <1>4 DEF Close
  <1>5. CASE Rename(w)
    BY <1>5 DEF Rename
  <1>6. CASE Fail(w)
    <2>1. path # NoInode => content'[path] = content[path]
      BY <1>6 DEF Fail
    <2> QED BY <1>6, <2>1 DEF Fail
  <1>7. CASE Crash
    BY <1>7 DEF Crash
  <1>8. CASE UNCHANGED fileVars
    BY <1>8 DEF fileVars
  <1> QED BY <1>1, <1>2, <1>3, <1>4, <1>5, <1>6, <1>7, <1>8 DEF Next, SaveStep

\* The same as an invariant of the specification.
LEMMA OneSaverInvariant ==
  ASSUME NEW w, Savers = {w}
  PROVE  Spec => []OneSaverInv(w)
  <1>1. Init => OneSaverInv(w)
    BY SnapshotFileAssumption, EmptySeq DEF Init, OneSaverInv, TypeOK, NeverPartial
  <1>2. OneSaverInv(w) /\ [Next]_fileVars => OneSaverInv(w)'
    BY OneSaverStep
  <1> QED BY <1>1, <1>2, PTL DEF Spec

\* spec 011's promise, for one Save at a time: whatever fails or crashes
\* where, Load finds no file or one whole snapshot.
THEOREM OneSaverNeverPartial ==
  ASSUME NEW w, Savers = {w}
  PROVE  Spec => []NeverPartial
  <1>1. OneSaverInv(w) => NeverPartial
    BY DEF OneSaverInv
  <1> QED BY <1>1, OneSaverInvariant, PTL

\* One Save at a time never writes into the file a reader has found.
THEOREM OneSaverStable ==
  ASSUME NEW w, Savers = {w}
  PROVE  Spec => PublishedFileIsStable
  <1> DEFINE Stable == path # NoInode /\ path' = path => content'[path] = content[path]
  <1>1. ASSUME OneSaverInv(w), [Next]_fileVars PROVE [Stable]_fileVars
    <2> USE <1>1, SnapshotFileAssumption DEF OneSaverInv, TypeOK
    <2>1. CASE Open(w)
      BY <2>1 DEF Open, Unused
    <2>2. CASE Encode(w)
      BY <2>2 DEF Encode
    <2>3. CASE Fail(w)
      BY <2>3 DEF Fail
    <2>4. CASE Sync(w) \/ Close(w) \/ Rename(w) \/ Crash \/ UNCHANGED fileVars
      BY <2>4 DEF Sync, Close, Rename, Crash, fileVars
    <2> QED BY <2>1, <2>2, <2>3, <2>4 DEF Next, SaveStep
  <1> QED BY <1>1, OneSaverInvariant, PTL DEF Spec, PublishedFileIsStable
=============================================================================
