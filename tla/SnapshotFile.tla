--------------------------- MODULE SnapshotFile ---------------------------
(***************************************************************************)
(* dailyspend.FileSnapshotter: Load and Save of the today-zero.json file,  *)
(* one system call per step, by several requests at once.  Every Save uses *)
(* the same temporary name, Path + ".tmp".                                 *)
(*                                                                         *)
(* The file system is modelled by inodes: a name refers to an inode or to  *)
(* nothing, an open descriptor keeps its inode whatever the names do, and  *)
(* the content of an inode is a sequence of cells, each marked with the    *)
(* snapshot it comes from.  The JSON text of x is Length[x] cells of x.    *)
(***************************************************************************)
EXTENDS Naturals, Sequences

CONSTANTS
  Savers,     \* requests that may be in Save at once
  Snapshots,  \* the snapshots they save
  Length,     \* length of each snapshot's JSON text
  Inodes,     \* inodes the file system can hand out
  NoInode

ASSUME SnapshotFileAssumption ==
  /\ Length \in [Snapshots -> Nat \ {0}]
  /\ NoInode \notin Inodes

VARIABLES
  path,       \* inode of Path
  tmp,        \* inode of Path + ".tmp"
  content,    \* content of every inode
  snap,       \* the argument of each Save
  fd,         \* inode behind each Save's tmpFile
  at          \* position in Save

fileVars == <<path, tmp, content, snap, fd, at>>

Text(x) == [i \in 1..Length[x] |-> x]

\* The variables' types; a Save holds a descriptor exactly from OpenFile to
\* Close, on every error path too.
TypeOK ==
  /\ path \in Inodes \cup {NoInode}
  /\ tmp \in Inodes \cup {NoInode}
  /\ content \in [Inodes -> Seq(Snapshots)]
  /\ snap \in [Savers -> Snapshots]
  /\ fd \in [Savers -> Inodes \cup {NoInode}]
  /\ at \in [Savers -> {"idle", "encode", "sync", "close", "rename"}]
  /\ \A w \in Savers : fd[w] # NoInode <=> at[w] \in {"encode", "sync", "close"}

Init ==
  /\ path = NoInode
  /\ tmp = NoInode
  /\ content = [i \in Inodes |-> <<>>]
  /\ snap \in [Savers -> Snapshots]
  /\ fd = [w \in Savers |-> NoInode]
  /\ at = [w \in Savers |-> "idle"]

\* An inode no name and no descriptor refers to.
Unused(i) == i # path /\ i # tmp /\ \A w \in Savers : fd[w] # i

\* Mutant of Open: no O_TRUNC.
OpenKeeping(w) ==
  /\ at[w] = "idle"
  /\ IF tmp # NoInode
     THEN fd' = [fd EXCEPT ![w] = tmp] /\ UNCHANGED <<tmp, content>>
     ELSE \E i \in Inodes : /\ Unused(i)
                            /\ tmp' = i
                            /\ content' = [content EXCEPT ![i] = <<>>]
                            /\ fd' = [fd EXCEPT ![w] = i]
  /\ \E x \in Snapshots : snap' = [snap EXCEPT ![w] = x]
  /\ at' = [at EXCEPT ![w] = "encode"]
  /\ UNCHANGED path

\* OpenFile with O_CREATE and O_TRUNC: the file of that name is emptied.
Open(w) ==
  /\ at[w] = "idle"
  /\ \E i \in Inodes : /\ IF tmp = NoInode THEN Unused(i) ELSE i = tmp
                       /\ tmp' = i
                       /\ content' = [content EXCEPT ![i] = <<>>]
                       /\ fd' = [fd EXCEPT ![w] = i]
  /\ \E x \in Snapshots : snap' = [snap EXCEPT ![w] = x]
  /\ at' = [at EXCEPT ![w] = "encode"]
  /\ UNCHANGED path

\* What a write at offset 0 leaves: the new cells, then what lay behind them.
Overlay(old, new) == new \o SubSeq(old, Len(new) + 1, Len(old))

\* Encode hands the whole text to one write.
Encode(w) ==
  /\ at[w] = "encode"
  /\ content' = [content EXCEPT ![fd[w]] = Overlay(@, Text(snap[w]))]
  /\ at' = [at EXCEPT ![w] = "sync"]
  /\ UNCHANGED <<path, tmp, snap, fd>>

Sync(w) ==
  /\ at[w] = "sync"
  /\ at' = [at EXCEPT ![w] = "close"]
  /\ UNCHANGED <<path, tmp, content, snap, fd>>

Close(w) ==
  /\ at[w] = "close"
  /\ at' = [at EXCEPT ![w] = "rename"]
  /\ fd' = [fd EXCEPT ![w] = NoInode]
  /\ UNCHANGED <<path, tmp, content, snap>>

\* Mutant of Rename: a link; the temporary name stays.
RenameLinking(w) ==
  /\ at[w] = "rename" /\ tmp # NoInode
  /\ path' = tmp
  /\ at' = [at EXCEPT ![w] = "idle"]
  /\ UNCHANGED <<tmp, content, snap, fd>>

\* Rename works on the name, not on the file that was written.
Rename(w) ==
  /\ at[w] = "rename" /\ tmp # NoInode
  /\ path' = tmp
  /\ tmp' = NoInode
  /\ at' = [at EXCEPT ![w] = "idle"]
  /\ UNCHANGED <<content, snap, fd>>

\* Mutant of Fail: the error path leaks the descriptor.
FailLeaking(w) ==
  /\ at[w] \in {"encode", "sync", "close", "rename"}
  /\ tmp' = NoInode
  /\ at' = [at EXCEPT ![w] = "idle"]
  /\ UNCHANGED <<path, content, snap, fd>>

\* A failing call (a rename whose source is gone included): close the
\* descriptor, remove the temporary name, return the error.  A write may
\* have stored part of the text.
Fail(w) ==
  /\ at[w] \in {"encode", "sync", "close", "rename"}
  /\ IF at[w] = "encode"
     THEN \E k \in 0..(Length[snap[w]] - 1) :
            content' = [content EXCEPT ![fd[w]] = Overlay(@, SubSeq(Text(snap[w]), 1, k))]
     ELSE UNCHANGED content
  /\ tmp' = NoInode
  /\ fd' = [fd EXCEPT ![w] = NoInode]
  /\ at' = [at EXCEPT ![w] = "idle"]
  /\ UNCHANGED <<path, snap>>

\* The process dies; the files stay.
Crash ==
  /\ \E w \in Savers : at[w] # "idle"
  /\ fd' = [w \in Savers |-> NoInode]
  /\ at' = [w \in Savers |-> "idle"]
  /\ UNCHANGED <<path, tmp, content, snap>>

SaveStep(w) == Open(w) \/ Encode(w) \/ Sync(w) \/ Close(w) \/ Rename(w) \/ Fail(w)

Next == Crash \/ \E w \in Savers : SaveStep(w)

Spec == Init /\ [][Next]_fileVars
-----------------------------------------------------------------------------
Complete(text) == \E x \in Snapshots : text = Text(x)

\* spec 011, "Concurrent readers see either the old or the new snapshot —
\* never a partial file": Load finds no file or one whole snapshot, at every
\* step of a Save and after every failure and crash.
NeverPartial == path # NoInode => Complete(content[path])

\* Save replaces Path only by a rename: between renames the file a reader has
\* found keeps its content.
PublishedFileIsStable ==
  [][path # NoInode /\ path' = path => content'[path] = content[path]]_fileVars
=============================================================================
