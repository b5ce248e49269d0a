---------------------------- MODULE StatusDevice ----------------------------
(***************************************************************************)
(* The status device (src/lib/charDev/charDev.c): every open file has a    *)
(* text of its own, made when it was opened (tbdeStatusString of           *)
(* src/lib/tbde/supportTBDE.c), and a position in it.                      *)
(*                                                                         *)
(* Threads may share an open file.  The kernel does not lock the position  *)
(* of a character device: read() loads it, gives it to dev_read, and       *)
(* stores what dev_read made of it, while dev_llseek stores into the file  *)
(* itself.  The mutex of an instance (charDev.h) is never taken.           *)
(* ModuleLife says when each of these actions may run.                     *)
(***************************************************************************)
EXTENDS Integers

CONSTANTS
  Threads, Files, NoFile,
  OBJECT_MAX_SIZE,   \* 4096
  Pieces,            \* lengths of the pieces a status text is printed from
  Lens, Offsets      \* arguments of read() and of lseek()

ASSUME DeviceAssumption ==
  /\ NoFile \notin Files /\ OBJECT_MAX_SIZE \in Nat \ {0}
  /\ Pieces \subseteq Nat /\ Lens \subseteq Nat /\ Offsets \subseteq Int

VARIABLES
  open, size, pos,   \* by file: the instance exists, its size, and f_pos
  pc, fd, off,       \* by thread: the file it works on, a position it holds
  accounted          \* by file: bytes somebody was given, or asked to skip

deviceVars == <<open, size, pos, fd, off, accounted>>

DeviceInit ==
  /\ open = [f \in Files |-> FALSE]
  /\ size = [f \in Files |-> 0]
  /\ pos = [f \in Files |-> 0]
  /\ fd = [t \in Threads |-> NoFile]
  /\ off = [t \in Threads |-> 0]
  /\ accounted = [f \in Files |-> {}]

Goto(t, from, to) ==
  /\ pc[t] = from
  /\ pc' = [pc EXCEPT ![t] = to]

Done(t, from) ==
  /\ Goto(t, from, "idle")
  /\ fd' = [fd EXCEPT ![t] = NoFile]
  /\ off' = [off EXCEPT ![t] = 0]

Users(f) == {t \in Threads : fd[t] = f}

-----------------------------------------------------------------------------
(* The text: pieces printed one after another with scnprintf, each into    *)
(* what is left of *len bytes, and the terminator after them.  What has    *)
(* been written so far, writeLen, is in off.                               *)

scnprintf(left, length) ==
  IF left = 0 THEN 0 ELSE IF length < left THEN length ELSE left - 1

FaultyAfterPiece(writeLen, length) ==   \* fault: every piece may be as long as the page
  writeLen + scnprintf(OBJECT_MAX_SIZE, length)
AfterPiece(writeLen, length) == writeLen + scnprintf(OBJECT_MAX_SIZE - writeLen, length)

tbdeStatusString(t) ==
  /\ Goto(t, "walk", "walk")
  /\ \E length \in Pieces : off' = [off EXCEPT ![t] = AfterPiece(@, length)]
  /\ UNCHANGED <<open, size, pos, fd, accounted>>

dev_open(t) ==
  /\ Done(t, "walk")
  /\ open' = [open EXCEPT ![fd[t]] = TRUE]
  /\ size' = [size EXCEPT ![fd[t]] = off[t] + 1]
  /\ UNCHANGED <<pos, accounted>>

\* Called by the kernel when the last user of the file has gone.
dev_release(f) ==
  /\ open[f] /\ Users(f) = {}
  /\ open' = [open EXCEPT ![f] = FALSE]
  /\ size' = [size EXCEPT ![f] = 0]
  /\ pos' = [pos EXCEPT ![f] = 0]
  /\ accounted' = [accounted EXCEPT ![f] = {}]
  /\ UNCHANGED <<pc, fd, off>>

-----------------------------------------------------------------------------
(* read() *)

LoadPosition(t, f) ==
  /\ open[f] /\ Goto(t, "idle", "read")
  /\ fd' = [fd EXCEPT ![t] = f]
  /\ off' = [off EXCEPT ![t] = pos[f]]
  /\ UNCHANGED <<open, size, pos, accounted>>

Given(from, len, sz) ==
  IF from >= sz THEN 0 ELSE IF from + len > sz THEN sz - from ELSE len

FaultyNewPosition(from, len, sz) ==   \* fault: advances by what was asked for
  IF from >= sz THEN from ELSE from + len
NewPosition(from, len, sz) == from + Given(from, len, sz)

dev_read(t) ==
  \E len \in Lens :
    LET f == fd[t]
    IN /\ Goto(t, "read", "store")
       /\ off' = [off EXCEPT ![t] = NewPosition(off[t], len, size[f])]
       /\ accounted' = [accounted EXCEPT ![f] =
                          @ \cup off[t] .. off[t] + Given(off[t], len, size[f]) - 1]
       /\ UNCHANGED <<open, size, pos, fd>>

StorePosition(t) ==
  /\ Done(t, "store")
  /\ pos' = [pos EXCEPT ![fd[t]] = off[t]]
  /\ UNCHANGED <<open, size, accounted>>

-----------------------------------------------------------------------------
(* lseek(): the position is computed, tested, and then written.            *)

FaultyInText(newpos, sz) == newpos >= 0   \* fault: no upper bound
InText(newpos, sz) == newpos >= 0 /\ newpos < sz

dev_llseek(t, f) ==
  \E f_pos \in Offsets : \E newpos \in {f_pos, pos[f] + f_pos, size[f] + f_pos} :
    /\ open[f] /\ InText(newpos, size[f])
    /\ Goto(t, "idle", "seek")
    /\ fd' = [fd EXCEPT ![t] = f]
    /\ off' = [off EXCEPT ![t] = newpos]
    /\ UNCHANGED <<open, size, pos, accounted>>

SetPosition(t) ==
  /\ Done(t, "seek")
  /\ pos' = [pos EXCEPT ![fd[t]] = off[t]]
  /\ accounted' = [accounted EXCEPT ![fd[t]] = @ \cup 0 .. off[t] - 1]
  /\ UNCHANGED <<open, size>>

-----------------------------------------------------------------------------
(* Properties *)

DeviceTypes ==
  /\ open \in [Files -> BOOLEAN] /\ size \in [Files -> Nat] /\ pos \in [Files -> Nat]
  /\ fd \in [Threads -> Files \cup {NoFile}] /\ off \in [Threads -> Nat]
  /\ accounted \in [Files -> SUBSET Nat]

\* The text and its terminator fit the page they are written to.
TextFits == \A f \in Files : open[f] => size[f] \in 1 .. OBJECT_MAX_SIZE

\* However reads and seeks of one file are mixed, no position leaves the text.
PosInBounds ==
  /\ \A f \in Files : open[f] => pos[f] \in 0 .. size[f]
  /\ \A t \in Threads : pc[t] \in {"read", "store", "seek"} => off[t] \in 0 .. size[fd[t]]

\* A position moves only over bytes that some reader was given or that a seek
\* asked to skip: two reads that race may give a byte twice, but lose none.
NothingSkipped == \A f \in Files : open[f] => 0 .. pos[f] - 1 \subseteq accounted[f]

\* A file that is being opened is its opener's alone; one that is read stays
\* open; a position about to be stored is accounted for; a closed file is at 0.
DeviceInv ==
  /\ \A t \in Threads :
       /\ pc[t] \notin {"walk", "no_trees", "read", "store", "seek"} => fd[t] = NoFile /\ off[t] = 0
       /\ pc[t] \in {"walk", "no_trees"} =>
            fd[t] \in Files /\ ~open[fd[t]] /\ Users(fd[t]) = {t} /\ off[t] < OBJECT_MAX_SIZE
       /\ pc[t] \in {"read", "store", "seek"} => fd[t] \in Files /\ open[fd[t]]
       /\ pc[t] \in {"read", "store"} => 0 .. off[t] - 1 \subseteq accounted[fd[t]]
  /\ \A f \in Files : ~open[f] => pos[f] = 0

=============================================================================
