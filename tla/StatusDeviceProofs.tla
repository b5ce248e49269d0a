------------------------- MODULE StatusDeviceProofs -------------------------
(***************************************************************************)
(* The status device, for any files, any number of threads that share      *)
(* them, any page size, and texts of any number of pieces.  ModuleLife     *)
(* says when the actions run, so the lemmas are about steps;               *)
(* ModuleLifeProofs has the theorems.                                      *)
(***************************************************************************)
EXTENDS StatusDevice, TLAPS

DeviceSafe == DeviceTypes /\ TextFits /\ PosInBounds /\ NothingSkipped /\ DeviceInv

-----------------------------------------------------------------------------
(* What the arithmetic of printing and reading returns *)

\* However long a piece is, what is written leaves room for the terminator.
LEMMA PieceFits ==
  ASSUME NEW writeLen \in Nat, writeLen < OBJECT_MAX_SIZE, NEW length \in Nat
  PROVE  AfterPiece(writeLen, length) \in Nat /\ AfterPiece(writeLen, length) < OBJECT_MAX_SIZE
BY DeviceAssumption DEF AfterPiece, scnprintf

\* A read gives bytes of the text only, from its position on.
LEMMA ReadStays ==
  ASSUME NEW from \in Nat, NEW len \in Nat, NEW sz \in Nat, from <= sz
  PROVE  /\ Given(from, len, sz) \in Nat
         /\ NewPosition(from, len, sz) = from + Given(from, len, sz)
         /\ NewPosition(from, len, sz) \in 0 .. sz
BY DEF Given, NewPosition

-----------------------------------------------------------------------------
(* Steps of a thread *)

\* A thread that moves between two files leaves the users of a third alone.
LEMMA UsersMove ==
  ASSUME fd \in [Threads -> Files \cup {NoFile}], NEW t \in Threads, NEW g,
         fd' = [fd EXCEPT ![t] = g], NEW h, fd[t] # h, g # h
  PROVE  Users(h)' = Users(h)
BY DEF Users

\* A piece of the text is printed.
LEMMA PrintKeeps ==
  ASSUME DeviceSafe, NEW S, pc \in [Threads -> S], NEW t \in Threads, tbdeStatusString(t)
  PROVE  DeviceSafe'
<1>1. PICK length \in Pieces : off' = [off EXCEPT ![t] = AfterPiece(@, length)]
  BY DEF tbdeStatusString
<1>2. pc[t] = "walk" /\ pc' = pc /\ UNCHANGED <<open, size, pos, fd, accounted>>
  BY DEF tbdeStatusString, Goto
<1>3. off'[t] \in Nat /\ off'[t] < OBJECT_MAX_SIZE
  BY <1>1, <1>2, PieceFits, DeviceAssumption DEF DeviceSafe, DeviceTypes, DeviceInv
<1>4. \A u \in Threads : u # t => off'[u] = off[u]
  BY <1>1 DEF DeviceSafe, DeviceTypes
<1>5. DeviceTypes'
  BY <1>1, <1>2, <1>3 DEF DeviceSafe, DeviceTypes
<1>6. TextFits' /\ NothingSkipped'
  BY <1>2 DEF DeviceSafe, TextFits, NothingSkipped
<1>7. PosInBounds'
  BY <1>2, <1>4 DEF DeviceSafe, PosInBounds
<1>8. DeviceInv'
  BY <1>2, <1>3, <1>4 DEF DeviceSafe, DeviceInv, Users
<1> QED
  BY <1>5, <1>6, <1>7, <1>8 DEF DeviceSafe

\* The text is complete and its file is open.
LEMMA OpenKeeps ==
  ASSUME DeviceSafe, NEW S, pc \in [Threads -> S], NEW t \in Threads, dev_open(t)
  PROVE  DeviceSafe'
<1> USE DEF DeviceSafe, DeviceTypes
<1>0. PICK f \in Files : f = fd[t]
  BY DEF dev_open, Done, Goto, DeviceInv
<1>1. /\ pc[t] = "walk" /\ pc' = [pc EXCEPT ![t] = "idle"]
      /\ fd' = [fd EXCEPT ![t] = NoFile] /\ off' = [off EXCEPT ![t] = 0]
      /\ open' = [open EXCEPT ![f] = TRUE] /\ size' = [size EXCEPT ![f] = off[t] + 1]
      /\ UNCHANGED <<pos, accounted>>
  BY <1>0 DEF dev_open, Done, Goto
<1>2. off[t] < OBJECT_MAX_SIZE /\ ~open[f] /\ Users(f) = {t} /\ pos[f] = 0
  BY <1>0, <1>1 DEF DeviceInv
<1>3. \A u \in Threads : u # t => fd[u] # f
  BY <1>2 DEF Users
<1>4. DeviceTypes'
  BY <1>1
<1>5. TextFits'
  BY <1>1, <1>2, DeviceAssumption DEF TextFits
<1>6. PosInBounds' /\ NothingSkipped'
  BY <1>1, <1>2, <1>3 DEF PosInBounds, NothingSkipped, DeviceInv
<1>7. DeviceInv'
  <2>1. ASSUME NEW u \in Threads, u # t, fd[u] \in Files
        PROVE  Users(fd[u])' = Users(fd[u])
    <3>1. fd'[u] = fd[u] /\ fd[u] # NoFile /\ fd[u] # fd[t]
      BY <1>0, <1>1, <1>3, <2>1, DeviceAssumption
    <3>2. PICK h \in Files : h = fd[u]
      BY <2>1
    <3>3. Users(h)' = Users(h)
      BY <1>1, <3>1, <3>2, UsersMove
    <3> QED
      BY <3>1, <3>2, <3>3 DEF Users
  <2> QED
    BY <1>1, <1>2, <1>3, <2>1 DEF DeviceInv
<1> QED
  BY <1>4, <1>5, <1>6, <1>7

\* A read or a seek begins.
LEMMA BeginKeeps ==
  ASSUME DeviceSafe, NEW S, pc \in [Threads -> S], NEW t \in Threads, NEW f \in Files,
         LoadPosition(t, f) \/ dev_llseek(t, f)
  PROVE  DeviceSafe'
<1> USE DEF DeviceSafe, DeviceTypes
<1>1. PICK newpos \in Nat, to \in {"read", "seek"} :
        /\ pc[t] = "idle" /\ open[f] /\ newpos \in 0 .. size[f]
        /\ to = "read" => newpos = pos[f]
        /\ pc' = [pc EXCEPT ![t] = to]
        /\ fd' = [fd EXCEPT ![t] = f]
        /\ off' = [off EXCEPT ![t] = newpos]
        /\ UNCHANGED <<open, size, pos, accounted>>
  <2>1. CASE LoadPosition(t, f)
    BY <2>1 DEF LoadPosition, Goto, PosInBounds
  <2>2. CASE dev_llseek(t, f)
    <3>1. PICK f_pos \in Offsets :
            \E newpos \in {f_pos, pos[f] + f_pos, size[f] + f_pos} :
              /\ open[f] /\ InText(newpos, size[f])
              /\ Goto(t, "idle", "seek")
              /\ fd' = [fd EXCEPT ![t] = f]
              /\ off' = [off EXCEPT ![t] = newpos]
              /\ UNCHANGED <<open, size, pos, accounted>>
      BY <2>2 DEF dev_llseek
    <3>2. {f_pos, pos[f] + f_pos, size[f] + f_pos} \subseteq Int
      BY DeviceAssumption
    <3>3. PICK newpos \in Int :
            /\ open[f] /\ InText(newpos, size[f])
            /\ Goto(t, "idle", "seek")
            /\ fd' = [fd EXCEPT ![t] = f]
            /\ off' = [off EXCEPT ![t] = newpos]
            /\ UNCHANGED <<open, size, pos, accounted>>
      BY <3>1, <3>2
    <3>4. newpos \in Nat /\ newpos \in 0 .. size[f]
      BY <3>3 DEF InText
    <3> QED
      BY <3>3, <3>4 DEF Goto
  <2> QED
    BY <2>1, <2>2
<1>2. DeviceTypes' /\ TextFits' /\ NothingSkipped' /\ PosInBounds'
  BY <1>1 DEF TextFits, NothingSkipped, PosInBounds
<1>3. DeviceInv'
  <2>1. fd[t] = NoFile
    BY <1>1 DEF DeviceInv
  <2>2. ASSUME NEW u \in Threads, u # t, fd[u] \in Files, fd[u] # f
        PROVE  Users(fd[u])' = Users(fd[u])
    <3>1. fd'[u] = fd[u] /\ fd[u] # NoFile
      BY <1>1, <2>2, DeviceAssumption
    <3>2. \A h : h # NoFile /\ h # f => Users(h)' = Users(h)
      BY <1>1, <2>1, UsersMove
    <3> QED
      BY <2>2, <3>1, <3>2 DEF Users
  <2> QED
    BY <1>1, <2>2 DEF DeviceInv, NothingSkipped
<1> QED
  BY <1>2, <1>3

\* dev_read: what is given is accounted for, and nothing else of any file.
LEMMA ReadKeeps ==
  ASSUME DeviceSafe, NEW S, pc \in [Threads -> S], NEW t \in Threads, dev_read(t)
  PROVE  DeviceSafe'
<1> USE DEF DeviceSafe, DeviceTypes
<1>0. PICK f \in Files : f = fd[t]
  BY DEF dev_read, Goto, DeviceInv
<1>1. PICK n \in Nat :
        /\ pc[t] = "read" /\ pc' = [pc EXCEPT ![t] = "store"]
        /\ off' = [off EXCEPT ![t] = off[t] + n] /\ off[t] + n \in 0 .. size[f]
        /\ accounted' = [accounted EXCEPT ![f] = @ \cup off[t] .. off[t] + n - 1]
        /\ UNCHANGED <<open, size, pos, fd>>
  <2>1. PICK len \in Lens :
          /\ Goto(t, "read", "store")
          /\ off' = [off EXCEPT ![t] = NewPosition(off[t], len, size[f])]
          /\ accounted' = [accounted EXCEPT ![f] =
                             @ \cup off[t] .. off[t] + Given(off[t], len, size[f]) - 1]
          /\ UNCHANGED <<open, size, pos, fd>>
    BY <1>0 DEF dev_read
  <2>2. len \in Nat /\ off[t] \in Nat /\ size[f] \in Nat /\ off[t] <= size[f]
    BY <1>0, <2>1, DeviceAssumption DEF Goto, PosInBounds
  <2>3. PICK n \in Nat : n = Given(off[t], len, size[f])
    BY <2>2, ReadStays
  <2>4. NewPosition(off[t], len, size[f]) = off[t] + n /\ off[t] + n \in 0 .. size[f]
    BY <2>2, <2>3, ReadStays
  <2> QED
    BY <2>1, <2>3, <2>4 DEF Goto
<1>2. \A g \in Files : accounted[g] \subseteq accounted'[g]
  BY <1>1
<1>3. accounted' \in [Files -> SUBSET Nat] /\ off' \in [Threads -> Nat]
  BY <1>1
<1>4. DeviceTypes' /\ TextFits' /\ NothingSkipped'
  BY <1>1, <1>2, <1>3 DEF TextFits, NothingSkipped
<1>5. PosInBounds'
  BY <1>0, <1>1 DEF PosInBounds
<1>6. DeviceInv'
  <2>1. 0 .. off'[t] - 1 \subseteq accounted'[f]
    <3>1. 0 .. off[t] - 1 \subseteq accounted[f]
      BY <1>0, <1>1 DEF DeviceInv
    <3>2. 0 .. off[t] + n - 1 \subseteq (0 .. off[t] - 1) \cup (off[t] .. off[t] + n - 1)
      BY <1>1
    <3> QED
      BY <1>1, <3>1, <3>2
  <2>2. fd[t] = f /\ open[f]
    BY <1>0, <1>1 DEF DeviceInv
  <2>3. ASSUME NEW u \in Threads, u # t
        PROVE  pc'[u] = pc[u] /\ off'[u] = off[u] /\ fd'[u] = fd[u]
    BY <1>1, <2>3
  <2>4. \A u \in Threads : Users(fd[u])' = Users(fd[u])
    BY <1>1 DEF Users
  <2>5. ASSUME NEW u \in Threads, pc[u] \in {"read", "store"}, u # t
        PROVE  0 .. off[u] - 1 \subseteq accounted'[fd[u]]
    BY <1>2, <2>5 DEF DeviceInv
  <2>6. pc'[t] = "store"
    BY <1>1
  <2> QED
    BY <1>1, <2>1, <2>2, <2>3, <2>4, <2>5, <2>6 DEF DeviceInv
<1> QED
  BY <1>4, <1>5, <1>6

\* A read or a seek stores its position in the file.
LEMMA StoreKeeps ==
  ASSUME DeviceSafe, NEW S, pc \in [Threads -> S], NEW t \in Threads,
         StorePosition(t) \/ SetPosition(t)
  PROVE  DeviceSafe'
<1> USE DEF DeviceSafe, DeviceTypes
<1>0. PICK f \in Files : f = fd[t]
  BY DEF StorePosition, SetPosition, Done, Goto, DeviceInv
<1>1. /\ pc[t] \in {"store", "seek"} /\ pc' = [pc EXCEPT ![t] = "idle"]
      /\ fd' = [fd EXCEPT ![t] = NoFile] /\ off' = [off EXCEPT ![t] = 0]
      /\ pos' = [pos EXCEPT ![f] = off[t]]
      /\ UNCHANGED <<open, size>>
  BY <1>0 DEF StorePosition, SetPosition, Done, Goto
<1>2. /\ accounted' \in [Files -> SUBSET Nat]
      /\ \A g \in Files : accounted[g] \subseteq accounted'[g]
      /\ 0 .. off[t] - 1 \subseteq accounted'[f]
  BY <1>0, <1>1 DEF StorePosition, SetPosition, Done, Goto, DeviceInv
<1>3. open[f] /\ off[t] \in 0 .. size[f]
  BY <1>0, <1>1 DEF DeviceInv, PosInBounds
<1>4. DeviceTypes' /\ TextFits'
  BY <1>1, <1>2 DEF TextFits
<1>5. PosInBounds'
  BY <1>1, <1>3 DEF PosInBounds
<1>6. NothingSkipped'
  BY <1>1, <1>2 DEF NothingSkipped
<1>7. DeviceInv'
  <2>1. ASSUME NEW u \in Threads, u # t, pc[u] \in {"walk", "no_trees"}
        PROVE  Users(fd[u])' = Users(fd[u])
    <3>1. fd'[u] = fd[u] /\ fd[u] # NoFile /\ fd[u] # fd[t]
      BY <1>0, <1>1, <1>3, <2>1, DeviceAssumption DEF DeviceInv
    <3>2. \A h : h # NoFile /\ h # fd[t] => Users(h)' = Users(h)
      BY <1>1, UsersMove
    <3> QED
      BY <3>1, <3>2 DEF Users
  <2> QED
    BY <1>1, <1>2, <1>3, <2>1 DEF DeviceInv
<1> QED
  BY <1>4, <1>5, <1>6, <1>7

\* The last user has gone, and the instance is freed.
LEMMA ReleaseKeeps ==
  ASSUME DeviceSafe, NEW f \in Files, dev_release(f)
  PROVE  DeviceSafe'
<1> USE DEF DeviceSafe, DeviceTypes
<1>1. /\ open[f] /\ Users(f) = {}
      /\ open' = [open EXCEPT ![f] = FALSE] /\ size' = [size EXCEPT ![f] = 0]
      /\ pos' = [pos EXCEPT ![f] = 0] /\ accounted' = [accounted EXCEPT ![f] = {}]
      /\ UNCHANGED <<pc, fd, off>>
  BY DEF dev_release
<1>2. \A t \in Threads : fd[t] # f
  BY <1>1 DEF Users
<1>3. DeviceTypes' /\ TextFits' /\ NothingSkipped' /\ PosInBounds'
  BY <1>1, <1>2 DEF TextFits, NothingSkipped, PosInBounds, DeviceInv
<1>4. DeviceInv'
  BY <1>1, <1>2 DEF DeviceInv, Users
<1> QED
  BY <1>3, <1>4

\* Threads that are not at the device, and stay away from it, do not matter.
LEMMA DeviceFrame ==
  ASSUME DeviceSafe, UNCHANGED deviceVars,
         \A t \in Threads :
           \/ pc'[t] = pc[t]
           \/ {pc[t], pc'[t]} \cap {"walk", "no_trees", "read", "store", "seek"} = {}
           \/ pc[t] = "walk" /\ pc'[t] = "no_trees"
  PROVE  DeviceSafe'
<1> USE DEF DeviceSafe, deviceVars
<1>1. DeviceTypes' /\ TextFits' /\ NothingSkipped'
  BY DEF DeviceTypes, TextFits, NothingSkipped
<1>2. PosInBounds'
  BY DEF PosInBounds
<1>3. DeviceInv'
  BY DEF DeviceInv, Users
<1> QED
  BY <1>1, <1>2, <1>3

=============================================================================
