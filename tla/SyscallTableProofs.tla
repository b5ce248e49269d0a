------------------------- MODULE SyscallTableProofs -------------------------
(***************************************************************************)
(* The search for the system call table and what is done to it, for any    *)
(* memory.  ModuleLife says when the actions run, so the lemmas are about  *)
(* steps; ModuleLifeProofs has the theorems.                               *)
(***************************************************************************)
EXTENDS SyscallTable, NaturalLemmas

\* The pattern has a first and a last entry.
LEMMA PatternEnds ==
  /\ FIRST_NI_SYSCALL \in NI_SYSCALLS /\ \A i \in NI_SYSCALLS : FIRST_NI_SYSCALL <= i
  /\ SEVENTH_NI_SYSCALL \in NI_SYSCALLS /\ \A i \in NI_SYSCALLS : i <= SEVENTH_NI_SYSCALL
  /\ FIRST_NI_SYSCALL \in Nat /\ 0 < FIRST_NI_SYSCALL /\ FIRST_NI_SYSCALL < SEVENTH_NI_SYSCALL
  /\ SEVENTH_NI_SYSCALL \in Nat /\ SEVENTH_NI_SYSCALL < ENTRIES_TO_EXPLORE
  /\ NI_SYSCALLS \subseteq Entries
<1>1. /\ ENTRIES_TO_EXPLORE \in Nat
      /\ \A i \in NI_SYSCALLS : i \in Nat /\ 0 < i /\ i <= ENTRIES_TO_EXPLORE - 1
  BY TableAssumption
<1>2. NI_SYSCALLS \in SUBSET Nat
  BY <1>1
<1>3. NI_SYSCALLS # {}
  BY TableAssumption
<1>4. \E m \in NI_SYSCALLS : \A i \in NI_SYSCALLS : m <= i
  BY <1>2, <1>3, LeastNatural
<1>5. \E m \in NI_SYSCALLS : \A i \in NI_SYSCALLS : i <= m
  <2>1. PICK i \in NI_SYSCALLS : TRUE
    BY <1>3
  <2>2. ENTRIES_TO_EXPLORE - 1 \in Nat /\ \A j \in NI_SYSCALLS : j <= ENTRIES_TO_EXPLORE - 1
    BY <1>1, <2>1
  <2> QED
    BY <1>2, <1>3, <2>2, GreatestNatural
<1>6. FIRST_NI_SYSCALL \in NI_SYSCALLS /\ \A i \in NI_SYSCALLS : FIRST_NI_SYSCALL <= i
  BY <1>4 DEF FIRST_NI_SYSCALL
<1>7. SEVENTH_NI_SYSCALL \in NI_SYSCALLS /\ \A i \in NI_SYSCALLS : i <= SEVENTH_NI_SYSCALL
  BY <1>5 DEF SEVENTH_NI_SYSCALL
<1> QED
  BY <1>1, <1>6, <1>7, TableAssumption DEF Entries

\* What a word holds tells what it is.
LEMMA Distinct ==
  /\ Ni # NoMap
  /\ \A e : Foreign(e) # NoMap /\ Foreign(e) # Ni /\ Foreign(e) \notin BootValues
  /\ \A c : Code(c) # NoMap /\ Code(c) # Ni /\ Code(c) \notin BootValues
  /\ \A c, e : Code(c) # Foreign(e)
  /\ \A c, d : Code(c) = Code(d) => c = d
  /\ \A e, f : Foreign(e) = Foreign(f) => e = f
  /\ NoMap \notin Addresses /\ Ni \in Addresses /\ Addresses \subseteq WordValues
BY DEF NoMap, Ni, Foreign, Code, Pointer, Datum, BootValues, Addresses, WordValues

-----------------------------------------------------------------------------
(* Memory *)

\* Where the table is, and what it was.
LEMMA TablePlace ==
  ASSUME MemoryInv
  PROVE  /\ sys_call_table \in Words /\ sys_call_table \in Nat
         /\ \A e \in Entries : sys_call_table + e \in Words /\ Mapped(sys_call_table + e)
         /\ booted \in [Words -> BootValues]
         /\ \A i \in NI_SYSCALLS : booted[sys_call_table + i] = Ni
         /\ \A e \in 1 .. FIRST_NI_SYSCALL - 1 : booted[sys_call_table + e] # Ni
<1>1. PICK l \in Layouts : booted = l.memory /\ sys_call_table = l.table
  BY DEF MemoryInv
<1>2. \A w \in Words : memory[w] = NoMap <=> booted[w] = NoMap
  BY DEF MemoryInv
<1> QED
  BY <1>1, <1>2, TableAssumption DEF Words, Mapped

\* A page is mapped or not, whatever has been done to the table.
LEMMA PageMapped ==
  ASSUME MemoryInv, NEW v \in Words, NEW w \in Words, Page(v) = Page(w)
  PROVE  Mapped(v) <=> Mapped(w)
<1>1. PICK l \in Layouts : booted = l.memory
  BY DEF MemoryInv
<1>2. booted[v] = NoMap <=> booted[w] = NoMap
  BY <1>1, TableAssumption
<1> QED
  BY <1>2 DEF MemoryInv, Mapped

\* Words less than a page apart are on the same page or on neighbours.
LEMMA NearPages ==
  ASSUME NEW w \in Nat, NEW i \in Nat, i < PageWords
  PROVE  /\ Page(w + i) \in {Page(w), Page(w) + 1} /\ Page(w) \in Nat
         /\ \A j \in 0 .. i : Page(w + j) \in {Page(w), Page(w + i)}
<1>1. PageWords \in Nat \ {0}
  BY TableAssumption
<1>2. \A j \in 0 .. i : Page(w + j) \in {Page(w), Page(w) + 1}
  BY <1>1 DEF Page
<1>3. \A j \in 0 .. i : Page(w + j) <= Page(w + i)
  BY <1>1 DEF Page
<1>4. Page(w) \in Nat
  BY <1>1 DEF Page
<1> QED
  BY <1>2, <1>3, <1>4

\* The search looks at no page that is not mapped.
LEMMA SearchStaysMapped ==
  ASSUME MemoryInv, cursor \in Nat, NEW w \in SearchReads
  PROVE  Mapped(w)
<1> DEFINE last == cursor + SEVENTH_NI_SYSCALL
<1>2. cursor \in Words /\ Mapped(cursor) /\ ~RunsOffPage
  BY DEF SearchReads, SearchEnds, PageIsUseless
<1>3. PICK i \in 0 .. SEVENTH_NI_SYSCALL : w = cursor + i
  BY PatternEnds DEF SearchReads
<1>4. SEVENTH_NI_SYSCALL \in Nat /\ SEVENTH_NI_SYSCALL < PageWords
  BY PatternEnds, TableAssumption
<1>5. Page(w) \in {Page(cursor), Page(last)}
  BY <1>3, <1>4, NearPages
<1>6. Page(last) = Page(cursor) \/ Mapped(last)
  BY <1>2 DEF RunsOffPage
<1>7. w \in Words
  <2>1. CASE Mapped(last)
    <3>1. last \in Words
      BY <2>1 DEF Mapped
    <3>2. w \in Nat /\ w <= last
      BY <1>3, <1>4
    <3>3. NPages * PageWords \in Nat
      BY TableAssumption
    <3> QED
      BY <3>1, <3>2, <3>3 DEF Words
  <2>2. CASE Page(last) = Page(cursor)
    <3>1. PageWords \in Nat \ {0} /\ NPages \in Nat \ {0}
      BY TableAssumption
    <3>2. cursor \div PageWords \in 0 .. NPages - 1
      BY <1>2, <3>1 DEF Words
    <3>3. last < ((last \div PageWords) + 1) * PageWords
      BY <1>4, <3>1
    <3>4. ((cursor \div PageWords) + 1) * PageWords <= NPages * PageWords
      BY <3>1, <3>2
    <3>5. last < NPages * PageWords
      BY <1>4, <2>2, <3>1, <3>2, <3>3, <3>4 DEF Page
    <3> QED
      BY <1>3, <1>4, <3>1, <3>5 DEF Words
  <2> QED
    BY <1>6, <2>1, <2>2
<1> QED
  BY <1>2, <1>5, <1>6, <1>7, PageMapped DEF Mapped

\* The search stays in the area.
LEMMA SearchRange ==
  ASSUME cursor \in 0 .. NPages * PageWords, SkipPage \/ NextWord
  PROVE  cursor' \in 0 .. NPages * PageWords
<1>1. PageWords \in Nat \ {0} /\ NPages \in Nat \ {0} /\ NPages * PageWords \in Nat
  BY TableAssumption
<1>2. cursor \in Nat /\ cursor < NPages * PageWords
  BY <1>1 DEF SkipPage, NextWord, SearchEnds, Words
<1>3. CASE NextWord
  BY <1>1, <1>2, <1>3 DEF NextWord
<1>4. CASE SkipPage
  <2>1. cursor \div PageWords \in 0 .. NPages - 1
    BY <1>1, <1>2
  <2>2. ((cursor \div PageWords) + 1) * PageWords <= NPages * PageWords
    BY <1>1, <2>1
  <2>3. ((cursor \div PageWords) + 1) * PageWords \in Nat
    BY <1>1, <2>1
  <2> QED
    BY <1>1, <1>4, <2>2, <2>3 DEF SkipPage, Page
<1> QED
  BY <1>3, <1>4

-----------------------------------------------------------------------------
(* The table and what is known of it                                       *)

TableTypes ==
  /\ memory \in [Words -> WordValues]
  /\ hacked_syscall_tbl \in Words \cup {NoTable} /\ hacked_ni_syscall \in WordValues
  /\ free_entries \in [Calls -> Entries] /\ nextFree \in 0 .. NumCalls

TableSafe ==
  TableTypes /\ MemoryInv /\ InstalledInv /\ KeptInv /\ ReachInv /\ PatternWasThere

\* While the module has used no entry, none of its functions is in memory.
LEMMA NothingInstalled ==
  ASSUME InstalledInv, nextFree = 0
  PROVE  /\ \A c \in Calls : ~ (c < nextFree)
         /\ \A w \in Words, c \in Calls : memory[w] # Code(c)
<1>1. \A c \in Calls : ~ (c < nextFree)
  BY TableAssumption DEF Calls
<1> QED
  BY <1>1 DEF InstalledInv

\* Entries are as far from the table as their numbers say.
LEMMA EntryPlace ==
  ASSUME TableTypes, NEW c \in Calls
  PROVE  /\ free_entries[c] \in Nat /\ free_entries[c] \in Entries
         /\ hacked_syscall_tbl \in Int
         /\ \A d \in Calls : hacked_syscall_tbl + free_entries[c] = hacked_syscall_tbl + free_entries[d]
                               => free_entries[c] = free_entries[d]
BY DEF TableTypes, Entries, Words, NoTable

-----------------------------------------------------------------------------
(* The search                                                              *)

\* What other modules put into an entry is nowhere else, so nothing of the kind
\* repeats; what does was there before.
LEMMA FoundKeeps ==
  ASSUME TableSafe, cursor \in Nat, nextFree = 0, FindTable
  PROVE  TableSafe' /\ hacked_syscall_tbl' # NoTable
<1> USE DEF TableSafe
<1> DEFINE first == FIRST_NI_SYSCALL
           last == SEVENTH_NI_SYSCALL
           ni == memory[cursor + first]
<1>1. /\ hacked_syscall_tbl' = cursor /\ hacked_ni_syscall' = ni
      /\ UNCHANGED <<memory, sys_call_table, booted, free_entries, nextFree>>
  BY DEF FindTable, machine, installed
<1>2. /\ cursor \in Words /\ Mapped(cursor) /\ LooksLikeTable(cursor)
      /\ SearchReads = {cursor + i : i \in NI_SYSCALLS \cup 1 .. first - 1}
  BY DEF FindTable, SearchReads, SearchEnds, PageIsUseless
<1>3. first \in NI_SYSCALLS /\ last \in NI_SYSCALLS /\ first # last
      /\ \A i \in NI_SYSCALLS : i \in Nat
  BY PatternEnds, TableAssumption
<1>4. \A i \in NI_SYSCALLS : Mapped(cursor + i) /\ cursor + i \in Words
  BY <1>2, SearchStaysMapped DEF Mapped
<1>5. \A i \in NI_SYSCALLS : memory[cursor + i] = ni
  BY <1>2 DEF LooksLikeTable
<1>6. ni \in Addresses
  BY <1>2 DEF LooksLikeTable, KernelAddress
<1>7. \A w \in Words, c \in Calls : memory[w] # Code(c)
  BY NothingInstalled
<1>8. ASSUME EnoughSpare, NEW i \in NI_SYSCALLS
      PROVE  booted[cursor + i] = ni
  <2>1. PICK j \in NI_SYSCALLS : j # i
    BY <1>3
  <2>2. \A k \in {i, j} :
          \/ ni = booted[cursor + k]
          \/ ni = Foreign((cursor + k) - sys_call_table)
    BY <1>4, <1>5, <1>7, <1>8 DEF KeptInv
  <2>3. booted[cursor + i] \in BootValues /\ booted[cursor + j] \in BootValues
    BY <1>4, TablePlace
  <2>4. (cursor + i) - sys_call_table # (cursor + j) - sys_call_table
    BY <1>3, <2>1, TablePlace
  <2> QED
    BY <2>2, <2>3, <2>4, Distinct
<1>9. MemoryInv'
  BY <1>1 DEF MemoryInv
<1>10. TableTypes'
  BY <1>1, <1>2, <1>6, Distinct DEF TableTypes
<1>11. InstalledInv'
  <2>1. \A c \in Calls : ni # Code(c)
    BY <1>3, <1>4, <1>7
  <2>2. cursor + 0 = cursor
    OBVIOUS
  <2> QED
    BY <1>1, <1>2, <1>4, <1>6, <1>7, <2>1, <2>2 DEF InstalledInv, Mapped
<1>12. KeptInv'
  BY <1>1, <1>7 DEF KeptInv, EnoughSpare
<1>13. ReachInv'
  BY <1>1, NothingInstalled DEF ReachInv
<1>14. PatternWasThere'
  BY <1>1, <1>6, <1>8 DEF PatternWasThere, EnoughSpare
<1>15. cursor # NoTable
  BY DEF NoTable
<1> QED
  BY <1>1, <1>9, <1>10, <1>11, <1>12, <1>13, <1>14, <1>15

\* The search does not pass the table while its pattern is there.
LEMMA NotPassed ==
  ASSUME TableSafe, cursor \in Nat, cursor <= sys_call_table, SkipPage \/ NextWord,
         \A i \in NI_SYSCALLS : memory[sys_call_table + i] = Ni,
         \A e \in 1 .. FIRST_NI_SYSCALL - 1 : memory[sys_call_table + e] # Ni
  PROVE  cursor' <= sys_call_table
<1> USE DEF TableSafe
<1> DEFINE first == FIRST_NI_SYSCALL
           last == SEVENTH_NI_SYSCALL
<1>1. cursor \in Words
  BY DEF SkipPage, NextWord, SearchEnds
<1>2. sys_call_table \in Nat /\ sys_call_table \in Words /\ PageWords \in Nat \ {0}
  BY TablePlace, TableAssumption
<1>3. /\ first \in NI_SYSCALLS /\ first \in Nat /\ last \in Nat /\ last < PageWords
      /\ last \in Entries /\ 0 \in Entries /\ last < ENTRIES_TO_EXPLORE
      /\ \A i \in NI_SYSCALLS : i \in Entries /\ i \in Nat /\ first <= i /\ i <= last
  BY PatternEnds, TableAssumption DEF Entries
<1>4. \A e \in Entries : sys_call_table + e \in Words /\ Mapped(sys_call_table + e)
  BY TablePlace
<1>5. Mapped(sys_call_table)
  <2>1. sys_call_table + 0 = sys_call_table
    BY <1>2
  <2> QED
    BY <1>3, <1>4, <2>1
<1>6. CASE NextWord
  <2>1. LooksLikeTable(sys_call_table)
    BY <1>3 DEF LooksLikeTable, GoodArea, KernelAddress, Addresses
  <2>2. cursor # sys_call_table /\ cursor' = cursor + 1
    BY <1>6, <2>1 DEF NextWord
  <2> QED
    BY <1>2, <2>2
<1>7. CASE SkipPage
  <2>1. Page(cursor) # Page(sys_call_table)
    <3>1. SUFFICES ASSUME Page(cursor) = Page(sys_call_table)
                   PROVE  FALSE
      OBVIOUS
    <3>2. Mapped(cursor)
      BY <1>1, <1>2, <1>5, <3>1, PageMapped
    <3>3. Page(cursor + last) # Page(cursor) /\ ~Mapped(cursor + last)
      BY <1>7, <3>2 DEF SkipPage, PageIsUseless, RunsOffPage
    <3>4. Page(cursor + last) = Page(cursor) + 1
      BY <1>3, <3>3, NearPages
    <3>5. Page(sys_call_table + last) \in {Page(sys_call_table), Page(sys_call_table) + 1}
      BY <1>2, <1>3, NearPages
    <3>6. Page(cursor + last) <= Page(sys_call_table + last)
      BY <1>2, <1>3 DEF Page
    <3>7. Page(cursor) \in Nat /\ Page(sys_call_table) \in Nat
      BY <1>2, <1>3, NearPages
    <3>8. Page(cursor + last) = Page(sys_call_table + last)
      BY <3>1, <3>4, <3>5, <3>6, <3>7
    <3>9. cursor + last \in Words
      <4>1. NPages * PageWords \in Nat
        BY TableAssumption
      <4>2. sys_call_table + last \in Words
        BY <1>3, <1>4
      <4> QED
        BY <1>2, <1>3, <4>1, <4>2 DEF Words
    <3>10. sys_call_table + last \in Words /\ Mapped(sys_call_table + last)
      BY <1>3, <1>4
    <3> QED
      BY <3>3, <3>8, <3>9, <3>10, PageMapped
  <2>2. cursor' = (Page(cursor) + 1) * PageWords
    BY <1>7 DEF SkipPage
  <2>3. cursor \div PageWords < sys_call_table \div PageWords
    <3>1. cursor \div PageWords <= sys_call_table \div PageWords
      BY <1>2
    <3>2. cursor \div PageWords \in Nat /\ sys_call_table \div PageWords \in Nat
      BY <1>2
    <3> QED
      BY <2>1, <3>1, <3>2 DEF Page
  <2>4. (cursor \div PageWords + 1) * PageWords <= (sys_call_table \div PageWords) * PageWords
    <3> DEFINE c == cursor \div PageWords
               s == sys_call_table \div PageWords
    <3>1. c \in Nat /\ s \in Nat /\ c + 1 <= s
      BY <1>2, <2>3
    <3> HIDE DEF c, s
    <3>2. (c + 1) * PageWords <= s * PageWords
      BY <1>2, <3>1
    <3> QED
      BY <3>2 DEF c, s
  <2>5. (sys_call_table \div PageWords) * PageWords <= sys_call_table
    BY <1>2
  <2>6. /\ (cursor \div PageWords + 1) * PageWords \in Nat
        /\ (sys_call_table \div PageWords) * PageWords \in Nat
    BY <1>2
  <2> QED
    BY <1>2, <2>2, <2>4, <2>5, <2>6 DEF Page
<1> QED
  BY <1>6, <1>7

-----------------------------------------------------------------------------
(* Free entries                                                            *)

\* Of the words of the pattern, no more are borrowed than other modules can.
LEMMA FewBorrowed ==
  ASSUME TableSafe, EnoughSpare, nextFree = 0, hacked_syscall_tbl # NoTable
  PROVE  NumCalls <= Cardinality({i \in NI_SYSCALLS : IsFree(i)})
<1> USE DEF TableSafe
<1> DEFINE taken == {i \in NI_SYSCALLS : memory[hacked_syscall_tbl + i] # hacked_ni_syscall}
           place == [i \in taken |-> (hacked_syscall_tbl + i) - sys_call_table]
           left == {i \in NI_SYSCALLS : IsFree(i)}
<1>1. /\ hacked_syscall_tbl \in Nat /\ sys_call_table \in Nat
      /\ \A i \in NI_SYSCALLS : i \in Nat /\ Mapped(hacked_syscall_tbl + i)
  BY TablePlace, TableAssumption DEF TableTypes, Words, InstalledInv
<1>2. \A w \in Words, c \in Calls : memory[w] # Code(c)
  BY NothingInstalled
<1>3. ASSUME NEW i \in taken
      PROVE  place[i] \in Foreigns
  <2>1. hacked_syscall_tbl + i \in Words
    BY <1>1 DEF Mapped
  <2>2. memory[hacked_syscall_tbl + i] # booted[hacked_syscall_tbl + i]
    BY DEF PatternWasThere
  <2> QED
    BY <1>2, <2>1, <2>2 DEF KeptInv
<1>4. \A i, j \in taken : place[i] = place[j] => i = j
  BY <1>1
<1>5. place \in Injection(taken, Foreigns)
  <2>1. place \in [taken -> Foreigns]
    BY <1>3
  <2> QED
    BY <1>4, <2>1 DEF Injection, IsInjective
<1>6. /\ IsFiniteSet(Foreigns) /\ IsFiniteSet(NI_SYSCALLS)
      /\ NumCalls \in Nat /\ Cardinality(Foreigns) \in Nat /\ Cardinality(NI_SYSCALLS) \in Nat
  <2> HIDE DEF taken, place, left
  <2>1. NI_SYSCALLS \subseteq Entries /\ 0 \in Int /\ ENTRIES_TO_EXPLORE - 1 \in Int
    BY TableAssumption, PatternEnds
  <2>2. IsFiniteSet(Entries)
    BY <2>1, FS_Interval DEF Entries
  <2> QED
    BY <2>1, <2>2, TableAssumption, FS_Subset, FS_CardinalityType
<1>7. Cardinality(taken) <= Cardinality(Foreigns)
  BY <1>5, <1>6, FS_Injection
<1>8. left = NI_SYSCALLS \ taken
  BY <1>1 DEF IsFree
<1>9. IsFiniteSet(taken) /\ NI_SYSCALLS \cap taken = taken
  BY <1>6, FS_Subset
<1>10. Cardinality(NI_SYSCALLS \ taken) = Cardinality(NI_SYSCALLS) - Cardinality(taken)
  <2> HIDE DEF taken
  <2> QED
    BY <1>6, <1>9, FS_Difference
<1>11. Cardinality(taken) \in Nat
  BY <1>9, FS_CardinalityType
<1> QED
  BY <1>6, <1>7, <1>8, <1>10, <1>11 DEF EnoughSpare

\* So all the entries needed are found, where the words were there before.
LEMMA ExploreKeeps ==
  ASSUME TableSafe, nextFree = 0, hacked_syscall_tbl # NoTable, foundFree_entries
  PROVE  TableSafe' /\ EntriesReady'
<1> USE DEF TableSafe
<1> DEFINE F == {e \in Entries : IsFree(e)}
           free == {e \in Explored : IsFree(e)}
           nth(j) == {e \in free : Cardinality(FreeBefore(e)) = j}
<1>1. ENTRIES_TO_EXPLORE \in Nat /\ NumCalls \in Nat \ {0} /\ 0 \in Entries
  BY TableAssumption, PatternEnds DEF Entries
<1>2. UNCHANGED <<memory, sys_call_table, booted, hacked_syscall_tbl, hacked_ni_syscall, nextFree>>
  BY DEF foundFree_entries, machine, installed
<1>3. \A j \in Calls : IF nth(j) = {} THEN free_entries'[j] = 0 ELSE free_entries'[j] \in nth(j)
  <2>1. free_entries' = [j \in Calls |-> IF nth(j) = {} THEN 0 ELSE CHOOSE e \in nth(j) : TRUE]
    BY DEF foundFree_entries
  <2> HIDE DEF nth
  <2> QED
    BY <2>1
<1>4. \A j \in Calls : \A e \in nth(j) : e \in Entries /\ IsFree(e) /\ Cardinality(FreeBefore(e)) = j
  BY DEF Explored
<1>5. free_entries' \in [Calls -> Entries]
  <2>1. free_entries' = [j \in Calls |-> IF nth(j) = {} THEN 0 ELSE CHOOSE e \in nth(j) : TRUE]
    BY DEF foundFree_entries
  <2> HIDE DEF nth
  <2> QED
    BY <1>1, <1>4, <2>1
<1>6. \A i, j \in Calls : free_entries'[i] = free_entries'[j] => i = j \/ free_entries'[i] = 0
  <2> HIDE DEF nth
  <2> QED
    BY <1>3, <1>4
<1>7. ASSUME NEW c \in Calls
      PROVE  Mapped(hacked_syscall_tbl + free_entries'[c])
  <2>1. CASE nth(c) = {}
    BY <1>3, <2>1 DEF InstalledInv
  <2>2. CASE nth(c) # {}
    <3> HIDE DEF nth
    <3>1. IsFree(free_entries'[c])
      BY <1>3, <1>4, <2>2
    <3> QED
      BY <3>1 DEF IsFree
  <2> QED
    BY <2>1, <2>2
<1>8. ASSUME EnoughSpare, NEW c \in Calls
      PROVE  booted[hacked_syscall_tbl + free_entries'[c]] = hacked_ni_syscall
  <2>1. F \in SUBSET (0 .. ENTRIES_TO_EXPLORE - 1) /\ IsFiniteSet(F)
    <3>1. F \subseteq Entries /\ IsFiniteSet(Entries)
      BY <1>1, FS_Interval DEF Entries
    <3> HIDE DEF F
    <3> QED
      BY <3>1, FS_Subset DEF Entries
  <2>2. NumCalls <= Cardinality(F) /\ Cardinality(F) \in Nat
    <3> DEFINE left == {i \in NI_SYSCALLS : IsFree(i)}
    <3>1. left \subseteq F
      BY PatternEnds
    <3>2. NumCalls <= Cardinality(left)
      BY <1>8, FewBorrowed
    <3> HIDE DEF F, left
    <3>3. Cardinality(left) <= Cardinality(F) /\ Cardinality(left) \in Nat /\ Cardinality(F) \in Nat
      BY <2>1, <3>1, FS_Subset, FS_CardinalityType
    <3> QED
      BY <1>1, <3>2, <3>3
  <2>3. \A e \in Entries : FreeBefore(e) = {d \in F : d < e}
    BY <1>1 DEF FreeBefore, Entries
  <2>4. c \in Nat /\ c < NumCalls
    BY <1>1 DEF Calls
  <2>5. PICK e \in F : Cardinality({d \in F : d < e}) = c
    <3> HIDE DEF F
    <3>1. c < Cardinality(F)
      BY <1>1, <2>2, <2>4
    <3>2. F \in SUBSET (0 .. ENTRIES_TO_EXPLORE - 1)
      BY <2>1
    <3> QED
      BY ONLY <1>1, <2>4, <3>1, <3>2, EveryRank
  <2>6. nth(c) # {}
    <3>1. Cardinality(FreeBefore(e)) = c
      BY <2>3, <2>5
    <3> QED
      BY <2>4, <2>5, <3>1 DEF Explored
  <2>7. PICK w \in Words : w = hacked_syscall_tbl + free_entries'[c]
    BY <1>7 DEF Mapped
  <2>8. memory[w] = hacked_ni_syscall
    <3> HIDE DEF nth
    <3>1. IsFree(free_entries'[c])
      BY <1>3, <1>4, <2>6
    <3> QED
      BY <2>7, <3>1 DEF IsFree
  <2>9. hacked_ni_syscall \in BootValues
    <3>1. FIRST_NI_SYSCALL \in NI_SYSCALLS
      BY PatternEnds
    <3>2. hacked_syscall_tbl + FIRST_NI_SYSCALL \in Words
      BY <3>1 DEF InstalledInv, Mapped
    <3> QED
      BY <1>8, <3>1, <3>2, TablePlace DEF PatternWasThere
  <2>10. \A d \in Calls : memory[w] # Code(d)
    BY NothingInstalled
  <2>11. \A e1 : memory[w] # Foreign(e1)
    BY <2>8, <2>9, Distinct
  <2> QED
    BY <1>8, <2>7, <2>8, <2>10, <2>11 DEF KeptInv
<1>9. TableTypes' /\ MemoryInv'
  BY <1>2, <1>5 DEF TableTypes, MemoryInv
<1>10. InstalledInv'
  BY <1>2, <1>6, NothingInstalled DEF InstalledInv, Mapped
<1>11. KeptInv' /\ PatternWasThere'
  BY <1>2 DEF KeptInv, PatternWasThere, EnoughSpare
<1>12. ReachInv'
  BY <1>2, NothingInstalled DEF ReachInv
<1>13. EntriesReady'
  BY <1>2, <1>7, <1>8 DEF EntriesReady, Mapped, EnoughSpare
<1> QED
  BY <1>9, <1>10, <1>11, <1>12, <1>13

-----------------------------------------------------------------------------
(* Borrowing and giving back                                               *)

\* The next entry found becomes one of the module's.
LEMMA InstallKeeps ==
  ASSUME TableSafe, EntriesReady, nextFree < NumCalls, add_syscall(nextFree)
  PROVE  TableSafe' /\ EntriesReady'
<1> USE DEF TableSafe
<1>1. /\ NumCalls \in Nat /\ nextFree \in Calls /\ nextFree \in Nat
      /\ \A c \in Calls : c \in Nat /\ (c < nextFree + 1 <=> c < nextFree \/ c = nextFree)
  BY TableAssumption DEF Calls, TableTypes
<1>2. PICK p \in Words : p = hacked_syscall_tbl + free_entries[nextFree]
  BY <1>1 DEF EntriesReady, Mapped
<1>3. /\ memory' = [memory EXCEPT ![p] = Code(nextFree)] /\ nextFree' = nextFree + 1
      /\ UNCHANGED <<sys_call_table, booted, hacked_syscall_tbl, hacked_ni_syscall, free_entries>>
  BY <1>2 DEF add_syscall, found, machine
<1>4. memory[p] # NoMap
  BY <1>1, <1>2 DEF EntriesReady, Mapped
<1>5. memory \in [Words -> WordValues]
  BY DEF TableTypes
<1>6. \A w \in Words : memory'[w] = IF w = p THEN Code(nextFree) ELSE memory[w]
  BY <1>3, <1>5
<1>7. TableTypes'
  <2>1. Code(nextFree) \in WordValues
    BY <1>1 DEF WordValues, Addresses
  <2> QED
    BY <1>1, <1>3, <1>5, <2>1 DEF TableTypes
<1>8. MemoryInv'
  BY <1>3, <1>4, <1>6, Distinct DEF MemoryInv
<1>9. \A w : Mapped(w)' <=> Mapped(w)
  BY <1>4, <1>6, Distinct DEF Mapped
<1>10. InstalledInv'
  <2>1. ASSUME NEW w \in Words, NEW c \in Calls, memory'[w] = Code(c)
        PROVE  c < nextFree' /\ w = hacked_syscall_tbl + free_entries[c]
    <3>1. CASE w = p
      <4>1. c = nextFree
        BY <1>6, <2>1, <3>1, Distinct
      <4> QED
        BY <1>1, <1>2, <1>3, <3>1, <4>1
    <3>2. CASE w # p
      BY <1>1, <1>3, <1>6, <2>1, <3>2 DEF InstalledInv
    <3> QED
      BY <3>1, <3>2
  <2> QED
    BY <1>3, <1>9, <2>1 DEF InstalledInv
<1>11. KeptInv'
  <2>1. EnoughSpare => booted[p] = hacked_ni_syscall
    BY <1>1, <1>2 DEF EntriesReady
  <2> QED
    BY <1>1, <1>3, <1>6, <2>1 DEF KeptInv, EnoughSpare
<1>12. ReachInv'
  <2>1. SUFFICES ASSUME hacked_syscall_tbl = sys_call_table,
                        NEW c \in Calls, c < nextFree + 1, free_entries[c] # 0
                 PROVE  \/ memory'[sys_call_table + free_entries[c]] = Code(c)
                        \/ /\ free_entries[c] \in Foreigns
                           /\ memory'[sys_call_table + free_entries[c]] \in {Ni, Foreign(free_entries[c])}
    BY <1>3 DEF ReachInv
  <2>2. CASE c = nextFree
    BY <1>2, <1>6, <2>1, <2>2
  <2>3. CASE c # nextFree
    <3>1. free_entries[c] # free_entries[nextFree]
      BY <1>1, <2>1, <2>3 DEF InstalledInv
    <3>2. sys_call_table + free_entries[c] # p
      BY <1>1, <1>2, <2>1, <3>1, EntryPlace
    <3>3. sys_call_table + free_entries[c] \in Words
      BY EntryPlace, TablePlace
    <3>4. c < nextFree
      BY <1>1, <2>1, <2>3
    <3> QED
      BY <1>6, <2>1, <3>2, <3>3, <3>4 DEF ReachInv
  <2> QED
    BY <2>2, <2>3
<1>13. PatternWasThere'
  BY <1>3 DEF PatternWasThere, EnoughSpare
<1>14. EntriesReady'
  BY <1>3, <1>9 DEF EntriesReady, EnoughSpare
<1> QED
  BY <1>7, <1>8, <1>10, <1>11, <1>12, <1>13, <1>14

\* The last entry the module took is given back.
LEMMA RestoreKeeps ==
  ASSUME TableSafe, EntriesReady, removeSyscall
  PROVE  TableSafe' /\ EntriesReady'
<1> USE DEF TableSafe
<1>1. PICK last \in Calls : /\ last = nextFree - 1 /\ nextFree > 0 /\ last \in Nat
                            /\ \A c \in Calls : c < nextFree <=> c < last \/ c = last
  BY TableAssumption DEF removeSyscall, ToRestore, Calls, TableTypes
<1>2. PICK p \in Words : p = hacked_syscall_tbl + free_entries[last]
  BY DEF EntriesReady, Mapped
<1>3. /\ memory' = [memory EXCEPT ![p] = hacked_ni_syscall] /\ nextFree' = last
      /\ UNCHANGED <<sys_call_table, booted, hacked_syscall_tbl, hacked_ni_syscall, free_entries>>
  BY <1>1, <1>2 DEF removeSyscall, found, machine
<1>4. memory[p] # NoMap
  BY <1>2 DEF EntriesReady, Mapped
<1>5. memory \in [Words -> WordValues]
  BY DEF TableTypes
<1>6. \A w \in Words : memory'[w] = IF w = p THEN hacked_ni_syscall ELSE memory[w]
  BY <1>3, <1>5
<1>7. hacked_ni_syscall # NoMap /\ \A c \in Calls : hacked_ni_syscall # Code(c)
  BY Distinct DEF EntriesReady, InstalledInv
<1>8. TableTypes'
  BY <1>1, <1>3, <1>5, TableAssumption DEF TableTypes
<1>9. MemoryInv'
  BY <1>3, <1>4, <1>6, <1>7 DEF MemoryInv
<1>10. \A w : Mapped(w)' <=> Mapped(w)
  BY <1>4, <1>6, <1>7 DEF Mapped
<1>11. InstalledInv'
  <2>1. ASSUME NEW w \in Words, NEW c \in Calls, memory'[w] = Code(c)
        PROVE  c < last /\ w = hacked_syscall_tbl + free_entries[c]
    <3>1. w # p /\ memory[w] = Code(c)
      BY <1>6, <1>7, <2>1
    <3>2. c < nextFree /\ w = hacked_syscall_tbl + free_entries[c]
      BY <3>1 DEF InstalledInv
    <3> QED
      BY <1>1, <1>2, <3>1, <3>2
  <2> QED
    BY <1>3, <1>10, <2>1 DEF InstalledInv
<1>12. KeptInv'
  <2>1. EnoughSpare => booted[p] = hacked_ni_syscall
    BY <1>2 DEF EntriesReady
  <2> QED
    BY <1>3, <1>6, <2>1 DEF KeptInv, EnoughSpare
<1>13. ReachInv'
  <2>1. SUFFICES ASSUME hacked_syscall_tbl = sys_call_table,
                        NEW c \in Calls, c < last, free_entries[c] # 0
                 PROVE  \/ memory'[sys_call_table + free_entries[c]] = Code(c)
                        \/ /\ free_entries[c] \in Foreigns
                           /\ memory'[sys_call_table + free_entries[c]] \in {Ni, Foreign(free_entries[c])}
    BY <1>3 DEF ReachInv
  <2>2. c # last /\ c < nextFree
    BY <1>1, <2>1
  <2>3. free_entries[c] # free_entries[last]
    BY <2>1, <2>2 DEF InstalledInv
  <2>4. sys_call_table + free_entries[c] # p
    BY <1>2, <2>1, <2>3, EntryPlace
  <2>5. sys_call_table + free_entries[c] \in Words
    BY EntryPlace, TablePlace
  <2> QED
    BY <1>6, <2>1, <2>2, <2>4, <2>5 DEF ReachInv
<1>14. PatternWasThere'
  BY <1>3 DEF PatternWasThere, EnoughSpare
<1>15. EntriesReady'
  BY <1>3, <1>10 DEF EntriesReady, EnoughSpare
<1> QED
  BY <1>8, <1>9, <1>11, <1>12, <1>13, <1>14, <1>15

\* Another module writes an entry, whatever is there.
LEMMA OthersKeep ==
  ASSUME TableSafe, NEW e \in Foreigns, OthersWrite(e)
  PROVE  TableSafe' /\ (EntriesReady => EntriesReady')
<1> USE DEF TableSafe
<1>1. e \in Entries /\ e \in Nat /\ sys_call_table \in Nat
  BY TableAssumption, TablePlace DEF Entries
<1>2. PICK p \in Words : p = sys_call_table + e /\ memory[p] # NoMap
  BY <1>1, TablePlace DEF Mapped
<1>3. PICK v \in {Ni, Foreign(e)} : memory' = [memory EXCEPT ![p] = v]
  BY <1>2 DEF OthersWrite
<1>4. /\ booted[p] = Ni
      /\ UNCHANGED <<sys_call_table, booted, hacked_syscall_tbl, hacked_ni_syscall, free_entries,
                     nextFree>>
  BY <1>2 DEF OthersWrite, found, machine, installed
<1>5. v \in WordValues /\ v # NoMap /\ \A c : v # Code(c)
  BY <1>1, Distinct DEF WordValues, Addresses
<1>6. memory \in [Words -> WordValues]
  BY DEF TableTypes
<1>7. \A w \in Words : memory'[w] = IF w = p THEN v ELSE memory[w]
  BY <1>3, <1>6
<1>8. \A w : Mapped(w)' <=> Mapped(w)
  BY <1>2, <1>5, <1>7 DEF Mapped
<1>9. TableTypes'
  BY <1>3, <1>4, <1>5 DEF TableTypes
<1>10. MemoryInv'
  BY <1>2, <1>4, <1>5, <1>7 DEF MemoryInv
<1>11. InstalledInv'
  BY <1>4, <1>5, <1>7, <1>8 DEF InstalledInv
<1>12. KeptInv'
  <2>1. p - sys_call_table = e
    BY <1>1, <1>2
  <2> QED
    BY <1>4, <1>7, <2>1 DEF KeptInv, EnoughSpare
<1>13. ReachInv'
  <2>1. SUFFICES ASSUME hacked_syscall_tbl = sys_call_table,
                        NEW c \in Calls, c < nextFree, free_entries[c] # 0
                 PROVE  \/ memory'[sys_call_table + free_entries[c]] = Code(c)
                        \/ /\ free_entries[c] \in Foreigns
                           /\ memory'[sys_call_table + free_entries[c]] \in {Ni, Foreign(free_entries[c])}
    BY <1>4 DEF ReachInv
  <2>2. sys_call_table + free_entries[c] \in Words /\ free_entries[c] \in Nat
    BY EntryPlace, TablePlace
  <2>3. sys_call_table + free_entries[c] = p => free_entries[c] = e
    BY <1>1, <1>2, <2>2
  <2>4. CASE sys_call_table + free_entries[c] = p
    BY <1>3, <1>7, <2>2, <2>3, <2>4
  <2>5. CASE sys_call_table + free_entries[c] # p
    BY <1>7, <2>1, <2>2, <2>5 DEF ReachInv
  <2> QED
    BY <2>4, <2>5
<1>14. PatternWasThere'
  BY <1>4 DEF PatternWasThere, EnoughSpare
<1>15. EntriesReady => EntriesReady'
  BY <1>4, <1>8 DEF EntriesReady, EnoughSpare
<1> QED
  BY <1>9, <1>10, <1>11, <1>12, <1>13, <1>14, <1>15

\* Steps that touch neither memory nor what is known of it.
LEMMA TableFrame ==
  ASSUME TableSafe,
         UNCHANGED <<memory, sys_call_table, booted, hacked_syscall_tbl, hacked_ni_syscall,
                     free_entries, nextFree>>
  PROVE  TableSafe' /\ (EntriesReady => EntriesReady')
<1>1. \A w : Mapped(w)' <=> Mapped(w)
  BY DEF Mapped
<1>2. InstalledInv' /\ (EntriesReady => EntriesReady')
  BY <1>1 DEF TableSafe, InstalledInv, EntriesReady, EnoughSpare
<1> QED
  BY <1>2 DEF TableSafe, TableTypes, MemoryInv, KeptInv, ReachInv, PatternWasThere, EnoughSpare

\* Loading the module again, which finds it unused.
LEMMA FreshKeeps ==
  ASSUME TableSafe, nextFree = 0, FreshVariables
  PROVE  TableSafe'
<1> USE DEF TableSafe
<1>1. /\ hacked_syscall_tbl' = NoTable /\ hacked_ni_syscall' = NoMap /\ nextFree' = 0
      /\ free_entries' = [j \in Calls |-> 0]
      /\ UNCHANGED <<memory, sys_call_table, booted>>
  BY DEF FreshVariables, machine
<1>2. \A w \in Words, c \in Calls : memory[w] # Code(c)
  BY NothingInstalled
<1>3. \A c \in Calls : ~ (c < nextFree')
  BY <1>1, NothingInstalled
<1>4. TableTypes'
  <2>1. 0 \in Entries /\ NoMap \in WordValues
    BY TableAssumption, PatternEnds DEF Entries, WordValues
  <2> QED
    BY <1>1, <2>1, TableAssumption DEF TableTypes
<1>5. InstalledInv'
  BY <1>1, <1>2, Distinct DEF InstalledInv
<1>6. MemoryInv' /\ PatternWasThere'
  BY <1>1 DEF MemoryInv, PatternWasThere
<1>7. KeptInv' /\ ReachInv'
  BY <1>1, <1>2, <1>3 DEF KeptInv, ReachInv, EnoughSpare
<1> QED
  BY <1>4, <1>5, <1>6, <1>7

=============================================================================
