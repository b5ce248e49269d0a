---------------------------- MODULE SyscallTable ----------------------------
(***************************************************************************)
(* The system call table of the running kernel, found by a search of       *)
(* memory, borrowed from and given back                                    *)
(* (src/lib/sysCall_Discovery/sysCall_Discovery.c, exposeNewSyscall of     *)
(* src/main.c).                                                            *)
(*                                                                         *)
(* Memory is a sequence of words on pages, some of them not mapped.  The   *)
(* table lies somewhere in it; the entries nobody implements point to      *)
(* sys_ni_syscall.  Any other words may repeat, so what the search takes   *)
(* for the table may be something else.  The search examines one word at a *)
(* time.  ModuleLife says when each of these actions runs.                 *)
(***************************************************************************)
EXTENDS Integers, FiniteSets

CONSTANTS
  PageWords, NPages,   \* the searched area (START .. MAX_ADDR)
  NI_SYSCALLS,         \* the seven entries known to be unimplemented
  ENTRIES_TO_EXPLORE,  \* entries looked at for free ones (256)
  NumCalls,            \* calls the module installs (4)
  Layouts,             \* memories the module may be loaded into
  Foreigns             \* entries of the table that other modules may borrow

FIRST_NI_SYSCALL == CHOOSE i \in NI_SYSCALLS : \A j \in NI_SYSCALLS : i <= j
SEVENTH_NI_SYSCALL == CHOOSE i \in NI_SYSCALLS : \A j \in NI_SYSCALLS : j <= i

Words == 0 .. NPages * PageWords - 1
Entries == 0 .. ENTRIES_TO_EXPLORE - 1
Calls == 0 .. NumCalls - 1
Page(w) == w \div PageWords

(* What a word may hold: addresses, which are all aligned and high: of     *)
(* sys_ni_syscall, of other things of the kernel, of functions of this     *)
(* module and, told apart by the entry, of others; or data.                *)
NoMap == <<"no_map", 0>>
Ni == <<"sys_ni_syscall", 0>>
Foreign(e) == <<"other_module", e>>
Code(c) == <<"this_module", c>>
Pointer(n) == <<"kernel", n>>
Datum(n) == <<"data", n>>

Addresses == {Ni} \cup {Foreign(e) : e \in Entries} \cup {Code(c) : c \in Calls}
             \cup {Pointer(n) : n \in Words}
WordValues == {NoMap} \cup Addresses \cup {Datum(n) : n \in Words}

\* Before any module is loaded.
BootValues == {NoMap, Ni} \cup {Pointer(n) : n \in Words} \cup {Datum(n) : n \in Words}

\* The seven entries are not implemented, those before them are: what the module
\* takes for granted of the kernels it is for.
ASSUME TableAssumption ==
  /\ PageWords \in Nat \ {0} /\ NPages \in Nat \ {0} /\ NumCalls \in Nat \ {0}
  /\ ENTRIES_TO_EXPLORE \in Nat /\ NI_SYSCALLS \subseteq 1 .. ENTRIES_TO_EXPLORE - 1
  /\ NI_SYSCALLS # {} /\ FIRST_NI_SYSCALL < SEVENTH_NI_SYSCALL
  /\ SEVENTH_NI_SYSCALL < PageWords /\ Foreigns \subseteq Entries
  /\ \A l \in Layouts :
       /\ l.table \in Words /\ l.memory \in [Words -> BootValues]
       /\ \A v, w \in Words : Page(v) = Page(w) => (l.memory[v] = NoMap <=> l.memory[w] = NoMap)
       /\ \A e \in Entries : l.table + e \in Words /\ l.memory[l.table + e] # NoMap
       /\ \A i \in NI_SYSCALLS : l.memory[l.table + i] = Ni
       /\ \A e \in 1 .. FIRST_NI_SYSCALL - 1 : l.memory[l.table + e] # Ni

VARIABLES
  memory, sys_call_table,     \* the machine, and where its table really is
  booted,                     \* history: memory before any module was loaded
  cursor,                     \* the word the search is at
  hacked_syscall_tbl, hacked_ni_syscall, free_entries, nextFree, sysCallNum   \* of the module

NoTable == -1
found == <<hacked_syscall_tbl, hacked_ni_syscall, free_entries>>
installed == <<nextFree, sysCallNum>>
machine == <<sys_call_table, booted>>
tableVars == <<memory, machine, cursor, found, installed>>

TableInit ==
  /\ \E l \in Layouts :
       /\ memory = l.memory /\ booted = l.memory
       /\ sys_call_table = l.table
  /\ cursor = 0
  /\ hacked_syscall_tbl = NoTable /\ hacked_ni_syscall = NoMap
  /\ free_entries = [j \in Calls |-> 0]
  /\ nextFree = 0
  /\ sysCallNum = [c \in Calls |-> 0]

\* Loading the module sets its variables to their initial values.
FreshVariables ==
  /\ cursor' = 0
  /\ hacked_syscall_tbl' = NoTable /\ hacked_ni_syscall' = NoMap
  /\ free_entries' = [j \in Calls |-> 0]
  /\ nextFree' = 0
  /\ sysCallNum' = [c \in Calls |-> 0]
  /\ UNCHANGED <<memory, machine>>

-----------------------------------------------------------------------------
(* The search.                                                             *)

Mapped(w) == w \in Words /\ memory[w] # NoMap      \* sys_vtpmo(w) # NO_MAP

\* The table that would begin here ends on a page that is not mapped.
FaultyRunsOffPage == FALSE   \* fault: the second page is not looked at
FaultyNextPage ==   \* fault: a page is skipped if the next is not mapped, needed or not
  ~Mapped((Page(cursor) + 1) * PageWords)
RunsOffPage ==
  LET last == cursor + SEVENTH_NI_SYSCALL
  IN Page(last) # Page(cursor) /\ ~Mapped(last)

GoodArea(a) == \A i \in 1 .. FIRST_NI_SYSCALL - 1 : memory[a + i] # memory[a + FIRST_NI_SYSCALL]

FaultyKernelAddress(v) == TRUE   \* fault: whatever repeats may be sys_ni_syscall
KernelAddress(v) == v \in Addresses   \* aligned, not NULL, in the kernel's half

LooksLikeTable(a) ==
  /\ KernelAddress(memory[a + FIRST_NI_SYSCALL])
  /\ \A i \in NI_SYSCALLS : memory[a + i] = memory[a + FIRST_NI_SYSCALL]
  /\ GoodArea(a)

SearchEnds == cursor \notin Words
PageIsUseless == ~Mapped(cursor) \/ RunsOffPage

FaultySkipPage ==   \* fault: goes to the start of this page, not of the next
  /\ ~SearchEnds /\ PageIsUseless
  /\ cursor' = Page(cursor) * PageWords
  /\ UNCHANGED <<memory, machine, found, installed>>

SkipPage ==
  /\ ~SearchEnds /\ PageIsUseless
  /\ cursor' = (Page(cursor) + 1) * PageWords
  /\ UNCHANGED <<memory, machine, found, installed>>

NextWord ==
  /\ ~SearchEnds /\ ~PageIsUseless /\ ~LooksLikeTable(cursor)
  /\ cursor' = cursor + 1
  /\ UNCHANGED <<memory, machine, found, installed>>

FindTable ==
  /\ ~SearchEnds /\ ~PageIsUseless /\ LooksLikeTable(cursor)
  /\ hacked_syscall_tbl' = cursor
  /\ hacked_ni_syscall' = memory[cursor + FIRST_NI_SYSCALL]
  /\ UNCHANGED <<memory, machine, cursor, free_entries, installed>>

\* Words that examining the cursor reads.
SearchReads ==
  IF SearchEnds \/ PageIsUseless THEN {}
  ELSE {cursor + i : i \in NI_SYSCALLS \cup 1 .. FIRST_NI_SYSCALL - 1}

-----------------------------------------------------------------------------
(* foundFree_entries, add_syscall, removeAllSyscall.                       *)

FaultyIsFree(e) ==   \* fault: entries are compared with the first, not with hacked_ni_syscall
  Mapped(hacked_syscall_tbl + e) /\ memory[hacked_syscall_tbl + e] # memory[hacked_syscall_tbl]
IsFree(e) ==
  Mapped(hacked_syscall_tbl + e) /\ memory[hacked_syscall_tbl + e] = hacked_ni_syscall

FreeBefore(e) == {d \in 0 .. e - 1 : IsFree(d)}

\* The loop ends as soon as it has found enough.
Explored == {e \in Entries : Cardinality(FreeBefore(e)) < NumCalls}

SomeFree == \E e \in Entries : IsFree(e)
ReadsUnmapped == \E e \in Explored : ~Mapped(hacked_syscall_tbl + e)

\* What is not found stays 0, as it was loaded.
foundFree_entries ==
  LET free == {e \in Explored : IsFree(e)}
      nth(j) == {e \in free : Cardinality(FreeBefore(e)) = j}
  IN /\ free_entries' = [j \in Calls |-> IF nth(j) = {} THEN 0 ELSE CHOOSE e \in nth(j) : TRUE]
     /\ UNCHANGED <<memory, machine, cursor, hacked_syscall_tbl, hacked_ni_syscall,
                    installed>>

FaultyAdd_syscall(c) ==   \* fault: the number returned is the one of the next entry
  /\ memory' = [memory EXCEPT ![hacked_syscall_tbl + free_entries[nextFree]] = Code(c)]
  /\ nextFree' = nextFree + 1
  /\ sysCallNum' = [sysCallNum EXCEPT ![c] = free_entries[nextFree' % NumCalls]]
  /\ UNCHANGED <<machine, cursor, found>>

\* exposeNewSyscall(c) around it stores the number.
add_syscall(c) ==
  /\ memory' = [memory EXCEPT ![hacked_syscall_tbl + free_entries[nextFree]] = Code(c)]
  /\ nextFree' = nextFree + 1
  /\ sysCallNum' = [sysCallNum EXCEPT ![c] = free_entries[nextFree]]
  /\ UNCHANGED <<machine, cursor, found>>

ToRestore == nextFree > 0

FaultyRemoveSyscall ==   \* fault: the entry is taken before the index is decremented
  /\ ToRestore
  /\ memory' = [memory EXCEPT ![hacked_syscall_tbl + free_entries[nextFree % NumCalls]] =
                                hacked_ni_syscall]
  /\ nextFree' = nextFree - 1
  /\ UNCHANGED <<machine, cursor, found, sysCallNum>>

removeSyscall ==
  /\ ToRestore
  /\ memory' = [memory EXCEPT ![hacked_syscall_tbl + free_entries[nextFree - 1]] =
                                hacked_ni_syscall]
  /\ nextFree' = nextFree - 1
  /\ UNCHANGED <<machine, cursor, found, sysCallNum>>

-----------------------------------------------------------------------------
(* What else happens to the table.  Other modules have their own idea of   *)
(* which entries are free, from a look they had at any time, and what they *)
(* have taken they give back: neither looks at what is there now.          *)

OthersWrite(e) ==
  /\ booted[sys_call_table + e] = Ni
  /\ \E v \in {Ni, Foreign(e)} : memory' = [memory EXCEPT ![sys_call_table + e] = v]
  /\ UNCHANGED <<machine, cursor, found, installed>>

-----------------------------------------------------------------------------
(* Properties *)

\* However many entries others borrow, enough are left for this module.
EnoughSpare == NumCalls + Cardinality(Foreigns) <= Cardinality(NI_SYSCALLS)

\* What the search takes for the table had one kernel address in the seven
\* places before any module was loaded: neither other modules, while they
\* rewrite entries under the search, nor earlier loads of this one make a
\* pattern where there was none.
PatternWasThere ==
  EnoughSpare /\ hacked_syscall_tbl # NoTable =>
    /\ hacked_ni_syscall \in Addresses
    /\ \A i \in NI_SYSCALLS : booted[hacked_syscall_tbl + i] = hacked_ni_syscall

\* Memory is what it was before any module was loaded, but for the entries that
\* others borrow and for words that held what the module takes for
\* sys_ni_syscall, while its functions are there.
KernelKept ==
  EnoughSpare =>
    \A w \in Words :
      \/ memory[w] = booted[w]
      \/ w - sys_call_table \in Foreigns /\ booted[w] = Ni
      \/ /\ booted[w] = hacked_ni_syscall
         /\ \E c \in Calls : c < nextFree /\ w = hacked_syscall_tbl + free_entries[c]

-----------------------------------------------------------------------------
(* Parts of the inductive invariant *)

\* The memory it all began with, and which of its pages are mapped.
MemoryInv ==
  /\ \E l \in Layouts : booted = l.memory /\ sys_call_table = l.table
  /\ \A w \in Words : memory[w] = NoMap <=> booted[w] = NoMap

\* The functions of the module are in entries it has used, and nowhere else;
\* the entries found are all different, but for those not found.
InstalledInv ==
  /\ \A w \in Words, c \in Calls :
       memory[w] = Code(c) => c < nextFree /\ w = hacked_syscall_tbl + free_entries[c]
  /\ \A c \in Calls : hacked_ni_syscall # Code(c)
  /\ \A i, j \in Calls : free_entries[i] = free_entries[j] => i = j \/ free_entries[i] = 0
  /\ hacked_syscall_tbl # NoTable =>
       /\ hacked_ni_syscall \in Addresses
       /\ \A i \in {0} \cup NI_SYSCALLS : Mapped(hacked_syscall_tbl + i)

\* What is in each word, while enough entries are left.
KeptInv ==
  EnoughSpare =>
    \A w \in Words :
      \/ memory[w] = booted[w]
      \/ /\ w - sys_call_table \in Foreigns /\ booted[w] = Ni
         /\ memory[w] = Foreign(w - sys_call_table)
      \/ booted[w] = hacked_ni_syscall /\ \E c \in Calls : memory[w] = Code(c)

\* An entry of the real table that the module has used leads to it, or to where
\* another module has put it since.
ReachInv ==
  hacked_syscall_tbl = sys_call_table =>
    \A c \in Calls :
      c < nextFree /\ free_entries[c] # 0 =>
        \/ memory[sys_call_table + free_entries[c]] = Code(c)
        \/ /\ free_entries[c] \in Foreigns
           /\ memory[sys_call_table + free_entries[c]] \in {Ni, Foreign(free_entries[c])}

\* The entries found, used or not, are places the module may write to; they held
\* what it takes for sys_ni_syscall if enough were left.
EntriesReady ==
  /\ hacked_syscall_tbl # NoTable
  /\ \A c \in Calls : Mapped(hacked_syscall_tbl + free_entries[c])
  /\ EnoughSpare =>
       \A c \in Calls : booted[hacked_syscall_tbl + free_entries[c]] = hacked_ni_syscall

=============================================================================
