---------------------------- MODULE MCModuleLife ----------------------------
(* ModuleLife on small instances. *)
EXTENDS ModuleLife

CONSTANTS t1, t2, f1

MCFiles == {f1}

\* A memory with a table at a word, pages that are mapped, entries that are free,
\* and words with something else than a pointer of their own.
Layout(table, mapped, free, others) ==
  [table |-> table,
   memory |-> [w \in Words |->
     IF Page(w) \notin mapped THEN NoMap
     ELSE IF w - table \in free THEN Ni
     ELSE IF w \in DOMAIN others THEN others[w] ELSE Pointer(w)]]

\* Words that repeat in the places of the pattern.
Repeats(at, value) == [w \in {at + i : i \in NI_SYSCALLS} |-> value]

\* The table is on the last page, behind one that is not mapped.  Data repeats
\* like the pattern.
AfterData == Layout(12, {0, 2}, {2, 3, 5}, Repeats(0, Datum(0)))

\* The table crosses a page; with its first free entry borrowed by another
\* module, it looks as if it began a word later.
Shifted == Layout(10, {0, 1, 2}, {2, 3, 4, 5, 6}, << >>)

\* A kernel address repeats like the pattern, before the table, and once more.
Lookalike == Layout(12, {0, 2}, {2, 3, 5}, Repeats(0, Pointer(4)))

MCLayouts == {AfterData, Shifted, Lookalike}

MCPieces == {5}
MCOffsets == {-1, 1}
=============================================================================
