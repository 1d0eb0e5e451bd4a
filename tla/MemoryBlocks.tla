----------------------------- MODULE MemoryBlocks -----------------------------
(***************************************************************************)
(* The long-term memory as blocks (OrganizeWriteback of                    *)
(* pkg/agent/memory.go, memory_blocks.go, memory_sections.go): what a      *)
(* model extracts from a conversation is merged into MEMORY.md, whose core *)
(* blocks it may not change, and whose other blocks keep their latest      *)
(* entries.  A text is a sequence of headings with the entries below them, *)
(* an entry its words in lower case, their form, and their length.         *)
(***************************************************************************)
EXTENDS Integers, Sequences, SequencesExt, Functions

CONSTANTS Limit,           \* label -> runes, of memoryBlockSpecs
          Files, Extracts  \* texts that users write, and models

Order == <<"persona", "human", "projects", "facts">>  \* memoryBlockLabels
Labels == Range(Order)
ReadOnly == {"persona", "human"}
Facts == "Long-term Facts"
\* memorySectionOrder
Headings == {"Profile", Facts, "Active Goals", "Constraints", "Open Threads", "Deprecated/Resolved"}

\* A bullet takes three more runes.
Bullet == 3
BlocksAssumption == Limit \in [Labels -> Nat] /\ \A l \in Labels : Limit[l] > Bullet

VARIABLES file, said  \* MEMORY.md, and the latest extract

vars == <<file, said>>

NoBlocks == [l \in Labels |-> <<>>]
Cut(entry, limit) ==
  IF entry.len <= limit THEN entry
  ELSE [entry EXCEPT !.words = Append(@, "cut"), !.len = limit]

\* parseMemoryBlocks: a label's last occurrence counts; other headings are no headings.
InBlocks(text) ==
  FoldLeft(LAMBDA acc, part :
             IF part.head \in Labels
             THEN [at |-> part.head, blocks |-> [acc.blocks EXCEPT ![part.head] = part.entries]]
             ELSE IF acc.at \in Labels
             THEN [acc EXCEPT !.blocks[acc.at] = @ \o part.entries]
             ELSE acc,
           [at |-> "", blocks |-> NoBlocks], text).blocks

\* parseMemorySections: a heading continues, in the order of the headings.
Section(text, heading) ==
  FoldLeft(LAMBDA acc, part :
             LET at == IF part.head \in Headings THEN part.head ELSE acc.at
             IN [at |-> at, entries |-> IF at = heading THEN acc.entries \o part.entries ELSE acc.entries],
           [at |-> Facts, entries |-> <<>>], text).entries
Resolved(entry) == [entry EXCEPT !.words = <<"resolved">> \o @, !.len = @ + 1]
InSections(text) ==
  LET of(heading) == Section(text, heading)
      resolved == of("Deprecated/Resolved")
  IN [l \in Labels |->
        IF l = "human" THEN of("Profile")
        ELSE IF l = "projects"
        THEN of("Active Goals") \o of("Open Threads") \o [i \in DOMAIN resolved |-> Resolved(resolved[i])]
        ELSE IF l = "facts" THEN of(Facts) \o of("Constraints") ELSE <<>>]

Blocks(text) == IF \E i \in DOMAIN text : text[i].head \in Labels THEN InBlocks(text) ELSE InSections(text)

\* mergeBlockEntries
Same(e, f) == e.words = f.words
Merged(entries) ==
  FoldLeft(LAMBDA acc, e : IF \E i \in DOMAIN acc : Same(acc[i], e) THEN acc ELSE Append(acc, e),
           <<>>, entries)

\* clipEntriesToLimit, from the last entry.
Size(entries) == FoldLeft(LAMBDA acc, e : acc + e.len + Bullet, 0, entries)
Clipped(entries, limit) ==
  LET clip == FoldRight(LAMBDA e, acc :
                IF acc.full THEN acc
                ELSE IF acc.used + e.len + Bullet <= limit
                THEN [full |-> FALSE, used |-> acc.used + e.len + Bullet, kept |-> <<e>> \o acc.kept]
                ELSE [acc EXCEPT !.full = TRUE,
                                 !.kept = IF @ = <<>> THEN <<Cut(e, limit - Bullet)>>
                                          ELSE @],
                entries, [full |-> FALSE, used |-> 0, kept |-> <<>>])
  IN clip.kept

\* truncateRunes over a text of several lines.
Truncated(entries, limit) ==
  FoldLeft(LAMBDA acc, e :
             IF acc.left <= 0 THEN acc
             ELSE [left |-> acc.left - e.len - 1, kept |-> Append(acc.kept, Cut(e, acc.left))],
           [left |-> limit, kept |-> <<>>], entries).kept

\* Mutant: the core blocks are merged like the others.
OrganizedAll(base, incoming) ==
  [l \in Labels |-> Clipped(Merged(base[l] \o incoming[l]), Limit[l])]
Organized(base, incoming) ==
  [l \in Labels |-> IF l \in ReadOnly THEN Truncated(base[l], Limit[l])
                    ELSE Clipped(Merged(base[l] \o incoming[l]), Limit[l])]

\* renderMemoryBlocks
Text(blocks) == [i \in DOMAIN Order |-> [head |-> Order[i], entries |-> blocks[Order[i]]]]

OrganizeWriteback(extracted) ==
  /\ file' = Text(Organized(Blocks(file), Blocks(extracted)))
  /\ said' = extracted

\* A user, or write_file.
Edit(text) == file' = text /\ said' = <<>>
-----------------------------------------------------------------------------
Init == file = <<>> /\ said = <<>>
Next == (\E e \in Extracts : OrganizeWriteback(e)) \/ (\E f \in Files : Edit(f))
Spec == Init /\ [][Next]_vars
-----------------------------------------------------------------------------
IsText(text) ==
  \A i \in DOMAIN text :
    /\ text[i].head \in STRING
    /\ \A j \in DOMAIN text[i].entries : text[i].entries[j].len \in Nat
TypeOK == IsText(file) /\ IsText(said)

\* A writeback changes no core block, but for its limit; the other blocks stay within
\* theirs and repeat nothing; and what is dropped of a block is older than all that is
\* kept, if cut, and would not fit with it.
Guarded ==
  said' # <<>> =>
    LET before == Blocks(file)
        incoming == Blocks(said')
        after == Blocks(file')
        all(l) == before[l] \o incoming[l]
        Kept(l, e) == \E i \in DOMAIN after[l] :
                        Same(after[l][i], e) \/ Same(after[l][i], Cut(e, Limit[l] - Bullet))
        First(l, i) == \A j \in 1 .. i - 1 : ~Same(all(l)[j], all(l)[i])
    IN /\ \A l \in ReadOnly :
            /\ IsPrefix(after[l], before[l])
               \/ \E n \in DOMAIN after[l] :
                    /\ n = Len(after[l]) /\ n <= Len(before[l])
                    /\ \A i \in 1 .. n - 1 : after[l][i] = before[l][i]
                    /\ \E k \in 1 .. Limit[l] : after[l][n] = Cut(before[l][n], k)
       /\ \A l \in Labels \ ReadOnly :
            /\ Size(after[l]) <= Limit[l] /\ after[l] = Merged(after[l])
            /\ \A i \in DOMAIN all(l) : First(l, i) /\ ~Kept(l, all(l)[i]) =>
                 /\ \A j \in 1 .. i - 1 : ~Kept(l, all(l)[j])
                 /\ Size(after[l]) + all(l)[i].len + Bullet > Limit[l]
                    \/ \E j \in DOMAIN all(l) : j > i /\ ~Kept(l, all(l)[j])
=============================================================================
