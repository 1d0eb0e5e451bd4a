----------------------------- MODULE MemoryIndex -----------------------------
(***************************************************************************)
(* The memory file of an agent and the two indexes that searches keep over *)
(* it (pkg/agent/memory.go, memory_vector.go, memory_fts.go).  An index is *)
(* taken for current by its fingerprint: the size and the second of the    *)
(* last change of the file, and for vectors what made them.  The file is a *)
(* sequence of entries; daily notes are further files of the same kind.    *)
(***************************************************************************)
EXTENDS Integers, Sequences, FiniteSets, Functions

CONSTANTS Kinds,      \* the indexes: "vector" and "fts"
          Entries,    \* what is worth remembering
          MaxEntries, \* the limit of a block
          Embedders,
          Writers,    \* runs and compactions that write back memory
          MaxTime     \* bound on the seconds

MemoryAssumption == Kinds \subseteq {"vector", "fts"} /\ MaxEntries \in Nat \ {0} /\ MaxTime \in Nat

Contents == {s \in UNION {[1 .. n -> Entries] : n \in 0 .. MaxEntries} : IsInjective(s)}
None == [print |-> <<>>, docs |-> <<>>]

VARIABLES
  now,
  file, mtime,  \* MEMORY.md
  embedder,
  disk,         \* the index of each kind, None if there is none or it is torn
  cache,        \* the index in memory; of "fts", lastFingerprint only
  search,       \* pc and fingerprint of the search in each index
  writer,       \* pc and base of an OrganizeWriteback
  recent,       \* history: the contents of the file since the second of mtime
  seen          \* history: what a search may find

vars == <<now, file, mtime, embedder, disk, cache, search, writer, recent, seen>>
index == <<disk, cache, search>>

NoSearch == [pc |-> "idle", print |-> <<>>]
NoWrite == [pc |-> "idle", base |-> <<>>, dirty |-> {}]

(***************************************************************************)
(* Writing.  Files are replaced whole.                                     *)
(***************************************************************************)
WriteFile(content) ==
  /\ file' = content /\ mtime' = now
  /\ recent' = (IF mtime = now THEN recent ELSE {}) \cup {content}
  /\ seen' = [k \in Kinds |-> seen[k] \cup {content}]

\* The agent's file tools, or the user.
Edit ==
  /\ \E content \in Contents \ {file} : WriteFile(content)
  /\ UNCHANGED <<now, embedder, index, writer>>

\* OrganizeWriteback reads the file, merges an entry and writes it back.
ReadBase(w) ==
  /\ writer[w] = NoWrite
  /\ writer' = [writer EXCEPT ![w] = [NoWrite EXCEPT !.pc = "merge", !.base = file]]
  /\ UNCHANGED <<now, file, mtime, embedder, index, recent, seen>>

\* mergeBlockEntries and clipEntriesToLimit
Merged(base, e) ==
  LET all == IF e \in Range(base) THEN base ELSE Append(base, e)
  IN SubSeq(all, 1 + (IF Len(all) > MaxEntries THEN Len(all) - MaxEntries ELSE 0), Len(all))

WriteBack(w) ==
  /\ writer[w].pc = "merge"
  /\ \E e \in Entries : WriteFile(Merged(writer[w].base, e))
  /\ writer' = [writer EXCEPT ![w] = [NoWrite EXCEPT !.dirty = Kinds]]
  /\ UNCHANGED <<now, embedder, index>>

\* refreshVectorIndex: MarkDirty of one index, then of the other.
MarkDirty(w, k) ==
  /\ k \in writer[w].dirty /\ (k = "fts" => "vector" \notin writer[w].dirty)
  /\ search[k].pc = "idle"
  /\ cache' = [cache EXCEPT ![k] = None]
  /\ writer' = [writer EXCEPT ![w].dirty = @ \ {k}]
  /\ UNCHANGED <<now, file, mtime, embedder, disk, search, recent, seen>>

(***************************************************************************)
(* Search, with the lock of its index.                                     *)
(***************************************************************************)
\* collectSourceFilesLocked and buildSourceFingerprint
Fingerprint(k) == <<Len(file), mtime, IF k = "vector" THEN embedder ELSE "fts:v1">>

Collect(k) ==
  /\ search[k].pc = "idle"
  /\ search' = [search EXCEPT ![k] = [pc |-> "ensure", print |-> Fingerprint(k)]]
  /\ seen' = [seen EXCEPT ![k] = recent]
  /\ UNCHANGED <<now, file, mtime, embedder, disk, cache, writer, recent>>

\* Mutant: an index in memory is current until it is marked dirty.
CurrentUnlessDirty(k) == cache[k] # None
Current(k) == cache[k].print = search[k].print

\* ensureIndexLocked
Ensure(k) ==
  /\ search[k].pc = "ensure"
  /\ cache' = [cache EXCEPT ![k] =
                 IF ~Current(k) /\ disk[k].print = search[k].print THEN disk[k] ELSE @]
  /\ search' = [search EXCEPT ![k].pc =
                  IF Current(k) \/ disk[k].print = search[k].print THEN "found" ELSE "build"]
  /\ UNCHANGED <<now, file, mtime, embedder, disk, writer, recent, seen>>

\* Each entry with what made its vector: an index of the same embedder is reused.
Docs(k) ==
  LET reuse == disk[k] # None /\ disk[k].print[3] = embedder
      old == IF reuse THEN {d \in Range(disk[k].docs) : d.entry \in Range(file)} ELSE {}
      made(e) == IF k = "fts" THEN "fts:v1"
                 ELSE IF \E d \in old : d.entry = e THEN (CHOOSE d \in old : d.entry = e).by
                 ELSE embedder
  IN [i \in DOMAIN file |-> [entry |-> file[i], by |-> made(file[i])]]

\* rebuildFromSourcesLocked, or the transaction of rebuildLocked.
Rebuild(k) ==
  /\ search[k].pc = "build"
  /\ LET built == [print |-> search[k].print, docs |-> Docs(k)]
     IN disk' = [disk EXCEPT ![k] = built] /\ cache' = [cache EXCEPT ![k] = built]
  /\ search' = [search EXCEPT ![k].pc = "found"]
  /\ UNCHANGED <<now, file, mtime, embedder, writer, recent, seen>>

\* No vectors, or no room on the disk: the search fails, the index in memory stays.
RebuildFails(k) ==
  /\ search[k].pc = "build"
  /\ \E torn \in {FALSE} \cup {TRUE : x \in {k} \cap {"vector"}} :
       disk' = IF torn THEN [disk EXCEPT ![k] = None] ELSE disk
  /\ search' = [search EXCEPT ![k] = NoSearch]
  /\ UNCHANGED <<now, file, mtime, embedder, cache, writer, recent, seen>>

\* Vectors are looked up in memory, words in the database.
Found(k) == IF k = "vector" THEN cache[k].docs ELSE disk[k].docs
Answer(k) ==
  /\ search[k].pc = "found"
  /\ search' = [search EXCEPT ![k] = NoSearch]
  /\ UNCHANGED <<now, file, mtime, embedder, disk, cache, writer, recent, seen>>

\* SetVectorSettings: the store of the words forgets its fingerprint, too.
SetSettings ==
  /\ \A k \in Kinds : search[k].pc = "idle"
  /\ embedder' \in Embedders \ {embedder}
  /\ cache' = [k \in Kinds |-> None]
  /\ UNCHANGED <<now, file, mtime, disk, search, writer, recent, seen>>

\* The process starts again, perhaps while an index is written.
Restart ==
  /\ cache' = [k \in Kinds |-> None]
  /\ search' = [k \in Kinds |-> NoSearch]
  /\ writer' = [w \in Writers |-> NoWrite]
  /\ disk' = disk \/ \E k \in Kinds \cap {"vector"} : search[k].pc = "build" /\ disk' = [disk EXCEPT ![k] = None]
  /\ UNCHANGED <<now, file, mtime, embedder, recent, seen>>

Tick == now < MaxTime /\ now' = now + 1 /\ UNCHANGED <<file, mtime, embedder, index, writer, recent, seen>>
-----------------------------------------------------------------------------
Init ==
  /\ now = 0 /\ file = <<>> /\ mtime = 0 /\ recent = {<<>>}
  /\ embedder \in Embedders
  /\ disk = [k \in Kinds |-> None] /\ cache = [k \in Kinds |-> None]
  /\ search = [k \in Kinds |-> NoSearch]
  /\ writer = [w \in Writers |-> NoWrite]
  /\ seen = [k \in Kinds |-> {}]

Next ==
  \/ Edit \/ SetSettings \/ Restart \/ Tick
  \/ \E w \in Writers : ReadBase(w) \/ WriteBack(w) \/ \E k \in Kinds : MarkDirty(w, k)
  \/ \E k \in Kinds : Collect(k) \/ Ensure(k) \/ Rebuild(k) \/ RebuildFails(k) \/ Answer(k)

Spec == Init /\ [][Next]_vars
-----------------------------------------------------------------------------
TypeOK ==
  /\ {now, mtime} \subseteq 0 .. MaxTime
  /\ file \in Contents /\ recent \subseteq Contents
  /\ embedder \in Embedders
  /\ DOMAIN disk = Kinds /\ DOMAIN cache = Kinds
  /\ search \in [Kinds -> [pc : {"idle", "ensure", "build", "found"},
                           print : {<<>>} \cup ((0 .. MaxEntries) \X (0 .. MaxTime) \X (Embedders \cup {"fts:v1"}))]]
  /\ writer \in [Writers -> [pc : {"idle", "merge"}, base : Contents, dirty : SUBSET Kinds]]
  /\ seen \in [Kinds -> SUBSET Contents]

\* What a search answers was in the file when it began, since, or in the second of
\* the file's last change; and its vectors are of the embedder that the question is
\* put to.  This holds whoever changed the
\* file, and however an older index in memory or on disk was left.
AnswersCurrent ==
  \A k \in Kinds : search[k].pc = "found" =>
    /\ [i \in DOMAIN Found(k) |-> Found(k)[i].entry] \in seen[k]
    /\ k = "vector" => \A i \in DOMAIN Found(k) : Found(k)[i].by = embedder
=============================================================================
