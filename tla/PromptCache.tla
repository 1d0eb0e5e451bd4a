------------------------------ MODULE PromptCache ------------------------------
(***************************************************************************)
(* The cached system prompt of an agent (BuildSystemPromptWithCache of     *)
(* pkg/agent/context.go): made of files of the workspace, of the skills,   *)
(* whose files lie below a root, and of the tools.  Files change while a   *)
(* call compares their times with those of the cache, and while it builds  *)
(* a new prompt; a change is told by its time, which grows.  What a prompt *)
(* says of a file is the time of the version it was made from.             *)
(***************************************************************************)
EXTENDS Integers, FiniteSets, FiniteSetsExt, Functions

CONSTANTS Sources,     \* sourcePaths
          SkillFiles,
          Callers,
          MaxTime      \* bound on the changes

Root == "skills"
Tools == "tools"
Tracked == Sources \cup {Root} \cup SkillFiles
Parts == Sources \cup SkillFiles \cup {Tools}

PromptAssumption == {Root, Tools} \cap (Sources \cup SkillFiles) = {} /\ MaxTime \in Nat

VARIABLES
  now,      \* the time of the latest change
  mtime,    \* of each tracked path, 0 where there is none
  tools,    \* the version of the tool registry
  pending,  \* tools are registered and the cache is not invalidated yet
  cache,    \* the cached prompt with its baseline
  call,     \* the calls
  valid     \* history: what the prompt of a call may say of each part

vars == <<now, mtime, tools, pending, cache, call, valid>>

Exists(p) == mtime[p] > 0
NoBase == [existed |-> {}, skillFiles |-> [f \in {} |-> 0], at |-> 1]
NoPrompt == [p \in {} |-> 0]
NoCache == [base |-> NoBase, prompt |-> NoPrompt]
Idle == [pc |-> "idle", todo |-> {}, base |-> NoBase, prompt |-> NoPrompt]

At(c, pc) == call[c].pc = pc
\* systemPromptMutex
WriteLocked == \E c \in Callers : call[c].pc \in {"recheck", "stat", "read"}
ReadLocked == \E c \in Callers : At(c, "check")

\* This is the order of visits: tools, sources, roots, the files of the skills.
Turn(c) ==
  LET todo == call[c].todo IN
  IF Tools \in todo THEN {Tools}
  ELSE IF todo \cap Sources # {} THEN todo \cap Sources
  ELSE IF Root \in todo THEN {Root} ELSE todo
Visited(c, p) == [call[c] EXCEPT !.todo = @ \ {p}]

Call(c) ==
  /\ At(c, "idle") /\ ~WriteLocked
  /\ call' = [call EXCEPT ![c] = [Idle EXCEPT !.pc = "check", !.todo = Tracked]]
  /\ valid' = [valid EXCEPT ![c] = [p \in Parts |->
                 IF p # Tools THEN {mtime[p]} ELSE IF pending THEN {tools - 1, tools} ELSE {tools}]]
  /\ UNCHANGED <<now, mtime, tools, pending, cache>>

\* fileChangedSince and skillFilesChangedSince
\* Mutant: the files of the skills are compared with the time of the cache.
ChangedSince(p) ==
  \/ (p \in cache.base.existed) # Exists(p) /\ p \notin SkillFiles
  \/ mtime[p] > cache.base.at
Changed(p) ==
  IF p \in SkillFiles
  THEN mtime[p] # (IF p \in DOMAIN cache.base.skillFiles THEN cache.base.skillFiles[p] ELSE 0)
  ELSE \/ (p \in cache.base.existed) # Exists(p)
       \/ mtime[p] > cache.base.at

\* sourceFilesChangedLocked, under the read lock and again under the lock.
Same(c, p) ==
  /\ call[c].pc \in {"check", "recheck"} /\ p \in Turn(c)
  /\ cache # NoCache /\ ~Changed(p)
  /\ call' = [call EXCEPT ![c] = Visited(c, p)]
  /\ UNCHANGED <<now, mtime, tools, pending, cache, valid>>

Differs(c) ==
  /\ call[c].pc \in {"check", "recheck"}
  /\ \/ cache = NoCache
     \/ \E p \in Turn(c) : Changed(p)
  /\ \/ At(c, "check") /\ call' = [call EXCEPT ![c] = [Idle EXCEPT !.pc = "wait"]]
     \/ At(c, "recheck")
        /\ call' = [call EXCEPT ![c] = [Idle EXCEPT !.pc = "stat", !.todo = Tracked]]
  /\ UNCHANGED <<now, mtime, tools, pending, cache, valid>>

Cached(c) ==
  /\ call[c].pc \in {"check", "recheck"} /\ call[c].todo = {} /\ cache # NoCache
  /\ call' = [call EXCEPT ![c] = [Idle EXCEPT !.pc = "return", !.prompt = cache.prompt]]
  /\ UNCHANGED <<now, mtime, tools, pending, cache, valid>>

Lock(c) ==
  /\ At(c, "wait") /\ ~WriteLocked /\ ~ReadLocked
  /\ call' = [call EXCEPT ![c].pc = "recheck", ![c].todo = Tracked]
  /\ UNCHANGED <<now, mtime, tools, pending, cache, valid>>

\* buildCacheBaseline, before anything is read.
Noted(base, p) ==
  [existed |-> IF p \notin SkillFiles /\ Exists(p) THEN base.existed \cup {p} ELSE base.existed,
   skillFiles |-> IF p \in SkillFiles /\ Exists(p)
                  THEN [f \in DOMAIN base.skillFiles \cup {p} |->
                          IF f = p THEN mtime[p] ELSE base.skillFiles[f]]
                  ELSE base.skillFiles,
   at |-> Max({base.at, mtime[p]})]
Stat(c, p) ==
  /\ At(c, "stat") /\ p \in Turn(c)
  /\ LET done == [Visited(c, p) EXCEPT !.base = Noted(@, p)]
     IN call' = [call EXCEPT ![c] = IF done.todo = {} THEN [done EXCEPT !.pc = "read", !.todo = Parts]
                                    ELSE done]
  /\ UNCHANGED <<now, mtime, tools, pending, cache, valid>>

\* BuildSystemPrompt: the tools with the identity, the files, the skills.
Read(c, p) ==
  /\ At(c, "read") /\ p \in Turn(c)
  /\ LET version == IF p = Tools THEN tools ELSE mtime[p]
     IN call' = [call EXCEPT ![c] = [Visited(c, p) EXCEPT
                   !.prompt = [q \in DOMAIN @ \cup {p} |-> IF q = p THEN version ELSE @[q]]]]
  /\ UNCHANGED <<now, mtime, tools, pending, cache, valid>>

Built(c) ==
  /\ At(c, "read") /\ call[c].todo = {}
  /\ cache' = [base |-> call[c].base, prompt |-> call[c].prompt]
  /\ call' = [call EXCEPT ![c] = [Idle EXCEPT !.pc = "return", !.prompt = call[c].prompt]]
  /\ UNCHANGED <<now, mtime, tools, pending, valid>>

Return(c) ==
  /\ At(c, "return")
  /\ call' = [call EXCEPT ![c] = Idle]
  /\ valid' = [valid EXCEPT ![c] = [p \in Parts |-> {}]]
  /\ UNCHANGED <<now, mtime, tools, pending, cache>>

(***************************************************************************)
(* Changes.                                                                *)
(***************************************************************************)
InUse == {c \in Callers : call[c].pc \notin {"idle", "return"}}
MayBe(p, v) == valid' = [c \in Callers |-> IF c \in InUse THEN [valid[c] EXCEPT ![p] = @ \cup {v}]
                                           ELSE valid[c]]

\* The directory of a new skill is an entry of the root.
Write(p) ==
  /\ now < MaxTime
  /\ now' = now + 1
  /\ mtime' = [mtime EXCEPT ![p] = now', ![Root] = IF p \in SkillFiles /\ ~Exists(p) THEN now' ELSE @]
  /\ MayBe(p, now')
  /\ UNCHANGED <<tools, pending, cache, call>>

Delete(p) ==
  /\ now < MaxTime /\ Exists(p)
  /\ now' = now + 1
  /\ \E touched \in (IF p \in SkillFiles THEN {now', mtime[Root]} ELSE {mtime[Root]}) :
       mtime' = [mtime EXCEPT ![p] = 0, ![Root] = touched]
  /\ MayBe(p, 0)
  /\ UNCHANGED <<tools, pending, cache, call>>

\* loop_mcp.go: tools are registered, and then InvalidateCache.
Register ==
  /\ ~pending /\ tools < 1
  /\ tools' = tools + 1 /\ pending' = TRUE
  /\ MayBe(Tools, tools')
  /\ UNCHANGED <<now, mtime, cache, call>>

InvalidateCache ==
  /\ pending /\ ~WriteLocked /\ ~ReadLocked
  /\ cache' = NoCache /\ pending' = FALSE
  /\ UNCHANGED <<now, mtime, tools, call, valid>>
-----------------------------------------------------------------------------
\* Files may be there before the program.
Init ==
  /\ now = 1 /\ mtime \in {t \in [Tracked -> 0 .. 1] : t[Root] = 1}
  /\ tools = 0 /\ pending = FALSE
  /\ cache = NoCache /\ call = [c \in Callers |-> Idle]
  /\ valid = [c \in Callers |-> [p \in Parts |-> {}]]

Next ==
  \/ \E c \in Callers :
       \/ Call(c) \/ Differs(c) \/ Cached(c) \/ Lock(c) \/ Built(c) \/ Return(c)
       \/ \E p \in Parts \cup {Root} : Same(c, p) \/ Stat(c, p) \/ Read(c, p)
  \/ \E p \in Sources \cup SkillFiles : Write(p) \/ Delete(p)
  \/ Register \/ InvalidateCache

Spec == Init /\ [][Next]_vars
-----------------------------------------------------------------------------
Times == 0 .. MaxTime
TypeOK ==
  /\ now \in Times /\ mtime \in [Tracked -> Times] /\ tools \in 0 .. 1 /\ pending \in BOOLEAN
  /\ \A c \in Callers :
       /\ call[c].pc \in {"idle", "check", "wait", "recheck", "stat", "read", "return"}
       /\ call[c].todo \subseteq Tracked \cup Parts
       /\ IsFiniteSet(call[c].todo) /\ DOMAIN call[c].prompt \subseteq Parts
       /\ valid[c] \in [Parts -> SUBSET (0 .. MaxTime)]
  /\ cache.base.existed \subseteq Tracked /\ DOMAIN cache.base.skillFiles \subseteq SkillFiles
  /\ cache.base.at \in Times

\* The prompt that a call returns is, part by part, as it was at some time of the
\* call: no change that was complete when the call began is missing.
PromptCurrent ==
  \A c \in Callers : At(c, "return") =>
    \A p \in Parts : call[c].prompt[p] \in valid[c][p]
=============================================================================
