----------------------------- MODULE MCSubsystems -----------------------------
(***************************************************************************)
(* The subsystems of X-Claw that work on their own, one instance of each   *)
(* for TLC.  They share no state, so that one behaviour exercises one of   *)
(* them, the focus: its variables are the first of x1..x11, in the order   *)
(* of the WITH, and now where it has a clock.  The constants of those that *)
(* Subsystems_proofs proves about are constants here too.                  *)
(***************************************************************************)
EXTENDS Integers, Sequences, TLC

CONSTANTS
  Callers, MaxTime,  \* concurrent calls; the bound on a clock
  Chain, Standard, Billing, FailureWindow, Errors,            \* of ProviderFallback
  Models, Threshold, Window, TTL, MaxRetries,                 \* of SessionModel
  Ids, MaxChunks, MaxPending, MaxSessions, Pollers, PolicyTimeout,  \* of ProcessManager
  ToolCalls, Safe, ReadOnlyTools, Serial, Forced, Modes, MaxConcurrency,  \* of ToolBatch
  Frozen, Restricted, Denied, FailClosed, Confirmed,
  Servers, MaxReloads,                                        \* of McpManager
  Refs, Paths, Scopes, MaxAge,                                \* of MediaStore
  MaxLines, MaxBackups, MaxEvents,                            \* of AuditLog
  Requests, DefaultPlans, GroupPlans, PeerKinds, MaxFailures  \* of PlanMode

VARIABLES focus, now, x1, x2, x3, x4, x5, x6, x7, x8, x9, x10, x11

vars == <<focus, now, x1, x2, x3, x4, x5, x6, x7, x8, x9, x10, x11>>

\* The values of constants that a .cfg cannot write.
TwoProviders == <<"p1", "p2">>
TwoCooldowns == <<1, 2>>
ThreeModels == <<"m1", "m2", "m3">>
FiveToolCalls == <<"read", "read", "write", "read", "exec">>
ErrorsOfAllKinds ==
            {[deadline |-> FALSE, image |-> FALSE, number |-> 402, says |-> {"rate_limit"}],
             [deadline |-> FALSE, image |-> FALSE, number |-> 512, says |-> {"billing", "timeout"}],
             [deadline |-> FALSE, image |-> FALSE, number |-> 0, says |-> {"auth", "format"}],
             [deadline |-> FALSE, image |-> TRUE, number |-> 429, says |-> {"rate_limit"}],
             [deadline |-> TRUE, image |-> FALSE, number |-> 0, says |-> {}]}

Fallback == INSTANCE ProviderFallback WITH
  Calls <- Callers, Candidates <- Chain,
  tracker <- x1, call <- x2
Model == INSTANCE SessionModel WITH
  override <- x1, streak <- x2, run <- x3, falls <- x4
\* Three chunks of output and a buffer for one; then two sessions where one is kept.
Output == INSTANCE ProcessManager WITH
  sess <- x1, reg <- x2, ended <- x3, exec <- x4, poll <- x5, removing <- x6, killing <- x7,
  given <- x8
Sessions == INSTANCE ProcessManager WITH
  Ids <- {1, 2}, MaxChunks <- 0, MaxPending <- 1, MaxSessions <- 1, Pollers <- {},
  PolicyTimeout <- FALSE,
  sess <- x1, reg <- x2, ended <- x3, exec <- x4, poll <- x5, removing <- x6, killing <- x7,
  given <- x8
Batch == INSTANCE ToolBatch WITH
  Calls <- ToolCalls, ReadOnly <- ReadOnlyTools,
  opts <- x1, estop <- x2, pos <- x3, batch <- x4, jobs <- x5, active <- x6, done <- x7
Mcp == INSTANCE McpManager WITH
  Calls <- Callers,
  closed <- x1, servers <- x2, wg <- x3, lockers <- x4, call <- x5, tools <- x6, current <- x7,
  reload <- x8, closer <- x9
Jsonl == INSTANCE JsonlStore WITH
  Messages <- {"a", "b", "c", "d"}, MaxLines <- 3, MaxCrashes <- 2,
  lines <- x1, torn <- x2, meta <- x3, op <- x4, must <- x5, crashes <- x6, tears <- x7
Chat == INSTANCE ChatIndicators WITH
  Messages <- {1, 2}, MaxAnswers <- 2,
  inbound <- x1, typing <- x2, typingStop <- x3, scheduled <- x4, timer <- x5, cancelled <- x6,
  placeholder <- x7, answer <- x8, answers <- x9, edits <- x10, janitor <- x11
\* A limit of 24 runes, and pieces that come before, on and after every cut.
Word(n) == [i \in 1 .. n |-> "letter"]
Ticks == <<"backquote", "backquote", "backquote">>
Split == INSTANCE SplitMessage WITH
  Pieces <- {Ticks, Ticks \o <<"letter", "newline">>, <<"newline">>, <<"space">>,
             Word(3), Word(8), Word(11), Word(14)},
  MaxPieces <- 4, MaxLen <- 24, MinBuffer <- 7, LineWindow <- 4, SpaceWindow <- 2, Margin <- 3,
  text <- x1, sent <- x2
Media == INSTANCE MediaStore WITH
  files <- x1, refs <- x2, scopeToRefs <- x3, refToScope <- x4, fresh <- x5, removing <- x6,
  uses <- x7
Vectors == INSTANCE MemoryIndex WITH
  Kinds <- {"vector"}, Entries <- {"a", "b"}, MaxEntries <- 1, Embedders <- {"e1", "e2"},
  Writers <- {"w"}, MaxTime <- 1,
  file <- x1, mtime <- x2, embedder <- x3, disk <- x4, cache <- x5, search <- x6, writer <- x7,
  recent <- x8, seen <- x9
Words == INSTANCE MemoryIndex WITH
  Kinds <- {"fts"}, Entries <- {"a", "b"}, MaxEntries <- 1, Embedders <- {"e1", "e2"},
  Writers <- {"w"}, MaxTime <- 1,
  file <- x1, mtime <- x2, embedder <- x3, disk <- x4, cache <- x5, search <- x6, writer <- x7,
  recent <- x8, seen <- x9
Audit == INSTANCE AuditLog WITH
  count <- x1, file <- x2, backups <- x3, dropped <- x4, covered <- x5
Prompt == INSTANCE PromptCache WITH
  Sources <- {"AGENTS.md"}, SkillFiles <- {"SKILL.md"}, Callers <- {"c1", "c2"}, MaxTime <- 2,
  mtime <- x1, tools <- x2, pending <- x3, cache <- x4, call <- x5, valid <- x6
Entry(words, form, len) == [words |-> <<words>>, form |-> form, len |-> len]
Below(head, entries) == [head |-> head, entries |-> entries]
Blocks == INSTANCE MemoryBlocks WITH
  Limit <- [persona |-> 4, human |-> 5, projects |-> 8, facts |-> 14],
  Files <- {<<>>,
            <<Below("facts", <<Entry("z", 1, 1)>>), Below("persona", <<Entry("p", 1, 2), Entry("q", 1, 4)>>), Below("facts", <<Entry("a", 1, 2)>>),
              Below("Notes", <<Entry("b", 1, 4)>>)>>,
            <<Below("Profile", <<Entry("p", 1, 6)>>), Below("Open Threads", <<Entry("q", 1, 2)>>),
              Below("Constraints", <<Entry("a", 1, 2), Entry("b", 1, 4)>>)>>},
  Extracts <- {<<Below("facts", <<Entry("a", 2, 2), Entry("c", 1, 3)>>)>>,
               <<Below("", <<Entry("d", 1, 4), Entry("c", 2, 3)>>), Below("Active Goals", <<Entry("r", 1, 4)>>)>>,
               <<Below("Profile", <<Entry("s", 1, 2)>>), Below("Long-term Facts", <<Entry("e", 1, 19)>>)>>,
               <<Below("Deprecated/Resolved", <<Entry("q", 1, 2)>>), Below("Constraints", <<Entry("b", 1, 4)>>)>>,
               <<Below("human", <<Entry("s", 1, 2)>>), Below("projects", <<Entry("q", 1, 2)>>)>>},
  file <- x1, said <- x2
Fetch == INSTANCE WebFetch WITH
  Calls <- Callers, Urls <- {"u", "v"}, TTL <- 1, MaxEntries <- 1,
  cache <- x1, flight <- x2, call <- x3, fetched <- x4
Search == INSTANCE SkillSearch WITH
  Trigrams <- [weather |-> {1, 2, 3, 4}, weathe |-> {1, 2, 3}, go |-> {}],
  Threshold <- 70, MaxEntries <- 2, TTL <- 1, MaxTime <- 1,
  Found <- [a |-> <<2, 5>>, b |-> <<3>>, c |-> <<4, 3>>], MaxConcurrent <- 2, Limit <- 3,
  entries <- x1, order <- x2, uses <- x3, search <- x4
NoKeys == [p \in {"perplexity", "grok", "brave", "tavily", "duckduckgo", "glm_search"} |-> <<>>]
Limits == [p \in DOMAIN NoKeys |-> IF p = "brave" THEN 1 ELSE 0]
Web == INSTANCE WebSearch WITH
  Configs <- {[enabled |-> {"grok", "brave", "duckduckgo"}, results |-> Limits, evidence |-> FALSE, min |-> 0,
               keys |-> [NoKeys EXCEPT !["grok"] = <<"", "">>, !["brave"] = <<"j", "j", "k">>]],
              [enabled |-> {"grok", "brave"}, results |-> Limits, evidence |-> TRUE, min |-> 1,
               keys |-> [NoKeys EXCEPT !["grok"] = <<"j", "", "k">>, !["brave"] = <<"j">>]]},
  Calls <- {"c1", "c2"}, Urls <- {"a.com/1", "a.com/2", "b.org", "a.com/", "b."},
  Domain <- ("a.com/1" :> "a.com" @@ "a.com/2" :> "a.com" @@ "a.com/" :> "a.com" @@ "b.org" :> "b.org" @@ "b." :> "b."),
  Cut <- ("a.com/1" :> "a.com/" @@ "a.com/2" :> "a.com/" @@ "a.com/" :> "a.com/" @@ "b.org" :> "b." @@ "b." :> "b."),
  Items <- {<<>>, <<"a.com/1", "b.org">>}, Queries <- {{}, {"a.com/1", "b.org"}}, Counts <- {0},
  cfg <- x1, used <- x2, call <- x3
Hears(only, prefixes, all, bypass) ==
  [mentionOnly |-> only, prefixes |-> prefixes, mentionless |-> all, bypass |-> bypass]
Allow(platform, id, user) == [platform |-> platform, id |-> id, user |-> user]
Told(kind, text, files) ==
  [sender |-> [id |-> "1", name |-> "ann"], group |-> TRUE, kind |-> kind, text |-> text, files |-> files]
Typed(text) == Told("text", text, <<>>)
Telegram == INSTANCE ChatIntake WITH
  Platform <- "telegram", MaxFiles <- 1,
  Configs <- {[store |-> TRUE, allow |-> {}, trigger |-> Hears(TRUE, TRUE, FALSE, TRUE)],
              [store |-> TRUE, allow |-> {Allow("", "ann", "")}, trigger |-> Hears(FALSE, TRUE, TRUE, FALSE)],
              [store |-> TRUE, allow |-> {Allow("", "2", "ann"), Allow("feishu", "2", "")}, trigger |-> Hears(FALSE, FALSE, FALSE, FALSE)],
              [store |-> FALSE, allow |-> {Allow("telegram", "2", "")}, trigger |-> Hears(FALSE, FALSE, TRUE, FALSE)]},
  Arrivals <- {<<Typed(<<"emoji", "bot">>), Typed(<<"word">>)>>, <<Typed(<<"bot", "command">>), Typed(<<"command">>)>>,
               <<Typed(<<"bot">>), Typed(<<"prefix", "word">>)>>,
               <<[Typed(<<>>) EXCEPT !.files = <<1, 1, 1>>, !.group = FALSE], [Typed(<<"show">>) EXCEPT !.group = FALSE]>>,
               <<[Typed(<<"word">>) EXCEPT !.group = FALSE], [Typed(<<"bot", "word">>) EXCEPT !.sender = [id |-> "2", name |-> ""]]>>},
  cfg <- x1, arrival <- x2, channel <- x3, handler <- x4, published <- x5
Feishu == INSTANCE ChatIntake WITH
  Platform <- "feishu", MaxFiles <- 1,
  Configs <- {[store |-> TRUE, allow |-> {Allow("", "1", "")}, trigger |-> Hears(TRUE, FALSE, TRUE, TRUE)],
              [store |-> TRUE, allow |-> {}, trigger |-> Hears(FALSE, TRUE, FALSE, FALSE)],
              [store |-> FALSE, allow |-> {Allow("feishu", "1", "")}, trigger |-> Hears(FALSE, FALSE, TRUE, FALSE)]},
  Arrivals <- {<<Typed(<<"bot", "tenth">>), Typed(<<"other", "word">>)>>, <<Typed(<<"word", "bot">>), Typed(<<"command">>)>>,
               <<Told("post", <<"bot", "unknown", "image">>, <<1>>), Typed(<<"prefix", "tenth">>)>>,
               <<Told("file", <<"word">>, <<1>>), [Told("file", <<>>, <<1>>) EXCEPT !.group = FALSE]>>,
               <<Typed(<<"bot">>)>>},
  cfg <- x1, arrival <- x2, channel <- x3, handler <- x4, published <- x5
Part(image, caption, gone) == [image |-> image, caption |-> caption, gone |-> gone]
Sender == INSTANCE ChatSend WITH
  Platforms <- {"telegram", "feishu"}, MaxRetries <- 2,
  Jobs <- {<<>>, <<Part(TRUE, TRUE, FALSE), Part(FALSE, TRUE, TRUE), Part(FALSE, FALSE, FALSE)>>},
  platform <- x1, job <- x2, running <- x3, call <- x4, delivered <- x5
Active == INSTANCE LastActive WITH
  Users <- {<<"tg", "1">>}, Jobs <- {<<"cli", "direct">>, <<"fs", "2">>}, MaxBusy <- 2,
  Beatings <- {<<"gateway", "missing">>, <<"gateway", "empty">>, <<"other", "tasks">>},
  disk <- x1, state <- x2, beat <- x3, runs <- x4, sent <- x5, seen <- x6
Skills == INSTANCE SkillRoots WITH
  Dirs <- <<"a", "b">>, Names <- {"a", "c"},
  Repos <- [one |-> [dir |-> "a", file |-> "a"], two |-> [dir |-> "a", file |-> "c"]],
  Archives <- [s |-> "a", t |-> "invalid"], Installs <- {1, 2},
  Given <- {[a |-> "invalid", b |-> "a"], [a |-> "c", b |-> "absent"]},
  disk <- x1, job <- x2
Plan == INSTANCE PlanMode WITH
  cfg <- x1, file <- x2, turn <- x3, wish <- x4, lag <- x5, failures <- x6, cut <- x7
Own(protocol) == [protocol |-> protocol, login |-> FALSE, stored |-> FALSE, key |-> FALSE, local |-> TRUE]
WithLogin(protocol) == [Own(protocol) EXCEPT !.login = TRUE, !.stored = TRUE]
Wire == INSTANCE ProviderWire WITH
  Configured <- {Own(p) : p \in {"ollama", "groq", "antigravity", "claude-cli", "codex-cli", "copilot"}}
                  \cup {WithLogin("openai"), WithLogin("anthropic")},
  Names <- {"n"}, Objects <- {"o"}, Unbalanced <- {"o"}, MaxCalls <- 2, MaxRuns <- 2, LoopAfter <- 1,
  history <- x1, messages <- x2, running <- x3, ran <- x4, recent <- x5
Pruning == INSTANCE HistoryPruning WITH
  Sizes <- {4}, MaxHistory <- 6, Trigger <- 5, Soft <- 3, Hard <- 2, Recent <- 2, ChitChat <- TRUE,
  history <- x1, request <- x2
\* Where a message goes with up to two bindings; then what two messages share.
NoPeer == [kind |-> "", id |-> <<>>]
Msg == [channel |-> "tg", account |-> "", peer |-> [kind |-> "direct", id |-> <<"u">>], parent |-> NoPeer,
        thread |-> "", guild |-> "", team |-> "", sender |-> <<"tg", "u">>, chat |-> <<"c">>, origin |-> "",
        explicit |-> <<>>, quoted |-> <<>>]
Group(id) == [kind |-> "group", id |-> <<id>>]
Unnamed == [kind |-> "group", id |-> <<>>]
To(agent) == [agent |-> agent, channel |-> "tg", account |-> "*", peer |-> NoPeer, thread |-> "",
              guild |-> "", team |-> ""]
Routes == INSTANCE Routing WITH
  Bindings <- {To("a"), [To("b") EXCEPT !.account = ""], [To("ghost") EXCEPT !.guild = "G"],
               [To("b") EXCEPT !.peer = Group("g")],
               [To("a") EXCEPT !.peer = Group("g"), !.thread = "*"],
               [To("b") EXCEPT !.peer = Group("g"), !.thread = "t"],
               [To("a") EXCEPT !.team = "T"], [To("b") EXCEPT !.peer = Msg.peer, !.guild = "G"]},
  MaxBindings <- 3, Agents <- <<"a", "b">>, Preferred <- {"b"}, Scopes <- {"main"}, Links <- {{}},
  Messages <- {Msg, [Msg EXCEPT !.account = "work"], [Msg EXCEPT !.guild = "G", !.team = "T"],
               [Msg EXCEPT !.peer = Group("g")], [Msg EXCEPT !.peer = Unnamed, !.chat = <<"g">>, !.thread = "t"],
               [Msg EXCEPT !.peer = Group("g"), !.thread = "v", !.guild = "G"],
               [Msg EXCEPT !.peer = Group("h"), !.parent = Group("g"), !.team = "T"],
               [Msg EXCEPT !.channel = "fs"], [Msg EXCEPT !.explicit = <<"agent", "a", "main">>]},
  MaxMessages <- 1, cfg <- x1, seen <- x2
Conversations == INSTANCE Routing WITH
  Bindings <- {}, MaxBindings <- 0, Agents <- <<>>, Preferred <- {},
  Scopes <- {"main", "per-peer", "per-channel-peer", "per-account-channel-peer"},
  Links <- {{}, {<<"ann", <<"tg", "u">>>>, <<"ann", <<"v">>>>}, {<<"ann", <<"u">>>>},
            {<<"ann", <<"u">>>>, <<"bob", <<"u">>>>}, {<<"ann", <<"tg", "u">>>>, <<"bob", <<"u">>>>}},
  Messages <- {Msg, [Msg EXCEPT !.channel = "fs"], [Msg EXCEPT !.account = "work"],
               [Msg EXCEPT !.peer.id = <<>>], [Msg EXCEPT !.peer.id = <<>>, !.sender = <<"tg", "v">>],
               [Msg EXCEPT !.channel = "fs", !.peer.id = <<"v">>],
               [Msg EXCEPT !.peer = NoPeer], [Msg EXCEPT !.peer = Group("g")],
               [Msg EXCEPT !.peer = Unnamed, !.chat = <<"g">>, !.sender = <<"tg", "v">>],
               [Msg EXCEPT !.peer = Group("g"), !.thread = "t"], [Msg EXCEPT !.peer = Group("t")],
               [Msg EXCEPT !.channel = "system", !.origin = "tg", !.chat = <<"u">>, !.thread = "t"],
               [Msg EXCEPT !.channel = "system", !.origin = "cli"],
               [Msg EXCEPT !.explicit = <<"conv", "main">>], [Msg EXCEPT !.explicit = <<"old">>],
               [Msg EXCEPT !.channel = "cli", !.explicit = <<"old">>],
               [Msg EXCEPT !.quoted = <<"conv", "tg", "group", "g">>]},
  MaxMessages <- 2, cfg <- x1, seen <- x2

ASSUME Assumptions ==
  /\ Fallback!FallbackAssumption /\ Model!SessionModelAssumption
  /\ Output!ProcessAssumption /\ Sessions!ProcessAssumption
  /\ Batch!BatchAssumption /\ Mcp!McpAssumption /\ Jsonl!JsonlAssumption
  /\ Chat!IndicatorsAssumption /\ Split!SplitAssumption /\ Media!MediaAssumption
  /\ Vectors!MemoryAssumption /\ Words!MemoryAssumption /\ Audit!AuditAssumption
  /\ Prompt!PromptAssumption /\ Blocks!BlocksAssumption /\ Fetch!WebFetchAssumption
  /\ Search!SearchAssumption /\ Web!WebSearchAssumption /\ Telegram!IntakeAssumption /\ Feishu!IntakeAssumption /\ Sender!SendAssumption
  /\ Active!ActiveAssumption
  /\ Skills!RootsAssumption /\ Plan!PlanAssumption
  /\ Pruning!PruningAssumption /\ Wire!WireAssumption /\ Routes!RoutingAssumption /\ Conversations!RoutingAssumption
-----------------------------------------------------------------------------
\* From the n-th on, the variables stand for nothing, and keep.
Free11 == x11 = 0
Free10 == x10 = 0 /\ Free11
Free9 == x9 = 0 /\ Free10
Free8 == x8 = 0 /\ Free9
Free7 == x7 = 0 /\ Free8
Free6 == x6 = 0 /\ Free7
Free5 == x5 = 0 /\ Free6
Free3 == x3 = 0 /\ x4 = 0 /\ Free5
Timeless == now = 0

from10 == <<x10, x11>>
from9 == <<x9, from10>>
from8 == <<x8, from9>>
from7 == <<x7, from8>>
from6 == <<x6, from7>>
from5 == <<x5, from6>>
from3 == <<x3, x4, from5>>

Init ==
  \/ focus = "fallback" /\ Fallback!Init /\ Free3
  \/ focus = "model" /\ Model!Init /\ Free5
  \/ focus = "output" /\ Output!Init /\ Timeless /\ Free9
  \/ focus = "sessions" /\ Sessions!Init /\ Timeless /\ Free9
  \/ focus = "batch" /\ Batch!Init /\ Timeless /\ Free8
  \/ focus = "mcp" /\ Mcp!Init /\ Timeless /\ Free10
  \/ focus = "jsonl" /\ Jsonl!Init /\ Timeless /\ Free8
  \/ focus = "chat" /\ Chat!Init /\ Timeless
  \/ focus = "split" /\ Split!Init /\ Timeless /\ Free3
  \/ focus = "media" /\ Media!Init /\ Free8
  \/ focus = "vectors" /\ Vectors!Init /\ Free10
  \/ focus = "words" /\ Words!Init /\ Free10
  \/ focus = "audit" /\ Audit!Init /\ Free6
  \/ focus = "prompt" /\ Prompt!Init /\ Free7
  \/ focus = "blocks" /\ Blocks!Init /\ Timeless /\ Free3
  \/ focus = "fetch" /\ Fetch!Init /\ Free5
  \/ focus = "search" /\ Search!Init /\ Free5
  \/ focus = "web" /\ Web!Init /\ Timeless /\ x4 = 0 /\ Free5
  \/ focus = "telegram" /\ Telegram!Init /\ Timeless /\ Free6
  \/ focus = "feishu" /\ Feishu!Init /\ Timeless /\ Free6
  \/ focus = "sender" /\ Sender!Init /\ Timeless /\ Free6
  \/ focus = "active" /\ Active!Init /\ Timeless /\ Free7
  \/ focus = "skills" /\ Skills!Init /\ Timeless /\ Free3
  \/ focus = "plan" /\ Plan!Init /\ Timeless /\ Free8
  \/ focus = "wire" /\ Wire!Init /\ Timeless /\ Free6
  \/ focus = "pruning" /\ Pruning!Init /\ Timeless /\ Free3
  \/ focus = "routes" /\ Routes!Init /\ Timeless /\ Free3
  \/ focus = "conversations" /\ Conversations!Init /\ Timeless /\ Free3

Next ==
  \/ focus = "fallback" /\ Fallback!Next /\ UNCHANGED <<focus, from3>>
  \/ focus = "model" /\ Model!Next /\ UNCHANGED <<focus, from5>>
  \/ focus = "output" /\ Output!Next /\ UNCHANGED <<focus, now, from9>>
  \/ focus = "sessions" /\ Sessions!Next /\ UNCHANGED <<focus, now, from9>>
  \/ focus = "batch" /\ Batch!Next /\ UNCHANGED <<focus, now, from8>>
  \/ focus = "mcp" /\ Mcp!Next /\ UNCHANGED <<focus, now, from10>>
  \/ focus = "jsonl" /\ Jsonl!Next /\ UNCHANGED <<focus, now, from8>>
  \/ focus = "chat" /\ Chat!Next /\ UNCHANGED <<focus, now>>
  \/ focus = "split" /\ Split!Next /\ UNCHANGED <<focus, now, from3>>
  \/ focus = "media" /\ Media!Next /\ UNCHANGED <<focus, from8>>
  \/ focus = "vectors" /\ Vectors!Next /\ UNCHANGED <<focus, from10>>
  \/ focus = "words" /\ Words!Next /\ UNCHANGED <<focus, from10>>
  \/ focus = "audit" /\ Audit!Next /\ UNCHANGED <<focus, from6>>
  \/ focus = "prompt" /\ Prompt!Next /\ UNCHANGED <<focus, from7>>
  \/ focus = "blocks" /\ Blocks!Next /\ UNCHANGED <<focus, now, from3>>
  \/ focus = "fetch" /\ Fetch!Next /\ UNCHANGED <<focus, from5>>
  \/ focus = "search" /\ Search!Next /\ UNCHANGED <<focus, from5>>
  \/ focus = "web" /\ Web!Next /\ UNCHANGED <<focus, now, x4, from5>>
  \/ focus = "telegram" /\ Telegram!Next /\ UNCHANGED <<focus, now, from6>>
  \/ focus = "feishu" /\ Feishu!Next /\ UNCHANGED <<focus, now, from6>>
  \/ focus = "sender" /\ Sender!Next /\ UNCHANGED <<focus, now, from6>>
  \/ focus = "active" /\ Active!Next /\ UNCHANGED <<focus, now, from7>>
  \/ focus = "skills" /\ Skills!Next /\ UNCHANGED <<focus, now, from3>>
  \/ focus = "plan" /\ Plan!Next /\ UNCHANGED <<focus, now, from8>>
  \/ focus = "wire" /\ Wire!Next /\ UNCHANGED <<focus, now, from6>>
  \/ focus = "pruning" /\ Pruning!Next /\ UNCHANGED <<focus, now, from3>>
  \/ focus = "routes" /\ Routes!Next /\ UNCHANGED <<focus, now, from3>>
  \/ focus = "conversations" /\ Conversations!Next /\ UNCHANGED <<focus, now, from3>>

\* The fairness of each subsystem's FairSpec.
Fairness ==
  /\ \A c \in Callers : WF_vars(focus = "fallback" /\ Fallback!Step(c) /\ UNCHANGED <<focus, from3>>)
  /\ WF_vars(focus = "model" /\ Model!Step /\ UNCHANGED <<focus, from5>>)
  /\ WF_vars(focus = "batch" /\ Batch!Step /\ UNCHANGED <<focus, now, from8>>)
  /\ \A i \in {1, 2} :
       /\ WF_vars(focus = "sessions" /\ Sessions!Watch(i) /\ UNCHANGED <<focus, now, from9>>)
       /\ WF_vars(focus = "sessions" /\ Sessions!KillTree(i) /\ UNCHANGED <<focus, now, from9>>)
  /\ \A c \in Callers : WF_vars(focus = "mcp" /\ Mcp!CallStep(c) /\ UNCHANGED <<focus, now, from10>>)
  /\ \A a \in {"reload", "run"} : WF_vars(focus = "mcp" /\ Mcp!Close(a) /\ UNCHANGED <<focus, now, from10>>)
  /\ WF_vars(focus = "mcp" /\ Mcp!ReloadStep /\ UNCHANGED <<focus, now, from10>>)

Spec == Init /\ [][Next]_vars
FairSpec == Spec /\ Fairness
-----------------------------------------------------------------------------
\* The type invariants of all subsystems.
TypeOK ==
  /\ focus = "fallback" => Fallback!TypeOK
  /\ focus = "model" => Model!TypeOK
  /\ focus = "output" => Output!TypeOK
  /\ focus = "sessions" => Sessions!TypeOK
  /\ focus = "batch" => Batch!TypeOK
  /\ focus = "mcp" => Mcp!TypeOK
  /\ focus = "jsonl" => Jsonl!TypeOK
  /\ focus = "chat" => Chat!TypeOK
  /\ focus = "split" => Split!TypeOK
  /\ focus = "media" => Media!TypeOK
  /\ focus = "vectors" => Vectors!TypeOK
  /\ focus = "words" => Words!TypeOK
  /\ focus = "audit" => Audit!TypeOK
  /\ focus = "prompt" => Prompt!TypeOK
  /\ focus = "blocks" => Blocks!TypeOK
  /\ focus = "fetch" => Fetch!TypeOK
  /\ focus = "search" => Search!TypeOK
  /\ focus = "web" => Web!TypeOK
  /\ focus = "telegram" => Telegram!TypeOK
  /\ focus = "feishu" => Feishu!TypeOK
  /\ focus = "sender" => Sender!TypeOK
  /\ focus = "active" => Active!TypeOK
  /\ focus = "skills" => Skills!TypeOK
  /\ focus = "plan" => Plan!TypeOK
  /\ focus = "wire" => Wire!TypeOK
  /\ focus = "pruning" => Pruning!TypeOK
  /\ focus = "routes" => Routes!TypeOK
  /\ focus = "conversations" => Conversations!TypeOK

\* Only a success ends the cooldown of a provider early (cooldown.go).
BackoffStands == [][focus = "fallback" => Fallback!KeepsBackoff]_vars

\* A session is moved to another model only after the threshold of triggers in a
\* row (loop_model_downgrade.go); /approve executes the task that was left for it, once,
\* and what else is asked in plan mode runs with the order to plan (loop_commands.go).
ModesEarned ==
  /\ focus = "model" => Model!DowngradeEarned
  /\ focus = "plan" => Plan!ApprovedOnly

\* What is read of a command's output goes to one poll, and is lost to none
\* (shell_session.go).
OutputOnce == focus = "output" => Output!OutputOnce

\* A running session stays with the manager, and few of those that have ended do; and the
\* cache of skill searches keeps what was used last (registry.go).
Retention ==
  /\ focus = "sessions" => Sessions!Retention
  /\ focus = "search" => Search!LatestKept

\* A call that may not run in parallel runs alone, in its place in the order of the
\* response (toolcall_executor.go).
OneAtATime == focus = "batch" => Batch!OneAtATime

\* A reload or a stop of the agent loop leaves no connection open but the current
\* manager's (loop_mcp.go).
OneManagerOpen == focus = "mcp" => Mcp!OneManagerOpen

\* The append-only store returns what its completed operations keep, crashes or not
\* (pkg/memory/jsonl.go).
KeptAreReturned == focus = "jsonl" => Jsonl!KeptAreReturned

\* No two answers edit one placeholder (manager.go), and an answer with files is sent as a
\* whole (telegram.go, feishu_media.go).
AnswersStay ==
  /\ focus = "chat" => Chat!AnswersStay
  /\ focus = "sender" => Sender!SentAsAWhole

\* Chunks fit the channel, and the splitting of a message whose header lines are short
\* ends (manager.go); the blocks of the memory keep what they must within their limits
\* (memory_blocks.go).
LimitsKept ==
  [][/\ focus = "split" => Split!Fits
     /\ focus = "blocks" => Blocks!Guarded]_vars

\* Files on disk, references and scopes agree (pkg/media/store.go).
FilesFollowRefs == focus = "media" => Media!FilesFollowRefs

\* A search of the memory answers from the file as it is (memory_vector.go,
\* memory_fts.go), the cached prompt says what its files do (context.go), and a cached
\* page is not too old (web_fetch.go); a search for skills finds the best of them, and the
\* list of the skills has each once (registry.go).
AnswersCurrent ==
  /\ focus = "vectors" => Vectors!AnswersCurrent
  /\ focus = "words" => Words!AnswersCurrent
  /\ focus = "prompt" => Prompt!PromptCurrent
  /\ focus = "fetch" => Fetch!FetchedOnce
  /\ focus = "search" => Search!BestOfAll
  /\ focus = "web" => Web!EvidenceTold
  /\ focus = "skills" => Skills!ListedOnce

\* The audit log keeps its latest part (auditlog.go).
AuditTail == focus = "audit" => Audit!AuditTail

\* A message goes to the agent of the strongest binding, and into the bucket of its
\* session, which is that of its conversation alone (route.go, session_key.go); a chat
\* platform's message is heard as it was meant (telegram.go, feishu_64.go); what is written
\* unasked goes where a run was last (pipeline_notify.go, console_notify.go).
RoutedRight ==
  /\ focus = "routes" => Routes!RoutesByPriority
  /\ focus = "conversations" => Conversations!BucketServesSession /\ Conversations!ConversationsApart
  /\ focus = "telegram" => Telegram!HeardAsMeant
  /\ focus = "feishu" => Feishu!HeardAsMeant
  /\ focus = "active" => Active!ToldWhereActive

\* Pruning a history for a request keeps it a transcript, and keeps what counts
\* (context.go); and the clients of the providers write of its calls what was executed
\* (codex_provider.go, antigravity_request.go, openai_compat/provider.go).
RequestsKeep ==
  /\ focus = "pruning" => Pruning!PruningKeeps
  /\ focus = "wire" => Wire!RequestsTell

\* The work of a subsystem, in two parts where there are two; and its end.
Working(n) ==
  \/ focus = "fallback" /\ ~Fallback!AtPc(IF n = 1 THEN "a" ELSE "b", "idle")
  \/ focus = "sessions" /\ x1[n].kill
  \/ n = 1 /\ (\/ focus = "model" /\ x3.pc # "idle"
               \/ focus = "batch"
               \/ focus = "mcp" /\ x8.pc # "idle")
  \/ n = 2 /\ focus = "mcp" /\ x9["run"].pc # "idle"
Ended(n) ==
  \/ focus = "fallback" /\ Fallback!AtPc(IF n = 1 THEN "a" ELSE "b", "idle")
  \/ focus = "sessions" /\ Sessions!Terminal(n)
  \/ n = 1 /\ (\/ focus = "model" /\ x3.pc = "idle"
               \/ focus = "batch" /\ Batch!AllDone
               \/ focus = "mcp" /\ x8.pc = "idle")
  \/ n = 2 /\ focus = "mcp" /\ x9["run"].pc = "done"

\* What begins ends: the calls of the fallback chain, those of a run with their
\* retries and downgrades, and the tool calls of a response; a session that is
\* killed (shell_session_ops.go); and the reload and the stop of the agent loop,
\* for which Close waits for no call that is gone (pkg/mcp/manager.go).
WorkEnds == \A n \in {1, 2} : Working(n) ~> Ended(n)
=============================================================================
