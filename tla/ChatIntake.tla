------------------------------- MODULE ChatIntake -------------------------------
(***************************************************************************)
(* What becomes of a message of a chat platform on its way to the agent:   *)
(* handleMessage (channels/telegram), handleMessageReceive                 *)
(* (channels/feishu), the filters of BaseChannel (channels/manager.go) and *)
(* the import of its files (agent/pipeline_media.go).  The libraries of    *)
(* the platforms handle each update in a goroutine of its own.             *)
(*                                                                         *)
(* A text is a sequence of tokens: "bot", "other" and "tenth" mention the  *)
(* bot and two others; Feishu's key of the tenth begins with the bot's.    *)
(* "emoji" is a rune of two UTF-16 units, "prefix" a configured prefix,    *)
(* "command" a command, and "show" one that Telegram's handler answers.    *)
(***************************************************************************)
EXTENDS Integers, SequencesExt

CONSTANTS Platform,     \* "telegram" or "feishu"
          Configs,      \* [allow, trigger, store: whether there is a media store]
          Arrivals,     \* what may arrive: sequences of messages
          MaxFiles      \* maxFiles

Tokens == {"bot", "other", "tenth", "zero", "emoji", "prefix", "command", "show", "word", "image", "tag", "hint", "unknown", "empty"}
Triggers == [mentionOnly : BOOLEAN, prefixes : BOOLEAN, mentionless : BOOLEAN, bypass : BOOLEAN]
IntakeAssumption ==
  /\ Platform \in {"telegram", "feishu"} /\ MaxFiles \in Nat \ {0}
  /\ \A config \in Configs : config.trigger \in Triggers
  /\ \A arrival \in Arrivals : \A i \in DOMAIN arrival : ToSet(arrival[i].text) \subseteq Tokens

VARIABLES
  cfg, arrival,
  channel,     \* [running, botKnown, crashed]
  handler,     \* of the i-th message: [pc, content, refs]
  published    \* the messages on the bus, in order, as [by, content, refs]

vars == <<cfg, arrival, channel, handler, published>>

Idle == [pc |-> "idle", content |-> <<>>, refs |-> <<>>, imported |-> 0, skipped |-> 0]
Handlers == DOMAIN arrival
Msg(h) == arrival[h]
At(h, pc) == h \in Handlers /\ handler[h].pc = pc /\ ~channel.crashed
Goes(h, pc) == handler' = [handler EXCEPT ![h].pc = pc]

\* identity.MatchAllowed: an entry with a platform is a canonical id; one without is an id,
\* a name, or both.
MatchAllowed(sender, entry) ==
  IF entry.platform # "" THEN entry.platform = Platform /\ entry.id = sender.id
  ELSE \/ sender.id = entry.id
       \/ sender.name # "" /\ sender.name \in (IF entry.user = "" THEN {entry.id} ELSE {entry.user})
IsAllowedSender(sender) == cfg.allow = {} \/ \E entry \in cfg.allow : MatchAllowed(sender, entry)

Init ==
  /\ cfg \in Configs /\ arrival \in Arrivals
  /\ channel = [running |-> FALSE, botKnown |-> FALSE, crashed |-> FALSE]
  /\ handler = [h \in Handlers |-> Idle]
  /\ published = <<>>
-----------------------------------------------------------------------------
\* Telegram knows the name of its bot.  Feishu asks for the id of its bot once, and goes on
\* without it.
Starts(known) ==
  /\ ~channel.running /\ ~channel.crashed /\ \A h \in Handlers : At(h, "idle")
  /\ channel' = [channel EXCEPT !.running = TRUE, !.botKnown = known]
  /\ UNCHANGED <<cfg, arrival, handler, published>>
StartTelegram == Platform = "telegram" /\ Starts(TRUE)
FetchedBot == BOOLEAN
StartFeishu == Platform = "feishu" /\ \E known \in FetchedBot : Starts(known)
Stop ==
  /\ channel.running /\ ~channel.crashed
  /\ channel' = [channel EXCEPT !.running = FALSE]
  /\ UNCHANGED <<cfg, arrival, handler, published>>

\* The messages arrive in order; Telegram's handlers of commands come first, and answer
\* themselves.
IsCommand(m) == Platform = "telegram" /\ m.text # <<>> /\ m.text[1] = "show"
Receive(h) ==
  /\ channel.running /\ At(h, "idle") /\ \A g \in 1 .. h - 1 : ~At(g, "idle")
  /\ Goes(h, IF IsCommand(Msg(h)) THEN "command"
             ELSE IF ~IsAllowedSender(Msg(h).sender) THEN "dropped"
             ELSE IF Platform = "telegram" THEN "note" ELSE "download")
  /\ UNCHANGED <<cfg, arrival, channel, published>>

\* Help, Start, Show and List send their answer past the bus and the agent.
Command(h) ==
  /\ At(h, "command") /\ Goes(h, "answered")
  /\ UNCHANGED <<cfg, arrival, channel, published>>

\* chatIDs is written without a lock: two writes at once may end the process.
Note(h) ==
  /\ At(h, "note") /\ Goes(h, "noting")
  /\ UNCHANGED <<cfg, arrival, channel, published>>
Noted(h) ==
  /\ At(h, "noting")
  /\ \/ Goes(h, "download") /\ channel' = channel
     \/ /\ \E g \in Handlers \ {h} : At(g, "noting")
        /\ channel' = [channel EXCEPT !.crashed = TRUE] /\ handler' = handler
  /\ UNCHANGED <<cfg, arrival, published>>

\* The files that can be had, one after the other, go into the store; without one Telegram
\* keeps their paths, and Feishu asks for none.  Nor does it for the images of a rich text.
Subsequences(n) == {SelectSeq([i \in 1 .. n |-> i], LAMBDA i : i \in had) : had \in SUBSET (1 .. n)}
Downloaded(m) == Subsequences(Len(m.files))
DownloadedMedia(m) == IF cfg.store /\ m.kind # "post" THEN Subsequences(Len(m.files)) ELSE {<<>>}
Download(h) ==
  /\ At(h, "download")
  /\ \E refs \in IF Platform = "telegram" THEN Downloaded(Msg(h)) ELSE DownloadedMedia(Msg(h)) :
       handler' = [handler EXCEPT ![h].pc = "decide", ![h].refs = refs]
  /\ UNCHANGED <<cfg, arrival, channel, published>>

\* What the message says, with a tag for each file, and for Feishu a hint where the file is
\* missing.
OrEmpty(content) == IF content = <<>> THEN <<"empty">> ELSE content
TelegramContent(h) == OrEmpty(Msg(h).text \o [i \in DOMAIN handler[h].refs |-> "tag"])
PostContent(m) == SelectSeq(m.text, LAMBDA t : t # "unknown")
FeishuText(m) == IF m.kind = "post" THEN PostContent(m) ELSE m.text
MediaTag(text, refs) == IF refs = <<>> THEN text ELSE Append(text, "tag")
FeishuContent(h) ==
  LET refs == handler[h].refs
      tagged == MediaTag(FeishuText(Msg(h)), refs) IN
  OrEmpty(IF cfg.store /\ Msg(h).kind = "file" /\ refs = <<>> THEN Append(tagged, "hint") ELSE tagged)

\* Telegram finds mentions by offsets in UTF-16 units, in a text of runes.
Mentioned(m) == \E i \in DOMAIN m.text : m.text[i] = "bot" /\ \A j \in 1 .. i - 1 : m.text[j] # "emoji"
Stripped(content) == SelectSeq(content, LAMBDA t : t # "bot")
TelegramTrigger(m, content) ==
  IF Mentioned(m) THEN [mentioned |-> TRUE, content |-> Stripped(content)]
  ELSE [mentioned |-> FALSE, content |-> content]

\* Feishu: the keys of the bot are cut out of the text, wherever they are; without its id,
\* those of all at its beginning.  Other mentions become names.
Mentions == {"bot", "other", "tenth"}
Misread(m, content) ==
  [i \in DOMAIN content |-> IF content[i] = "tenth" /\ Contains(m.text, "bot") THEN "zero" ELSE content[i]]
AfterLeading(content) ==
  LET others == {i \in DOMAIN content : content[i] \notin Mentions} IN
  IF others = {} THEN <<>> ELSE SubSeq(content, CHOOSE i \in others : \A j \in others : i <= j, Len(content))
CleanText(m, content) ==
  IF ~channel.botKnown
  THEN [mentioned |-> content[1] \in Mentions, content |-> AfterLeading(Misread(m, content))]
  ELSE [mentioned |-> Contains(m.text, "bot"), content |-> Stripped(Misread(m, content))]
DetectOther(m, content) ==
  [mentioned |-> IF channel.botKnown THEN Contains(m.text, "bot") ELSE ToSet(m.text) \cap Mentions # {},
   content |-> content]
FeishuTrigger(m, content) == IF m.kind = "text" THEN CleanText(m, content) ELSE DetectOther(m, content)

\* BaseChannel.ShouldRespondInGroup.
Begins(content, token) == content # <<>> /\ content[1] = token
\* Mutant: prefixes count before mention_only.
RespondByPrefix(mentioned, content) ==
  IF mentioned \/ (cfg.trigger.bypass /\ Begins(content, "command")) THEN [respond |-> TRUE, content |-> content]
  ELSE IF cfg.trigger.prefixes /\ Begins(content, "prefix") THEN [respond |-> TRUE, content |-> Tail(content)]
  ELSE [respond |-> ~cfg.trigger.mentionOnly /\ cfg.trigger.mentionless, content |-> content]
ShouldRespondInGroup(mentioned, content) ==
  IF mentioned \/ (cfg.trigger.bypass /\ Begins(content, "command")) THEN [respond |-> TRUE, content |-> content]
  ELSE IF cfg.trigger.mentionOnly THEN [respond |-> FALSE, content |-> content]
  ELSE IF cfg.trigger.prefixes
       THEN IF Begins(content, "prefix") THEN [respond |-> TRUE, content |-> Tail(content)]
            ELSE [respond |-> FALSE, content |-> content]
  ELSE [respond |-> cfg.trigger.mentionless, content |-> content]

Decide(h) ==
  LET m == Msg(h)
      content == IF Platform = "telegram" THEN TelegramContent(h) ELSE FeishuContent(h)
      found == IF Platform = "telegram" THEN TelegramTrigger(m, content) ELSE FeishuTrigger(m, content)
      group == ShouldRespondInGroup(found.mentioned, found.content) IN
  /\ At(h, "decide")
  /\ handler' = [handler EXCEPT ![h].pc = IF m.group /\ ~group.respond THEN "dropped" ELSE "publish",
                                ![h].content = IF m.group THEN group.content ELSE content]
  /\ UNCHANGED <<cfg, arrival, channel, published>>

\* BaseChannel.HandleMessage looks at the sender again; a stop ends the wait for the bus.
HandleMessage(h) ==
  /\ At(h, "publish")
  /\ \/ /\ IsAllowedSender(Msg(h).sender)
        /\ Goes(h, "published")
        /\ published' = Append(published, [by |-> h, content |-> handler[h].content, refs |-> handler[h].refs])
     \/ /\ ~IsAllowedSender(Msg(h).sender) \/ ~channel.running
        /\ Goes(h, "dropped") /\ published' = published
  /\ UNCHANGED <<cfg, arrival, channel>>

\* The agent copies what it can of the files into its workspace, and counts the others.
Imported(refs, here) ==
  FoldLeft(LAMBDA r, ref :
             IF r.full THEN r
             ELSE IF r.imported >= MaxFiles THEN [r EXCEPT !.full = TRUE, !.skipped = @ + Len(refs) - r.imported]
             ELSE IF ref \in here THEN [r EXCEPT !.imported = @ + 1]
             ELSE [r EXCEPT !.skipped = @ + 1],
           [imported |-> 0, skipped |-> 0, full |-> FALSE], refs)
Import(h) ==
  /\ At(h, "published")
  /\ \E here \in SUBSET ToSet(handler[h].refs) :
       LET r == Imported(handler[h].refs, here) IN
       handler' = [handler EXCEPT ![h].pc = "imported", ![h].imported = r.imported, ![h].skipped = r.skipped]
  /\ UNCHANGED <<cfg, arrival, channel, published>>

Next ==
  \/ StartTelegram \/ StartFeishu \/ Stop
  \/ \E h \in Handlers :
       Receive(h) \/ Command(h) \/ Note(h) \/ Noted(h) \/ Download(h) \/ Decide(h) \/ HandleMessage(h) \/ Import(h)

Spec == Init /\ [][Next]_vars
-----------------------------------------------------------------------------
TypeOK ==
  /\ cfg \in Configs /\ arrival \in Arrivals
  /\ channel \in [running : BOOLEAN, botKnown : BOOLEAN, crashed : BOOLEAN]
  /\ handler \in [Handlers ->
       [pc : {"idle", "command", "answered", "dropped", "note", "noting", "download", "decide", "publish", "published", "imported"},
        content : Seq(Tokens), refs : Seq(Nat), imported : Nat, skipped : Nat]]
  /\ published \in Seq([by : Handlers, content : Seq(Tokens), refs : Seq(Nat)])

\* What the channel is told to answer: in a group, what names the bot or is a command, and
\* else, unless only mentions count, what begins as configured, or anything.
Meant(h) ==
  LET m == Msg(h)
      named == IF Platform = "feishu" /\ ~channel.botKnown
               THEN IF m.kind = "text" THEN m.text # <<>> /\ m.text[1] \in Mentions ELSE ToSet(m.text) \cap Mentions # {}
               ELSE Contains(m.text, "bot") IN
  \/ ~m.group \/ named
  \/ cfg.trigger.bypass /\ Begins(m.text, "command")
  \/ /\ ~cfg.trigger.mentionOnly
     /\ IF cfg.trigger.prefixes THEN Begins(m.text, "prefix") ELSE cfg.trigger.mentionless

\* Whoever may write is heard when they mean the bot, and nobody else is, whatever their
\* files do; the prefix and the mention of the bot are cut, and nothing else; and the agent
\* learns of every file that it has not got (telegram.go 451-607, feishu_64.go 294-401,
\* manager.go 257-295, pipeline_media.go 40-115).  Texts that Telegram and Feishu misread
\* are below.
HeardAsMeant ==
  \A h \in Handlers :
    LET m == Msg(h)
        plain == ~Contains(m.text, "emoji") /\ ~Contains(m.text, "tenth") IN
    /\ At(h, "published") \/ At(h, "imported") => IsAllowedSender(m.sender) /\ (plain => Meant(h))
    /\ At(h, "dropped") /\ channel.running /\ plain => ~IsAllowedSender(m.sender) \/ ~Meant(h)
    /\ At(h, "published") /\ plain =>
         ToSet(m.text) \ {"unknown"} \subseteq ToSet(handler[h].content) \cup {"bot", "prefix"}
                           \cup (IF channel.botKnown THEN {} ELSE Mentions)
    /\ At(h, "imported") => (handler[h].imported < Len(handler[h].refs) <=> handler[h].skipped > 0)

\* Refuted, in the order of the lines.  Two updates at once may end the process (telegram.go
\* 479); a mention after an emoji is not seen (telegram.go 797-801); a message may overtake
\* another of its chat, whose files take longer (telegram.go 451); a bare mention of the bot
\* is published as an empty text (telegram.go 559-573); the key of the bot is cut out of
\* that of the tenth who is mentioned (feishu_format.go 262); the images of a rich text are
\* not among the files (feishu_format.go 569, feishu_media.go 106); a stop of the count at
\* the limit counts what was skipped before twice (pipeline_media.go 64).
NeverCrashes == ~channel.crashed
EmojiHeard == \A h \in Handlers : At(h, "dropped") /\ channel.running => ~IsAllowedSender(Msg(h).sender) \/ ~Meant(h)
InOrder == \A i, j \in DOMAIN published : i < j => published[i].by < published[j].by
NeverEmpty == \A i \in DOMAIN published : published[i].content # <<>>
TenthKept == \A i \in DOMAIN published : Contains(Msg(published[i].by).text, "tenth") => Contains(published[i].content, "tenth")
ImagesCome == \A i \in DOMAIN published : Contains(published[i].content, "image") => published[i].refs # <<>>
SkippedOnce == \A h \in Handlers : At(h, "imported") => handler[h].imported + handler[h].skipped = Len(handler[h].refs)
================================================================================
