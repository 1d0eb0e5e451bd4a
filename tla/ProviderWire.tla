------------------------------ MODULE ProviderWire ------------------------------
(***************************************************************************)
(* The clients of the model providers (pkg/providers): how each reads the  *)
(* tool calls of a response, and writes the transcript of a run into its   *)
(* next request.  By a fallback or an override a run may go from one       *)
(* client to another, and its history may come from an earlier process:    *)
(* so that the calls which one has read are written by another, from       *)
(* memory or from disk, where a call has lost its Name and Arguments.      *)
(* What a call is about is kept twice: as a name and an object, and as     *)
(* the Function of the protocol, with a text in place of the object.       *)
(***************************************************************************)
EXTENDS Integers, Sequences, SequencesExt, FiniteSets

CONSTANTS Configured, \* models: [protocol, login (an auth_method), stored (a credential), key, local]
          Names,      \* of tools
          Objects,    \* arguments of a call that are an object
          Unbalanced, \* those whose strings hold single braces
          MaxCalls,   \* bound on the calls of a behaviour
          MaxRuns,    \* and on its runs
          LoopAfter   \* calls alike in a row that make a loop

None == "{}"          \* no arguments, or an empty object
Bad == "bad"          \* a text that is no object
Raw == "raw"          \* the object that holds such a text
CommandLines == {"claude-cli", "codex-cli"}

\* CreateProviderFromConfig: the client of a model, or none.  Most models have that of openai,
\* and need a key, but for a server of one's own.
NeedsKey(m) == ~(m.protocol \in {"litellm", "ollama", "vllm"} /\ m.local)
ClientOf(m) ==
  IF m.protocol \in CommandLines \cup {"antigravity", "copilot"} THEN m.protocol
  ELSE IF m.login /\ m.protocol \in {"openai", "anthropic"} THEN
    IF ~m.stored THEN "none" ELSE IF m.protocol = "openai" THEN "codex" ELSE "anthropic"
  ELSE IF m.key \/ ~NeedsKey(m) THEN "openai" ELSE "none"
Kinds == {ClientOf(m) : m \in Configured} \ {"none"}

WireAssumption ==
  /\ \A m \in Configured : {m.login, m.stored, m.key, m.local} \subseteq BOOLEAN
  /\ Unbalanced \subseteq Objects /\ MaxRuns \in Nat
  /\ {None, Bad, Raw, ""} \cap Objects = {} /\ "" \notin Names /\ MaxCalls \in Nat /\ LoopAfter \in Nat \ {0}

VARIABLES
  history,   \* of the session
  messages,  \* the transcript of the run, without the prompt
  running,   \* whether there is a run
  ran,       \* history variable: the calls so far, as they were normalized for the tools
  recent     \* recentToolCalls of the run

vars == <<history, messages, running, ran, recent>>

NoFunction == [name |-> "", text |-> "", sig |-> FALSE]
User == [role |-> "user", text |-> TRUE, calls |-> <<>>, id |-> 0]
Assistant(text, calls) == [User EXCEPT !.role = "assistant", !.text = text, !.calls = calls]
Result(id) == [User EXCEPT !.role = "tool", !.id = id]

\* A call of a response, as the client of its kind reads it: [name, text, sig] is what the
\* model said, with a thought signature where sig is set.
Decoded(kind, text) ==
  CASE text = "" -> IF kind = "openai" THEN None ELSE Raw
    [] text = Bad -> Raw
    [] OTHER -> text
ReadCall(kind, said, id) ==
  [id |-> id, name |-> said.name, args |-> Decoded(kind, said.text), fn |-> NoFunction, extra |-> FALSE]
ReadOpenAI(said, id) == [ReadCall("openai", said, id) EXCEPT !.extra = said.sig]
ReadAntigravity(said, id) ==
  [ReadCall("antigravity", said, id) EXCEPT !.fn = [name |-> said.name, text |-> said.text, sig |-> said.sig]]
ReadCommandLine(said, id) ==
  [ReadCall("codex-cli", said, id) EXCEPT
     !.args = IF said.text \in {"", Bad} THEN None ELSE said.text,
     !.fn = [name |-> said.name, text |-> said.text, sig |-> FALSE]]

\* A command line gives its calls in its text, which is searched for the brace that matches,
\* those in strings too.
Extracts(kind, response) == kind \in CommandLines => \A i \in DOMAIN response : response[i].text \notin Unbalanced
Read(kind, response, first) ==
  IF kind = "copilot" \/ ~Extracts(kind, response) THEN <<>>
  ELSE [i \in DOMAIN response |->
          CASE kind = "openai" -> ReadOpenAI(response[i], first + i)
            [] kind = "antigravity" -> ReadAntigravity(response[i], first + i)
            [] kind \in CommandLines -> ReadCommandLine(response[i], first + i)
            [] OTHER -> ReadCall(kind, response[i], first + i)]

\* NormalizeToolCall, before the tools are called.
Parsed(text) == IF text \in {"", Bad} THEN None ELSE text
Normalized(call) ==
  LET name == IF call.name = "" THEN call.fn.name ELSE call.name
      args == IF call.args = None THEN Parsed(call.fn.text) ELSE call.args
  IN [call EXCEPT !.name = name, !.args = args,
        !.fn = [@ EXCEPT !.name = IF @ = "" THEN name ELSE @, !.text = IF @ = "" THEN args ELSE @]]

\* The call as the transcript keeps it, as it does when it ends a loop, and as it comes back
\* from the disk.
Kept(call) ==
  [call EXCEPT !.args = None, !.fn = [name |-> call.name, text |-> call.args, sig |-> @.sig]]
Looped(call) == [Kept(call) EXCEPT !.fn.sig = FALSE, !.extra = FALSE]
\* Mutant: the function is internal, too.
LoadedBare(call) == [call EXCEPT !.name = "", !.args = None, !.fn = NoFunction]
Loaded(call) == [call EXCEPT !.name = "", !.args = None]
-----------------------------------------------------------------------------
Item(kind, id, name, args, sig) == [item |-> kind, id |-> id, name |-> name, args |-> args, sig |-> sig]
TextItem(role) == Item(role, 0, "", None, FALSE)
ResultItem(id) == Item("result", id, "", None, FALSE)

\* How the clients write a call: openai_compat as it is in the transcript, anthropic by its
\* name and object alone; the others look at both places, and leave out a call without name.
WriteFunction(call) == <<Item("call", call.id, call.fn.name, call.fn.text, call.extra)>>
WriteObject(call) == <<Item("call", call.id, call.name, call.args, FALSE)>>
WriteResolved(call, sig) ==
  LET name == IF call.name = "" THEN call.fn.name ELSE call.name
      args == IF call.args # None \/ call.fn.text = "" THEN call.args ELSE call.fn.text
  IN IF name = "" THEN <<>> ELSE <<Item("call", call.id, name, args, sig)>>
WriteCall(kind, call) ==
  CASE kind = "openai" -> WriteFunction(call)
    [] kind = "anthropic" -> WriteObject(call)
    [] kind = "codex" -> WriteResolved(call, FALSE)
    [] kind = "antigravity" -> WriteResolved(call, call.fn.sig)
    [] OTHER -> <<>>

WriteMessage(kind, m) ==
  IF m.role = "tool" THEN <<ResultItem(m.id)>>
  ELSE (IF m.text \/ m.calls = <<>> THEN <<TextItem(m.role)>> ELSE <<>>)
         \o FlattenSeq([i \in DOMAIN m.calls |-> WriteCall(kind, m.calls[i])])

\* buildParams, serializeMessages, buildCodexParams, buildRequest, formatConversationParts.
Request(kind, transcript) == FlattenSeq([i \in DOMAIN transcript |-> WriteMessage(kind, transcript[i])])
-----------------------------------------------------------------------------
Begin ==
  /\ ~running /\ running' = TRUE
  /\ history' = Append(history, User) /\ messages' = history'
  /\ recent' = <<>>
  /\ UNCHANGED ran

\* What becomes of an exchange: it fails without a token or the service, and where the service
\* refuses; and by client, when the stream ends early, or the response says nothing.  The codex
\* command line may fail, and its answer counts yet.
ChatOpenAI(x) == x.sent /\ x.accepted
ChatAnthropic(x) == x.sent /\ x.accepted
ChatCodex(x) == x.sent /\ x.accepted /\ x.completed
ChatAntigravity(x) == x.sent /\ x.accepted /\ (x.text \/ x.calls # <<>>)
ChatClaudeCLI(x) == x.sent /\ x.accepted /\ x.completed
ChatCodexCLI(x) == x.sent /\ (x.accepted \/ x.text \/ x.calls # <<>>)
ChatCopilot(x) == x.sent /\ x.accepted /\ x.text
Chat(kind, x) ==
  CASE kind = "openai" -> ChatOpenAI(x)
    [] kind = "anthropic" -> ChatAnthropic(x)
    [] kind = "codex" -> ChatCodex(x)
    [] kind = "antigravity" -> ChatAntigravity(x)
    [] kind = "claude-cli" -> ChatClaudeCLI(x)
    [] kind = "codex-cli" -> ChatCodexCLI(x)
    [] kind = "copilot" -> ChatCopilot(x)

\* The run goes on with the results of the calls; and a response without calls, or with none
\* that its client reads, is its answer.
AsGiven(calls) == [i \in DOMAIN calls |-> [id |-> calls[i].id, name |-> calls[i].name, args |-> calls[i].args,
                                           extra |-> calls[i].extra, sig |-> calls[i].fn.sig]]
Signature(call) == [name |-> call.name, args |-> call.args]
Alike(call) == Len(recent) - SelectLastInSeq(recent, LAMBDA r : r # Signature(call))
Loops(calls) == \E i \in DOMAIN calls : Alike(calls[i]) >= LoopAfter
Turn(calls, text, loops) ==
  <<Assistant(text, [i \in DOMAIN calls |-> IF loops THEN Looped(calls[i]) ELSE Kept(calls[i])])>>
    \o [i \in DOMAIN calls |-> Result(calls[i].id)]
Respond(kind, x) ==
  LET read == Read(kind, x.calls, Len(ran))
      calls == [i \in DOMAIN read |-> Normalized(read[i])]
      loops == Loops(calls)
      turn == Turn(calls, x.text, loops)
  IN /\ running /\ Chat(kind, x) /\ calls # <<>> /\ Len(ran) + Len(calls) <= MaxCalls
     /\ messages' = messages \o turn
     /\ history' = IF loops THEN history ELSE history \o turn
     /\ ran' = ran \o AsGiven(calls)
     /\ recent' = IF loops THEN recent ELSE recent \o [i \in DOMAIN calls |-> Signature(calls[i])]
     /\ UNCHANGED running
Answer(kind, x) ==
  /\ running /\ Chat(kind, x) /\ Read(kind, x.calls, 0) = <<>>
  /\ running' = FALSE
  /\ history' = Append(history, Assistant(TRUE, <<>>)) /\ messages' = history'
  /\ UNCHANGED <<ran, recent>>
Fail(kind, x) ==
  /\ running /\ ~Chat(kind, x)
  /\ running' = FALSE /\ messages' = history
  /\ UNCHANGED <<history, ran, recent>>

Restart ==
  /\ running' = FALSE
  /\ history' = [i \in DOMAIN history |->
                   [history[i] EXCEPT !.calls = [j \in DOMAIN @ |-> Loaded(@[j])]]]
  /\ messages' = history'
  /\ recent' = <<>>
  /\ UNCHANGED ran
-----------------------------------------------------------------------------
\* What a model may say: its interface gives objects to anthropic and antigravity, and thought
\* signatures to the two that know them.
Said(kind) ==
  [name : Names, text : Objects \cup (IF kind \in {"anthropic", "antigravity"} THEN {} ELSE {"", Bad}),
   sig : IF kind \in {"openai", "antigravity"} THEN BOOLEAN ELSE {FALSE}]
Responses(kind) == {<<>>} \cup {<<c>> : c \in Said(kind)} \cup {<<c, d>> : c, d \in Said(kind)}
Exchange(sent, accepted, completed, text, calls) ==
  [sent |-> sent, accepted |-> accepted, completed |-> completed, text |-> text, calls |-> calls]
Exchanges(kind) ==
  {Exchange(TRUE, TRUE, TRUE, text, calls) : text \in BOOLEAN, calls \in Responses(kind)}
    \cup {Exchange(sent, accepted, completed, FALSE, <<>>) : sent, accepted, completed \in BOOLEAN}
    \cup {Exchange(TRUE, FALSE, TRUE, TRUE, <<c>>) : c \in Said(kind)}

Init == history = <<>> /\ messages = <<>> /\ running = FALSE /\ ran = <<>> /\ recent = <<>>

Next ==
  \/ Begin /\ Len(SelectSeq(history, LAMBDA m : m.role = "user")) < MaxRuns
  \/ \E kind \in Kinds : \E x \in Exchanges(kind) : Respond(kind, x) \/ Answer(kind, x) \/ Fail(kind, x)
  \/ Restart

Spec == Init /\ [][Next]_vars
-----------------------------------------------------------------------------
TypeOK ==
  /\ running \in BOOLEAN
  /\ \A i \in DOMAIN ran : ran[i].id = i /\ ran[i].name \in Names /\ ran[i].args \in Objects \cup {None, Raw}
  /\ \A t \in {history, messages} : \A i \in DOMAIN t :
       /\ t[i].role \in {"user", "assistant", "tool"}
       /\ t[i].id \in 0 .. Len(ran)
       /\ \A j \in DOMAIN t[i].calls : t[i].calls[j].id \in DOMAIN ran

\* The clients that write both forms say of every call what the tools were given, and its
\* result after it: whichever client had read it, and from memory or from disk.  Those of a
\* kind get their thought signatures back, but for calls that ended a loop.
Told(m, withSig(_)) ==
  IF m.role = "tool" THEN <<ResultItem(m.id)>>
  ELSE (IF m.text \/ m.calls = <<>> THEN <<TextItem(m.role)>> ELSE <<>>)
         \o [i \in DOMAIN m.calls |-> LET r == ran[m.calls[i].id]
                                      IN Item("call", r.id, r.name, r.args, withSig(r))]
RequestsTell ==
  LET Tells(transcript, kind, withSig(_)) ==
        Request(kind, transcript) = FlattenSeq([i \in DOMAIN transcript |-> Told(transcript[i], withSig)])
  IN /\ Tells(history, "openai", LAMBDA r : r.extra)
     /\ Tells(history, "antigravity", LAMBDA r : r.sig)
     /\ Tells(messages, "codex", LAMBDA r : FALSE)
     /\ \A kind \in {"openai", "antigravity"} :
          LET Bare(items) == [i \in DOMAIN items |-> [items[i] EXCEPT !.sig = FALSE]]
          IN Bare(Request(kind, messages)) = Request("codex", messages)

\* The same of anthropic.  It is not so: it writes an object that the transcript never has,
\* and a name that a stored call has no more.
ObjectsTell ==
  LET Called(kind) == SelectSeq(Request(kind, messages), LAMBDA i : i.item = "call")
  IN Called("anthropic") = [i \in DOMAIN Called("openai") |-> [Called("openai")[i] EXCEPT !.sig = FALSE]]

\* All the calls that a model gave are read.  It is not so of a command line's with a brace in a
\* string, which the user is shown instead.
CallsRead == \A kind \in Kinds \ {"copilot"} : \A response \in Responses(kind) :
               Len(Read(kind, response, 0)) = Len(response)
=============================================================================
