------------------------------- MODULE LastActive -------------------------------
(***************************************************************************)
(* The conversation the workspace was last active in (pkg/state), which    *)
(* runs record (agent/pipeline_notify.go, agent/loop_activity.go), and     *)
(* those who write there unasked: the heartbeat (pkg/heartbeat, which has  *)
(* a copy of the state of its own), runs on an internal channel that tell  *)
(* that they are done, and /api/notify (pkg/httpapi/console_notify.go).    *)
(* A chat is a pair of a channel and a chat id; a run in the chat c of a   *)
(* user has the session c.                                                 *)
(***************************************************************************)
EXTENDS Naturals, FiniteSets

CONSTANTS Users,      \* the chats users write in
          Beatings,   \* the heartbeat's handler, the "gateway" one or one that answers,
                      \* and what its HEARTBEAT.md is at first
          Jobs,       \* the chats of the jobs of cron
          MaxBusy     \* bound on the runs at once

Nowhere == <<"", "">>
Internal == <<"cli", "direct">>
IsInternal(chat) == chat[1] \in {"cli", "system"}
Chats == Users \cup {c \in Jobs : ~IsInternal(c)}
ActiveAssumption == \A c \in Chats : c[1] # "" /\ c[2] # "" /\ ~IsInternal(c)

VARIABLES
  disk,    \* state/state.json, and the state.json of earlier versions
  state,   \* the state managers of the agent loop and of the heartbeat
  beat,    \* the heartbeat: its handler, its file, whether the service is started
  runs,    \* the run of every actor
  sent,    \* history: the message that the last step wrote unasked
  seen     \* history: the chats recorded so far

vars == <<disk, state, beat, runs, sent, seen>>

NoState == [chat |-> Nowhere, session |-> Nowhere]
Missing == [chat |-> <<"no", "file">>, session |-> Nowhere]
Beats == {"first", "ticker"}   \* the callers of executeHeartbeat
Actors == Users \cup {<<"", "cron">>} \cup {<<"", b>> : b \in Beats}
Cron == <<"", "cron">>
Notice(to, by, given) == [to |-> to, by |-> by, given |-> given]
Quiet == Notice(Nowhere, "nobody", <<>>)
Quietly == sent' = Quiet
Heartbeat == <<"", "heartbeat">>   \* the session key "heartbeat"
Idle == [pc |-> "idle", chat |-> Nowhere, session |-> Nowhere]
Ended == [Idle EXCEPT !.pc = "ended"]

(***************************************************************************)
(* The start: two managers are made one after the other.  A state of the   *)
(* old place is taken over when there is none in the new one; its saving   *)
(* may fail.                                                               *)
(***************************************************************************)
Loaded == IF disk.new # Missing THEN disk.new ELSE IF disk.old # Missing THEN disk.old ELSE NoState
Start ==
  /\ state.agent = Missing
  /\ state' = [agent |-> Loaded, heartbeat |-> Loaded]
  /\ disk' \in {disk, IF disk.new = Missing THEN [disk EXCEPT !.new = disk.old] ELSE disk}
  /\ beat' = [beat EXCEPT !.on = TRUE]
  /\ Quietly /\ UNCHANGED <<runs, seen>>

Crash ==
  /\ state.agent # Missing
  /\ state' = [agent |-> Missing, heartbeat |-> Missing]
  /\ beat' = [beat EXCEPT !.on = FALSE]
  /\ runs' = [a \in Actors |-> Idle]
  /\ Quietly /\ UNCHANGED <<disk, seen>>

Up == state.agent # Missing

(***************************************************************************)
(* A run: recordLastExternalChannel in two steps, its turns, its end.      *)
(***************************************************************************)
Busy == {a \in Actors : runs[a].pc \notin {"idle", "ended"}}
Begins(a, chat, session) ==
  /\ Cardinality(Busy) < MaxBusy
  /\ runs' = [runs EXCEPT ![a] = [pc |-> IF IsInternal(chat) THEN "turns" ELSE "channel",
                                  chat |-> chat, session |-> session]]

Message(u) ==
  /\ Up /\ runs[u].pc = "idle"
  /\ Begins(u, u, u)
  /\ Quietly /\ UNCHANGED <<disk, state, beat, seen>>

\* ProcessDirectWithChannel, whose sender is "cron".
CronJob ==
  /\ Up /\ runs[Cron].pc = "idle"
  /\ \E chat \in Jobs : Begins(Cron, chat, Cron)
  /\ Quietly /\ UNCHANGED <<disk, state, beat, seen>>

\* saveAtomic of the agent's manager; the memory keeps what could not be saved.
Set(new) == state' = [state EXCEPT !.agent = new] /\ disk' \in {disk, [disk EXCEPT !.new = new]}

RecordChannel(a) ==
  /\ runs[a].pc = "channel"
  /\ Set([state.agent EXCEPT !.chat = runs[a].chat])
  /\ runs' = [runs EXCEPT ![a].pc = "key"]
  /\ seen' = seen \cup {runs[a].chat}
  /\ Quietly /\ UNCHANGED beat

\* Mutant: the session of a job is recorded as well.
RecordAnyKey(a) ==
  /\ runs[a].pc = "key"
  /\ Set([state.agent EXCEPT !.session = runs[a].session])
  /\ runs' = [runs EXCEPT ![a].pc = "turns"]
  /\ Quietly /\ UNCHANGED <<beat, seen>>
RecordKey(a) ==
  /\ runs[a].pc = "key"
  /\ IF runs[a].session = Cron THEN UNCHANGED <<disk, state>>
     ELSE Set([state.agent EXCEPT !.session = runs[a].session])
  /\ runs' = [runs EXCEPT ![a].pc = "turns"]
  /\ Quietly /\ UNCHANGED <<beat, seen>>

\* LastActiveContext: no chat, unless it is whole.
LastActiveChat == state.agent.chat

\* notifyLastActiveOnInternalRun, of a run whose answer says more than that it is done.
Notified(a, answer) ==
  sent' = IF IsInternal(runs[a].chat) /\ answer = "news" /\ LastActiveChat # Nowhere
          THEN Notice(LastActiveChat, "run", <<answer>>) ELSE Quiet

\* Where executeHeartbeat goes on with the result of its handler: sendResponse takes
\* the chat from the heartbeat's copy; the gateway's handler always returns silence.
Results(a) ==
  IF a[2] \in Beats THEN (IF beat.handler = "gateway" THEN {"error", "silent"} ELSE {"error", "silent", "async", "user"})
  ELSE {"none"}
Ends(a) ==
  /\ runs[a].pc = "turns"
  /\ \E answer \in {"news", "NO_UPDATE", "HEARTBEAT_OK", "failed"}, result \in Results(a) :
       /\ a[2] \in Beats => (answer = "failed" <=> result = "error")
       /\ IF result = "user" /\ state.heartbeat.chat # Nowhere
          THEN sent' = Notice(state.heartbeat.chat, "heartbeat", <<answer>>)
          ELSE Notified(a, answer)
  /\ runs' = [runs EXCEPT ![a] = IF a = <<"", "first">> THEN Ended ELSE Idle]
  /\ UNCHANGED <<disk, state, beat, seen>>

(***************************************************************************)
(* executeHeartbeat, called once a second after the start and then by the  *)
(* ticker.  The first call without a file writes the template.             *)
(***************************************************************************)
Execute(b) ==
  LET a == <<"", b>>  chat == state.heartbeat.chat IN
  /\ Up /\ runs[a].pc = "idle" /\ beat.on
  /\ \/ beat.file = "missing" /\ beat' \in {beat, [beat EXCEPT !.file = "tasks"]}
        /\ runs' = [runs EXCEPT ![a] = IF b = "first" THEN Ended ELSE Idle]
     \/ beat.file = "empty" /\ runs' = [runs EXCEPT ![a] = IF b = "first" THEN Ended ELSE Idle]
        /\ UNCHANGED beat
     \/ beat.file = "tasks" /\ Begins(a, IF chat = Nowhere THEN Internal ELSE chat, Heartbeat)
        /\ UNCHANGED beat
  /\ Quietly /\ UNCHANGED <<disk, state, seen>>

Stop == beat.on /\ beat' = [beat EXCEPT !.on = FALSE] /\ Quietly /\ UNCHANGED <<disk, state, runs, seen>>

(***************************************************************************)
(* NotifyHandler: what the request leaves out is taken from the last       *)
(* active conversation, the recipient only on its channel.                 *)
(***************************************************************************)
Defaulted(channel, to) ==
  IF channel = "" /\ to = "" THEN LastActiveChat
  ELSE <<channel, IF to = "" /\ channel = LastActiveChat[1] THEN LastActiveChat[2] ELSE to>>
\* Bound: requests come between runs; they read the state, and leave it alone.
Notify(channel, to) ==
  /\ Up /\ Busy = {}
  /\ LET target == Defaulted(channel, to) IN
       /\ target[1] # "" /\ target[2] # ""
       /\ sent' \in {Quiet, Notice(target, "notify", <<channel, to>>)}
  /\ UNCHANGED <<disk, state, beat, runs, seen>>
-----------------------------------------------------------------------------
Init ==
  /\ disk \in {[new |-> Missing, old |-> Missing]} \cup
              {[new |-> Missing, old |-> [chat |-> c, session |-> Nowhere]] : c \in Users}
  /\ state = [agent |-> Missing, heartbeat |-> Missing]
  /\ \E b \in Beatings : beat = [handler |-> b[1], file |-> b[2], on |-> FALSE]
  /\ runs = [a \in Actors |-> Idle]
  /\ sent = Quiet
  /\ seen = {Loaded.chat}

Next ==
  \/ Start \/ Crash \/ Stop \/ CronJob
  \/ \E u \in Users : Message(u)
  \/ \E a \in Actors : RecordChannel(a) \/ RecordKey(a) \/ Ends(a)
  \/ \E b \in Beats : Execute(b)
  \/ \E channel \in {""} \cup {c[1] : c \in Chats}, to \in {""} \cup {c[2] : c \in Users} : Notify(channel, to)

Spec == Init /\ [][Next]_vars
-----------------------------------------------------------------------------
States == [chat : Chats \cup {Nowhere}, session : Users \cup {Nowhere, Cron, Heartbeat}]
TypeOK ==
  /\ disk \in [new : States \cup {Missing}, old : States \cup {Missing}]
  /\ state \in [agent : States \cup {Missing}, heartbeat : States \cup {Missing}]
  /\ beat \in [handler : {"gateway", "other"}, file : {"missing", "empty", "tasks"}, on : BOOLEAN]
  /\ runs \in [Actors -> [pc : {"idle", "channel", "key", "turns", "ended"}, chat : Chats \cup {Nowhere, Internal},
                          session : Actors \cup {Nowhere, Heartbeat}]]
  /\ seen \subseteq Chats \cup {Nowhere}

\* What is written unasked goes to a conversation that a run was in, whole, and the
\* task of an internal run is only told when there is news; a job's session is never
\* taken for the user's (state.go,
\* pipeline_notify.go 16-40 and 106-153, console_notify.go 103-131).
ToldWhereActive ==
  /\ sent.by \in {"run", "heartbeat"} \/ (sent.by = "notify" /\ sent.given[2] = "") => sent.to \in seen
  /\ sent.by = "run" => sent.given = <<"news">>
  /\ Up => /\ state.agent.session # Cron
           /\ state.agent.chat \in seen

\* Refuted: the session is one of "external user traffic" (state.go:26); it is that of
\* the heartbeat after a heartbeat in an external chat.
OfUsers == Up => state.agent.session \in Users \cup {Nowhere}

\* Refuted: the chat and the session are of one conversation; they are recorded in two
\* steps, which two runs interleave.
OneConversation ==
  (Up /\ \A a \in Actors : runs[a].pc # "key") => state.agent.session \in {state.agent.chat, Nowhere, Heartbeat}

\* Refuted: heartbeats follow one another (the first call is one of a timer).
OneBeat == \E b \in Beats : runs[<<"", b>>].pc \in {"idle", "ended"}

\* Refuted: the heartbeat is where the user was last; its copy of the state is the one
\* of the start.
BeatsFollow ==
  \A b \in Beats : runs[<<"", b>>].pc = "channel" => runs[<<"", b>>].chat = state.agent.chat
================================================================================
