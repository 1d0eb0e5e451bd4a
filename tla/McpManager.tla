------------------------------ MODULE McpManager ------------------------------
(***************************************************************************)
(* The manager of the connections to MCP servers (pkg/mcp/manager.go), and *)
(* the agent loop that replaces it on a reload                             *)
(* (pkg/agent/loop_mcp.go): calls of tools race with Close, which waits    *)
(* for those it knows of.  A manager is the number of the reload that made *)
(* it; the first, without servers, is that of the start.                   *)
(***************************************************************************)
EXTENDS Integers, FiniteSets

CONSTANTS Calls,       \* concurrent calls of tools
          Servers,     \* the configured servers
          MaxReloads   \* bound on the reloads

None == -1
Managers == 0 .. MaxReloads

McpAssumption == IsFiniteSet(Calls) /\ MaxReloads \in Nat

VARIABLES
  closed,    \* Manager.closed
  servers,   \* Manager.servers: the sessions that are open
  wg,        \* Manager.wg
  lockers,   \* the calls that hold Manager.mu for reading
  call,      \* pc, manager and server of a call
  tools,     \* the manager of the registered mcp_ tools, or None
  current,   \* AgentLoop.mcpMgr
  reload,    \* pc, the old and the new manager of ReloadMCPTools
  closer     \* pc and manager of the Close of a reload and of Run

vars == <<closed, servers, wg, lockers, call, tools, current, reload, closer>>
mgr == <<closed, servers, wg, lockers>>
loop == <<tools, current, reload>>

NoCall == [pc |-> "idle", mgr |-> None, server |-> None]
Closers == {"reload", "run"}
NoClose == [pc |-> "idle", mgr |-> None]
Idle == [pc |-> "idle", old |-> None, new |-> None]

(***************************************************************************)
(* CallTool.  A run has taken a tool of a connected server from the        *)
(* registry; the tool keeps its manager when it is unregistered meanwhile. *)
(***************************************************************************)
TakeTool(c, s) ==
  /\ call[c].pc = "idle" /\ tools # None
  /\ s \in servers[tools] \/ closed[tools]
  /\ call' = [call EXCEPT ![c] = [pc |-> "taken", mgr |-> tools, server |-> s]]
  /\ UNCHANGED <<mgr, loop, closer>>

\* Mutant: the early return of the second check leaves the lock held.
CallCheckLocked(c) ==
  LET m == call[c].mgr IN
  /\ call[c].pc = "taken"
  /\ lockers' = [lockers EXCEPT ![m] = @ \cup {c}]
  /\ call' = [call EXCEPT ![c] = IF closed[m] THEN NoCall ELSE [@ EXCEPT !.pc = "checked"]]
  /\ UNCHANGED <<closed, servers, wg, loop, closer>>
\* The two checks of closed, the second with the lock held for reading.
CallCheck(c) ==
  LET m == call[c].mgr IN
  /\ call[c].pc = "taken"
  /\ \/ /\ closed[m]
        /\ call' = [call EXCEPT ![c] = NoCall] /\ UNCHANGED lockers
     \/ /\ ~closed[m]
        /\ call' = [call EXCEPT ![c].pc = "checked"]
        /\ lockers' = [lockers EXCEPT ![m] = @ \cup {c}]
  /\ UNCHANGED <<closed, servers, wg, loop, closer>>

\* The session of the server is there: Close takes it with the lock for writing.
CallAdd(c) ==
  LET m == call[c].mgr IN
  /\ call[c].pc = "checked"
  /\ lockers' = [lockers EXCEPT ![m] = @ \ {c}]
  /\ wg' = [wg EXCEPT ![m] = @ + 1]
  /\ call' = [call EXCEPT ![c].pc = "sent"]
  /\ UNCHANGED <<closed, servers, loop, closer>>

\* The session answers or fails.
CallReturns(c) ==
  /\ call[c].pc = "sent"
  /\ wg' = [wg EXCEPT ![call[c].mgr] = @ - 1]
  /\ call' = [call EXCEPT ![c] = NoCall]
  /\ UNCHANGED <<closed, servers, lockers, loop, closer>>

(***************************************************************************)
(* Close of a manager, by the reload or by Run.                            *)
(***************************************************************************)
CloseSwap(a) ==
  LET m == closer[a].mgr IN
  /\ closer[a].pc = "swap"
  /\ closed' = [closed EXCEPT ![m] = TRUE]
  /\ closer' = [closer EXCEPT ![a].pc = IF closed[m] THEN "done" ELSE "wait"]
  /\ UNCHANGED <<servers, wg, lockers, call, loop>>

\* wg.Wait returns at zero, and says nothing of calls between check and Add.
CloseWait(a) ==
  /\ closer[a].pc = "wait" /\ wg[closer[a].mgr] = 0
  /\ closer' = [closer EXCEPT ![a].pc = "lock"]
  /\ UNCHANGED <<mgr, call, loop>>

CloseSessions(a) ==
  LET m == closer[a].mgr IN
  /\ closer[a].pc = "lock" /\ lockers[m] = {}
  /\ servers' = [servers EXCEPT ![m] = {}]
  /\ closer' = [closer EXCEPT ![a].pc = "done"]
  /\ UNCHANGED <<closed, wg, lockers, call, loop>>

Close(a) == CloseSwap(a) \/ CloseWait(a) \/ CloseSessions(a)
Closing(a, m) == closer' = [closer EXCEPT ![a] = [pc |-> "swap", mgr |-> m]]

(***************************************************************************)
(* ReloadMCPTools.                                                         *)
(***************************************************************************)
ReloadBegin ==
  /\ reload.pc = "idle" /\ current < MaxReloads
  /\ reload' = [pc |-> "load", old |-> current, new |-> current + 1]
  /\ tools' = None
  /\ UNCHANGED <<mgr, call, closer, current>>

\* The configuration names no server: the old manager is closed first, and an
\* empty one takes its place.
ReloadDisabled ==
  /\ reload.pc = "load"
  /\ reload' = [reload EXCEPT !.pc = "close"]
  /\ Closing("reload", reload.old)
  /\ UNCHANGED <<mgr, call, tools, current>>

\* LoadFromMCPConfig connects to the servers that it can.
ReloadLoad(connected) ==
  /\ reload.pc = "load"
  /\ servers' = [servers EXCEPT ![reload.new] = connected]
  /\ reload' = [reload EXCEPT !.pc = "register"]
  /\ UNCHANGED <<closed, wg, lockers, call, closer, tools, current>>

ReloadRegister ==
  /\ reload.pc = "register"
  /\ tools' = IF servers[reload.new] # {} THEN reload.new ELSE None
  /\ reload' = [reload EXCEPT !.pc = "replace"]
  /\ UNCHANGED <<mgr, call, closer, current>>

\* Mutant: the old manager is not closed.
ReloadReplaceOnly ==
  /\ reload.pc = "replace"
  /\ current' = reload.new /\ reload' = Idle
  /\ UNCHANGED <<mgr, call, closer, tools>>
ReloadReplace ==
  /\ reload.pc = "replace"
  /\ current' = reload.new
  /\ reload' = [reload EXCEPT !.pc = "close"]
  /\ Closing("reload", reload.old)
  /\ UNCHANGED <<mgr, call, tools>>

ReloadEnd ==
  /\ reload.pc = "close" /\ closer["reload"].pc = "done"
  /\ current' = reload.new /\ reload' = Idle
  /\ closer' = [closer EXCEPT !["reload"] = NoClose]
  /\ UNCHANGED <<mgr, call, tools>>

\* AgentLoop.Run returns: its deferred function reads the manager of that moment.
Stop ==
  /\ closer["run"].pc = "idle"
  /\ Closing("run", current)
  /\ UNCHANGED <<mgr, call, tools, current, reload>>
-----------------------------------------------------------------------------
Init ==
  /\ closed = [m \in Managers |-> FALSE]
  /\ servers = [m \in Managers |-> {}]
  /\ wg = [m \in Managers |-> 0]
  /\ lockers = [m \in Managers |-> {}]
  /\ call = [c \in Calls |-> NoCall]
  /\ tools = None /\ current = 0 /\ reload = Idle
  /\ closer = [a \in Closers |-> NoClose]

CallStep(c) == CallCheck(c) \/ CallAdd(c) \/ CallReturns(c)
ReloadStep ==
  \/ ReloadDisabled \/ (\E S \in SUBSET Servers : ReloadLoad(S)) \/ ReloadRegister
  \/ ReloadReplace \/ ReloadEnd
Next ==
  \/ \E c \in Calls : CallStep(c) \/ \E s \in Servers : TakeTool(c, s)
  \/ \E a \in Closers : Close(a)
  \/ ReloadBegin \/ ReloadStep \/ Stop

Spec == Init /\ [][Next]_vars
\* A call in flight ends, with its context if not by its server.
FairSpec ==
  /\ Spec
  /\ \A c \in Calls : WF_vars(CallStep(c))
  /\ \A a \in Closers : WF_vars(Close(a))
  /\ WF_vars(ReloadStep)
-----------------------------------------------------------------------------
TypeOK ==
  /\ closed \in [Managers -> BOOLEAN] /\ servers \in [Managers -> SUBSET Servers]
  /\ wg \in [Managers -> 0 .. Cardinality(Calls)] /\ lockers \in [Managers -> SUBSET Calls]
  /\ call \in [Calls -> [pc : {"idle", "taken", "checked", "sent"},
                         mgr : Managers \cup {None}, server : Servers \cup {None}]]
  /\ tools \in Managers \cup {None} /\ current \in Managers
  /\ reload \in [pc : {"idle", "load", "register", "replace", "close"},
                 old : Managers \cup {None}, new : Managers \cup {None}]
  /\ closer \in [Closers -> [pc : {"idle", "swap", "wait", "lock", "done"},
                             mgr : Managers \cup {None}]]

\* Between reloads only the current manager has connections open, and the tools
\* that runs can call are its own; when Run has returned, those it had are closed.
OneManagerOpen ==
  reload.pc = "idle" /\ closer["run"].pc \in {"idle", "done"} =>
    /\ \A m \in Managers \ {current} : servers[m] = {}
    /\ tools \in {None, current}
    /\ closer["run"].pc = "done" => servers[closer["run"].mgr] = {}

\* Close never waits for a call that is not there: reloads end, and Run returns.
CloseEnds ==
  /\ reload.pc # "idle" ~> reload.pc = "idle"
  /\ closer["run"].pc # "idle" ~> closer["run"].pc = "done"
=============================================================================
