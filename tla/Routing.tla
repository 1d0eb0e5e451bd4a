-------------------------------- MODULE Routing --------------------------------
(***************************************************************************)
(* Where a message goes: the agent (pkg/routing/route.go), the session     *)
(* (internal/core/routing/session_key.go, run_pipeline_impl.go) and the    *)
(* bucket of the agent loop that runs it (loop.go).  A name is one after   *)
(* normalisation, "" where it is missing; an id or a key is the sequence   *)
(* of its parts between colons, and <<>> where it is missing.              *)
(***************************************************************************)
EXTENDS Integers, Sequences, FiniteSets

CONSTANTS Bindings,     \* the bindings a configuration may list
          MaxBindings,  \* bound on how many it lists
          Agents,       \* sequence of the agents of the configuration
          Preferred,    \* those with Default set
          Scopes,       \* session.dm_scope
          Links,        \* the values of session.identity_links: sets of <<name, id>>
          Messages,     \* the messages that arrive
          MaxMessages   \* bound on how many do

NoPeer == [kind |-> "", id |-> <<>>]
DefaultAgentID == "main"
DefaultAccountID == "default"
Internal == {"cli", "system"}

RoutingAssumption == MaxBindings \in Nat /\ MaxMessages \in Nat

VARIABLES
  cfg,   \* the configuration
  seen   \* the messages so far, with what became of them

vars == <<cfg, seen>>

\* NormalizeAccountID, of a name
AccountOf(m) == IF m.account = "" THEN DefaultAccountID ELSE m.account

\* extractPeer
PeerOf(m) ==
  IF m.peer.kind = "" \/ m.peer.id # <<>> THEN m.peer
  ELSE [m.peer EXCEPT !.id = IF m.peer.kind = "direct" THEN m.sender ELSE m.chat]

(***************************************************************************)
(* ResolveRoute.                                                           *)
(***************************************************************************)
KnownAgents == {Agents[i] : i \in DOMAIN Agents}

\* resolveDefaultAgentID
DefaultAgent ==
  LET flagged == SelectSeq(Agents, LAMBDA a : a \in Preferred) IN
  IF Agents = <<>> THEN DefaultAgentID ELSE Head(flagged \o Agents)

\* pickAgentID: with no list of agents, any name passes.
PickAgent(agent) ==
  IF agent # "" /\ (Agents = <<>> \/ agent \in KnownAgents) THEN agent ELSE DefaultAgent

\* filterBindings
Eligible(b, m) ==
  /\ b.channel # "" /\ b.channel = m.channel
  /\ \/ b.account = "" /\ AccountOf(m) = DefaultAccountID
     \/ b.account \in {"*", AccountOf(m)}

\* findPeerMatch, its three passes: the thread of the message, any thread, no thread.
PeerIs(b, peer) == b.peer # NoPeer /\ b.peer = peer
InThread(b, m, peer) == PeerIs(b, peer) /\ m.thread # "" /\ b.thread = m.thread
AnyThread(b, m, peer) == PeerIs(b, peer) /\ m.thread # "" /\ b.thread = "*"
NoThread(b, m, peer) == PeerIs(b, peer) /\ b.thread = ""

\* findAccountMatch and findChannelWildcardMatch
Broad(b) == b.peer = NoPeer /\ b.guild = "" /\ b.team = ""

\* The levels of ResolveRoute, the passes of findPeerMatch one by one.
Level(n, b, m) ==
  CASE n = 1 -> InThread(b, m, PeerOf(m))
    [] n = 2 -> AnyThread(b, m, PeerOf(m))
    [] n = 3 -> NoThread(b, m, PeerOf(m))
    [] n = 4 -> InThread(b, m, m.parent)
    [] n = 5 -> AnyThread(b, m, m.parent)
    [] n = 6 -> NoThread(b, m, m.parent)
    [] n = 7 -> m.guild # "" /\ b.guild = m.guild
    [] n = 8 -> m.team # "" /\ b.team = m.team
    [] n = 9 -> Broad(b) /\ b.account # "*"
    [] n = 10 -> Broad(b) /\ b.account = "*"

\* The first level at which a binding matches, and its first binding there; the
\* level 11 is the default.
Matches(n, m) == {i \in DOMAIN cfg.bindings :
                    Eligible(cfg.bindings[i], m) /\ Level(n, cfg.bindings[i], m)}
FirstLevel(m) ==
  CHOOSE n \in 1 .. 11 : /\ n = 11 \/ Matches(n, m) # {}
                         /\ \A k \in 1 .. n - 1 : Matches(k, m) = {}
ResolveRoute(m) ==
  LET n == FirstLevel(m) IN
  IF n = 11 THEN [agent |-> PickAgent(DefaultAgent), binding |-> 0]
  ELSE LET i == CHOOSE i \in Matches(n, m) : \A j \in Matches(n, m) : i <= j
       IN [agent |-> PickAgent(cfg.bindings[i].agent), binding |-> i]

(***************************************************************************)
(* Session keys.                                                           *)
(***************************************************************************)
\* Mutant: a canonical id is not looked up without its platform.
CandidatesWhole(channel, id) == {id, <<channel>> \o id}
\* resolveLinkedPeerID: what a peer may be listed as, its id bare, with its channel,
\* and without the platform that a canonical id begins with.
Candidates(channel, id) ==
  {id, <<channel>> \o id} \cup (IF Len(id) > 1 THEN {Tail(id)} ELSE {})
\* The names under which it is listed; the code takes the first it meets of a map.
LinkedNames(channel, id) == {l[1] : l \in {k \in cfg.links : k[2] \in Candidates(channel, id)}}
Persons(channel, id) ==
  LET names == LinkedNames(channel, id) IN
  IF cfg.scope = "main" \/ id = <<>> \/ names = {} THEN {id} ELSE {<<name>> : name \in names}

\* BuildConversationPeerSessionKey
DirectKey(channel, account, person) ==
  IF person = <<>> \/ cfg.scope = "main" THEN <<"conv", "main">>
  ELSE CASE cfg.scope = "per-peer" -> <<"conv", "direct">> \o person
         [] cfg.scope = "per-channel-peer" -> <<"conv", channel, "direct">> \o person
         [] cfg.scope = "per-account-channel-peer" -> <<"conv", channel, account, "direct">> \o person
\* Mutant: the threads of a group share its session.
GroupKeyUnthreaded(channel, kind, id, thread) == <<"conv", channel, kind>> \o id
GroupKey(channel, kind, id, thread) ==
  <<"conv", channel, kind>> \o (IF id = <<>> THEN <<"unknown">> ELSE id)
    \o IF thread = "" THEN <<>> ELSE <<"thread", thread>>
ConversationKeys(channel, account, peer, thread) ==
  IF peer.kind \in {"", "direct"}
  THEN {DirectKey(channel, account, person) :
          person \in Persons(channel, IF peer.kind = "" THEN <<>> ELSE peer.id)}
  ELSE {GroupKey(channel, peer.kind, peer.id, thread)}

OwnKeys(m) == ConversationKeys(m.channel, AccountOf(m), PeerOf(m), m.thread)

\* A message of the channel "system" belongs to the conversation it names; the
\* bucket gives its thread as well, which a direct key leaves out.
OriginKeys(m) == ConversationKeys(m.origin, AccountOf(m), [kind |-> "direct", id |-> m.chat], m.thread)

\* A session key that the message brings along.
Explicit(m) == m.explicit # <<>> /\ (m.explicit[1] \in {"agent", "conv"} \/ m.channel \in Internal)

\* getBucketKey
BucketKeys(m) ==
  IF Explicit(m) THEN {m.explicit}
  ELSE IF m.channel = "system" THEN OriginKeys(m) ELSE OwnKeys(m)

\* resolveInboundSessionKey, and resolveSystemMessageSessionKey: the session of
\* the answer that the message quotes comes before its own.
SessionKeys(m) ==
  IF Explicit(m) THEN {m.explicit}
  ELSE IF m.channel = "system" THEN OriginKeys(m)
  ELSE IF m.quoted # <<>> THEN {m.quoted}
  ELSE OwnKeys(m)

\* ParseAgentSessionKey
AgentOfKey(key) == IF Len(key) >= 3 /\ key[1] = "agent" THEN key[2] ELSE ""

\* The registry: with no list of agents it has one, "main".
Registry == IF Agents = <<>> THEN {DefaultAgentID} ELSE KnownAgents
\* GetDefaultAgent: "main" where there is one, or any agent.
RegistryDefault(a) == a \in Registry /\ (DefaultAgentID \in Registry => a = DefaultAgentID)

\* resolveAgentForSession and resolveSystemMessageAgent
ServedBy(m, key, a) ==
  LET named == AgentOfKey(key) route == ResolveRoute(m).agent IN
  IF named \in Registry THEN a = named
  ELSE IF m.channel # "system" /\ route \in Registry THEN a = route
  ELSE RegistryDefault(a)

(***************************************************************************)
(* processMessage and processSystemMessage, for a message that the loop    *)
(* has put in its bucket; a result for an internal origin is dropped.      *)
(***************************************************************************)
Receive(m) ==
  /\ Len(seen) < MaxMessages
  /\ m.channel = "system" => m.origin \notin Internal
  /\ \E bucket \in BucketKeys(m), session \in SessionKeys(m), agent \in Registry :
       /\ ServedBy(m, session, agent)
       /\ seen' = Append(seen, [msg |-> m, bucket |-> bucket, session |-> session, agent |-> agent,
                                binding |-> ResolveRoute(m).binding])
  /\ UNCHANGED cfg
-----------------------------------------------------------------------------
Init ==
  /\ \E bs \in UNION {[1 .. n -> Bindings] : n \in 0 .. MaxBindings}, s \in Scopes, l \in Links :
       cfg = [bindings |-> bs, scope |-> s, links |-> l]
  /\ seen = <<>>

Next == \E m \in Messages : Receive(m)

Spec == Init /\ [][Next]_vars
-----------------------------------------------------------------------------
Seen == {seen[i] : i \in DOMAIN seen}

TypeOK ==
  /\ Len(cfg.bindings) <= MaxBindings /\ cfg.scope \in Scopes /\ cfg.links \in Links
  /\ \A r \in Seen : r.msg \in Messages /\ r.agent \in Registry /\ r.binding \in 0 .. MaxBindings

\* The reasons for which a binding applies to a message, the strongest first: it
\* names the message's peer, its parent, its guild or its team, or none of these.
PeerReason(b, m, peer) ==
  /\ b.peer # NoPeer /\ b.peer = peer
  /\ b.thread \in {"", m.thread} \cup (IF m.thread = "" THEN {} ELSE {"*"})
Reasons(b, m) ==
  {n \in 1 .. 6 :
     /\ Eligible(b, m)
     /\ CASE n = 1 -> PeerReason(b, m, PeerOf(m))
          [] n = 2 -> PeerReason(b, m, m.parent)
          [] n = 3 -> b.guild # "" /\ b.guild = m.guild
          [] n = 4 -> b.team # "" /\ b.team = m.team
          [] n \in {5, 6} -> b.peer = NoPeer /\ b.guild = "" /\ b.team = "" /\ (n = 6) = (b.account = "*")}
Stronger(b, c, m) == \E n \in Reasons(b, m) : \A k \in Reasons(c, m) : n < k
\* A binding for the thread beats one for every thread, and that beats one for none.
Closer(b, c, m) == \/ b.thread = m.thread /\ c.thread # m.thread
                   \/ b.thread = "*" /\ c.thread = ""

\* No binding that applies is stronger than the one that decides, or as strong and
\* closer to the thread, or as close and earlier in the list; the default decides
\* when none applies.
RoutesByPriority ==
  \A r \in Seen : \A i \in DOMAIN cfg.bindings :
    LET b == cfg.bindings[i] m == r.msg IN
    Reasons(b, m) # {} =>
      /\ r.binding # 0
      /\ LET d == cfg.bindings[r.binding] IN
           \/ Stronger(d, b, m)
           \/ /\ ~Stronger(b, d, m)
              /\ Closer(d, b, m) \/ (~Closer(b, d, m) /\ r.binding <= i)

\* No id listed under one name is, or ends, an id listed under another: a peer may
\* be looked up as either, and the name is the one that the map gives first.
EndsIn(id, part) == \E n \in 0 .. Len(id) : SubSeq(id, n + 1, Len(id)) = part
LinksClear == \A k, l \in cfg.links : EndsIn(k[2], l[2]) => k[1] = l[1]

\* The bucket that orders the messages of a conversation is its session; but for a
\* message that quotes an answer of another one.
BucketServesSession ==
  LinksClear => \A r \in Seen : r.msg.quoted = <<>> => r.bucket = r.session

\* Two messages belong to one conversation: direct ones of one person, as far as the
\* scope tells persons apart, or those of one thread of one group.
Ordinary(m) == ~Explicit(m) /\ m.quoted = <<>> /\ m.channel # "system"
Direct(m) == m.peer.kind \in {"", "direct"}
\* The name lists the id as it is, with its channel, or without its platform.
Lists(name, channel, id) ==
  \E l \in cfg.links : /\ l[1] = name
                       /\ \/ l[2] \in {id, <<channel>> \o id}
                          \/ Len(id) > 1 /\ l[2] = Tail(id)
SamePerson(m, n) ==
  LET a == PeerOf(m).id b == PeerOf(n).id IN
  \/ \E l \in cfg.links : Lists(l[1], m.channel, a) /\ Lists(l[1], n.channel, b)
  \/ a = b /\ \A l \in cfg.links : ~Lists(l[1], m.channel, a) /\ ~Lists(l[1], n.channel, b)
SameConversation(m, n) ==
  IF Direct(m) /\ Direct(n)
  THEN \/ cfg.scope = "main"
       \/ m.peer = NoPeer /\ n.peer = NoPeer
       \/ /\ m.peer # NoPeer /\ n.peer # NoPeer /\ SamePerson(m, n)
          /\ cfg.scope # "per-peer" => m.channel = n.channel
          /\ cfg.scope = "per-account-channel-peer" => AccountOf(m) = AccountOf(n)
  ELSE /\ ~Direct(m) /\ ~Direct(n)
       /\ m.channel = n.channel /\ PeerOf(m) = PeerOf(n) /\ m.thread = n.thread

\* Messages share a session exactly when they belong to one conversation.
ConversationsApart ==
  LinksClear => \A r, q \in Seen :
    Ordinary(r.msg) /\ Ordinary(q.msg) =>
      (r.session = q.session <=> SameConversation(r.msg, q.msg))
=============================================================================
