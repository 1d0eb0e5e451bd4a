------------------------------- MODULE WebSearch -------------------------------
(***************************************************************************)
(* The web_search and web_search_dual tools (pkg/tools/web_search*.go):    *)
(* the providers that the configuration allows, in their order; pools of   *)
(* keys that the calls running at once share; and, with evidence, two      *)
(* providers asked at once and their sources merged.  A text is the set of *)
(* the URLs in it.                                                         *)
(***************************************************************************)
EXTENDS Integers, SequencesExt

CONSTANTS Calls,
          Configs,         \* [enabled, keys, results: by provider; evidence, min]
          Urls, Domain,    \* URL -> its host, "" where it has none
          Cut,             \* URL -> what is left of it where a chunk ends in it
          Items,           \* what a provider may find: sequences of URLs
          Queries,         \* what may be asked: sets of URLs
          Counts           \* the counts that a model may ask for; 0: none

Tools == {"web_search", "web_search_dual"}
Priority == <<"perplexity", "grok", "brave", "tavily", "duckduckgo", "glm_search">>
WebSearchAssumption ==
  /\ Domain \in [Urls -> STRING] /\ Cut \in [Urls -> Urls]
  /\ Items \subseteq Seq(Urls) /\ Queries \subseteq SUBSET Urls /\ Counts \subseteq Int
  /\ \A config \in Configs : config.enabled \subseteq ToSet(Priority) /\ config.min \in Int

VARIABLES
  cfg,
  used,    \* [tool, provider] -> the keys drawn of its pool, in order
  call     \* call -> [pc, tool, query, count, asked, result]

vars == <<cfg, used, call>>

\* newAPIKeyPool: the keys that are not empty, each once.
Pool(provider) ==
  FoldLeft(LAMBDA keys, k : IF k = "" \/ Contains(keys, k) THEN keys ELSE Append(keys, k),
           <<>>, cfg.keys[provider])
\* Mutant: the first key is used again and again.
NextKeyFirst(pool, n) == pool[1]
NextKey(pool, n) == pool[(n % Len(pool)) + 1]

Usable(provider) ==
  provider \in cfg.enabled /\ (provider = "duckduckgo" \/ Pool(provider) # <<>>)
Candidates == SelectSeq(Priority, Usable)
Evidence(tool) == tool = "web_search_dual" \/ cfg.evidence
MinDomains == IF cfg.min > 0 THEN cfg.min ELSE 2

\* The providers that a tool asks, and its limit: the smaller of theirs.
Asked(tool) == SubSeq(Candidates, 1, IF Evidence(tool) /\ Len(Candidates) > 1 THEN 2 ELSE 1)
Limit(tool) ==
  LET limits == {IF cfg.results[p] > 0 THEN cfg.results[p] ELSE 5 : p \in ToSet(Asked(tool))} IN
  CHOOSE l \in limits : \A m \in limits : l <= m
CountOf(tool, given) == IF given \in 1 .. 10 THEN given ELSE Limit(tool)
-----------------------------------------------------------------------------
\* What a provider makes of what it finds.  Its text names the query, also where nothing
\* is found, and at most count results, where it lists them.
Fails == [pc |-> "failed", text |-> {}]
Says(query, urls) == [pc |-> "ok", text |-> query \cup urls]
Listed(items, count) == ToSet(SubSeq(items, 1, IF Len(items) < count THEN Len(items) ELSE count))
Brave(query, count) == {Fails} \cup {Says(query, Listed(items, count)) : items \in Items}
Tavily(query, count) == {Fails} \cup {Says(query, Listed(items, count)) : items \in Items}
GLM(query, count) == {Fails} \cup {Says(query, Listed(items, count)) : items \in Items}

\* DuckDuckGo: the status of the answer is not looked at; a page of an error has no links.
DuckDuckGo(query, count) == {Fails} \cup {Says(query, Listed(items, count)) : items \in Items \cup {<<>>}}

\* Models say what they like, whatever the count.
Perplexity(query) == {Fails} \cup {Says(query, ToSet(items)) : items \in Items}

\* Gateways of Grok may answer in chunks, which are put together with a space.
Chunks(items) == {Cut[u] : u \in ToSet(items)}
Grok(query) ==
  {Fails} \cup {Says(query, ToSet(items)) : items \in Items} \cup {Says(query, Chunks(items)) : items \in Items \ {<<>>}}

Outcomes(provider, query, count) ==
  CASE provider = "perplexity" -> Perplexity(query)
    [] provider = "grok" -> Grok(query)
    [] provider = "brave" -> Brave(query, count)
    [] provider = "tavily" -> Tavily(query, count)
    [] provider = "duckduckgo" -> DuckDuckGo(query, count)
    [] provider = "glm_search" -> GLM(query, count)

Waits == [pc |-> "wait", text |-> {}]
Idle == [pc |-> "idle", tool |-> "web_search", query |-> {}, count |-> 0, asked |-> <<>>,
         sources |-> {}, satisfied |-> FALSE]
Init ==
  /\ cfg \in Configs /\ Candidates # <<>>
  /\ used = [p \in Tools \X ToSet(Priority) |-> <<>>]
  /\ call = [c \in Calls |-> Idle]

Execute(c) ==
  /\ call[c].pc = "idle"
  /\ \E tool \in Tools, query \in Queries, given \in Counts :
       call' = [call EXCEPT ![c] =
         [Idle EXCEPT !.pc = "run", !.tool = tool, !.query = query, !.count = CountOf(tool, given),
                      !.asked = [i \in 1 .. Len(Asked(tool)) |-> Waits]]]
  /\ UNCHANGED <<cfg, used>>

\* One of the goroutines draws a key and asks its provider, and is answered.
Search(c, i) ==
  LET p == Asked(call[c].tool)[i]
      of == <<call[c].tool, p>> IN
  /\ call[c].pc = "run" /\ i \in DOMAIN call[c].asked /\ call[c].asked[i].pc = "wait"
  /\ used' = IF p = "duckduckgo" THEN used
             ELSE [used EXCEPT ![of] = Append(@, NextKey(Pool(p), Len(@)))]
  /\ call' = [call EXCEPT ![c].asked[i].pc = "asked"]
  /\ cfg' = cfg
Answer(c, i) ==
  /\ call[c].pc = "run" /\ i \in DOMAIN call[c].asked /\ call[c].asked[i].pc = "asked"
  /\ \E outcome \in Outcomes(Asked(call[c].tool)[i], call[c].query, call[c].count) :
       call' = [call EXCEPT ![c].asked[i] = outcome]
  /\ UNCHANGED <<cfg, used>>

\* The sources of a call: each URL once, from the first provider that names it.
\* Mutant: what the second provider names replaces what the first does.
MergedLast(asked) ==
  {[url |-> u, from |-> CHOOSE i \in DOMAIN asked :
      u \in asked[i].text /\ \A j \in DOMAIN asked : u \in asked[j].text => j <= i]
     : u \in UNION {asked[i].text : i \in DOMAIN asked}}
Merged(asked) ==
  {[url |-> u, from |-> CHOOSE i \in DOMAIN asked :
      u \in asked[i].text /\ \A j \in DOMAIN asked : u \in asked[j].text => i <= j]
     : u \in UNION {asked[i].text : i \in DOMAIN asked}}
Domains(sources) == {Domain[s.url] : s \in sources} \ {""}

\* Without evidence the text of the provider is the answer.
Return(c) ==
  LET sources == IF Evidence(call[c].tool) THEN Merged(call[c].asked) ELSE {} IN
  /\ call[c].pc = "run" /\ \A i \in DOMAIN call[c].asked : call[c].asked[i].pc \in {"ok", "failed"}
  /\ call' = [call EXCEPT ![c].pc = "done", ![c].sources = sources,
                          ![c].satisfied = Cardinality(Domains(sources)) >= MinDomains]
  /\ UNCHANGED <<cfg, used>>

Next == \E c \in Calls : Execute(c) \/ Return(c) \/ \E i \in 1 .. 2 : Search(c, i) \/ Answer(c, i)

Spec == Init /\ [][Next]_vars
-----------------------------------------------------------------------------
TypeOK ==
  /\ cfg \in Configs
  /\ \A of \in DOMAIN used : used[of] \in Seq(ToSet(Pool(of[2])))
  /\ call \in [Calls -> [pc : {"idle", "run", "done"}, tool : Tools, query : SUBSET Urls, count : Nat,
                         asked : Seq([pc : {"wait", "asked", "ok", "failed"}, text : SUBSET Urls]),
                         sources : SUBSET [url : Urls, from : Nat], satisfied : BOOLEAN]]

\* The calls that run at once share the keys of a pool evenly, and whatever order the
\* providers answer in, and whether one fails, the evidence holds what was answered: every
\* URL once, and under the first provider that named it (web_search.go 134, 542-555).
EvidenceTold ==
  /\ \A of \in DOMAIN used : LET Times(k) == Len(SelectSeq(used[of], LAMBDA l : l = k)) IN
       \A k, l \in ToSet(Pool(of[2])) : Times(k) <= Times(l) + 1
  /\ \A c \in Calls : call[c].pc = "done" /\ Evidence(call[c].tool) =>
       /\ \A i \in DOMAIN call[c].asked : \A u \in call[c].asked[i].text :
            \E s \in call[c].sources : s.url = u /\ s.from <= i
       /\ \A s \in call[c].sources :
            /\ s.url \in call[c].asked[s.from].text
            /\ \A t \in call[c].sources : s.url = t.url => s = t

\* Refuted: the evidence is satisfied by what was found.  The text for "no results" names
\* the query too, and with it the URLs in it (web_search.go 475-505).
SatisfiedByResults ==
  \A c \in Calls : call[c].pc = "done" /\ call[c].satisfied =>
    \E i \in DOMAIN call[c].asked : call[c].asked[i].text # call[c].query

\* Refuted: a source is a URL that the provider found.  The chunks of a streamed answer are
\* put together with a space, which ends a URL (web_search_llm.go 322-331).
SourcesFound ==
  \A c \in Calls : call[c].pc = "done" =>
    \A s \in call[c].sources : s.url \in call[c].query \cup UNION {ToSet(items) : items \in Items}
================================================================================
