------------------------------ MODULE MediaStore ------------------------------
(***************************************************************************)
(* The store of media files (pkg/media/store.go): references to files that *)
(* channels have downloaded, by the scope of their message; the entries of *)
(* an expired or released reference go under the lock, its file after it.  *)
(***************************************************************************)
EXTENDS Integers, FiniteSets, Functions

CONSTANTS Refs,     \* references; one that is free stands for a new one
          Paths,    \* the files of downloads
          Scopes,
          MaxAge,   \* MediaCleanerConfig.MaxAge
          MaxTime   \* bound on the time

NoScope == "none"
MediaAssumption == NoScope \notin Scopes /\ {MaxAge, MaxTime} \subseteq Nat

VARIABLES
  now,
  files,        \* the files on disk
  refs,         \* FileMediaStore.refs: path and time of each reference
  scopeToRefs, refToScope,
  fresh,        \* downloads that are not stored yet
  removing,     \* the paths that ReleaseAll and CleanExpired have still to remove
  uses          \* history: how often each path was downloaded

vars == <<now, files, refs, scopeToRefs, refToScope, fresh, removing, uses>>
maps == <<refs, scopeToRefs, refToScope>>

Removers == {"release", "clean"}
Live == DOMAIN refs

(***************************************************************************)
(* A channel downloads a file and stores it.                               *)
(***************************************************************************)
\* Two downloads of one message have one path.
Download(p) ==
  /\ p \notin fresh /\ uses[p] < 2
  /\ files' = files \cup {p} /\ fresh' = fresh \cup {p}
  /\ uses' = [uses EXCEPT ![p] = @ + 1]
  /\ UNCHANGED <<now, maps, removing>>

\* Store; its os.Stat comes right before the lock, which is the same for a path that
\* is stored once.
Store(p, r, s) ==
  /\ p \in fresh /\ p \in files
  /\ r \in Refs \ Live
  /\ refs' = [x \in Live \cup {r} |-> IF x = r THEN [path |-> p, at |-> now] ELSE refs[x]]
  /\ scopeToRefs' = [scopeToRefs EXCEPT ![s] = @ \cup {r}]
  /\ refToScope' = [refToScope EXCEPT ![r] = s]
  /\ fresh' = fresh \ {p}
  /\ UNCHANGED <<now, files, removing, uses>>

\* Store finds no file: the channel gives up.
StoreFails(p) ==
  /\ p \in fresh /\ p \notin files
  /\ fresh' = fresh \ {p}
  /\ UNCHANGED <<now, files, maps, removing, uses>>

(***************************************************************************)
(* ReleaseAll, and CleanExpired, which the cleaner calls.                  *)
(***************************************************************************)
Forget(gone) ==
  /\ refs' = Restrict(refs, Live \ gone)
  /\ refToScope' = [r \in Refs |-> IF r \in gone THEN NoScope ELSE refToScope[r]]

\* Mutant: the references of a scope stay listed.
ForgetFiles(gone) == Forget(gone) /\ UNCHANGED scopeToRefs
ForgetAll(gone) ==
  /\ Forget(gone)
  /\ scopeToRefs' = [s \in Scopes |-> scopeToRefs[s] \ gone]

PathsOf(rs) == {refs[r].path : r \in rs}

ReleaseAll(s) ==
  /\ removing["release"] = {} /\ scopeToRefs[s] # {}
  /\ removing' = [removing EXCEPT !["release"] = PathsOf(scopeToRefs[s] \cap Live)]
  /\ ForgetAll(scopeToRefs[s])
  /\ UNCHANGED <<now, files, fresh, uses>>

Expired == {r \in Live : now - refs[r].at > MaxAge}

CleanExpired ==
  /\ MaxAge > 0 /\ removing["clean"] = {} /\ Expired # {}
  /\ removing' = [removing EXCEPT !["clean"] = PathsOf(Expired)]
  /\ ForgetAll(Expired)
  /\ UNCHANGED <<now, files, fresh, uses>>

Remove(w, p) ==
  /\ p \in removing[w]
  /\ removing' = [removing EXCEPT ![w] = @ \ {p}]
  /\ files' = files \ {p}
  /\ UNCHANGED <<now, maps, fresh, uses>>

Tick == now < MaxTime /\ now' = now + 1 /\ UNCHANGED <<files, maps, fresh, removing, uses>>
-----------------------------------------------------------------------------
Init ==
  /\ now = 0 /\ files = {} /\ fresh = {}
  /\ refs = [r \in {} |-> 0] /\ refToScope = [r \in Refs |-> NoScope]
  /\ scopeToRefs = [s \in Scopes |-> {}]
  /\ removing = [w \in Removers |-> {}]
  /\ uses = [p \in Paths |-> 0]

Next ==
  \/ \E p \in Paths :
       \/ Download(p) \/ StoreFails(p)
       \/ \E r \in Refs, s \in Scopes : Store(p, r, s)
       \/ \E w \in Removers : Remove(w, p)
  \/ \E s \in Scopes : ReleaseAll(s)
  \/ CleanExpired \/ Tick

Spec == Init /\ [][Next]_vars
-----------------------------------------------------------------------------
TypeOK ==
  /\ now \in 0 .. MaxTime
  /\ files \subseteq Paths /\ fresh \subseteq Paths
  /\ Live \subseteq Refs /\ \A r \in Live : refs[r] \in [path : Paths, at : 0 .. MaxTime]
  /\ scopeToRefs \in [Scopes -> SUBSET Refs]
  /\ refToScope \in [Refs -> Scopes \cup {NoScope}]
  /\ removing \in [Removers -> SUBSET Paths]
  /\ uses \in [Paths -> 0 .. 2]

\* The three maps agree; no file stays without a reference, but one on its way in
\* or out; and a reference has its file, unless the file was downloaded twice.
FilesFollowRefs ==
  /\ \A r \in Refs : r \in Live <=> refToScope[r] # NoScope
  /\ \A s \in Scopes : scopeToRefs[s] = {r \in Refs : refToScope[r] = s}
  /\ files \subseteq fresh \cup PathsOf(Live) \cup UNION {removing[w] : w \in Removers}
  /\ \A r \in Live : uses[refs[r].path] = 1 => refs[r].path \in files
=============================================================================
