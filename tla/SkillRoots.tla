------------------------------ MODULE SkillRoots ------------------------------
(***************************************************************************)
(* The skills on disk (pkg/skills/registry.go): SkillInstaller and         *)
(* ClawHubRegistry put them below the workspace, and SkillsLoader lists    *)
(* and loads those of the workspace, of ~/.x-claw and of the program.  A   *)
(* SKILL.md is the name its frontmatter gives it, and NoName stands for    *)
(* one that is not valid, which is one without frontmatter too.            *)
(***************************************************************************)
EXTENDS Integers, Sequences, SequencesExt, FiniteSets

CONSTANTS Dirs,        \* names of directories, in the order of os.ReadDir
          Names,       \* that skills give themselves
          Repos,       \* repository -> [dir, file], of GitHub
          Archives,    \* slug -> file, of ClawHub
          Installs,    \* installations at once
          Given        \* what the global and builtin directories may hold

Roots == <<"workspace", "global", "builtin">>
NoName == "invalid"
Absent == "absent"
Empty == "empty"
Files == Names \cup {NoName}
RootsAssumption ==
  /\ \A r \in DOMAIN Repos : Repos[r].dir \in Range(Dirs) /\ Repos[r].file \in Files
  /\ \A s \in DOMAIN Archives : Archives[s] \in Files
  /\ Given \subseteq [Range(Dirs) -> {Absent} \cup Files]

VARIABLES
  disk,  \* root -> directory -> Absent, Empty or its SKILL.md
  job    \* installation -> [pc, repo]

vars == <<disk, job>>

Idle == [pc |-> "idle", repo |-> CHOOSE r \in DOMAIN Repos : TRUE]
DirOf(i) == Repos[job[i].repo].dir
At(i, pc) == job[i].pc = pc
Goes(i, pc) == job' = [job EXCEPT ![i].pc = pc]
Ends(i) == job' = [job EXCEPT ![i] = Idle]

\* InstallFromGitHub: the directory must not be there, then the file is requested.
InstallFromGitHub(i, r) ==
  /\ At(i, "idle")
  /\ IF disk["workspace"][Repos[r].dir] # Absent THEN UNCHANGED job
     ELSE job' = [job EXCEPT ![i] = [pc |-> "fetch", repo |-> r]]
  /\ UNCHANGED disk
Fetch(i) ==
  /\ At(i, "fetch")
  /\ Goes(i, "mkdir") \/ Ends(i)
  /\ UNCHANGED disk
MkdirAll(i) ==
  /\ At(i, "mkdir") /\ Goes(i, "write")
  /\ disk' = [disk EXCEPT !["workspace"][DirOf(i)] = IF @ = Absent THEN Empty ELSE @]
\* WriteFileAtomic makes the directory again, if need be.
Write(i) ==
  /\ At(i, "write") /\ Ends(i)
  /\ \E written \in BOOLEAN :
       disk' = [disk EXCEPT !["workspace"][DirOf(i)] =
                  IF written THEN Repos[job[i].repo].file ELSE IF @ = Absent THEN Empty ELSE @]

\* The archive is unpacked file by file into the directory, and may fail on the way.
DownloadAndInstall(s, d) ==
  /\ \E file \in {Archives[s], Empty} :
       disk' = [disk EXCEPT !["workspace"][d] = IF file = Empty /\ @ # Absent THEN @ ELSE file]
  /\ UNCHANGED job

Uninstall(d) ==
  /\ disk["workspace"][d] # Absent
  /\ disk' = [disk EXCEPT !["workspace"][d] = Absent]
  /\ UNCHANGED job
-----------------------------------------------------------------------------
\* The directories of a root that hold a SKILL.md.
Held(root) == SelectSeq(Dirs, LAMBDA d : disk[root][d] \in Files)

\* ListSkills: a skill that is not valid takes no name.
Places == FlattenSeq([i \in DOMAIN Roots |-> [j \in DOMAIN Held(Roots[i]) |->
            [root |-> Roots[i], dir |-> Held(Roots[i])[j], name |-> disk[Roots[i]][Held(Roots[i])[j]]]]])
Listed(list, name) == \E i \in DOMAIN list : list[i].name = name
\* Mutant: the directories of skills that are not valid are minded too.
ListSkillsByDir(places) ==
  FoldLeft(LAMBDA acc, p :
             IF p.dir \in acc.dirs THEN acc
             ELSE [dirs |-> acc.dirs \cup {p.dir},
                   list |-> IF p.name = NoName \/ Listed(acc.list, p.name) THEN acc.list
                            ELSE Append(acc.list, p)],
           [dirs |-> {}, list |-> <<>>], places).list
ListSkills(places) ==
  FoldLeft(LAMBDA list, p : IF p.name = NoName \/ Listed(list, p.name) THEN list ELSE Append(list, p),
           <<>>, places)

\* LoadSkill goes by the directory, valid or not.
LoadSkill(d) ==
  LET roots == SelectSeq(Roots, LAMBDA r : disk[r][d] \in Files)
  IN IF roots = <<>> THEN Absent ELSE disk[Head(roots)][d]
-----------------------------------------------------------------------------
States == [Range(Dirs) -> {Absent, Empty} \cup Files]
Init ==
  /\ \E global, builtin \in Given :
       disk = [workspace |-> [d \in Range(Dirs) |-> Absent], global |-> global, builtin |-> builtin]
  /\ job = [i \in Installs |-> Idle]

Next ==
  \/ \E i \in Installs :
       Fetch(i) \/ MkdirAll(i) \/ Write(i) \/ (\E r \in DOMAIN Repos : InstallFromGitHub(i, r))
  \/ \E d \in Range(Dirs) : Uninstall(d) \/ (\E s \in DOMAIN Archives : DownloadAndInstall(s, d))

Spec == Init /\ [][Next]_vars
-----------------------------------------------------------------------------
TypeOK ==
  /\ disk \in [Range(Roots) -> States]
  /\ job \in [Installs -> [pc : {"idle", "fetch", "mkdir", "write"}, repo : DOMAIN Repos]]

\* A name is listed once, for every valid skill that has it the one of the first root:
\* what is broken in the workspace hides nothing of the other roots.
ListedOnce ==
  LET list == ListSkills(Places)
      RootIndex(root) == CHOOSE k \in DOMAIN Roots : Roots[k] = root
      having(n) == {i \in DOMAIN Places : Places[i].name = n}
  IN \A n \in Names :
       LET listed == {i \in DOMAIN list : list[i].name = n}
       IN /\ having(n) = {} => listed = {}
          /\ having(n) # {} =>
               /\ Cardinality(listed) = 1
               /\ \A i \in listed, k \in having(n) : RootIndex(list[i].root) <= RootIndex(Places[k].root)

\* What is loaded by a name of the list is what the list says of it.  This is not so:
\* the name need not be that of the directory.
LoadsListed == \A i \in DOMAIN ListSkills(Places) :
                 LET p == ListSkills(Places)[i]
                 IN p.name \in Range(Dirs) => LoadSkill(p.name) = p.name

\* An installation replaces no skill.  This is not so of two that have the same last
\* part of their names, nor of one whose directory was made by another.
NothingReplaced ==
  [][\A i \in Installs : At(i, "write") /\ disk' # disk => disk["workspace"][DirOf(i)] \notin Files]_vars
=============================================================================
