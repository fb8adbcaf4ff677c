--------------------------- MODULE TechDetection ---------------------------
(***************************************************************************)
(* Which technologies a project uses: DetectTechnologiesDescriptors with   *)
(* its table of indicators, exclusions and descriptors, the folding of sub *)
(* modules and the directories without technology                          *)
(* (utils/techutils/techutils.go), and what `jf curation-audit` makes of   *)
(* the result in its working directory (techsToAudit and the promotions    *)
(* in commands/curation/curationaudit.go).                                 *)
(*                                                                         *)
(* A directory is the sequence of names that leads to it.  The files are   *)
(* those the decisions tell apart; the variants of pyproject.toml stand    *)
(* for its content, and npm, pnpm, yarn, pip, pipenv, poetry, uv, maven    *)
(* and go for all technologies: the others have a single indicator set.    *)
(***************************************************************************)
EXTENDS Naturals, Sequences, FiniteSets, SequencesExt

CONSTANT
    Projects    \* pairs of a layout, a function from directories to sets of
                \* files, and what differs from NoSetting

\* A project is a finite tree of directories.
ASSUME ProjectsAssumption ==
    \A p \in Projects :
        /\ DOMAIN p[1] \subseteq Seq(STRING) /\ IsFiniteSet(DOMAIN p[1])
        /\ <<>> \in DOMAIN p[1]
        /\ \A d \in DOMAIN p[1] : d # <<>> => Front(d) \in DOMAIN p[1]

Toml == {"pyproject.toml/pip", "pyproject.toml/poetry", "pyproject.toml/hatch", "pyproject.toml/uv"}
YarnMarks == {"yarn.lock", ".yarnrc.yml", ".yarnrc", ".yarn"}
PnpmMarks == {"pnpm-lock.yaml", "pnpm-workspace.yaml", ".pnpmfile.cjs"}

\* technologiesData.  The pip and poetry validators look into pyproject.toml.
Indicators ==
    [maven  |-> {"pom.xml"},  go |-> {"go.mod"},
     npm    |-> {"package.json", "package-lock.json", "npm-shrinkwrap.json"},
     pnpm   |-> PnpmMarks,    yarn |-> YarnMarks,
     pip    |-> {"pyproject.toml/pip", "pyproject.toml/uv", "setup.py", "requirements.txt"},
     pipenv |-> {"Pipfile", "Pipfile.lock"},
     poetry |-> {"pyproject.toml/poetry", "poetry.lock"},
     uv     |-> {"uv.lock"}]
Exclude ==
    [maven  |-> {}, go |-> {},
     npm    |-> PnpmMarks \cup (YarnMarks \ {".yarnrc"}),
     pnpm   |-> YarnMarks \ {".yarnrc"}, yarn |-> PnpmMarks,
     pip    |-> {"Pipfile", "Pipfile.lock", "poetry.lock"},
     pipenv |-> {}, poetry |-> {}, uv |-> {}]
Descriptors ==
    [maven  |-> {"pom.xml"}, go |-> {"go.mod"},
     npm    |-> {"package.json"}, pnpm |-> {"package.json"}, yarn |-> {"package.json"},
     pip    |-> {"setup.py", "requirements.txt"} \cup Toml,
     pipenv |-> {"Pipfile"}, poetry |-> Toml, uv |-> Toml]
Techs == DOMAIN Indicators
\* Their sub modules belong to the topmost directory.
MultiModule == {"maven"}

VARIABLES
    layout,    \* the project
    setting,   \* the command and its surroundings
    step,      \* the next step
    found,     \* technologiesDetected: descriptors by technology and directory
    noTech,    \* the directories reported without a technology
    list       \* the technologies a curation audit goes through

tdVars == <<layout, setting, step, found, noTech, list>>

\* recursive: the whole tree (jf audit) or one directory; asked: technologies
\* the user named; cwd and the rest: for curation, the working directory, the
\* configuration files and the HF_ENDPOINT variable.
NoSetting == [recursive |-> FALSE, asked |-> {}, clean |-> FALSE, cwd |-> <<>>, home |-> <<>>,
              has |-> {}]

DetectionInit ==
    /\ layout = <<>> /\ setting = NoSetting
    /\ step = "idle"
    /\ found = <<>> /\ noTech = {} /\ list = <<>>

BeginDetection(l, s) ==
    /\ step = "idle"
    /\ layout' = l
    /\ setting' = [x \in DOMAIN NoSetting |-> IF x \in DOMAIN s THEN s[x] ELSE NoSetting[x]]
    /\ step' = "map"
    /\ UNCHANGED <<found, noTech, list>>

-----------------------------------------------------------------------------
(* Detection.                                                              *)

\* The list of files leaves directories out, so a .yarn directory is no file.
FilesIn(d) == layout[d] \ {".yarn"}
Scope == IF setting.recursive THEN DOMAIN layout ELSE {setting.cwd}
Indicates(t, d) == FilesIn(d) \cap Indicators[t] # {}
Describes(t, d) == FilesIn(d) \cap Descriptors[t] # {}
Excluded(t, d)  == FilesIn(d) \cap Exclude[t] # {}

\* A descriptor alone counts only for a technology that the user named.
DirsOf(t) == {d \in Scope : /\ ~Excluded(t, d)
                            /\ Indicates(t, d) \/ (Describes(t, d) /\ setting.asked # {})}
Requested == IF setting.asked = {} THEN Techs ELSE setting.asked
Located(d, files) == {<<d, f>> : f \in files}

MapDirectories ==
    /\ step = "map"
    /\ found' = [t \in {u \in Requested : DirsOf(u) # {} \/ u \in setting.asked} |->
                    [d \in DirsOf(t) |-> Located(d, FilesIn(d) \cap Descriptors[t])]]
    /\ step' = "clean"
    /\ UNCHANGED <<layout, setting, noTech, list>>

\* cleanSubDirectories: a directory below another of the technology gives its
\* descriptors to the topmost one.
Below(d, e) == IsStrictPrefix(e, d)
Top(dirs, d) == CHOOSE e \in dirs : /\ e = d \/ Below(d, e)
                                    /\ \A o \in dirs : ~Below(e, o)
\* Faulty variant: the descriptors of the sub directories are dropped.
CleanedDropping(dirs) ==
    [e \in {Top(DOMAIN dirs, d) : d \in DOMAIN dirs} |-> dirs[e]]

Cleaned(dirs) ==
    LET tops == {Top(DOMAIN dirs, d) : d \in DOMAIN dirs}
    IN [e \in tops |-> UNION {dirs[d] : d \in {x \in DOMAIN dirs : Top(DOMAIN dirs, x) = e}}]
CleanSubDirectories ==
    /\ step = "clean"
    /\ found' = [t \in DOMAIN found |->
                    IF t \in MultiModule \/ setting.clean THEN Cleaned(found[t]) ELSE found[t]]
    /\ step' = IF setting.recursive THEN "noTech" ELSE "members"
    /\ UNCHANGED <<layout, setting, noTech, list>>

\* getDirNoTechList, bottom up: the list of a directory is that of its
\* children, or the directory itself when each child has something in its own.
HasTech(d) == \E t \in DOMAIN found : d \in DOMAIN found[t]
Children(d) == {e \in DOMAIN layout : Len(e) = Len(d) + 1 /\ IsPrefix(d, e)}
NoTechList[d \in DOMAIN layout] ==
    IF HasTech(d) THEN {}
    ELSE IF \A e \in Children(d) : NoTechList[e] # {} THEN {d}
    ELSE UNION {NoTechList[e] : e \in Children(d)}
AddNoTech ==
    /\ step = "noTech"
    /\ noTech' = NoTechList[<<>>]
    /\ step' = "done"
    /\ UNCHANGED <<layout, setting, found, list>>

-----------------------------------------------------------------------------
(* Curation: the list of the working directory is promoted, step by step.  *)

Above == {d \in DOMAIN layout : Below(setting.cwd, d)}
Marked(d, marks) == layout[d] \cap marks # {}
Rename(from, to) == [i \in DOMAIN list |-> IF list[i] = from THEN to ELSE list[i]]
In(t) == \E i \in DOMAIN list : list[i] = t
\* removeTech drops every entry of the technology: there is one at most here, as
\* the list comes from a set and In guards each promotion.
Without(t) == IF In(t) THEN RemoveAt(list, CHOOSE i \in DOMAIN list : list[i] = t) ELSE list
Then(next) == step' = next /\ UNCHANGED <<layout, setting, found, noTech>>

\* promoteYarnWorkspaceMembers: the first directory above that declares
\* workspaces decides, if it is yarn's and claims the working directory.
Workspaces == {d \in Above : "workspaces" \in layout[d]}
Claimed == \E d \in Workspaces : /\ \A e \in Workspaces : Len(e) <= Len(d)
                                 /\ Marked(d, YarnMarks) /\ "claims" \in setting.has
PromoteMembers ==
    /\ step = "members"
    /\ list' = LET techs == DOMAIN found
               IN SetToSeq(IF "npm" \in techs /\ setting.cwd \in DOMAIN found.npm /\ Claimed
                           THEN (techs \ {"npm"}) \cup {"yarn"} ELSE techs)
    /\ Then("pnpm")

PromotePnpm ==
    /\ step = "pnpm"
    /\ list' = IF ~In("pnpm") /\ In("npm")
                  /\ \E d \in Above : Marked(d, {"pnpm-workspace.yaml", "pnpm-lock.yaml"})
               THEN Rename("npm", "pnpm") ELSE list
    /\ Then("yarn")

\* The walk up from the working directory stops at the home directory, when it
\* gets there, and at the root.
PromoteYarn ==
    /\ step = "yarn"
    /\ list' = IF ~In("yarn") /\ In("npm")
                  /\ \E d \in Above : /\ Marked(d, YarnMarks)
                                     /\ Below(setting.cwd, setting.home) => Below(d, setting.home)
               THEN Rename("npm", "yarn") ELSE list
    /\ Then("pip")

\* promotePipToUv: a file of pip's own wins, then any sign of uv.
PipOnly == {"requirements.txt", "setup.py", "setup.cfg", "Pipfile", "poetry.lock"}
UvSign == Marked(setting.cwd, {"uv.lock", "pyproject.toml/uv"}) \/ "uv.toml" \in setting.has
PromotePip ==
    /\ step = "pip"
    /\ list' = IF ~In("pip") THEN list
               ELSE IF Marked(setting.cwd, PipOnly) THEN Without("uv")
               ELSE IF UvSign THEN IF In("uv") THEN Without("pip") ELSE Append(Without("pip"), "uv")
               ELSE list
    /\ Then("extra")

\* Hugging Face and cargo have no indicators: they are appended.
AppendExtra ==
    /\ step = "extra"
    /\ list' = list \o (IF "HF_ENDPOINT" \in setting.has /\ Marked(setting.cwd, {"main.py"})
                        THEN <<"huggingFace">> ELSE <<>>)
                    \o (IF Marked(setting.cwd, {"Cargo.toml", "Cargo.lock"}) THEN <<"cargo">> ELSE <<>>)
    /\ Then("resolve")

\* resolveNpmYarnTech, for each technology of the list.
BecomesYarn ==
    /\ "npm.yaml" \notin setting.has
    /\ \/ "yarn.yaml" \in setting.has
       \/ /\ ~Marked(setting.cwd, {"package-lock.json"})
          /\ Marked(setting.cwd, YarnMarks) \/ {"pinsYarn", "globalYarnrc"} \subseteq setting.has
ResolveNpmYarn ==
    /\ step = "resolve"
    /\ list' = IF BecomesYarn THEN Rename("npm", "yarn") ELSE list
    /\ Then("done")

\* --script, --hugging-face-model and --docker-image replace the detection.
NamedOnly(t) ==
    /\ step = "idle"
    /\ list' = <<t>>
    /\ Then("done")

DetectionNext ==
    \/ step = "idle" /\ \E p \in Projects : BeginDetection(p[1], p[2])
    \/ MapDirectories \/ CleanSubDirectories \/ AddNoTech
    \/ PromoteMembers \/ PromotePnpm \/ PromoteYarn \/ PromotePip \/ AppendExtra \/ ResolveNpmYarn
    \/ \E t \in {"uv", "huggingFace", "docker"} : NamedOnly(t)

DetectionSpec == DetectionInit /\ [][DetectionNext]_tdVars

-----------------------------------------------------------------------------
(* Properties.                                                             *)

\* The variables range over the values the code gives them.
DetectionTypeOK ==
    /\ step \in {"idle", "map", "clean", "noTech", "members", "pnpm", "yarn", "pip", "extra",
                 "resolve", "done"}
    /\ DOMAIN found \subseteq Techs
    /\ noTech \subseteq DOMAIN layout
    /\ \A i \in DOMAIN list : list[i] \in Techs \cup {"huggingFace", "cargo", "docker"}

Covered(d) == \/ \E t \in DOMAIN found : \E e \in DOMAIN found[t] : d = e \/ Below(d, e) \/ Below(e, d)
              \/ \E e \in noTech : d = e \/ Below(d, e)
Keepers(t, x) == {e \in DOMAIN found[t] : x \in found[t][e]}

\* jf audit forgets nothing: a directory has a technology, above or below it, or
\* lies in one reported without; each descriptor that was found is kept in one
\* directory, and no multi-module directory contains another.
NothingForgotten ==
    step = "done" /\ setting.recursive =>
        /\ \A d \in DOMAIN layout : Covered(d)
        /\ \A t \in DOMAIN found : \A d \in DirsOf(t) :
             \A x \in Located(d, FilesIn(d) \cap Descriptors[t]) : Cardinality(Keepers(t, x)) = 1
        /\ \A t \in DOMAIN found \cap MultiModule : \A d, e \in DOMAIN found[t] : ~Below(d, e)

\* A curation audit resolves a project with one manager of each pair that reads
\* the same descriptor: never pip and uv, and one of npm, pnpm and yarn, once.
\* Only .yarnrc, which npm does not exclude, lets two of them through.
ManagersExclusive ==
    step = "done" /\ ~setting.recursive /\ setting.asked = {} =>
        /\ ~(In("pip") /\ In("uv"))
        /\ \A i, j \in DOMAIN list :
             i # j /\ {list[i], list[j]} \subseteq {"npm", "pnpm", "yarn"} => ".yarnrc" \in layout[setting.cwd]

\* No project is left out of the detection, and none is resolved by two
\* managers of one descriptor: the two above.
ProjectCovered == NothingForgotten /\ ManagersExclusive

=============================================================================
