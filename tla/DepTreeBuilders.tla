-------------------------- MODULE DepTreeBuilders --------------------------
(***************************************************************************)
(* How the build-info generator makes the dependency trees of a target     *)
(* (GenerateSbom, buildDependencyTree and GetTechDependencyTree in         *)
(* sca/bom/buildinfo/buildinfobom.go, and BuildDependencyTree of each      *)
(* technology below it).                                                   *)
(*                                                                         *)
(* A builder moves the process to another directory, changes environment   *)
(* variables and files of the project, makes temporary directories, runs   *)
(* the package manager, and undoes all that in deferred functions.  Each   *)
(* builder is a sequence of steps, one per call that can fail or change    *)
(* something; calls of functions with deferred functions of their own are  *)
(* frames.  Any step may fail, and so may any deferred function.           *)
(***************************************************************************)
EXTENDS Naturals, Sequences, FiniteSets

CONSTANTS
    TechLists       \* the technologies of a target, in the order of their trees

ASSUME TreesAssumption == TechLists \subseteq Seq(STRING)

VARIABLES
    options,    \* curation, repo (a resolution repository is set), skip (no
                \* install), techs (the technologies of the target)
    pending,    \* the technologies without a tree yet, the current one first
    frames,     \* the calls of its builder, the innermost first
    workDir,    \* the directory of the process
    home,       \* the directory in which the current builder started
    env,        \* the environment variables that differ from the user's
    touched,    \* what was changed in the user's project
    temps,      \* the temporary directories that exist
    stuck,      \* what a deferred function failed to undo
    failures,   \* the failures that must reach the result, and the steps that failed
    built,      \* the technologies whose tree was merged
    empty,      \* those without a dependency
    buildErr,   \* the kinds of the errors joined so far
    sbom,       \* the technologies in the SBOM that is returned
    returned,   \* the kinds of the error that is returned
    phase       \* "idle", "techs", "building", "leaving" or "done"

treeVars == <<options, pending, frames, workDir, home, env, touched, temps, stuck, failures,
              built, empty, buildErr, sbom, returned, phase>>

-----------------------------------------------------------------------------
(* Steps.                                                                  *)

Step(op, arg, body, alt) == [op |-> op, arg |-> arg, body |-> body, alt |-> alt]

Try(what)        == Step("try", what, <<>>, <<>>)       \* fails or has no effect
Assign(what)     == Step("assign", what, <<>>, <<>>)    \* sets err and goes on
Raise(kind)      == Step("raise", kind, <<>>, <<>>)     \* returns an error
Run(dir, what)   == Step("run", <<dir, what>>, <<>>, <<>>)  \* changes a directory, may fail
MkTemp(dir)      == Step("mktemp", dir, <<>>, <<>>)
ChDir(dir)       == Step("chdir", dir, <<>>, <<>>)
SetEnv(var)      == Step("put", var, <<>>, <<>>)
Edit(file)       == Step("edit", file, <<>>, <<>>)
Choice(a, b)     == Step("choice", "", a, b)            \* whichever the code's test picks
Invoke(body)     == Step("call", "raise", body, <<>>)   \* its error is returned
Fallback(a, b)   == Step("call", "else", a, b)          \* its error is dropped, then b
OnExit(u)        == Step("defer", u, <<>>, <<>>)

\* A deferred function: its failure is joined to the result, logged or lost.
CleanUp(act, arg, report) == [act |-> act, arg |-> arg, report |-> report]
Back           == CleanUp("chdir", {"cwd"}, "joined")
Rm(dir)        == CleanUp("rm", {dir}, "joined")
RmFailed(dir)  == CleanUp("rmFailed", {dir}, "joined")  \* only when an error is returned
UnsetEnv(var)  == CleanUp("env", {var}, "joined")
Restore(files) == CleanUp("file", files, "joined")
Quietly(u)     == [u EXCEPT !.report = "logged"]
Lost(u)        == [u EXCEPT !.report = "lost"]

If(c, steps) == IF c THEN steps ELSE <<>>

\* A project that is not installed is an error when installing it was ruled out.
NotInstalled(o) == If(o.skip, <<Choice(<<>>, <<Raise("notInstalled")>>)>>)

-----------------------------------------------------------------------------
(* Python: pip, pipenv, poetry.                                            *)

SetPipVirtualEnvPath ==
    <<Fallback(<<Run("cwd", "venv")>>, <<Run("cwd", "virtualenv")>>),
      Try("venv path"), SetEnv("PATH"), OnExit(UnsetEnv("PATH"))>>

installPipDeps(o) ==
    SetPipVirtualEnvPath
    \o If(o.repo, <<Try("repository URL")>>)
    \o If(o.curation, <<Fallback(<<Try("upgrade pip")>>, <<>>), Try("cache folder")>>)
    \o <<Choice(<<Run("cwd", "pip install -r")>>,
                <<Fallback(<<Run("cwd", "pip install .")>>, <<Run("cwd", "pip install -r")>>)>>)>>

runPipenvInstallFromRemoteRegistry(o) ==
    IF o.curation
    THEN <<Try("pipenv version"), Try("pipenv path"), Try("repository URL"),
           Run("cwd", "Pipfile"), Run("cwd", "pipenv install")>>
    ELSE <<Try("repository URL"), Try("pipenv path"), Run("cwd", "pipenv install")>>

protectPipenvCurationEnvironment ==
    <<Try("Pipfile path"), SetEnv("PIPENV_PIPFILE"), OnExit(UnsetEnv("PIPENV_PIPFILE"))>>

installPipenvDeps(o) ==
    <<SetEnv("WORKON_HOME"), OnExit(UnsetEnv("WORKON_HOME"))>>
    \o If(o.curation, protectPipenvCurationEnvironment)
    \o IF o.repo THEN runPipenvInstallFromRemoteRegistry(o)
       ELSE IF o.curation
            THEN <<Try("pip.conf"), Try("Pipfile source"),
                   Choice(runPipenvInstallFromRemoteRegistry(o), <<Raise("failed")>>)>>
            ELSE <<Run("cwd", "pipenv install")>>

\* The lock is checked before the source is rewritten, and generated or updated after.
installPoetryDeps(o) ==
    If(o.curation, <<Try("poetry version"), Try("poetry.lock exists")>>)
    \o If(o.repo, <<Try("repository URL")>>)
    \o If(o.repo /\ o.curation, <<Try("read pyproject"), Run("cwd", "pyproject")>>)
    \o If(o.repo, <<Choice(<<Try("poetry config")>>, <<>>)>>)
    \o IF o.curation
       THEN <<Choice(<<Choice(<<Run("cwd", "poetry lock")>>,
                              <<Fallback(<<Run("cwd", "poetry lock --no-update")>>,
                                         <<Run("cwd", "poetry lock")>>)>>)>>,
                     <<>>)>>
       ELSE <<Run("cwd", "poetry install")>>

runPythonInstall(tool, o) ==
    CASE tool = "pip" -> installPipDeps(o)
      [] tool = "pipenv" -> installPipenvDeps(o)
      [] tool = "poetry" -> installPoetryDeps(o)

\* The deferred function of the temporary directory is registered after the
\* change into it.  With curation the error of the dependencies is overwritten
\* by that of their URLs.
getDependencies(tool, o) ==
    <<Try("working directory"), MkTemp("work"), ChDir("work"),
      OnExit(Rm("work")), OnExit(Back), Try("copy")>>
    \o If(~o.skip \/ (tool = "pipenv" /\ o.curation), runPythonInstall(tool, o))
    \o <<Try("dependencies path"), Assign("dependencies")>>
    \o If(o.curation, <<Assign("download URLs")>>)

-----------------------------------------------------------------------------
(* uv and cargo: only for curation, always in a copy.                      *)

generateUvLock(o) ==
    <<Invoke(<<Try("cache folder")>>
           \o If(o.repo, <<MkTemp("config"), OnExit(Quietly(Rm("config")))>>)
           \o <<Run("work", "uv lock")>>)>>

InTempCopy(steps) == <<Invoke(<<MkTemp("work"), OnExit(Quietly(Rm("work"))), Try("copy")>> \o steps)>>

\* A lock that is in sync is used when all of it came from the repository; one
\* that was just made is an error when it did not.
generateUvLockInTempDir(o) ==
    InTempCopy(<<Try("neutralize indexes"), Try("lock state"),
                 Choice(<<Try("verify lock"), Try("read lock")>>,
                        generateUvLock(o) \o If(o.repo, <<Try("verify lock")>>) \o <<Try("read lock")>>)>>)

generateUvScriptLockForCuration(o) == InTempCopy(generateUvLock(o) \o <<Try("read lock")>>)

Uv(o) ==
    IF ~o.curation THEN <<Raise("failed")>>
    ELSE <<Try("uv version")>>
         \o <<Choice(<<Try("script")>> \o If(o.repo, <<Try("index URL")>>)
                     \o generateUvScriptLockForCuration(o),
                     If(o.repo, <<Try("index URL")>>) \o <<Try("working directory")>>
                     \o generateUvLockInTempDir(o)),
              Try("packages of the lock")>>

\* Everything that fails after the temporary home was made removes it.
protectCargoCurationEnvironment ==
    <<Invoke(<<MkTemp("cargoHome"), OnExit(RmFailed("cargoHome")), Try("config.toml"), Try("credentials.toml")>>),
      SetEnv("CARGO_HOME"), OnExit(Quietly(Rm("cargoHome"))), OnExit(Quietly(UnsetEnv("CARGO_HOME")))>>

Cargo(o) ==
    IF ~o.curation THEN <<Raise("failed")>>
    ELSE <<Try("working directory"), Try("not audited before"), Try("cargo")>>
         \o If(o.repo, protectCargoCurationEnvironment)
         \o <<MkTemp("work"), OnExit(Quietly(Rm("work"))), Try("copy"),
              Choice(<<Run("work", "cargo generate-lockfile")>>, <<>>),
              Try("read lock"), Try("packages of the lock"), Try("tree")>>

-----------------------------------------------------------------------------
(* JavaScript: yarn, pnpm, npm.                                            *)

\* Yarn 1 makes node_modules, which is removed when it was not there.
runYarnInstallAccordingToVersion(dir) ==
    <<Choice(<<Run(dir, "yarn install")>>,
             <<Try("yarn version"),
               Choice(<<Run(dir, "yarn install")>>,
                      <<Try("node_modules exists"),
                        Invoke(<<OnExit(Restore({"node_modules"})), Run(dir, "node_modules")>>)>>)>>)>>

\* Of the project's .yarnrc.yml only; that of a copy goes with the copy.
configureYarnResolutionServerAndRunInstall(dir, o) ==
    IF ~o.repo THEN runYarnInstallAccordingToVersion(dir)
    ELSE <<Try("yarn version"),
           Choice(runYarnInstallAccordingToVersion(dir),
                  <<Invoke(<<Try("backup .yarnrc.yml"), OnExit(Restore({".yarnrc.yml"})), Try("credentials"),
                           SetEnv("YARN"), OnExit(UnsetEnv("YARN")), Run(dir, ".yarnrc.yml")>>
                         \o runYarnInstallAccordingToVersion(dir))>>)>>

\* An install that was asked for is made even so.
isInstallRequired(o) == <<Try("install required")>> \o NotInstalled(o)

\* An install that failed may still leave a lock that can be enumerated.
\* Yarn 4 and a lock that is up to date need no install at all.
resolveCurationLockfileDir(o) ==
    <<Invoke(isInstallRequired(o)
             \o <<Choice(<<>>,
                    <<MkTemp("lock"), OnExit(RmFailed("lock")), Try("copy"),
                      Fallback(configureYarnResolutionServerAndRunInstall("lock", o),
                               <<Try("handle the install error")>>)>>)>>)>>

Yarn(o) ==
    <<Try("working directory"), Try("yarn")>>
    \o If(o.curation, <<Try("yarn version")>>)
    \o <<Try("package.json")>>
    \o IF o.curation
       THEN resolveCurationLockfileDir(o) \o <<OnExit(Rm("lock")), Try("yarn info"), Try("member"), Try("tree")>>
       ELSE isInstallRequired(o)
            \o <<Choice(configureYarnResolutionServerAndRunInstall("target", o), <<>>)>>
            \o <<Try("yarn info"), Try("tree")>>

\* In a temporary directory, unless what is there is up to date.
ResolveInCopy(checks, install) ==
    <<Invoke(checks \o <<Choice(<<>>, <<MkTemp("lock"), OnExit(RmFailed("lock")), Try("copy")>> \o install)>>)>>

resolveLockfileDir == ResolveInCopy(<<Try("lock exists")>>, <<Run("lock", "pnpm install"), Try("lock exists")>>)
installProjectIfNeeded ==
    ResolveInCopy(<<Try("lock exists"), Try("node_modules exists")>>, <<Run("lock", "pnpm install")>>)

Pnpm(o) ==
    <<Try("working directory"), Try("pnpm")>>
    \o IF o.curation
       THEN <<Try("pnpm version")>> \o resolveLockfileDir \o <<OnExit(Rm("lock")), Try("parse lock")>>
       ELSE installProjectIfNeeded \o <<OnExit(Rm("lock")), Try("pnpm ls")>>

Npm(o) ==
    <<Try("working directory"), Try("npm version"), Try("package.json")>>
    \o If(o.repo, <<Choice(<<>>, <<Try("configure .npmrc"), Edit(".npmrc"), OnExit(Restore({".npmrc"}))>>)>>)
    \o NotInstalled(o) \o <<Try("dependencies map")>>

-----------------------------------------------------------------------------
(* .NET, Java, Go, Ruby, Conan, Swift, CocoaPods, Docker, Hugging Face.    *)

getEnvVariablesForCurationAudit == <<Try("cache folder"), SetEnv("NUGET_PACKAGES")>>

\* The server's URL is extended in place.
runDotnetRestoreAndLoadSolution(o) ==
    <<Try("tool name")>>
    \o If(o.repo /\ o.curation, <<SetEnv("ArtifactoryUrl")>>)
    \o If(o.repo, <<Try("configuration file")>>)
    \o <<Try("command")>>
    \o If(o.curation, getEnvVariablesForCurationAudit)
    \o <<Run("work", "restore"), Try("load solution")>>

restoreInTempDirAndGetBuildInfo(o) ==
    <<Invoke(<<MkTemp("work"), OnExit(Rm("work")), Try("copy")>>
           \o runDotnetRestoreAndLoadSolution(o) \o <<Try("build info")>>)>>

Nuget(o) ==
    <<Try("working directory"), Try("solution")>>
    \o NotInstalled(o)
    \o <<Choice(restoreInTempDirAndGetBuildInfo(o), <<Try("build info")>>)>>

\* When the file cannot be removed its backup stays.
removeMavenConfig ==
    <<Try("maven.config exists"),
      Choice(<<>>, <<Try("backup"), Edit("maven.config.bkp"), Try("remove maven.config"), Edit("maven.config")>>)>>

RunMvnCmd == <<Invoke(removeMavenConfig
                      \o <<OnExit(Restore({"maven.config", "maven.config.bkp"})), Try("mvn")>>)>>

CreateTempDirWithSettingsXmlIfNeeded(o) ==
    <<Invoke(<<MkTemp("work"), OnExit(RmFailed("work"))>> \o If(o.repo, <<Try("settings.xml")>>))>>

Maven(o) ==
    <<Try("maven wrapper")>> \o CreateTempDirWithSettingsXmlIfNeeded(o)
    \o <<OnExit(Rm("work")), Choice(<<>>, RunMvnCmd)>> \o RunMvnCmd
    \o <<Try("read output"), Try("parse output")>>

createDepTreeScriptAndGetDir == <<MkTemp("work"), Try("remote repositories"), Try("write script")>>

execGradleDepTree ==
    <<Invoke(<<Try("gradle"), Run("target", "gradle clean"), OnExit(Restore({"output"})), Try("read output")>>)>>

\* The results have no names: what the deferred function joins is lost.
Gradle ==
    createDepTreeScriptAndGetDir
    \o <<OnExit(Lost(Rm("work"))), Try("gradle wrapper")>> \o execGradleDepTree \o <<Try("parse output")>>

Golang(o) ==
    <<Try("working directory")>>
    \o If(o.curation, <<Try("cache folder"), SetEnv("GOMODCACHE")>>)
    \o If(o.repo, <<Try("repository"), SetEnv("GOPROXY")>>)
    \o <<Try("go mod graph"), Try("go list"), Try("module name")>>
    \o If(~o.curation, <<Try("go version")>>)

Gem == <<Try("working directory"), Try("ruby"), Run("target", "bundle lock"), Try("lock exists"), Try("parse lock")>>

Conan == <<Try("working directory"), Try("conan"), Try("conan graph info"), Try("parse graph")>>

Swift == <<Try("xray version"), Try("working directory"), Fallback(<<Try("package name")>>, <<>>),
           Try("swift"), Try("dependencies")>>

Cocoapods(o) ==
    <<Try("xray version"), Try("working directory"),
      Choice(<<>>, IF o.skip THEN <<Raise("notInstalled")>> ELSE <<Try("pod"), Run("target", "pod install")>>),
      Try("dependencies")>>

\* An image that curation blocks is named in the output of the pull.
Docker == <<Try("server"), Try("image name"),
            Choice(<<Try("docker pull"), Try("platform"), Try("digest")>>, <<>>)>>

HuggingFace == <<Choice(<<Try("model references")>>, <<Try("scan sources")>>)>>

Builder(t, o) ==
    CASE t \in {"pip", "pipenv", "poetry"} -> getDependencies(t, o)
      [] t = "uv" -> Uv(o)
      [] t = "cargo" -> Cargo(o)
      [] t = "yarn" -> Yarn(o)
      [] t = "pnpm" -> Pnpm(o)
      [] t = "npm" -> Npm(o)
      [] t = "nuget" -> Nuget(o)
      [] t = "maven" -> Maven(o)
      [] t = "gradle" -> Gradle
      [] t = "go" -> Golang(o)
      [] t = "gem" -> Gem
      [] t = "conan" -> Conan
      [] t = "swift" -> Swift
      [] t = "cocoapods" -> Cocoapods(o)
      [] t = "docker" -> Docker
      [] t = "huggingface" -> HuggingFace
      [] OTHER -> <<Raise("failed")>>     \* "currently not supported"

GetTechDependencyTree(t, o) == If(o.curation /\ t \in {"maven", "go"}, <<Try("cache exists")>>) \o Builder(t, o)

-----------------------------------------------------------------------------
(* Running the steps.                                                      *)

TreesInit ==
    /\ options = [curation |-> FALSE, repo |-> FALSE, skip |-> FALSE, techs |-> <<>>]
    /\ pending = <<>> /\ frames = <<>>
    /\ workDir = "start" /\ home = "start"
    /\ env = {} /\ touched = {} /\ temps = {} /\ stuck = {} /\ failures = {}
    /\ built = {} /\ empty = {} /\ buildErr = {}
    /\ sbom = {} /\ returned = {}
    /\ phase = "idle"

outerVars == <<options, pending, home, built, empty, buildErr, sbom, returned, phase>>

Frame(todo, onErr, alt) ==
    [todo |-> todo, undo |-> <<>>, err |-> {}, onErr |-> onErr, alt |-> alt, before |-> failures]
Top == frames[1]
Now == Head(Top.todo)
Rest == [Top EXCEPT !.todo = Tail(@)]
Doing(op) == phase = "building" /\ Top.todo # <<>> /\ Now.op = op
WithTop(f) == frames' = <<f>> \o Tail(frames)
\* A return that skips the deferred functions.
ReturnSkippingDeferred(kind) ==
    WithTop([Top EXCEPT !.todo = <<>>, !.undo = <<>>, !.err = @ \cup {kind}])

\* The function returns the error: what is left of it does not run.
Return(kind) == WithTop([Top EXCEPT !.todo = <<>>, !.err = @ \cup {kind}])
InTarget(dir) == dir = "target" \/ (dir = "cwd" /\ workDir = "target")

StepFails ==
    /\ \E op \in {"try", "mktemp", "chdir"} : Doing(op)
    /\ Return("failed")
    /\ failures' = failures \cup {Now.arg}
    /\ UNCHANGED <<workDir, env, touched, temps, stuck>> /\ UNCHANGED outerVars

RaiseError ==
    /\ Doing("raise")
    /\ Return(Now.arg)
    /\ UNCHANGED <<workDir, env, touched, temps, stuck, failures>> /\ UNCHANGED outerVars

StepWorks ==
    /\ \E op \in {"try", "mktemp", "chdir", "put", "edit"} : Doing(op)
    /\ WithTop(Rest)
    /\ temps' = IF Now.op = "mktemp" THEN temps \cup {Now.arg} ELSE temps
    /\ workDir' = IF Now.op = "chdir" THEN Now.arg ELSE workDir
    /\ env' = IF Now.op = "put" THEN env \cup {Now.arg} ELSE env
    /\ touched' = IF Now.op = "edit" THEN touched \cup {Now.arg} ELSE touched
    /\ UNCHANGED <<stuck, failures>> /\ UNCHANGED outerVars

\* A command may have changed files when it fails.
RunCommand ==
    /\ Doing("run")
    /\ touched' = IF InTarget(Now.arg[1]) THEN touched \cup {Now.arg[2]} ELSE touched
    /\ \/ WithTop(Rest) /\ UNCHANGED failures
       \/ Return("failed") /\ failures' = failures \cup {Now.arg[2]}
    /\ UNCHANGED <<workDir, env, temps, stuck>> /\ UNCHANGED outerVars

AssignError ==
    /\ Doing("assign")
    /\ \/ WithTop([Rest EXCEPT !.err = {}]) /\ UNCHANGED failures
       \/ WithTop([Rest EXCEPT !.err = {"failed"}]) /\ failures' = failures \cup {Now.arg}
    /\ UNCHANGED <<workDir, env, touched, temps, stuck>> /\ UNCHANGED outerVars

Choose ==
    /\ Doing("choice")
    /\ \E branch \in {Now.body, Now.alt} : WithTop([Rest EXCEPT !.todo = branch \o @])
    /\ UNCHANGED <<workDir, env, touched, temps, stuck, failures>> /\ UNCHANGED outerVars

EnterCall ==
    /\ Doing("call")
    /\ frames' = <<Frame(Now.body, Now.arg, Now.alt), Rest>> \o Tail(frames)
    /\ UNCHANGED <<workDir, env, touched, temps, stuck, failures>> /\ UNCHANGED outerVars

Defer ==
    /\ Doing("defer")
    /\ WithTop([Rest EXCEPT !.undo = <<Now.arg>> \o @])
    /\ UNCHANGED <<workDir, env, touched, temps, stuck, failures>> /\ UNCHANGED outerVars

\* The deferred functions run last in, first out.
Undoing == phase = "building" /\ Top.todo = <<>> /\ Top.undo # <<>>
Undone == [Top EXCEPT !.undo = Tail(@)]
Deferred == Head(Top.undo)

UndoWorks ==
    /\ Undoing
    /\ LET u == Deferred IN
        /\ workDir' = IF u.act = "chdir" THEN home ELSE workDir
        /\ temps' = IF u.act = "rm" \/ (u.act = "rmFailed" /\ Top.err # {}) THEN temps \ u.arg ELSE temps
        /\ env' = IF u.act = "env" THEN env \ u.arg ELSE env
        /\ touched' = IF u.act = "file" THEN touched \ u.arg ELSE touched
    /\ WithTop(Undone)
    /\ UNCHANGED <<stuck, failures>> /\ UNCHANGED outerVars

UndoFails ==
    /\ Undoing
    /\ LET u == Deferred IN
        /\ \/ u.act \in {"chdir", "file"}
           \/ u.arg \cap temps # {} /\ (u.act = "rm" \/ (u.act = "rmFailed" /\ Top.err # {}))
        /\ stuck' = stuck \cup u.arg
        /\ IF u.report = "joined"
           THEN WithTop([Undone EXCEPT !.err = @ \cup {"failed"}]) /\ failures' = failures \cup {"undo"}
           ELSE WithTop(Undone) /\ UNCHANGED failures
    /\ UNCHANGED <<workDir, env, touched, temps>> /\ UNCHANGED outerVars

\* A call returns to its caller.  The failures of a call that has an
\* alternative are dealt with.
EndCall ==
    /\ phase = "building" /\ Len(frames) > 1
    /\ Top.todo = <<>> /\ Top.undo = <<>>
    /\ LET caller == frames[2] IN
        frames' = << CASE Top.err = {} -> caller
                       [] Top.err # {} /\ Top.onErr = "raise" ->
                            [caller EXCEPT !.todo = <<>>, !.err = @ \cup Top.err]
                       [] Top.err # {} /\ Top.onErr = "else" ->
                            [caller EXCEPT !.todo = Top.alt \o @] >>
                   \o SubSeq(frames, 3, Len(frames))
    /\ failures' = IF Top.err # {} /\ Top.onErr = "else" THEN Top.before ELSE failures
    /\ UNCHANGED <<workDir, env, touched, temps, stuck>> /\ UNCHANGED outerVars

-----------------------------------------------------------------------------
(* The technologies of a target.                                           *)

innerVars == <<env, touched, temps, stuck, failures>>

BeginTarget(o) ==
    /\ phase = "idle"
    /\ options' = o
    /\ pending' = o.techs
    /\ \/ workDir' = "target" /\ phase' = "techs" /\ UNCHANGED returned
       \/ ~o.curation /\ phase' = "done" /\ returned' = {"failed"} /\ UNCHANGED workDir
    /\ UNCHANGED <<frames, home, built, empty, buildErr, sbom>> /\ UNCHANGED innerVars

\* Each technology resolves with a copy of the parameters.
BeginTech ==
    /\ phase = "techs" /\ pending # <<>>
    /\ home' = workDir
    /\ frames' = <<Frame(If(~options.curation, <<Try("resolution repository")>>)
                         \o GetTechDependencyTree(Head(pending), options), "raise", <<>>)>>
    /\ phase' = "building"
    /\ UNCHANGED <<options, pending, workDir, built, empty, buildErr, sbom, returned>> /\ UNCHANGED innerVars

EndTech ==
    /\ phase = "building" /\ Len(frames) = 1
    /\ Top.todo = <<>> /\ Top.undo = <<>>
    /\ LET t == Head(pending) IN
        IF Top.err # {}
        THEN buildErr' = buildErr \cup Top.err /\ UNCHANGED <<built, empty>>
        ELSE /\ \/ built' = built \cup {t} /\ UNCHANGED empty
                \/ empty' = empty \cup {t} /\ UNCHANGED built
             /\ UNCHANGED buildErr
    /\ pending' = Tail(pending)
    /\ frames' = <<>>
    /\ phase' = "techs"
    /\ UNCHANGED <<options, workDir, home, sbom, returned>> /\ UNCHANGED innerVars

\* Curation asks for one technology and gets its error.
EndCurationTree ==
    /\ phase = "techs" /\ pending = <<>> /\ options.curation
    /\ returned' = buildErr
    /\ sbom' = built
    /\ phase' = "done"
    /\ UNCHANGED <<options, pending, frames, workDir, home, built, empty, buildErr>> /\ UNCHANGED innerVars

\* One tree is enough for a success.
EndTreesPartial ==
    /\ phase = "techs" /\ pending = <<>> /\ ~options.curation
    /\ sbom' = built
    /\ returned' = IF built = {} THEN {"failed"} ELSE {}
    /\ phase' = "leaving"
    /\ UNCHANGED <<options, pending, frames, workDir, home, built, empty, buildErr>> /\ UNCHANGED innerVars

\* buildDependencyTree returns what it merged with the joined errors; the SBOM
\* is only filled when there is none.  A project that is not installed is only
\* warned of, whatever else is in the joined error.
EndTrees ==
    /\ phase = "techs" /\ pending = <<>> /\ ~options.curation
    /\ LET err == IF built = {} /\ buildErr = {} THEN {"failed"} ELSE buildErr IN
        /\ sbom' = IF err = {} THEN built ELSE {}
        /\ returned' = IF err = {} \/ "notInstalled" \in err THEN {} ELSE {"failed"}
    /\ phase' = "leaving"
    /\ UNCHANGED <<options, pending, frames, workDir, home, built, empty, buildErr>> /\ UNCHANGED innerVars

\* The error of the deferred change of directory is joined to a local variable.
LeaveTarget ==
    /\ phase = "leaving"
    /\ phase' = "done"
    /\ \/ workDir' = "start" /\ UNCHANGED stuck
       \/ stuck' = stuck \cup {"start"} /\ UNCHANGED workDir
    /\ UNCHANGED <<options, pending, frames, home, env, touched, temps, failures, built, empty,
                   buildErr, sbom, returned>>

\* Images and models are audited by curation only, one technology at a time.
TargetRequests ==
    {o \in [curation : BOOLEAN, repo : BOOLEAN, skip : BOOLEAN, techs : TechLists] :
        IF o.curation THEN Len(o.techs) = 1
        ELSE \A i \in DOMAIN o.techs : o.techs[i] \notin {"docker", "huggingface"}}

TreesNext ==
    \/ \E o \in TargetRequests : BeginTarget(o)
    \/ BeginTech \/ EndTech \/ EndCurationTree \/ EndTrees \/ LeaveTarget
    \/ StepWorks \/ StepFails \/ RaiseError \/ RunCommand \/ AssignError
    \/ Choose \/ EnterCall \/ Defer \/ UndoWorks \/ UndoFails \/ EndCall

TreesSpec == TreesInit /\ [][TreesNext]_treeVars

-----------------------------------------------------------------------------
(* Properties.                                                             *)

UserFiles == {".npmrc", ".yarnrc.yml", "maven.config", "maven.config.bkp", "node_modules"}
InstallsInPlace == {"gradle clean", "bundle lock", "pod install"}

TreesTypeOK ==
    /\ pending \in Seq(STRING) /\ Len(pending) <= Len(options.techs)
    /\ workDir \in {"start", "target", "work"} /\ home \in {"start", "target", "work"}
    /\ temps \subseteq {"work", "config", "cargoHome", "lock"}
    /\ buildErr \subseteq {"failed", "notInstalled"} /\ returned \subseteq {"failed", "notInstalled"}
    /\ sbom \subseteq built /\ built \cap empty = {}
    /\ phase \in {"idle", "techs", "building", "leaving", "done"}

Ran(t) == \E i \in DOMAIN options.techs : options.techs[i] = t
KeptVariables == {v \in {"NUGET_PACKAGES", "ArtifactoryUrl"} : Ran("nuget")}
                 \cup {v \in {"GOMODCACHE", "GOPROXY"} : Ran("go")}
\* Before the deferred function is registered: the change into a new directory
\* and what Gradle writes there.
UnguardedSteps == {"work", "remote repositories", "write script"}

\* When the trees are made, whatever failed on the way, the directory, the
\* environment and the user's files are as before and no temporary directory is
\* left, but for what a deferred function failed to undo, what NuGet and Go
\* never restore, and the steps no deferred function guards yet.
Released ==
    phase = "done" =>
        /\ workDir \in {"start", IF options.curation THEN "target" ELSE "start"} \/ stuck \cap {"cwd", "start"} # {}
        /\ env \subseteq KeptVariables
        /\ touched \cap UserFiles \subseteq
               stuck \cup {f \in {"maven.config.bkp"} : "remove maven.config" \in failures}
        /\ temps \subseteq stuck \/ UnguardedSteps \cap failures # {}

\* The user's project is not where packages are installed, except by the
\* technologies that have no other way and by yarn when it is no curation audit.
InstalledInCopy ==
    touched \subseteq UserFiles \cup InstallsInPlace
                      \cup (IF options.curation THEN {} ELSE {"yarn install"})

\* Each technology is resolved in the directory of the target, also after
\* another one failed there.
StartsInTarget == phase = "building" => home = "target" \/ "cwd" \in stuck

\* A build of the trees leaves the user's files, directory and environment as
\* it found them, and starts each technology in the target: the three above.
LeftAsFound == Released /\ InstalledInCopy /\ StartsInTarget

\* Curation overwrites the error of the Python dependencies by that of their URLs.
Overwritten == {f \in {"dependencies"} : options.curation /\ \E t \in {"pip", "pipenv", "poetry"} : Ran(t)}

\* A failure reaches the caller, and without an error the SBOM has the trees of
\* all technologies: except that curation overwrites the error of the Python
\* dependencies, and that a project that is not installed hides every other
\* error of the target.
FailureReturned ==
    phase = "done" /\ returned = {} =>
        \/ "notInstalled" \in buildErr
        \/ /\ failures \subseteq Overwritten
           /\ \A i \in DOMAIN options.techs : options.techs[i] \in sbom \cup empty

-----------------------------------------------------------------------------
(* Why a failure reaches the caller.                                       *)

\* What had failed when a call got to where it is, or made the call it is in.
Seen(i) == IF i = 1 THEN failures ELSE frames[i - 1].before
\* A call that goes on, waits for another one, or has no error so far had no
\* failure of its own, nor of the calls it made, but those it may forget.
FramesInv ==
    /\ phase = "building" <=> frames # <<>>
    /\ \A i \in DOMAIN frames :
          /\ frames[i].onErr \in {"raise", "else"}
          /\ i > 1 \/ frames[i].todo # <<>> \/ frames[i].err = {} =>
                Seen(i) \subseteq frames[i].before \cup Overwritten
    /\ frames # <<>> /\ buildErr = {} => frames[Len(frames)].before \subseteq Overwritten

\* The technologies that are not pending have their tree, or left an error.
Resolved == Len(options.techs) - Len(pending)
PendingInv ==
    /\ Len(pending) <= Len(options.techs)
    /\ \A i \in DOMAIN pending : pending[i] = options.techs[Resolved + i]
    /\ buildErr = {} => \A i \in 1 .. Resolved : options.techs[i] \in built \cup empty
    /\ phase = "building" => pending # <<>>
    /\ phase \in {"leaving", "done"} /\ returned = {} => pending = <<>>

FailuresInv ==
    /\ FramesInv /\ PendingInv
    /\ phase \in {"idle", "techs", "leaving", "done"} /\ buildErr = {} => failures \subseteq Overwritten
    /\ phase = "idle" => failures = {} /\ buildErr = {}
    /\ phase \in {"leaving", "done"} /\ returned = {} =>
          "notInstalled" \in buildErr \/ (buildErr = {} /\ sbom = built)

=============================================================================
