-------------------------- MODULE PackageUpdaters --------------------------
(***************************************************************************)
(* remediation/sca/packageupdaters: a vulnerable dependency is moved to a  *)
(* fixed version in every descriptor that shows evidence of it, and its    *)
(* lock file is regenerated by the package manager; when that fails the    *)
(* descriptor is put back.                                                 *)
(*                                                                         *)
(* A file's content is "old", "new" (the fixed version is in it) or "half" *)
(* (an interrupted write).  Evidence paths are absolute or relative to the *)
(* directory the fix was started in, which the process leaves and returns  *)
(* to for each descriptor.                                                 *)
(***************************************************************************)
EXTENDS Naturals, Sequences, FiniteSets, SequencesExt

CONSTANTS Fixes,    \* FixDetails with what is on disk
          Root      \* the directory the fix starts in

VARIABLES fix,      \* FixDetails
          queue,    \* the descriptors still to be fixed
          files,    \* path -> contents of the descriptor and its lock file
          cwd,      \* Root, or the descriptor whose directory is the current one
          step,     \* the next call for the descriptor at the head of the queue
          causes    \* path -> why fixing it failed

updVars == <<fix, queue, files, cwd, step, causes>>

Npms == {"npm", "pnpm"}
Pythons == {"pip", "poetry", "pipenv"}
\* The updaters that refuse to fix an indirect dependency.
DirectOnly == Npms \cup Pythons \cup {"maven"}

UpdInit ==
    /\ fix \in Fixes
    /\ queue = <<>>
    /\ files = [f \in fix.evidence |-> [descriptor |-> "old", lock |-> "old"]]
    /\ cwd = Root
    /\ step = "start"
    /\ causes = [f \in fix.evidence |-> {}]

\* CollectVulnerabilityDescriptorPaths: a file that is a descriptor of the
\* technology and not vendored; pnpm drops package coordinates too.
Collected ==
    {f \in fix.evidence : /\ f.name = "descriptor" /\ (~f.vendored \/ fix.tech \in {"maven", "docker"})
                          /\ fix.tech = "pnpm" => ~f.coordinate}

UpdateDependency ==
    /\ step = "start"
    /\ IF fix.tech \in DirectOnly /\ ~fix.direct THEN step' = "unsupported" /\ UNCHANGED queue
       ELSE /\ queue' \in IF fix.tech \in Pythons THEN {SetToSeq(fix.evidence)} ELSE SetToSeqs(Collected)
            /\ step' = IF queue' = <<>> THEN "failed" ELSE "descriptor"
    /\ UNCHANGED <<fix, files, cwd, causes>>

--------------------------------------------------------------------------
Path == Head(queue)
Content == files[Path]

Reachable(f) == ~f.relative \/ cwd = Root \/ (cwd = f /\ ~f.nested)
Blame(cause) == causes' = [causes EXCEPT ![Path] = @ \cup {cause}]
\* Goes on after the last descriptor.
NextPathAlways == queue' = Tail(queue) /\ step' = "descriptor"

NextPath ==
    /\ queue' = Tail(queue)
    /\ step' = IF Len(queue) = 1 THEN "finish" ELSE "descriptor"
Write(descriptor, lock) == files' = [files EXCEPT ![Path] = [descriptor |-> descriptor, lock |-> lock]]

\* os.ReadFile, the manifest without the package, or a go.mod without go.sum.
DescriptorFails ==
    /\ step = "descriptor"
    /\ \/ ~Reachable(Path)
       \/ fix.tech \in Npms \cup {"maven", "docker", "pip"} /\ ~Path.depends
       \/ fix.tech = "go" /\ ~Path.hasLock
    /\ Blame("read") /\ NextPath
    /\ UNCHANGED <<fix, files, cwd>>

DescriptorReads ==
    /\ step = "descriptor" /\ Reachable(Path)
    /\ fix.tech \in Npms \cup {"maven", "docker", "pip"} => Path.depends
    /\ fix.tech = "go" => Path.hasLock

\* UpdatePackageJSONDescriptor, updatePomFile, updateDockerfile and handlePip
\* write the new version; only the npm updaters go on to the lock file.
WriteDescriptor ==
    /\ DescriptorReads /\ fix.tech \in Npms \cup {"maven", "docker", "pip"}
    /\ \/ /\ Write("new", Content.lock)
          /\ IF fix.tech \in Npms THEN step' = "track" /\ UNCHANGED queue ELSE NextPath
          /\ UNCHANGED causes
       \/ /\ \E left \in {"old", "half"} : Write(left, Content.lock)
          /\ Blame("write") /\ NextPath
    /\ UNCHANGED <<fix, cwd>>

\* poetry add and poetry update, or pipenv install: what a failing command left
\* stays.
RunPythonManager ==
    /\ DescriptorReads /\ fix.tech \in {"poetry", "pipenv"}
    /\ \/ Write("new", "new") /\ UNCHANGED causes
       \/ /\ \E d \in {"old", "new"} : Write(d, "old")
          /\ Blame("tool")
    /\ NextPath
    /\ UNCHANGED <<fix, cwd>>

\* Go backs up go.mod and go.sum and enters the directory before it changes them.
BackupModuleFiles ==
    /\ DescriptorReads /\ fix.tech = "go"
    /\ step' = "enter"
    /\ UNCHANGED <<fix, queue, files, cwd, causes>>

\* IsFileTrackedByGit: no relative path can be made relative to the repository,
\* and a failing check counts as tracked.
SeemsTracked == Path.relative \/ Path.tracked
IsFileTrackedByGit ==
    /\ step = "track"
    /\ IF SeemsTracked THEN step' = (IF fix.tech = "go" THEN "lock" ELSE "enter") /\ UNCHANGED queue
       ELSE IF fix.tech = "go" THEN step' = "leave" /\ UNCHANGED queue ELSE NextPath
    /\ UNCHANGED <<fix, files, cwd, causes>>

EnterFails ==
    /\ step = "enter"
    /\ Blame("enter") /\ NextPath
    /\ UNCHANGED <<fix, files, cwd>>

Enter ==
    /\ step = "enter" /\ Reachable(Path)
    /\ cwd' = Path
    /\ step' = IF fix.tech = "go" THEN "get" ELSE "lock"
    /\ UNCHANGED <<fix, queue, files, causes>>

\* go get writes go.mod and go.sum.
GoGet ==
    /\ step = "get"
    /\ \/ Write("new", "new") /\ step' = "track" /\ UNCHANGED causes
       \/ /\ \E d, l \in {"old", "half"} : Write(d, l)
          /\ step' = "undo" /\ Blame("tool")
    /\ UNCHANGED <<fix, queue, cwd>>

Regenerates == Write("new", "new") /\ step' = "leave" /\ UNCHANGED causes
\* What a failing command, or one that exceeds its time, leaves of the lock file.
BreaksOff == /\ \E l \in {"old", "half", "new"} : Write("new", l)
             /\ step' = "undo" /\ Blame("tool")

\* regenerateLockFileWithRetry: a conflict of peer dependencies is tried again
\* with --legacy-peer-deps.
NpmInstall ==
    /\ fix.tech = "npm" /\ step \in {"lock", "retry"}
    /\ \/ Regenerates
       \/ BreaksOff
       \/ step = "lock" /\ step' = "retry" /\ Write("new", "old") /\ UNCHANGED causes
    /\ UNCHANGED <<fix, queue, cwd>>

PnpmInstall ==
    /\ fix.tech = "pnpm" /\ step = "lock"
    /\ Regenerates \/ BreaksOff
    /\ UNCHANGED <<fix, queue, cwd>>

\* go mod tidy, and go mod vendor if there is a vendor directory.
TidyLockFiles ==
    /\ fix.tech = "go" /\ step = "lock"
    /\ \/ Regenerates
       \/ BreaksOff
       \/ step' = "vendor" /\ Write("new", "new") /\ UNCHANGED causes
    /\ UNCHANGED <<fix, queue, cwd>>

UpdateVendor ==
    /\ step = "vendor"
    /\ \/ step' = "leave" /\ UNCHANGED causes
       \/ step' = "undo" /\ Blame("tool")
    /\ UNCHANGED <<fix, queue, files, cwd>>

\* The npm updaters put the descriptor back, Go both files; Go writes to the
\* evidence path, which no longer leads there from a nested directory if it is
\* relative.
RestoredDescriptor(file) == [file EXCEPT !.descriptor = "old"]
Restored(file) == [descriptor |-> "old", lock |-> IF fix.tech = "go" THEN "old" ELSE file.lock]
Undo ==
    /\ step = "undo"
    /\ \/ /\ fix.tech = "go" => Reachable(Path)
          /\ files' = [files EXCEPT ![Path] = Restored(Content)] /\ UNCHANGED causes
       \/ Blame("undo") /\ UNCHANGED files
    /\ step' = "leave"
    /\ UNCHANGED <<fix, queue, cwd>>

\* The deferred Chdir to the original directory.
Leave ==
    /\ step = "leave"
    /\ \/ cwd' = Root /\ UNCHANGED causes
       \/ Blame("leave") /\ UNCHANGED cwd
    /\ NextPath
    /\ UNCHANGED <<fix, files>>

Finish ==
    /\ step = "finish"
    /\ step' = IF \E f \in fix.evidence : causes[f] # {} THEN "failed" ELSE "fixed"
    /\ UNCHANGED <<fix, queue, files, cwd, causes>>

UpdNext == \/ UpdateDependency \/ DescriptorFails \/ WriteDescriptor \/ RunPythonManager \/ BackupModuleFiles
           \/ IsFileTrackedByGit \/ EnterFails \/ Enter \/ GoGet \/ NpmInstall \/ PnpmInstall
           \/ TidyLockFiles \/ UpdateVendor \/ Undo
           \/ Leave \/ Finish

UpdSpec == UpdInit /\ [][UpdNext]_updVars /\ WF_updVars(UpdNext)

--------------------------------------------------------------------------
Contents == {"old", "new", "half"}
FailureCauses == {"read", "write", "enter", "tool", "undo", "leave"}
UpdTypes ==
    /\ fix \in Fixes /\ queue \in Seq(fix.evidence)
    /\ step \in {"start", "descriptor", "track", "enter", "get", "lock", "retry", "vendor", "undo", "leave",
                 "finish", "fixed", "failed", "unsupported"}
    /\ files \in [fix.evidence -> [descriptor : Contents, lock : Contents]]
    /\ causes \in [fix.evidence -> SUBSET FailureCauses]
    /\ cwd \in {Root} \cup fix.evidence
    /\ step \notin {"start", "finish", "fixed", "failed", "unsupported"} => queue # <<>>

\* packageupdaters: a fix that reports no error moved every collected descriptor
\* and, unless git does not know it, the lock file; the process is back where it
\* started.  A descriptor whose lock file could not be made is as it was before,
\* go.sum too, unless putting it back failed as well.  Files that are vendored or
\* package coordinates are never touched.
FixedOrUndone ==
    /\ step = "fixed" => /\ cwd = Root
                         /\ \A f \in Collected :
                              /\ files[f].descriptor = "new"
                              /\ fix.tech \in Npms \cup {"go"} /\ f.tracked => files[f].lock = "new"
    /\ step \in {"fixed", "failed", "unsupported"} /\ fix.tech \notin Pythons =>
        \A f \in fix.evidence :
            /\ f \notin Collected => files[f] = [descriptor |-> "old", lock |-> "old"]
            /\ causes[f] # {} /\ causes[f] \subseteq {"read", "tool"} =>
                /\ files[f].descriptor = "old"
                /\ fix.tech = "go" => files[f].lock = "old"

--------------------------------------------------------------------------
(* Why it holds.                                                           *)

Targets == IF fix.tech \in Pythons THEN fix.evidence ELSE Collected
Untouched(f) == files[f] = [descriptor |-> "old", lock |-> "old"] /\ causes[f] = {}
\* The outcome of a descriptor: fixed, put back, or in error for another cause
\* than those after which it must have been put back.
Settled(f) ==
    /\ causes[f] = {} =>
          /\ files[f].descriptor = "new"
          /\ fix.tech \in Npms \cup {"go"} /\ f.tracked => files[f].lock = "new"
    /\ causes[f] # {} /\ causes[f] \subseteq {"read", "tool"} /\ fix.tech \notin Pythons =>
          /\ files[f].descriptor = "old"
          /\ fix.tech = "go" => files[f].lock = "old"

\* Each target is visited once; those that are not in the queue are settled,
\* those behind its head, and the files that are no targets, untouched.
QueueInv ==
    /\ queue \in Seq(Targets)
    /\ \A i, j \in 1 .. Len(queue) : i # j => queue[i] # queue[j]
    /\ \A i \in 2 .. Len(queue) : Untouched(queue[i])
    /\ \A f \in fix.evidence \ Targets : Untouched(f)
    /\ step \in {"start", "finish", "fixed", "failed", "unsupported"} <=> queue = <<>>
    /\ IF step \in {"start", "unsupported"} THEN \A f \in fix.evidence : Untouched(f)
       ELSE \A f \in Targets : (\A i \in 1 .. Len(queue) : queue[i] # f) => Settled(f)
\* What the steps of the descriptor at the head rely on.
HeadInv ==
    /\ step \in {"track", "enter", "get", "lock", "retry", "vendor", "undo", "leave"} =>
          fix.tech \in Npms \cup {"go"}
    /\ step \in {"get", "vendor"} => fix.tech = "go"
    /\ step \in {"descriptor", "get"} \/ (step = "enter" /\ fix.tech = "go") => Untouched(Path)
    /\ step \in {"track", "lock", "retry", "vendor"} \/ (step = "enter" /\ fix.tech # "go") =>
          /\ causes[Path] = {} /\ Content.descriptor = "new"
          /\ fix.tech = "go" => Content.lock = "new"
    /\ step = "undo" => causes[Path] = {"tool"}
    /\ step = "leave" => Settled(Path)
\* The process is away from Root only between entering and leaving, or since a
\* return that failed; a fix without an error had none.
DirectoryInv ==
    /\ \/ cwd = Root
       \/ step \in {"get", "lock", "retry", "vendor", "undo", "leave"} \/ (step = "track" /\ fix.tech = "go")
       \/ \E f \in fix.evidence : "leave" \in causes[f]
    /\ step = "fixed" => \A f \in fix.evidence : causes[f] = {}

UpdInv == UpdTypes /\ QueueInv /\ HeadInv /\ DirectoryInv
=============================================================================
