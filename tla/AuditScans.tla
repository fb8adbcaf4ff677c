------------------------------ MODULE AuditScans ------------------------------
(***************************************************************************)
(* The parallel scan phase of "jf audit": runParallelAuditScans and what   *)
(* it starts.  The main goroutine fills a task channel (one JAS set-up     *)
(* task, one SCA task per target), a pool of NumThreads workers drains it, *)
(* the JAS set-up task adds the scanner tasks while it runs, and a         *)
(* coordinator goroutine waits on three wait groups before it removes the  *)
(* scanners' temporary directory and closes the channel.                   *)
(*                                                                         *)
(* A task is a pair <<kind, target>>.  What a worker is doing is recorded  *)
(* at the task it runs, so workers need no names: at most NumThreads tasks *)
(* are in a running phase.                                                 *)
(***************************************************************************)
EXTENDS Integers, Sequences, FiniteSets

CONSTANTS
  NumTargets,   \* len(cmdResults.Targets)
  NumThreads,   \* workers of the parallel runner (--threads)
  Capacity,     \* slots of the task channel (20000 in the code)
  Plans,        \* the command lines, profiles and entitlements considered
  Outcomes      \* the <<status code, returned an error>> pairs a scan ends with

Targets == 1 .. NumTargets

\* The order AddJasScannersTasks adds them in.
Order == [ca |-> 1, secrets |-> 2, iac |-> 3, services |-> 4, sast |-> 5]
Scanners == {"ca", "secrets", "iac", "services", "sast"}
SubScans == Scanners \cup {"sca"}

JasTask      == <<"jas", 0>>
NoTask       == <<"none", 0>>
ScaTasks     == {"sca"} \X Targets
CaTasks      == {"ca"} \X Targets
ScannerTasks == Scanners \X Targets
ScanTasks    == ScaTasks \cup ScannerTasks
Tasks        == ScanTasks \cup {JasTask}

NoCode == -1

\* What decides which scans run.
\*   jas       the system is entitled and IsJASRequested
\*   scanner   what NewJasScanner returns: a scanner, none, an error, or both
\*   scans     ScansToPerform, empty for all of them
\*   skip      per target, what its profile or module turns off; "sca" also
\*             when the target has no dependencies
\*   noModule  the targets of the old flow that no apps-config module matches
PlanType ==
  [jas : BOOLEAN, scanner : {"ok", "none", "error", "both"},
   scans : SUBSET SubScans, skip : [Targets -> SUBSET SubScans],
   noModule : SUBSET Targets, thirdParty : BOOLEAN,
   firstDiff : BOOLEAN, allowPartial : BOOLEAN]

\* Outcomes: 0 with an error is a scan whose dump to --output-dir failed; 1
\* without one is an analyzer manager that is not entitled or unsupported.
ASSUME AuditAssumption ==
  /\ NumTargets \in Nat
  /\ NumThreads \in Nat \ {0}
  /\ Capacity \in Nat \ {0}
  /\ Plans \subseteq PlanType
  /\ Outcomes \subseteq {0, 1} \X BOOLEAN

VARIABLES
  plan,        \* the element of Plans this run executes
  main,        \* the goroutine that runs RunAudit
  coord,       \* the goroutine SecurityParallelRunner.Start spawns
  queue,       \* the task channel of the runner
  st,          \* the phase of each task
  mu,          \* the task that holds ResultsMu between steps
  scaWg, jasWg, scannersWg,   \* the wait groups
  tempDir,     \* JasScanner.TempDir
  code,        \* the status code each scan recorded
  failed,      \* the tasks that returned an error to the runner
  errs         \* GeneralErrors and TargetErrors: <<origin, Skip>>

vars == <<plan, main, coord, queue, st, mu, scaWg, jasWg, scannersWg,
          tempDir, code, failed, errs>>
wgs  == <<scaWg, jasWg, scannersWg>>
outs == <<code, failed, errs>>

Phases == {"none", "adding", "queued", "setup", "loop", "lock", "await",
           "scan", "record", "signal", "report", "done"}

\* The phases of a task a worker holds.
Busy == {"setup", "loop", "lock", "await", "scan", "record", "signal", "report"}
Running == {x \in Tasks : st[x] \in Busy}

Origins == Tasks \cup ({"module"} \X Targets)
                 \cup {<<"scanner", 0>>, <<"cleanup", 0>>, <<"finalize", 0>>}

TypeOK ==
  /\ plan \in Plans
  /\ main \in {"addJas", "addSca", "run", "processed", "aborted"}
  /\ coord \in {"off", "sca", "jas", "scanners", "cleanup", "finalize",
                "close", "done"}
  /\ queue \in Seq(Tasks)
  /\ st \in [Tasks -> Phases]
  /\ mu \in ScaTasks \cup {NoTask}
  /\ scaWg \in Nat /\ jasWg \in Nat /\ scannersWg \in Nat
  /\ tempDir \in {"none", "exists", "removed"}
  /\ code \in [ScanTasks -> {NoCode, 0, 1}]
  /\ failed \subseteq Tasks
  /\ errs \subseteq Origins \X BOOLEAN

-----------------------------------------------------------------------------
\* Which tasks the plan asks for.

Requested(s) == plan.scans = {} \/ s \in plan.scans

\* RunScaScan adds a task for target t.
ScaPlanned(t) == ~plan.firstDiff /\ Requested("sca") /\ "sca" \notin plan.skip[t]

\* AddJasScannersTasks adds a task for scanner s on target t.
ScannerPlanned(s, t) ==
  /\ t \notin plan.noModule
  /\ plan.thirdParty => s = "ca"
  /\ Requested(s)
  /\ s \notin plan.skip[t]

PlannedSca      == {x \in ScaTasks : ScaPlanned(x[2])}
PlannedScanners == {x \in ScannerTasks : ScannerPlanned(x[1], x[2])}

\* The set-up task visits target by target and scanner by scanner.
Before(x, y) == x[2] < y[2] \/ (x[2] = y[2] /\ Order[x[1]] < Order[y[1]])

MissingModule(t) == <<<<"module", t>>, plan.allowPartial>>

\* The set-up task has dealt with every target before t.
TargetsDone(t) ==
  /\ \A x \in PlannedScanners : x[2] < t => st[x] # "none"
  /\ \A u \in plan.noModule : u < t => MissingModule(u) \in errs

-----------------------------------------------------------------------------
Init ==
  /\ plan \in Plans
  /\ main = "addJas" /\ coord = "off"
  /\ queue = <<>>
  /\ st = [x \in Tasks |-> "none"]
  /\ mu = NoTask
  /\ scaWg = 0 /\ jasWg = 0 /\ scannersWg = 0
  /\ tempDir = "none"
  /\ code = [x \in ScanTasks |-> NoCode]
  /\ failed = {} /\ errs = {}

-----------------------------------------------------------------------------
\* The main goroutine, before the runner starts.

\* Not entitled, not requested, or NewJasScanner returned no scanner.
SkipJas ==
  /\ main = "addJas"
  /\ ~plan.jas \/ plan.scanner = "none"
  /\ main' = "addSca"
  /\ UNCHANGED <<plan, coord, queue, st, mu, wgs, tempDir, outs>>

\* A failing option leaves a scanner, and so its directory, behind the error.
JasScannerFails ==
  /\ main = "addJas"
  /\ plan.jas /\ plan.scanner \in {"error", "both"}
  /\ main' = "addSca"
  /\ tempDir' = IF plan.scanner = "both" THEN "exists" ELSE "none"
  /\ errs' = errs \cup {<<<<"scanner", 0>>, plan.allowPartial>>}
  /\ UNCHANGED <<plan, coord, queue, st, mu, wgs, code, failed>>

AddJasTask ==
  /\ main = "addJas"
  /\ plan.jas /\ plan.scanner = "ok"
  /\ Len(queue) < Capacity
  /\ main' = "addSca"
  /\ tempDir' = "exists"
  /\ jasWg' = jasWg + 1
  /\ queue' = Append(queue, JasTask)
  /\ st' = [st EXCEPT ![JasTask] = "queued"]
  /\ UNCHANGED <<plan, coord, mu, scaWg, scannersWg, outs>>

AddScaTask(x) ==
  /\ main = "addSca"
  /\ x \in PlannedSca
  /\ st[x] = "none"
  /\ \A y \in PlannedSca : y[2] < x[2] => st[y] # "none"
  /\ Len(queue) < Capacity
  /\ scaWg' = scaWg + 1
  /\ queue' = Append(queue, x)
  /\ st' = [st EXCEPT ![x] = "queued"]
  /\ UNCHANGED <<plan, main, coord, mu, jasWg, scannersWg, tempDir, outs>>

\* Start spawns the coordinator and runs the workers.
StartRunner ==
  /\ main = "addSca"
  /\ \A x \in PlannedSca : st[x] # "none"
  /\ main' = "run"
  /\ coord' = "sca"
  /\ UNCHANGED <<plan, queue, st, mu, wgs, tempDir, outs>>

-----------------------------------------------------------------------------
\* The workers of the parallel runner.

FirstPhase(x) ==
  CASE x = JasTask -> "setup"
    [] x \in ScaTasks -> "lock"
    [] x \in CaTasks -> "await"
    [] OTHER -> "scan"

\* An idle worker receives the oldest task of the channel.
Take(x) ==
  /\ main = "run"
  /\ queue # <<>> /\ x = Head(queue)
  /\ Cardinality(Running) < NumThreads
  /\ queue' = Tail(queue)
  /\ st' = [st EXCEPT ![x] = FirstPhase(x)]
  /\ UNCHANGED <<plan, main, coord, mu, wgs, tempDir, outs>>

\* The scan that x ran recorded its status code and returned.
Record(x, o) ==
  /\ code' = [code EXCEPT ![x] = o[1]]
  /\ failed' = IF o[2] THEN failed \cup {x} ELSE failed
  /\ st' = [st EXCEPT ![x] = "signal"]

\* Faulty variant: no error handler was given to AddTaskWithError.
ReportNothing(x) ==
  /\ st[x] = "report"
  /\ st' = [st EXCEPT ![x] = "done"]
  /\ UNCHANGED <<plan, main, coord, queue, mu, wgs, tempDir, outs>>

\* The task function returned; the runner hands an error to the task's
\* handler, which the deferred wait-group Done has already run ahead of.
Report(x) ==
  /\ st[x] = "report"
  /\ st' = [st EXCEPT ![x] = "done"]
  /\ errs' = IF x \in failed THEN errs \cup {<<x, plan.allowPartial>>} ELSE errs
  /\ UNCHANGED <<plan, main, coord, queue, mu, wgs, tempDir, code, failed>>

-----------------------------------------------------------------------------
\* SCA tasks hold ResultsMu for the whole scan.

ScaLock(x) ==
  /\ x \in ScaTasks /\ st[x] = "lock"
  /\ mu = NoTask
  /\ mu' = x
  /\ st' = [st EXCEPT ![x] = "scan"]
  /\ UNCHANGED <<plan, main, coord, queue, wgs, tempDir, outs>>

ScaScan(x) ==
  /\ x \in ScaTasks /\ st[x] = "scan"
  /\ \E o \in Outcomes : Record(x, o)
  /\ mu' = NoTask
  /\ UNCHANGED <<plan, main, coord, queue, wgs, tempDir, errs>>

ScaSignal(x) ==
  /\ x \in ScaTasks /\ st[x] = "signal"
  /\ scaWg' = scaWg - 1
  /\ st' = [st EXCEPT ![x] = "report"]
  /\ UNCHANGED <<plan, main, coord, queue, mu, jasWg, scannersWg, tempDir, outs>>

-----------------------------------------------------------------------------
\* The JAS set-up task.

\* Faulty variant: the early return misses JasWg.Done.
SetupFailsNoDone ==
  /\ st[JasTask] = "setup"
  /\ failed' = failed \cup {JasTask}
  /\ st' = [st EXCEPT ![JasTask] = "report"]
  /\ UNCHANGED <<plan, main, coord, queue, mu, wgs, tempDir, code, errs>>

\* Downloading the analyzer manager, or finding its executable, failed.
SetupFails ==
  /\ st[JasTask] = "setup"
  /\ failed' = failed \cup {JasTask}
  /\ st' = [st EXCEPT ![JasTask] = "signal"]
  /\ UNCHANGED <<plan, main, coord, queue, mu, wgs, tempDir, code, errs>>

SetupDone ==
  /\ st[JasTask] = "setup"
  /\ st' = [st EXCEPT ![JasTask] = "loop"]
  /\ UNCHANGED <<plan, main, coord, queue, mu, wgs, tempDir, outs>>

AddMissingModule(t) ==
  /\ st[JasTask] = "loop"
  /\ t \in plan.noModule /\ MissingModule(t) \notin errs
  /\ TargetsDone(t)
  /\ \A x \in ScannerTasks : st[x] # "adding"
  /\ errs' = errs \cup {MissingModule(t)}
  /\ UNCHANGED <<plan, main, coord, queue, st, mu, wgs, tempDir, code, failed>>

\* addJasScanTask: JasScannersWg.Add(1), then the send on the channel.
AddScanner(x) ==
  /\ st[JasTask] = "loop"
  /\ x \in PlannedScanners /\ st[x] = "none"
  /\ TargetsDone(x[2])
  /\ \A y \in PlannedScanners : Before(y, x) => st[y] \notin {"none", "adding"}
  /\ scannersWg' = scannersWg + 1
  /\ st' = [st EXCEPT ![x] = "adding"]
  /\ UNCHANGED <<plan, main, coord, queue, mu, scaWg, jasWg, tempDir, outs>>

\* Faulty variant: scanner tasks jump the channel.
SendScannerFirst(x) ==
  /\ st[x] = "adding"
  /\ Len(queue) < Capacity
  /\ queue' = <<x>> \o queue
  /\ st' = [st EXCEPT ![x] = "queued"]
  /\ UNCHANGED <<plan, main, coord, mu, wgs, tempDir, outs>>

\* The send blocks while the channel is full.
SendScanner(x) ==
  /\ st[x] = "adding"
  /\ Len(queue) < Capacity
  /\ queue' = Append(queue, x)
  /\ st' = [st EXCEPT ![x] = "queued"]
  /\ UNCHANGED <<plan, main, coord, mu, wgs, tempDir, outs>>

SetupReturns ==
  /\ st[JasTask] = "loop"
  /\ TargetsDone(NumTargets + 1)
  /\ \A x \in ScannerTasks : st[x] # "adding"
  /\ st' = [st EXCEPT ![JasTask] = "signal"]
  /\ UNCHANGED <<plan, main, coord, queue, mu, wgs, tempDir, outs>>

SetupSignal ==
  /\ st[JasTask] = "signal"
  /\ jasWg' = jasWg - 1
  /\ st' = [st EXCEPT ![JasTask] = "report"]
  /\ UNCHANGED <<plan, main, coord, queue, mu, scaWg, scannersWg, tempDir, outs>>

-----------------------------------------------------------------------------
\* Scanner tasks.

\* Faulty variant: ScaScansWg is not waited for.
AwaitNothing(x) ==
  /\ x \in CaTasks /\ st[x] = "await"
  /\ st' = [st EXCEPT ![x] = "scan"]
  /\ UNCHANGED <<plan, main, coord, queue, mu, wgs, tempDir, outs>>

\* A contextual analysis scan needs the CVEs the SCA scans find.
AwaitSca(x) ==
  /\ x \in CaTasks /\ st[x] = "await"
  /\ scaWg = 0
  /\ st' = [st EXCEPT ![x] = "scan"]
  /\ UNCHANGED <<plan, main, coord, queue, mu, wgs, tempDir, outs>>

\* The analyzer manager ran, with its files in the scanner's directory.
ScannerEnds(x) ==
  /\ x \in ScannerTasks /\ st[x] = "scan"
  /\ st' = [st EXCEPT ![x] = "record"]
  /\ UNCHANGED <<plan, main, coord, queue, mu, wgs, tempDir, outs>>

\* Lock ResultsMu, add the results, parse the error, dump, unlock.
ScannerRecords(x) ==
  /\ x \in ScannerTasks /\ st[x] = "record"
  /\ mu = NoTask
  /\ \E o \in Outcomes : Record(x, o)
  /\ UNCHANGED <<plan, main, coord, queue, mu, wgs, tempDir, errs>>

ScannerSignal(x) ==
  /\ x \in ScannerTasks /\ st[x] = "signal"
  /\ scannersWg' = scannersWg - 1
  /\ st' = [st EXCEPT ![x] = "report"]
  /\ UNCHANGED <<plan, main, coord, queue, mu, scaWg, jasWg, tempDir, outs>>

-----------------------------------------------------------------------------
\* The coordinator of SecurityParallelRunner.Start.

\* Faulty variants: Start leaves one of its waits out.
SkipWaitSca ==
  /\ coord = "sca"
  /\ coord' = "jas"
  /\ UNCHANGED <<plan, main, queue, st, mu, wgs, tempDir, outs>>

SkipWaitJas ==
  /\ coord = "jas"
  /\ coord' = "scanners"
  /\ UNCHANGED <<plan, main, queue, st, mu, wgs, tempDir, outs>>

SkipWaitScanners ==
  /\ coord = "scanners"
  /\ coord' = "cleanup"
  /\ UNCHANGED <<plan, main, queue, st, mu, wgs, tempDir, outs>>

WaitSca ==
  /\ coord = "sca" /\ scaWg = 0
  /\ coord' = "jas"
  /\ UNCHANGED <<plan, main, queue, st, mu, wgs, tempDir, outs>>

WaitJas ==
  /\ coord = "jas" /\ jasWg = 0
  /\ coord' = "scanners"
  /\ UNCHANGED <<plan, main, queue, st, mu, wgs, tempDir, outs>>

WaitScanners ==
  /\ coord = "scanners" /\ scannersWg = 0
  /\ coord' = "cleanup"
  /\ UNCHANGED <<plan, main, queue, st, mu, wgs, tempDir, outs>>

\* An error of onScanEndFunc is never skippable.
EndError(origin) ==
  errs' \in {errs, errs \cup {<<<<origin, 0>>, FALSE>>}}

\* ScannerDirCleanupFunc, when there is a scanner.
CleanTempDir ==
  /\ coord = "cleanup"
  /\ coord' = "finalize"
  /\ IF tempDir = "exists"
     THEN tempDir' = "removed" /\ EndError("cleanup")
     ELSE UNCHANGED <<tempDir, errs>>
  /\ UNCHANGED <<plan, main, queue, st, mu, wgs, code, failed>>

\* BomGenerator.CleanUp and FinalizeEnrichedSbomsWithApplicability.
Finalize ==
  /\ coord = "finalize"
  /\ coord' = "close"
  /\ EndError("finalize")
  /\ UNCHANGED <<plan, main, queue, st, mu, wgs, tempDir, code, failed>>

\* Runner.Done closes the channel.
CloseQueue ==
  /\ coord = "close"
  /\ coord' = "done"
  /\ UNCHANGED <<plan, main, queue, st, mu, wgs, tempDir, outs>>

-----------------------------------------------------------------------------
\* Faulty variant: Run does not wait for the workers to end.
RunReturnsEarly ==
  /\ main = "run" /\ coord = "done"
  /\ queue = <<>>
  /\ main' = IF \E e \in errs : ~e[2] THEN "aborted" ELSE "processed"
  /\ UNCHANGED <<plan, coord, queue, st, mu, wgs, tempDir, outs>>

\* Runner.Run returns once the channel is closed and drained and every worker
\* has ended; RunAudit goes on to processScanResults unless GetErrors finds an
\* error that may not be skipped.
RunReturns ==
  /\ main = "run" /\ coord = "done"
  /\ queue = <<>> /\ Running = {}
  /\ main' = IF \E e \in errs : ~e[2] THEN "aborted" ELSE "processed"
  /\ UNCHANGED <<plan, coord, queue, st, mu, wgs, tempDir, outs>>

Returned == main \in {"processed", "aborted"}

\* RunAudit has left the scan phase: nothing more happens.
Stay == Returned /\ UNCHANGED vars

MainStep == \/ SkipJas \/ JasScannerFails \/ AddJasTask
            \/ \E x \in ScaTasks : AddScaTask(x)
            \/ StartRunner \/ RunReturns

CoordStep == WaitSca \/ WaitJas \/ WaitScanners \/ CleanTempDir \/ Finalize \/ CloseQueue

SetupStep == \/ SetupFails \/ SetupDone \/ SetupReturns \/ SetupSignal
             \/ \E t \in Targets : AddMissingModule(t)
             \/ \E x \in ScannerTasks : AddScanner(x) \/ SendScanner(x)

ScaStep(x) == ScaLock(x) \/ ScaScan(x) \/ ScaSignal(x)

ScannerStep(x) == AwaitSca(x) \/ ScannerEnds(x) \/ ScannerRecords(x) \/ ScannerSignal(x)

Next == \/ MainStep \/ CoordStep \/ SetupStep
        \/ \E x \in Tasks : Take(x) \/ Report(x)
        \/ \E x \in ScaTasks : ScaStep(x)
        \/ \E x \in ScannerTasks : ScannerStep(x)
        \/ Stay

\* Go schedules every runnable goroutine; a scan ends because polling Xray has
\* a time limit and because the analyzer manager is taken to end by itself:
\* ExecWithOutputFile sets no limit.
Fairness ==
  /\ WF_vars(MainStep) /\ WF_vars(CoordStep) /\ WF_vars(SetupStep)
  /\ \A x \in Tasks : WF_vars(Take(x)) /\ WF_vars(Report(x))
  /\ \A x \in ScaTasks : WF_vars(ScaStep(x))
  /\ \A x \in ScannerTasks : WF_vars(ScannerStep(x))

Spec == Init /\ [][Next]_vars
FairSpec == Spec /\ Fairness

-----------------------------------------------------------------------------
\* The tasks each wait group counts: added and not yet signalled.
ScaOut      == {x \in ScaTasks : st[x] \in {"queued", "lock", "scan", "signal"}}
JasOut      == {x \in {JasTask} : st[x] \in {"queued", "setup", "loop", "signal"}}
ScannersOut == {x \in ScannerTasks :
                  st[x] \in {"adding", "queued", "await", "scan", "record", "signal"}}

\* Every wait group counts exactly the tasks whose Done is still due, on every
\* path of every task: none is leaked by an early return (Wait would hang) and
\* none is signalled twice (a negative counter panics).
WaitGroupsExact ==
  /\ scaWg = Cardinality(ScaOut)
  /\ jasWg = Cardinality(JasOut)
  /\ scannersWg = Cardinality(ScannersOut)

\* A running scanner never loses its temporary directory to the coordinator's
\* clean-up, although scanner tasks are added while the coordinator waits.
ScannersHaveDir ==
  \A x \in ScannerTasks : st[x] \in {"await", "scan"} => tempDir = "exists"

\* onScanEnd runs, and the channel is closed, only after every task of the run
\* has returned from its function: nothing is sent on a closed channel and the
\* enriched SBOMs are finalised from complete results.
EndAfterScans ==
  coord \in {"cleanup", "finalize", "close", "done"} =>
    /\ queue = <<>>
    /\ \A x \in Tasks : st[x] \in {"none", "report", "done"}
    /\ \A x \in PlannedSca : code[x] # NoCode

\* A contextual analysis scan reads the CVEs only once every SCA scan of the
\* run, its own target's or not, has recorded its results.
ContextualAfterSca ==
  \A x \in CaTasks : st[x] \in {"scan", "record", "signal", "report", "done"} =>
    \A y \in PlannedSca : code[y] # NoCode

\* A contextual task keeps its worker while it waits for the SCA scans; that
\* never starves them, because each of them already has a worker by then.
NoScaBehindContextual ==
  (\E x \in CaTasks : st[x] = "await") =>
    \A y \in PlannedSca : st[y] \notin {"none", "queued"}

\* The two things that keep the planned scanners from running at all: the
\* analyzer manager could not be set up, or there is no scanner object.
JasGivenUp == \/ ~plan.jas \/ plan.scanner # "ok"
              \/ <<JasTask, plan.allowPartial>> \in errs

\* When the run returns, every planned scan has recorded a result unless JAS
\* as a whole was given up, and every failure, of a task or of a missing
\* module, is listed with the Skip flag the user asked for.
OutcomesAccounted ==
  Returned =>
    /\ \A x \in PlannedSca : code[x] # NoCode
    /\ JasGivenUp \/ \A x \in PlannedScanners : code[x] # NoCode
    /\ JasGivenUp \/ \A t \in plan.noModule : MissingModule(t) \in errs
    /\ \A x \in failed : <<x, plan.allowPartial>> \in errs

\* RunAudit uploads and evaluates results only if nothing failed that the
\* user did not allow to be skipped: handlers run after the wait groups are
\* signalled, so the verdict must not be read before the workers have ended.
ProcessedIsComplete ==
  main = "processed" /\ ~plan.allowPartial => failed = {}

\* WaitGroup rule: once the coordinator waits on JasScannersWg, no scanner is
\* added any more.
NoLateScanner ==
  [][(coord \in {"scanners", "cleanup", "finalize", "close", "done"}) =>
       (scannersWg' <= scannersWg)]_vars

\* The scan phase ends, whatever fails and whichever task waits for which.
Termination == <>Returned

-----------------------------------------------------------------------------
\* The scan phase keeps the promise AuditPromise states.
WantedScans ==
  PlannedSca \cup
    IF plan.jas /\ plan.scanner = "ok" /\ JasTask \notin failed
    THEN PlannedScanners ELSE {}

SettledScans == {x \in ScanTasks : code[x] # NoCode}

Fatal == (~plan.allowPartial /\ failed # {}) \/ (\E e \in errs : ~e[2])

Promise == INSTANCE AuditPromise WITH
  Scans <- ScanTasks, ScaScans <- ScaTasks, CaScans <- CaTasks,
  wanted <- WantedScans, settled <- SettledScans,
  strict <- ~plan.allowPartial, fatal <- Fatal,
  ended <- coord \in {"finalize", "close", "done"},
  verdict <- IF Returned THEN main ELSE "none"

\* Every step of the goroutines settles, gives up, cleans up or decides as
\* AuditPromise allows, or is invisible there.
KeepsPromise == Promise!Spec

-----------------------------------------------------------------------------
\* The inductive invariant behind the theorems of AuditScans_proofs.

\* The channel holds the queued tasks, each once.
QueueInv ==
  /\ \A i \in 1 .. Len(queue) : st[queue[i]] = "queued"
  /\ \A i, j \in 1 .. Len(queue) : queue[i] = queue[j] => i = j
  /\ \A x \in Tasks : st[x] = "queued" => \E i \in 1 .. Len(queue) : queue[i] = x

\* No SCA task is behind a scanner task in the channel.
OrderInv ==
  \A i, j \in 1 .. Len(queue) :
    i < j /\ queue[j] \in ScaTasks => queue[i] \notin ScannerTasks

\* The phases each kind of task can be in.
PhaseInv ==
  /\ st[JasTask] \in {"none", "queued", "setup", "loop", "signal", "report", "done"}
  /\ \A x \in ScaTasks :
       st[x] \in {"none", "queued", "lock", "scan", "signal", "report", "done"}
  /\ \A x \in ScannerTasks :
       st[x] \in {"none", "adding", "queued", "await", "scan", "record",
                 "signal", "report", "done"}

\* Nothing runs before Start; afterwards every planned SCA task was added.
StartInv ==
  IF main \in {"addJas", "addSca"}
  THEN /\ coord = "off"
       /\ \A x \in Tasks : st[x] \in {"none", "queued"}
       /\ main = "addJas" => tempDir = "none" /\ \A x \in Tasks : st[x] = "none"
  ELSE /\ coord # "off"
       /\ \A x \in PlannedSca : st[x] # "none"

\* Scanner tasks exist only once the set-up task runs, and adding one is part
\* of its loop; the set-up task exists only with a temporary directory.
SetupInv ==
  /\ \A x \in ScannerTasks :
       /\ st[x] # "none" => st[JasTask] \in {"loop", "signal", "report", "done"}
       /\ st[x] = "adding" => st[JasTask] = "loop"
  /\ st[JasTask] # "none" => tempDir # "none"

\* Once a scanner task has left the channel, no SCA task is in it.
DrainInv ==
  (\E x \in ScannerTasks : st[x] \notin {"none", "adding", "queued"}) =>
    \A y \in ScaTasks : st[y] # "queued"

\* What the coordinator has waited for is over.
CoordInv ==
  /\ coord \notin {"off", "sca"} => scaWg = 0
  /\ coord \notin {"off", "sca", "jas"} => jasWg = 0
  /\ coord \notin {"off", "sca", "jas", "scanners"} => scannersWg = 0
  /\ tempDir = "removed" => coord \in {"finalize", "close", "done"}

\* A scan that returned has recorded its status code; a task that failed has
\* returned, and its handler has run once the task is done.
OutcomeInv ==
  /\ \A x \in ScanTasks : st[x] \in {"signal", "report", "done"} => code[x] # NoCode
  /\ \A x \in failed : /\ st[x] \in {"signal", "report", "done"}
                       /\ st[x] = "done" => <<x, plan.allowPartial>> \in errs

\* After the run returned, no task is left anywhere.
RestInv ==
  Returned => queue = <<>> /\ \A x \in Tasks : st[x] \in {"none", "done"}

\* A task exists only if the plan asks for it, a status code only once its scan
\* recorded one, and no scanner task if the set-up failed.
PlannedInv ==
  /\ \A x \in ScanTasks : code[x] # NoCode => st[x] \in {"signal", "report", "done"}
  /\ \A x \in ScaTasks : st[x] # "none" => x \in PlannedSca
  /\ \A x \in ScannerTasks :
       st[x] # "none" => x \in PlannedScanners /\ JasTask \notin failed

\* The set-up task was added if and only if JAS has a scanner; when its function
\* is over it failed or has dealt with every target.
JasInv ==
  /\ main # "addJas" =>
       (st[JasTask] # "none" <=> plan.jas /\ plan.scanner = "ok")
  /\ st[JasTask] \in {"signal", "report", "done"} =>
       JasTask \in failed \/ TargetsDone(NumTargets + 1)
  /\ Returned => coord = "done"

IndInv == /\ TypeOK /\ WaitGroupsExact /\ QueueInv /\ OrderInv /\ PhaseInv
          /\ StartInv /\ SetupInv /\ DrainInv /\ CoordInv /\ OutcomeInv
          /\ RestInv /\ PlannedInv /\ JasInv /\ ContextualAfterSca /\ ProcessedIsComplete
=============================================================================
