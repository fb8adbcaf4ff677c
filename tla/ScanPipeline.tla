----------------------------- MODULE ScanPipeline -----------------------------
(***************************************************************************)
(* The binary scan of "jf scan" (ScanCommand.RunScan): three runners in a  *)
(* row.  A goroutine walks the file-spec groups and feeds the file runner, *)
(* whose tasks index a file and feed the scan runner, whose tasks run SCA  *)
(* and feed the JAS runner.  Each runner's channel is closed when the      *)
(* runner before it has returned from Run.                                 *)
(*                                                                         *)
(* The wait groups of the JAS runner do not appear: no SCA task is counted *)
(* in ScaScansWg here, so the contextual scan's Wait returns at once, and  *)
(* nobody waits on JasScannersWg.                                          *)
(***************************************************************************)
EXTENDS Integers, Sequences, FiniteSets

CONSTANTS
  Files,       \* the files the patterns match
  NumGroups,   \* the number of file-spec groups
  GroupOf,     \* the group of each file
  NumThreads,  \* workers of each runner (--threads)
  Capacity,    \* slots of each channel (20000 in the code)
  Plans        \* the command lines and entitlements considered

Stages    == {"file", "scan", "jas"}
Scanners  == {"ca", "secrets"}
Indexings == {"index"} \X Files
Scans     == {"sca"} \X Files
JasScans  == Scanners \X Files
Tasks     == Indexings \cup Scans \cup JasScans

\*   sca   SCA scans are requested        sbom  the SBOM is included
\*   jas   the system is entitled         scanners  the JAS scans that are
\*         requested and that the apps-config module does not exclude
PlanType == [sca : BOOLEAN, sbom : BOOLEAN, jas : BOOLEAN, scanners : SUBSET Scanners]

ASSUME PipelineAssumption ==
  /\ NumGroups \in Nat
  /\ GroupOf \in [Files -> 1 .. NumGroups]
  /\ NumThreads \in Nat \ {0}
  /\ Capacity \in Nat \ {0}
  /\ Plans \subseteq PlanType

VARIABLES
  plan,       \* the element of Plans this run executes
  main,       \* the goroutine that runs RunAndRecordResults
  group,      \* the file-spec group being walked
  queue,      \* the channel of each runner
  closed,     \* whether it is closed
  st,         \* the phase of each task
  generator,  \* the BOM generator
  graph,      \* what indexing made of a file
  recorded,   \* the scans that recorded a status code
  errs,       \* the origins in GeneralErrors and TargetErrors
  dropped     \* the tasks whose error no handler received

vars == <<plan, main, group, queue, closed, st, generator, graph, recorded,
          errs, dropped>>
outs == <<graph, recorded, errs, dropped>>

StageOf(x) == CASE x \in Indexings -> "file" [] x \in Scans -> "scan" [] OTHER -> "jas"

Busy == {"index", "send", "sca", "setup", "addCa", "addSecrets", "scan", "report"}
Running(s) == {x \in Tasks : StageOf(x) = s /\ st[x] \in Busy}

General == {<<o, 0>> : o \in {"prepare", "walk", "cleanup", "after"}}

TypeOK ==
  /\ plan \in Plans
  /\ main \in {"prepare", "run", "cleaned", "success", "failure"}
  /\ group \in 1 .. NumGroups + 1
  /\ queue \in [Stages -> Seq(Tasks)]
  /\ closed \in [Stages -> BOOLEAN]
  /\ st \in [Tasks -> {"none", "queued", "done"} \cup Busy]
  /\ generator \in {"idle", "ready", "cleaned"}
  /\ graph \in [Files -> {"none", "failed", "empty", "components"}]
  /\ recorded \subseteq Tasks
  /\ errs \subseteq Tasks \cup General
  /\ dropped \subseteq Scans

Init ==
  /\ plan \in Plans
  /\ main = "prepare" /\ group = 1
  /\ queue = [s \in Stages |-> <<>>]
  /\ closed = [s \in Stages |-> FALSE]
  /\ st = [x \in Tasks |-> "none"]
  /\ generator = "idle"
  /\ graph = [f \in Files |-> "none"]
  /\ recorded = {} /\ errs = {} /\ dropped = {}

\* AddTask blocks while the channel is full.
Send(x) ==
  /\ Len(queue[StageOf(x)]) < Capacity
  /\ queue' = [queue EXCEPT ![StageOf(x)] = Append(@, x)]

MoveTo(x, phase) == st' = [st EXCEPT ![x] = phase]

-----------------------------------------------------------------------------
\* prepareForScan prepares the BOM generator and downloads the analyzer manager
\* in parallel; an error of either ends the run, without a clean-up.
IndexesFiles == plan.sca \/ plan.sbom

Prepared ==
  /\ main = "prepare"
  /\ main' = "run"
  /\ generator' = IF IndexesFiles THEN "ready" ELSE "idle"
  /\ UNCHANGED <<plan, group, queue, closed, st, outs>>

\* Versions and entitlement are validated first, and may fail the run too.
PrepareFails ==
  /\ main = "prepare"
  /\ main' = "failure"
  /\ generator' \in IF IndexesFiles /\ plan.jas THEN {"idle", "ready"} ELSE {"idle"}
  /\ errs' = errs \cup {<<"prepare", 0>>}
  /\ UNCHANGED <<plan, group, queue, closed, st, graph, recorded, dropped>>

-----------------------------------------------------------------------------
\* The goroutine of prepareScanTasks.

WalkFile(f) ==
  /\ main = "run" /\ GroupOf[f] = group
  /\ st[<<"index", f>>] = "none"
  /\ Send(<<"index", f>>)
  /\ MoveTo(<<"index", f>>, "queued")
  /\ UNCHANGED <<plan, main, group, closed, generator, outs>>

GroupWalked ==
  /\ main = "run" /\ group <= NumGroups
  /\ \A f \in Files : GroupOf[f] = group => st[<<"index", f>>] # "none"
  /\ group' = group + 1
  /\ UNCHANGED <<plan, main, queue, closed, st, generator, outs>>

\* A group that fails is left where it is; the walk goes on with the next.
GroupFails ==
  /\ main = "run" /\ group <= NumGroups
  /\ group' = group + 1
  /\ errs' = errs \cup {<<"walk", 0>>}
  /\ UNCHANGED <<plan, main, queue, closed, st, generator, graph, recorded, dropped>>

WalkEnds ==
  /\ main = "run" /\ group > NumGroups /\ ~closed["file"]
  /\ closed' = [closed EXCEPT !["file"] = TRUE]
  /\ UNCHANGED <<plan, main, group, queue, st, generator, outs>>

-----------------------------------------------------------------------------
\* The runners.

FirstPhase(x) == CASE x \in Indexings -> "index" [] x \in Scans -> "sca" [] OTHER -> "scan"

Take(x) ==
  /\ main = "run"
  /\ queue[StageOf(x)] # <<>> /\ x = Head(queue[StageOf(x)])
  /\ Cardinality(Running(StageOf(x))) < NumThreads
  /\ queue' = [queue EXCEPT ![StageOf(x)] = Tail(@)]
  /\ MoveTo(x, FirstPhase(x))
  /\ UNCHANGED <<plan, main, group, closed, generator, outs>>

\* Run of stage s has returned.
RunReturned(s) == closed[s] /\ queue[s] = <<>> /\ Running(s) = {}

\* Faulty variant: the next channel is closed before Run is called.
HandOverFirst(s, next) ==
  /\ main = "run" /\ closed[s] /\ ~closed[next]
  /\ closed' = [closed EXCEPT ![next] = TRUE]
  /\ UNCHANGED <<plan, main, group, queue, st, generator, outs>>

\* Faulty variant: the JAS runner is never told that nothing more comes.
HandOverScansOnly(s, next) ==
  /\ main = "run" /\ RunReturned(s) /\ ~closed[next] /\ next = "scan"
  /\ closed' = [closed EXCEPT ![next] = TRUE]
  /\ UNCHANGED <<plan, main, group, queue, st, generator, outs>>

\* performScanTasks: Run of one runner, then Done of the next.
HandOver(s, next) ==
  /\ main = "run" /\ RunReturned(s) /\ ~closed[next]
  /\ closed' = [closed EXCEPT ![next] = TRUE]
  /\ UNCHANGED <<plan, main, group, queue, st, generator, outs>>

-----------------------------------------------------------------------------
\* A task of the file runner.

IndexFails(f) ==
  /\ st[<<"index", f>>] = "index" /\ IndexesFiles
  /\ graph' = [graph EXCEPT ![f] = "failed"]
  /\ errs' = errs \cup {<<"index", f>>}
  /\ MoveTo(<<"index", f>>, "done")
  /\ UNCHANGED <<plan, main, group, queue, closed, generator, recorded, dropped>>

\* A file that is not indexed, or not supported, has an empty graph.
Indexed(f) ==
  /\ st[<<"index", f>>] = "index"
  /\ \E g \in {"empty", "components"} :
       /\ g = "components" => IndexesFiles
       /\ graph' = [graph EXCEPT ![f] = g]
  /\ MoveTo(<<"index", f>>, "send")
  /\ UNCHANGED <<plan, main, group, queue, closed, generator, recorded, errs, dropped>>

SendScan(f) ==
  /\ st[<<"index", f>>] = "send"
  /\ Send(<<"sca", f>>)
  /\ st' = [st EXCEPT ![<<"index", f>>] = "done", ![<<"sca", f>>] = "queued"]
  /\ UNCHANGED <<plan, main, group, closed, generator, outs>>

-----------------------------------------------------------------------------
\* A task of the scan runner; it is added without an error handler.

\* What follows the SCA scan of a file.
AfterSca == IF plan.jas THEN "setup" ELSE "done"

ScaSkipped(f) ==
  /\ st[<<"sca", f>>] = "sca"
  /\ ~plan.sca \/ graph[f] = "empty"
  /\ MoveTo(<<"sca", f>>, AfterSca)
  /\ UNCHANGED <<plan, main, group, queue, closed, generator, outs>>

ScaScanned(f) ==
  /\ st[<<"sca", f>>] = "sca"
  /\ plan.sca /\ graph[f] = "components"
  /\ recorded' = recorded \cup {<<"sca", f>>}
  /\ MoveTo(<<"sca", f>>, AfterSca)
  /\ UNCHANGED <<plan, main, group, queue, closed, generator, graph, errs, dropped>>

\* Faulty variant: the error is left to the runner alone.
ScaFailsUnrecorded(f) ==
  /\ st[<<"sca", f>>] = "sca"
  /\ plan.sca /\ graph[f] = "components"
  /\ MoveTo(<<"sca", f>>, "done")
  /\ UNCHANGED <<plan, main, group, queue, closed, generator, outs>>

\* Xray failed: a target error, no status code and no JAS scan.
ScaFails(f) ==
  /\ st[<<"sca", f>>] = "sca"
  /\ plan.sca /\ graph[f] = "components"
  /\ errs' = errs \cup {<<"sca", f>>}
  /\ MoveTo(<<"sca", f>>, "done")
  /\ UNCHANGED <<plan, main, group, queue, closed, generator, graph, recorded, dropped>>

\* The apps-config or NewJasScanner failed.
JasSetupFails(f) ==
  /\ st[<<"sca", f>>] = "setup"
  /\ errs' = errs \cup {<<"sca", f>>}
  /\ MoveTo(<<"sca", f>>, "done")
  /\ UNCHANGED <<plan, main, group, queue, closed, generator, graph, recorded, dropped>>

\* NewJasScanner returned no scanner.
NoJasScanner(f) ==
  /\ st[<<"sca", f>>] = "setup"
  /\ MoveTo(<<"sca", f>>, "done")
  /\ UNCHANGED <<plan, main, group, queue, closed, generator, outs>>

\* The analyzer manager has no executable: the error is only returned.
NoExecutable(f) ==
  /\ st[<<"sca", f>>] = "setup"
  /\ dropped' = dropped \cup {<<"sca", f>>}
  /\ MoveTo(<<"sca", f>>, "done")
  /\ UNCHANGED <<plan, main, group, queue, closed, generator, graph, recorded, errs>>

JasSetUp(f) ==
  /\ st[<<"sca", f>>] = "setup"
  /\ MoveTo(<<"sca", f>>, "addCa")
  /\ UNCHANGED <<plan, main, group, queue, closed, generator, outs>>

\* AddJasScannersTasks: contextual analysis, then secrets; binaries get no more.
AddScanner(f, scanner, phase, next) ==
  /\ st[<<"sca", f>>] = phase
  /\ IF scanner \in plan.scanners
     THEN /\ Send(<<scanner, f>>)
          /\ st' = [st EXCEPT ![<<"sca", f>>] = next, ![<<scanner, f>>] = "queued"]
     ELSE /\ MoveTo(<<"sca", f>>, next)
          /\ UNCHANGED queue
  /\ UNCHANGED <<plan, main, group, closed, generator, outs>>

AddJasScanners(f) ==
  AddScanner(f, "ca", "addCa", "addSecrets") \/ AddScanner(f, "secrets", "addSecrets", "done")

-----------------------------------------------------------------------------
\* A task of the JAS runner.

\* Under ResultsMu the status code is recorded and the error, if any, returned.
ScannerRecords(x) ==
  /\ x \in JasScans /\ st[x] = "scan"
  /\ recorded' = recorded \cup {x}
  /\ \E next \in {"done", "report"} : MoveTo(x, next)
  /\ UNCHANGED <<plan, main, group, queue, closed, generator, graph, errs, dropped>>

\* The error handler of addJasScanTask.
ScannerReports(x) ==
  /\ x \in JasScans /\ st[x] = "report"
  /\ errs' = errs \cup {x}
  /\ MoveTo(x, "done")
  /\ UNCHANGED <<plan, main, group, queue, closed, generator, graph, recorded, dropped>>

-----------------------------------------------------------------------------
\* Faulty variant: the main goroutine does not run the JAS runner itself.
CleanUpEarly ==
  /\ main = "run" /\ closed["jas"]
  /\ main' = "cleaned"
  /\ generator' = "cleaned"
  /\ errs' \in {errs, errs \cup {<<"cleanup", 0>>}}
  /\ UNCHANGED <<plan, group, queue, closed, st, graph, recorded, dropped>>

\* The main goroutine returns from the JAS runner's Run and from RunScan.
CleanUp ==
  /\ main = "run" /\ RunReturned("jas")
  /\ main' = "cleaned"
  /\ generator' = "cleaned"
  /\ errs' \in {errs, errs \cup {<<"cleanup", 0>>}}
  /\ UNCHANGED <<plan, group, queue, closed, st, graph, recorded, dropped>>

\* Violations, output and recording may fail too; then GetErrors decides.
Conclude ==
  /\ main = "cleaned"
  /\ errs' \in {errs, errs \cup {<<"after", 0>>}}
  /\ main' = IF errs' = {} THEN "success" ELSE "failure"
  /\ UNCHANGED <<plan, group, queue, closed, st, generator, graph, recorded, dropped>>

Ended == main \in {"success", "failure"}
Stay  == Ended /\ UNCHANGED vars

WalkStep  == (\E f \in Files : WalkFile(f)) \/ GroupWalked \/ GroupFails \/ WalkEnds
FileStep(f) == IndexFails(f) \/ Indexed(f) \/ SendScan(f)
ScaStep(f) == \/ ScaSkipped(f) \/ ScaScanned(f) \/ ScaFails(f) \/ JasSetupFails(f)
              \/ NoJasScanner(f) \/ NoExecutable(f) \/ JasSetUp(f) \/ AddJasScanners(f)
MainStep  == Prepared \/ PrepareFails \/ CleanUp \/ Conclude
HandOvers == HandOver("file", "scan") \/ HandOver("scan", "jas")

Next == \/ MainStep \/ WalkStep \/ HandOvers
        \/ \E x \in Tasks : Take(x)
        \/ \E f \in Files : FileStep(f) \/ ScaStep(f)
        \/ \E x \in JasScans : ScannerRecords(x) \/ ScannerReports(x)
        \/ Stay

\* Go schedules every runnable goroutine, and indexing and scanning have time
\* limits of their own.
Fairness ==
  /\ WF_vars(MainStep) /\ WF_vars(WalkStep) /\ WF_vars(HandOvers)
  /\ \A x \in Tasks : WF_vars(Take(x))
  /\ \A f \in Files : WF_vars(FileStep(f)) /\ WF_vars(ScaStep(f))
  /\ \A x \in JasScans : WF_vars(ScannerRecords(x) \/ ScannerReports(x))

Spec == Init /\ [][Next]_vars
FairSpec == Spec /\ Fairness

-----------------------------------------------------------------------------
\* A channel is closed only when no task that could still send on it exists,
\* in any stage before it: a send on a closed channel panics.
NoSendOnClosed ==
  /\ closed["scan"] =>
       /\ closed["file"] /\ queue["file"] = <<>>
       /\ \A f \in Files : st[<<"index", f>>] \in {"none", "done"}
  /\ closed["jas"] =>
       /\ closed["scan"] /\ queue["scan"] = <<>>
       /\ \A f \in Files : st[<<"sca", f>>] \in {"none", "done"}

\* The BOM generator's resources outlive every indexing, and the results are
\* not read before the last task of the last stage has ended.
CleanUpLast ==
  main \in {"cleaned", "success"} =>
    \A x \in Tasks : st[x] \in {"none", "done"}

\* No JAS scan of f was added: the system is not entitled, there is no scanner
\* object, or the executable is missing (which nothing reports).
WithoutJas(f) == \A s \in Scanners : st[<<s, f>>] = "none"

\* A run that ends without an error has taken every matched file through every
\* stage: indexed, its components scanned, and every JAS scan that was added
\* recorded; no file is lost between two runners.
SuccessIsComplete ==
  main = "success" => \A f \in Files :
    /\ graph[f] \in {"empty", "components"}
    /\ st[<<"sca", f>>] = "done"
    /\ plan.sca /\ graph[f] = "components" => <<"sca", f>> \in recorded
    /\ WithoutJas(f) \/ \A s \in plan.scanners : <<s, f>> \in recorded

\* The pipeline drains, whatever the size of its channels: later stages never
\* wait for earlier ones.
Termination == <>Ended

-----------------------------------------------------------------------------
\* The inductive invariant behind the theorems of ScanPipeline_proofs.

\* The phases each kind of task can be in.
PhaseInv ==
  /\ \A x \in Indexings : st[x] \in {"none", "queued", "index", "send", "done"}
  /\ \A x \in Scans :
       st[x] \in {"none", "queued", "sca", "setup", "addCa", "addSecrets", "done"}
  /\ \A x \in JasScans : st[x] \in {"none", "queued", "scan", "report", "done"}

\* A task that waits for a worker is in its runner's channel.
QueueInv ==
  \A x \in Tasks : st[x] = "queued" =>
    \E i \in 1 .. Len(queue[StageOf(x)]) : queue[StageOf(x)][i] = x

\* A channel holds tasks of its own stage that wait for a worker, each once.
OnceInv ==
  \A s \in Stages : \A i, j \in 1 .. Len(queue[s]) :
    /\ st[queue[s][i]] = "queued" /\ StageOf(queue[s][i]) = s
    /\ queue[s][i] = queue[s][j] => i = j

\* The walk is over before the first channel is closed; the second and the
\* third one are closed in order.
CloseInv == (closed["file"] => group > NumGroups) /\ NoSendOnClosed

\* How far the file f has come: what its indexing made of it is known before it
\* is handed on, a scan that passed is recorded or in the errors, and its JAS
\* scans were added in order, all of them or none.
Traced(f) ==
  /\ st[<<"index", f>>] \in {"send", "done"} =>
       graph[f] \in {"empty", "components"} \/ <<"index", f>> \in errs
  /\ st[<<"index", f>>] = "done" => st[<<"sca", f>>] # "none" \/ <<"index", f>> \in errs
  /\ st[<<"sca", f>>] # "none" => st[<<"index", f>>] = "done"
  /\ /\ plan.sca /\ graph[f] = "components"
     /\ st[<<"sca", f>>] \in {"setup", "addCa", "addSecrets", "done"}
     => <<"sca", f>> \in recorded \cup errs
  /\ st[<<"sca", f>>] \in {"addSecrets", "done"} \/ WithoutJas(f)
  /\ st[<<"sca", f>>] = "addSecrets" =>
       /\ "ca" \in plan.scanners => st[<<"ca", f>>] # "none"
       /\ st[<<"secrets", f>>] = "none"
  /\ st[<<"sca", f>>] = "done" =>
       WithoutJas(f) \/ \A s \in plan.scanners : st[<<s, f>>] # "none"
  /\ \A s \in Scanners :
       st[<<s, f>>] \in {"report", "done"} => <<s, f>> \in recorded

\* The walk passed no file by without an error, and a run that ends well has
\* closed every channel and holds no error.
WalkedInv ==
  /\ \A f \in Files : GroupOf[f] < group =>
       st[<<"index", f>>] # "none" \/ <<"walk", 0>> \in errs
  /\ main \in {"cleaned", "success"} => closed["jas"]
  /\ main = "success" => errs = {}

IndInv == /\ TypeOK /\ PhaseInv /\ QueueInv /\ OnceInv /\ CloseInv /\ CleanUpLast
          /\ WalkedInv /\ \A f \in Files : Traced(f)
=============================================================================
