# A TLA+ model of jfrog-cli-security

TLA+ modules, TLC configurations and TLAPS proofs for this repository: the parts
where goroutines, channels, wait groups and files on disk interact, and the
algorithms around them that turn lock files, Xray's answers and scanner output
into a verdict and a report.
Paths are relative to the repository; `src/` is its root.

    tlc -workers 2 -config audit_races.cfg MCAuditScans.tla     # one run
    tlapm AuditScans_proofs.tla                                 # the proofs of a module

## 1. Inventory

| Component | State | Operations | Talks to | Hard behaviour | What makes it correct |
|---|---|---|---|---|---|
| **Audit scan phase** `commands/audit/audit.go`, `jas/runner/jasrunner.go`, `sca/scan/scascan.go`, `utils/parallel_runner.go` | task channel, three wait groups, `ResultsMu`, temp dir, results and errors per target | plan SCA and JAS tasks, set up JAS while running, run, record, report, clean up, decide | analyzer manager, Xray, results store | tasks that add tasks, a task that blocks on other tasks, a coordinator racing the workers, errors handled after `Done` | wait groups exact, no task loses its resources, no hang, no failure lost, contextual analysis reads final CVEs |
| **Binary scan pipeline** `commands/scan/scan.go` | three runners and their channels, BOM generator, results | walk, index, SCA scan, JAS scans, clean up, verdict | indexer, Xray, analyzer manager | bounded channels in a row, closing order, partial failures without a handler | nothing sent on a closed channel, clean-up last, success means every file was scanned, it drains |
| **Contributors count** `commands/git/contributors/` | tasks, results, cache files shared by processes | list, read cache, fetch pages, write + rename, merge | git servers, file system | concurrent processes on one cache, interruption, rate limits, partial fetches | only complete scans are believed or reported, it ends |
| **Results store** `utils/results/results.go` | targets, status codes, errors | update status, add errors, read verdict | all commands | status recorded several times, skippable errors | a failure stays visible |
| **Target detection** `utils/techutils/techutils.go` | files per directory, indicator tables | map directories to technologies, fold sub modules, list directories without one, promote (curation) | audit, curation | exclusions and promotions applied one after another | no directory and no descriptor forgotten, one manager per project |
| **Dependency trees** `sca/bom/buildinfo/` | working directory, environment, project files, temporary directories | per technology: change, run, parse, undo in deferred functions | package managers, SBOM, curation | any step and any undo may fail | what was changed is put back, failures reach the caller |
| **Lock files and listings** `sca/bom/buildinfo/technologies/*` | edges, forks, visited sets | parse, walk, flatten, relate to direct dependencies | curation, SBOM | cycles, forks of one name, workspaces, roots that are not packages | the list has every package and no other |
| **Result trees** `utils/results/common.go`, `utils/formats/cdxutils` | bills of materials, capped counters of 8 bits | trees to BOM and back, diff, issues to vulnerabilities, applicability, rows | scans, conversion | caps on repeated nodes, loops through roots | no dependency and no issue lost, a cautious status |
| **Policy and artifact status** `policy/`, `utils/xray/artifact` | polled status, violations | upload, poll, fetch or convert violations, filter, verdict | Xray | a scan that ends without the requested steps | violations read when final, the filter never decides the exit |
| **Conversion and output** `utils/results/conversion`, `output` | five parsers over one stream | per target: SCA, JAS, violations, get | formats | state kept from one target to the next | no finding lost in a format |
| **Audit preparation** `commands/audit/audit.go` | results context, profile, generator, targets | read context and entitlements, prepare the generator, detect targets, generate a bill of materials for each, prepare the strategy | Xray, plug-in, technologies, caller | five places decide whether a scan is asked for, some before the targets exist; failures that may be skipped | what is used was prepared, what was asked for is scanned or its failure on record |
| **Curation audit** `commands/curation/` | connection of the package manager, server details, request pool, `cancelled`, `authErr`, reports, errors | choose repository, build trees, send HEAD and GET requests, recover from npm's log or pip's pins, ask for waivers | Artifactory, package managers | producer against workers, a flag set before its error, state shared by technologies and directories | an incomplete audit is never reported as clean |
| **Enrich** `commands/enrich/enrich.go` | two runners with one task each | index and enrich one file | indexer, Xray | none: its single file passes from one runner to the next | |
| **Malicious code scan** `commands/maliciousscan/` | one task over all targets | scan, record | analyzer manager | one worker, directory names of a second | results recorded per target |
| **Analyzer manager** `jas/analyzermanager.go`, `utils/utils.go` | files and checksum on disk, child process | download if the checksum differs, unpack, mark, run | releases server, processes of the CLI | interrupted or concurrent download, killed child | what is run is what was downloaded |
| **JAS scanners** `jas/*/` | scan directory, configuration, two result files | configure, run, read, filter, record | analyzer manager | directory names with one-second resolution, known exit codes | results of one scan only, an unread result is no clean one |
| **Remediation** `remediation/sca/packageupdaters` | descriptor, lock file, working directory | collect, rewrite, regenerate, roll back | package managers, git | a failure after the descriptor was written | fixed as a whole or undone |
| SCA strategies, Xray-lib plugin | requests, child processes | | | their answers are inputs of the components above | |
| Git audit, build and docker commands, upload, offline update, curl, SAST server, MCP, CLI, severities, analytics, profiles, catalog | none that is shared | | | sequential | |

`PROJECT.json` has the same list with sources and status, and under `hazards`
everything hard to test, at its line, with the properties that would catch it.

## 2. Modules

### AuditScans — the scan phase of `jf audit`

State: `main` is the goroutine in `RunAudit`/`runParallelAuditScans`, `coord`
the goroutine `SecurityParallelRunner.Start` spawns, `queue` the runner's
channel, `scaWg`/`jasWg`/`scannersWg` the wait groups, `mu` `ResultsMu` where it
is held across steps, `st` the phase of each task (a task that a worker runs is
in a phase of `Busy`; at most `NumThreads` are), `tempDir`
`JasScanner.TempDir`, `code`/`failed`/`errs` what is recorded and reported.
`plan` is the input: entitlement, what `NewJasScanner` returns, requested
scans, what profile and module turn off per target, `--allow-partial-results`.

Actions follow the code in order. The main goroutine: `SkipJas`,
`JasScannerFails`, `AddJasTask`, `AddScaTask`, `StartRunner`, `RunReturns`. A
worker: `Take`, then the task's own steps, then `Report`. An SCA task:
`ScaLock`, `ScaScan`, `ScaSignal`. The JAS set-up task: `SetupFails` or
`SetupDone`, `AddMissingModule`, `AddScanner` (the wait group's Add),
`SendScanner`, `SetupReturns`, `SetupSignal`. A scanner task: `AwaitSca`
(contextual analysis only), `ScannerEnds`, `ScannerRecords`, `ScannerSignal`.
The coordinator: `WaitSca`, `WaitJas`, `WaitScanners`, `CleanTempDir`,
`Finalize`, `CloseQueue`. `Signal` before `Report` is the code's order: the
deferred `Done` runs before the runner calls the error handler.

### AuditPrepare — from the command line to the scan phase

`prep` is the next step of `prepareToScan`; each early return goes to `start`, where
`RunAudit` reads the errors. `general` are the errors with their flag "may be
skipped". `IsScanRequested`, `shouldRunScan`, `shouldGenerateSbom`, `NeedsGenerator`
and `IsJASRequested` are the five places that decide whether a scan is asked for:
the flags or the modules of the profile come first, and the modules are those the
targets know at that moment. `launched` is where the `plan` of AuditScans begins.
`Crash` is the index of the first module of a profile without modules.

### AuditPromise — what the phase promises

No goroutine, lock, wait group or channel: wanted scans settle, contextual
analysis after all SCA scans, then the resources go, then the verdict. The
`KeepsPromise` property of AuditScans is this specification under a refinement
mapping.

### ScanPipeline — `jf scan`

`queue`, `closed` per runner; `st` per task; `group` is the file-spec group the
walking goroutine is at. `PrepareFails` covers version, entitlement, generator
and download, the latter two run in parallel, so the generator may or may not
have been prepared. `WalkFile`/`GroupFails` feed the file runner, `HandOver`
is "Run returned, call Done of the next", and `CleanUp`, `Conclude` are what
`RunScan`'s caller does afterwards. Tasks of the second runner have no error
handler: `ScaFails` and `JasSetupFails` record their error themselves,
`NoExecutable` does not (`dropped`).

### ContributorsScan — `jf git count-contributors` and its cache

Several commands (processes) over one cache. A task is the n-th repository of a
command; `phase` is where `scanRepo` is. `final[p]` and `temp[p]` say which file
(inode) a path names, `content` what it holds, `fd` what a writer has open: a
rename moves an inode while another writer still writes to it. `os.WriteFile` is
two steps (truncate, write). `Kill` stops a process anywhere. `Expire` is the
passing of `--cache-validity`. A report is given by operators over the results
(`Contributors`, `Details`).

### TechDetection — which technologies a project has

`layout` is the project, a set of files for each directory; `found` is
`technologiesDetected` (descriptors by technology and directory). `MapDirectories`,
`CleanSubDirectories` and `AddNoTech` are the steps of
`DetectTechnologiesDescriptors`; for curation, `PromoteMembers`, `PromotePnpm`,
`PromoteYarn` (which walks up to the home directory, or to the root outside it), `PromotePip`, `AppendExtra`, `ResolveNpmYarn` follow in the order
of the code on the list of the working directory. The indicator tables are those
of `technologiesData`, for the technologies that exclude each other. `ProjectCovered` is
`NothingForgotten` about `jf audit` and `ManagersExclusive` about a curation audit.

### CurationResolver — where each technology is resolved

The routes of the `SetRepo` family: a configuration file names a host and may hold
credentials; `connection` is `PackageManagerConfig`, `serverHost` the host of the
shared server details that two routes overwrite, `depsRepo` the repository
parameter. Each technology is gated, installed and probed; `uses` records with what.
`Connect` and `EnsureConnection` are `SetRepo` and `GetAuth`, of which CurationAudit
has its own, coarser versions.

### CurationAudit — `jf curation-audit` as a sequence of audits

`Run`'s loop over directories and technologies up to waivers and the error it
returns. `config`, `server`, `results`, `scanErr` and `err` are the fields of the
command; `probes` remembers which connection an audit used. Each early return of
`doCurateAudit` and `auditTree` is an action. The properties and the invariant that
carries them (`AuditInv`) stand at the end of the module.

### CurationFetch — the requests of one audit

A producer, a queue of one task and workers. `StoreError`, which sets `authErr`,
comes a step after `cancelled` as in the code; the producer reads `cancelled`
before it adds a task and may then block on the queue.

### CurationFallback — when curation breaks the installation itself

npm's debug log, in which the lines of concurrent fetches mix, and the scanner that
pairs notices and refusals first in, first out; then the loop over the entries
(probe, advise, take from the log); or the pins of a Python project. `blockedKeys` is
`preProcessMap`; the report is `rows`, what the walk of the graph reaches of it
(`BuildReport`). The graph starts at the project of `package.json` (`root`), and goes
from the parent a line of the log names to the package by the version it was probed
with (`NodeOf`). A `package.json` without a version makes a root that no line names as
a parent, because a line is only read if its parent has a version.

### MCCuration

One behaviour is about one of the five modules above (`part`). Each module is a
level of the command, with what the level below returns as a choice; they share
no state beyond that choice, so their product would add nothing. CurationFetch,
CurationAudit, CurationResolver and CurationFallback are extended: TLC evaluates their
assumptions, and the properties it checks are the definitions the theorems are about. The
command stops only where its part ends, so TLC's deadlock check covers every part.

### DepTreeBuilders — what a builder does to its surroundings

Each technology is a list of steps, one for each call that can fail or change
something: directory, environment, files, temporary directories, runs of a package
manager, deferred functions. `frames` is the stack of calls, each with the deferred
functions it has registered; any step may fail (`StepFails`), any deferred function
too (`UndoFails`). `GenerateSbom` merges the trees and joins or drops errors. A project
that is not installed (`NotInstalled`, of yarn, npm and NuGet) is a failure of its own kind:
`GenerateSbom` returns neither it nor an SBOM.

### DependencyGraphs — lock files and listings

One lock file is read by each of thirteen managers: how an edge finds its package
(exact, by name, all forks), how the walk stops at a cycle, which packages reach
the flat list, and `fillGraphRelations`. RECURSIVE operators.

### ResultTrees — bills of materials

`DepsTreeToSbom`, the exclusion of a diff scan, the capped walk of `BomToFullTree`
with its counter of 8 bits, Xray's issues, `EnrichSbomWithApplicability` with the evidence
files it adds (`EvidenceOf`), and the rows with their direct dependencies. RECURSIVE
operators.

### PolicyReport — violations and exit

Xray moves between two polls (`XrayMoves`); the command uploads, waits, fetches and
converts the violations, or takes them from the scans, filters, concludes.

### ResultConversion — five formats side by side

The calls of `parseCommandResults`. The parsers read the same results and share
nothing, so they run on one stream, which lets a property compare them.

### PackageUpdaters — fixes

Per descriptor: write, look whether git tracks the lock file, enter the directory,
regenerate (npm and pnpm retry), undo, leave. Relative paths are resolved where the
process is at that moment.

### JasScan — scans of the Advanced Security workers

`shelf` holds the files of each scan directory, `busy` what each worker does,
`kept` what is recorded. `defaults` is `utils.DefaultJasExcludePatterns`, one slice of the
process: a contextual scan of third-party code that takes it removes node_modules in place
(`DeleteElement`), element by element (`Deleted`), so a scan that reads the list meanwhile,
or shortens it too, may meet any mixture of old and new elements (`Mixes`). Patterns that
are not the default are a fresh slice of the scan (`ToSlice`), so nobody else sees them
change. The clock of seconds matters because it names directories.
`todo` is the set of scans not begun yet: the runner's channel is ordered, but its
workers may begin in any order, so that the order says nothing.

### AnalyzerManager — the executable all processes share

`checksum` and `content` are the file and the directory in the user's home.
Unpacking is two steps between which a process may be killed, and the checksum is
removed before and written after. `disturbed` remembers that two processes met at
the cache, or that another version was left half unpacked: the code has no lock.

### MCWorkflows

As MCCuration, for AuditPrepare and the eight modules from DepTreeBuilders to
AnalyzerManager.

### The _proofs modules

The theorems of section 4.

## 3. Runs

| Run | Shows | Bounds |
|---|---|---|
| `audit_races` | the temp dir outlives the scanners, the end comes last, contextual analysis after SCA, verdict, late adds, refinement of AuditPromise | 2 targets, 3 workers, 4 slots, SCA + contextual + secrets, partial results allowed or not |
| `audit_single` | one worker, fair scheduling: no starvation, it ends; every way a plan narrows the scans, every status code and error pair: each planned scan is recorded, each failure listed; the inductive invariant of the proofs (types and wait groups included) | 2 targets, 1 worker, 6 slots, targets without module or dependencies, or one of the two with nothing to scan |
| `scan_pipeline` | no send on a closed channel, clean-up last, success is complete, termination; the inductive invariant | 2 files in 2 groups, 2 workers per runner, one-slot channels, every plan |
| `contributors_cache` | two commands on one cache, one listing a repository twice: only complete scans are believed and reported | 2 processes, 3 tasks, 2 workers, 2 pages, 2 tries |
| `contributors_ends` | one command over two repositories, every option: it ends; the inductive invariant of the proofs | 2 tasks, 2 workers |
| `curation` | projects are covered by one manager of each kind; own repository, on the host its file names; no audit uses the connection of another one unless that one failed; no report lost; errors lost only to waivers; a refused request is an error; no forbidden package is missed; notices are never given to another package; each package that a log places below the project has its row in the report, is clean or is warned about | see below |
| `workflows` | the nine modules: an audit prepared before it scans, what was asked for scanned, surroundings as found, failures returned, lists and relations exact, trees and rows right, violations faithful, formats agree, fixed or undone, a scan is its own, the manager is whole | see below |
| `contributors_details` | *violation*: detailed and plain commands share cache entries | 2 commands, 1 repository |
| `contributors_collision` | *violation*: two repositories share a cache file | names `a/b`, `a_b` |
| `curation_error_lost` | *violation*: a waiver request replaces the errors of other audits | 2 directories |
| `curation_row_lost` | *violation*: without a version in package.json a report has no row for a blocked package | 3 packages, 5 log entries |
| `jas_node_modules` | *violation*: one contextual scan of third-party code takes node_modules from the exclusions of the scans after it | 2 workers, as `workflows` |

Why the bounds are enough. Two targets give a scan of the same and of another
target for each scanner; three workers allow the set-up task, a scanner and an
SCA task at once, and one worker is the starvation case. The channel has 20000
slots in the code. The models use few, but enough for the main goroutine to add
its tasks before any worker runs, and for a set-up task that holds the only
worker to add its scanner tasks (targets × scanners + targets): with fewer slots
the design deadlocks, a limit the code's 20000 puts out of reach of real targets.
In ScanPipeline every channel
has one slot, the tightest. Two processes and three writers cover overwriting,
renaming another's file and reading in between. `Tries` is 2 instead of 5,
`MaxRepos` 2; the counters have no other bound.

`curation`: a root and two packages, one with two download URLs, and two workers
(one is between its flag and its error while the other and the producer go on);
two directories with three lists of technologies and one key for the reports, so
that keys collide; two configuration files at a time, on the server's host or
elsewhere, with credentials or without; three packages whose log lines mix, any
subset of five log entries (resolved, a range, an exact version that is missing, another
source; below the project, each other, or a package whose line is not there), two pins;
projects of up to five nested directories, in the home directory, above it or elsewhere.
npm's aliases are taken as resolved, and no entry is the project itself.

`workflows`: audits with all scans, only SCA or only secrets, without a profile or
with none, one or two modules, in directories with technologies, without, that fail,
are missing or excluded; every technology alone and three pairs; lock files of six packages
with a fork, a workspace member and cycles through each of them; forests of up to
six components with diamonds, loops, loops through the root and a component with
more parents than the counters take, `Cap` and `MaxInt8` being 2 and 5 where the
code has 10 and 127 so that capping and wrapping both happen; one or two
targets and each type of violation with policies that skip, fail or are absent;
up to three targets with findings shared between targets, responses and runs; one
or two descriptors, nested or not; two workers, three scans and two seconds, with the default
exclusions (three patterns, node_modules the middle one) or others; three processes and two
versions. `EvidenceFile` is the one file that shows an issue to be applicable.

Every property has a faulty variant of the code (the operators marked "Faulty
variant") that violates it in the same run.

Fairness. Weak fairness of each goroutine's steps: Go schedules every runnable
goroutine; Xray polling, the indexer and git requests have time limits, so they end
in success or failure. A scanner's child process has none (`ExecWithOutputFile`):
that the analyzer manager ends by itself is an assumption of `Termination` in
AuditScans and ScanPipeline. No fairness on `Kill`, `Expire`, or on the outcome of
a step: a rate limit may repeat up to `Tries`. `ResultsMu` needs no strong fairness
because each task takes it once. `curation` and `workflows` check safety only.

`CHECK_DEADLOCK FALSE` in the contributors runs only: commands that ended, or
were killed, do nothing more. In AuditScans and ScanPipeline a `Stay` step, in
MCCuration and MCWorkflows a `Stop` step stands for the finished run, and a
deadlock before it would be an error.

## 4. Proofs

`AuditScans_proofs` proves, for any number of targets and workers, any channel
capacity, any set of plans and outcomes (assumption `AuditAssumption`, types
only): `Invariance`, `TypeCorrect`, `WaitGroupsCorrect`, `ScannersKeepDir`, `EndComesLast`,
`ContextualReadsFinal`, `NoStarvation`, `VerdictComplete`, `NoLateAdd`,
`EverythingAccounted` and the refinement `PromiseKept`, `Spec => KeepsPromise`.

All follow from `Invariance`, `Spec => []IndInv`. None of the properties is
inductive alone: that no running scanner loses its directory rests on the
coordinator having seen the third wait group at zero, which is final only because
the set-up task, the only one that adds, has signalled before; that in turn
needs the wait groups to count the right tasks, and the channel to hold exactly
the queued tasks, each once. `IndInv` is the conjunction of those facts:
wait groups exact; queue and phases agree (`QueueInv`); SCA tasks precede
scanner tasks in the channel and are gone once one of those left it (`OrderInv`,
`DrainInv`, what rules out starvation); the coordinator's phase implies which
tasks are over (`CoordInv`); codes and errors agree with the phases; and so on. For
`OutcomesAccounted`, that everything planned is recorded at the end, two conjuncts
tie the tasks to the plan: a code is set by the task that is over, and only planned
scans have tasks (`PlannedInv`); the set-up task exists exactly if JAS has a scanner,
and when it is over it has failed or dealt with every target (`JasInv`). The proof has a lemma per conjunct
over the steps that can disturb it, on top of three groups of general lemmas:
what a step does to one task (`Effects`), what sending and receiving do to the
queue, and what moving one task does to a cardinality (`CountMove`).

`PromiseKept` shows that AuditScans implements AuditPromise. The mapping turns the
phases of a task into "wanted, settled, with which outcome" and the coordinator's
into "resources there or gone". `PromiseInit` maps the initial states; for the steps
there is a lemma for each goroutine (`PromiseMain`, `PromiseCoord`, `PromiseSetup`,
`PromiseWorker`, `PromiseScan`). Most steps leave the image as it is (`Invisible`):
sending, receiving, signalling and locking do not exist in the promise. The visible
ones need `Invariance`: that a scan settles once, that a contextual scan settles after
all SCA scans, that the clean-up finds no scan left to settle, and that the verdict
is read when all handlers have run.

`ContributorsScan_proofs` proves, for any number of processes, servers,
repositories, pages and workers (`ContributorsAssumption`, types and the
reserved marker only), `CacheSound` and, under the stated assumption that
`sanitizeFilename` is injective on the names, `ReportsExact`. Run
`contributors_collision` shows that the assumption is needed. The argument is
about files, not paths: `CacheComplete` looks only at the final name, but a
writer may still hold a file that another one renamed there. `FileInv` therefore
says of every file that it stays on the path of the task that created it, that
whoever has it open writes to that path, and that what parses in it is a complete
scan; `ResultInv` says the same of results, and `ReportInv` that the tasks of a
reported command are over and none was skipped.

`ScanPipeline_proofs` proves `ChannelsSafe`, `CleanUpComesLast` and `NoFileLost`, for any
files, groups, workers and capacity (`PipelineAssumption`, types only). That a
runner has returned says nothing about tasks that still wait in its channel unless
every queued task really is in it (`QueueInv`); with that, "returned" means that
none of the stage's tasks is left (`NoneLeft`), and since only tasks of one stage
add to the next, the channels close in order (`CloseInv`). `NoFileLost` follows each
file from stage to stage (`Traced`): what indexing made of it is known before it is
handed on, a scan that passed is recorded or in the errors, its JAS scans were added
all or none; a task is in one channel once (`OnceInv`), so that it is neither run
twice nor dropped; and the walk passes no file by without an error (`WalkedInv`).
That the exemption for JAS (`WithoutJas`) is needed is the hazard at `scan.go:611`.

`CurationFetch_proofs` proves, for any graph, any number of workers and any
assignment of URLs to packages (`FetchAssumption`), `RefusalIsReported` and
`NothingIsMissed`. The flag `cancelled` is set a step before the error is stored, and
fetching ends when every worker is idle; so the invariant says where the error is
meanwhile: stored, or in the hands of a worker that is about to store it. For the
second, every node is unsent, held by the producer, queued, in the hands of a
worker or has an answer for the URLs that matter, unless the fetch is cancelled or
failed; a forbidden URL is in the map of blocked packages, on its way there, or
known not to be curation's. The module also proves `RepositoriesAreOwn` about
CurationResolver, for any layout of configuration files and any list of the technologies
whose routes are modelled (`Lists \subseteq Seq(Resolved)`, the theorem's hypothesis):
`[]OwnRepository`. Every route of a technology leads to one file of the directory
(`Source`, lemmas `RouteSource` and `YamlSource`) and to the host it names (`RouteHost`),
wherever another technology has moved the server's URL; the invariant says that the
connection and the repository left by one technology are gone when the next begins,
and that within one they come from that file and host (`OwnConnection`, `OwnUses`).

`CurationAudit_proofs` proves `AuditsApart`, `CurationSpec => []AuditsKeepApart`: no
report is overwritten, an audit sends its requests with its own connection or the
leftover of one that failed in an earlier directory, and errors are lost only to a
waiver request, for any number of directories, lists of technologies and key names (`CurationAssumption`: the
lists hold technologies, and "no configuration" is none of them). That no report is
lost rests on `uniqueReportKey`: its loop finds a free number because the reports are
finitely many (`ReportsInv`), a pigeonhole argument over the cardinality of their keys
(`NumberFree`, `KeyFresh`). Which connection an audit finds depends on where the last
one stopped: cleared by one that succeeded, and left behind only by one whose error is
on record (`ConnectionInv`); and `err` is what was collected until the command prints
(`ErrorInv`), after which only a waivable report can replace it.

`CurationAudit_proofs` also proves `LogIsRecovered`, `FallbackSpec => []LogRecovered`, of
CurationFallback, for any packages, versions and order of the lines. As many notices are
pending as packages wait for theirs (`Noticed`, a cardinality that each line changes by
one), so that the notice at the head of the queue is that of the only package that waits,
unless several do, which makes the order ambiguous; and every key the loop has passed is
in the map of blocked packages, found clean or warned about (`EntriesInv`). That a package
of the map also has its row is an argument about the graph: the packages the log places
below the project (`Installed`) are the least set closed under the log's lines, the rows
are the nodes in every set closed under the graph's edges (`Reached`), and the second
closure contains the first as long as the graph starts at the log's project and names a
resolved package by the version the log gives it. A report from another root is outside
the theorem; `curation_row_lost` is about it.

And it proves `ProjectIsCovered`, `DetectionSpec => []ProjectCovered`, of TechDetection, for
any finite tree of directories (`ProjectsAssumption`) and any settings. For `jf audit` the
invariant (`TreeInv`) only says that nothing but the tree decides what is found; the rest is
about that. Among the directories of a technology that contain a given one there is a
shortest, so folding gives each descriptor exactly one keeper (`TopIs`, `KeptOnce`,
`TopsApart`). The list of directories without technology is a recursive function over the
tree, from the leaves up: it exists (`NoTechDefined`) and leaves no directory uncovered
(`NoTechRises`, `AllCovered`), both by an argument over the least depth at which that could
fail (`LeastNumber`), where an induction is not available. For a curation audit (`ListInv`)
the exclusions between indicators keep npm, pnpm and yarn apart in the list from the start
(`ShownManagers`), with `.yarnrc` as the one exception, and each promotion renames npm's
entry, so it adds none; pip and uv are kept apart by `promotePipToUv` alone, which leaves
both in the list only without any sign of uv, when uv is not in it either: its lock file is
what showed it (`UvIsLocked`).

`JasScan_proofs` proves `ScansAreTheirOwn`, `JasSpec => []ScanIsItsOwn`, for any jobs,
workers and clock (`JasAssumption`, types and the reserved value only): a recorded
result is about its scan, or about one that the same worker put in the same directory in
the same second. Findings travel through files, so the invariant speaks of
directories: the users of one are the scans recorded from it and the one there now
(`Users`), every file in it is about one of its users (`ShelfInv`), a worker reads only
from its own (`OwnDirectory`), and what it has in hand is complete but for what is
suppressed or too mild, or its exit code says why not (`OwnFindings`, `KeptInv`). What a
configuration skips is not what its scan was asked to skip, because the default list may
lose node_modules at any moment and a reader may meet it half moved; what is invariant is
that the list only loses patterns and never gets node_modules back (`DefaultsInv`), so that
a scan skips nothing it was not asked to, and a contextual one into node_modules never that
(`SkipsNoMore`).

`JasScan_proofs` also proves `ManagerIsWhole` (`ManagerStartsWhole`) of
AnalyzerManager, for any number of processes, any versions and requests.
`checksum = content` is not inductive: it is false while a process unpacks, and after
that process was killed. What is: who unpacks is alone with the cache, the checksum
tells of the files or there is none or somebody is unpacking, and each process knows
of the cache what its next call relies on (`Alone`, `ChecksumTells`, `CacheKnown`),
or the history is `disturbed`.

`PackageUpdaters_proofs` proves `FixesAreWhole`, `UpdSpec => []FixedOrUndone`, for any
fix of finitely many descriptors (the theorem's hypothesis). The queue is an
enumeration of the targets, so it visits each once (`Enumerated`, a counting argument);
the invariant (`UpdInv`) says of every file that it is untouched, is the head of the
queue, or is settled: fixed with its lock file, put back, or in error for another cause
than those after which it has to be put back (`Untouched`, `Settled`, `QueueInv`). What
the later steps of the head rely on, that a descriptor is undone for one cause only or
that a regenerated lock file follows a written descriptor, is `HeadInv`; that the process
is elsewhere only while it regenerates, or since a return that failed, `DirectoryInv`.

`PackageUpdaters_proofs` also proves `ViolationsAreReported`, `PolicySpec =>
[]ReportFaithful`, of PolicyReport, for any targets and responses (`PolicyAssumption`,
types only). The violations are consumed from the head, so the invariant says how far
the conversion is: what is left are the last items, and what the others say is in the
report (`ItemsInv`), to which the filter does nothing but move rows to the dropped ones.
That the applicability is looked up in the last target that lists a vulnerability needs
that there is a last one (`LastOf`). A row is not applicable only if some target says so
(`RowsInv`), and the status and the errors together tell why violations are missing
(`VerdictInv`), which is what a command that ends well rests on.

`AuditPrepare_proofs` proves `PreparedIsUsed` and `NothingAskedIsLeftOut` for any
command lines, profiles and directories, without an assumption on the constants. What
is used is decided after the targets exist, what is prepared before; so the invariant
keeps the first decision: as long as there is no target nobody knows a module and the
flags decide (`FlagsDecide`), and a target exists only if the generator is ready or
the flags did not ask for it (`GeneratorKnown`, `SoftwareKnown`). Every early return
leaves either no target or an error that is never skipped (`ErrorsKnown`).

`AuditPrepare_proofs` also proves `FailuresReach`, `TreesSpec => []FailureReturned`, of
DepTreeBuilders, for any technologies of a target (`TreesAssumption`, types only). The
builders are programs of a stack machine, so the argument has two halves. One is about
the machine, whatever it runs (`FramesInv`): each call remembers what had failed when it
was made, a call that goes on has had no failure of its own since, and a failed call with
an alternative forgets exactly its own; for the technologies in a row, no joined error
means that each of them has a tree or nothing to show (`PendingInv`). The machine keeps
this as long as an error that is assigned, not returned, is the last thing a function does.
The other half shows that of all eighteen builders, with or without curation, a
repository or an installation (`OrderlyTree`): their steps are calm (`CalmSteps`: none
assigns, nor does one of the branches and calls inside it, to any depth), except the last
two of the Python builders, the first of which is the error that curation overwrites.

And it proves `TreesLeaveAsFound`, `TreesSpec => []LeftAsFound`, from the same assumption.
That a build puts back what it changed is no matter of the last step: between the step
that takes something (a temporary directory, the working directory, a variable, a file of
the user) and the one that registers its deferred function, and from there until the
deferred functions have run, a failure may end any of the calls on the stack. So
`FoundInv` speaks of every call. What is taken is registered to be undone by one of the calls (`Registered`), or
about to be (`Coming`: nothing between may fail but what `UnguardedSteps` names), given
back, or on record as stuck; a temporary directory may also pass from a call that ends well
to its caller, who removes it (`HandOver`, `HandedOver`). The calls that are still to be
made have to behave as well, which is what `Fine` says of the steps that are left: they are
in a set of step lists (`Tidy`) that is closed under running the next step, under both
branches of a choice, under the call and, where the call may be forgotten, its alternative;
of each of them the next step is sound (`Sound`), knowing what the call did so far and what
its caller removes. Such a set takes the place of an induction over programs: `FineTree`
gives one for each of the eighteen builders, for every option, and the machine stays in
it. A call that may be forgotten takes nothing (`k.safe`), or else the failure that
explains what was left behind would be forgotten with it (`ExcusesInv`). `TreesFound`
is the invariance of `FoundInv` beside that of `FailuresReach`. Before the proof, TLC checked the parts of `FoundInv` that it can evaluate
(all but `CallsInv`, which speaks of all sets of step lists) on fifteen technologies and
three pairs of them; they are part of no run.

Only model-checked, and why:

- `Termination` of AuditScans, ScanPipeline and ContributorsScan: liveness under
  fairness, which the proof system cannot do.
- `ListIsExact`, `RelationsComplete`, `TreesRight`, `RowsRight`: what recursive
  algorithms compute over data. DependencyGraphs and ResultTrees write them with RECURSIVE
  operators and folds, which the provers do not expand.
- `FormatsAgree`: the parsers of ResultConversion consume one stream, and the formats are
  compared element by element; a proof would be an induction over them.
- `CurationTypes`, `WorkflowTypes`: the conjunctions of the type invariants and
  inductive invariants of the modules in one run. Those of CurationFetch, CurationAudit,
  CurationResolver (`ResolverInv`), CurationFallback (`FallbackInv`), AuditPrepare,
  DepTreeBuilders (`FailuresInv`), PolicyReport (`PolicyInv`), AnalyzerManager, JasScan and
  PackageUpdaters are proved in the modules above, the others only checked.

## 5. Where code and documentation differ

- `contributors_details`: `cache.go:38-39` says caches never collide across
  configurations; `-detailed-summary` is not in the key, so a detailed report can
  lack the details of contributors it counts.
- `contributors_collision`: `cache.go:54` says the entry is the one for `repo`;
  `sanitizeFilename` is not injective and the entry's repository is not compared.

- `curation_error_lost`: `curationaudit.go:458` says that errors are returned at
  the end; `curationaudit.go:518` assigns `errors.Join(ca.requestWaiver(...))`
  over those joined so far, so that a run in which one technology failed ends
  without an error once a waiver was requested for another.
- `curation_row_lost`: `curationaudit.go:2396` knows that the walk "only reaches anything
  if rootName/rootVersion match the log's real root", and `curationaudit_test.go:3375`
  wants a blocked package not to be lost; but `readNpmProjectNameVersion` returns the
  empty version of a `package.json` without one and no error, so the log's root is not
  looked for, no row is made, and a report of warnings replaces npm's error.
- `jas_node_modules`: `flags.go:348` says that the contextual scan also uses the code of
  the dependencies; `removeElementFromSlice` deletes in place
  (`applicabilitymanager.go:199`), so after it every scan that takes
  `utils.DefaultJasExcludePatterns` looks into node_modules too.

Not findings, but worth knowing; the models have them, and the properties name the
exceptions they make:

- Audit and scan: whether the generator is prepared is decided before the targets
  know the profile (`audit.go:363`), whether a bill of materials is generated after
  (`audit.go:508`), so that `--secrets` with a profile that enables SCA uses a
  generator that was not prepared (`OnlyByProfile`); a profile without modules panics
  at `audit.go:710` before line 691 looks whether there is one; options or a
  generator that cannot be prepared, skipped under partial results, let the audit end
  well without a target; a missing executable of the analyzer manager goes
  unreported in `jf scan` (`scan.go:611`); one repository that cannot be fetched
  fails the whole contributors command although the report has a list of skipped
  ones (`countcontributors.go:265`); the total of contributors is the number of (e-mail,
  repository) pairs (`countcontributors.go:522,599`) where
  `cli/docs/git/contributors/help.go:8` speaks of unique developers.
- Analyzer manager and scanners: the cache has no lock, and an interrupted switch of
  versions, or two processes downloading at once, can leave mixed files under a matching
  checksum (`disturbed`, which `ManagerIsWhole` exempts); two scans
  of one kind that a worker begins in the same second share a directory, which
  `jf malicious-scan` can do (`SameDirectory`).
- Policy: an error while violations are converted sets a status with which
  `--fail` ends well under partial results; license violations of later targets are
  no longer converted from allowed licences once one was found
  (`localconvertor.go:109`).
- Trees: a cycle through the only root leaves no root and an empty tree; the 8-bit
  counter wraps (`common.go:1184`; `TreesRight` holds up to `MaxInt8` appearances); an issue
  that is applicable and hits no component of the target has no row; a diff scan drops a new leaf only below an
  unchanged dependency.
- Conversion: the CycloneDX document keeps the components an issue affects as the first
  target has them (`cyclonedxparser.go:422-425`), so a component that only a later target
  names is in the document but not affected (`HitInBom` exempts it; no comment or test says
  otherwise); an issue without a location affects a file of the empty path (line 180); `Get`
  merges the violations of different watches on one issue and component, too
  (`simplejsonparser.go:46`); a hit without a direct component has a SARIF rule and no result; a
  further run of a different tool is left out of the SARIF; with only an SBOM and an
  error nothing is printed.
- Dependency trees: NuGet's and Go's environment variables are not restored; a
  project that is not installed hides the other errors of the target; curation
  overwrites the error of Python's dependencies (`python.go:192`); a temporary
  directory stays if the process cannot enter it.
- Curation: `setRepoFromNpmrc` and pnpm's route move the URL of the server details all
  technologies share (`curationaudit.go:1905`), so a later route that compares its host with
  it may be refused or accepted; a technology may probe with the connection of an audit that failed in an
  earlier directory; `.yarnrc` is missing from npm's exclusions, so a project may be
  audited as npm and as yarn; a 403 without a notice of its own takes the notice of
  another package; a directory that cannot be entered suppresses all reports.
- Remediation: the lock files of npm and pnpm are not put back with the descriptor,
  npm keeps the descriptor when the directory cannot be entered, and a relative
  path always counts as tracked by git once the process has moved.

## 6. Plan

Done: AuditScans, AuditPromise, ScanPipeline, ContributorsScan and their proofs;
CurationFetch, CurationAudit, CurationResolver, CurationFallback, TechDetection and their
proofs; AnalyzerManager, JasScan, PackageUpdaters, PolicyReport and their proofs;
AuditPrepare, DepTreeBuilders and their proofs; ResultTrees, DependencyGraphs,
ResultConversion.

Left, in order:

1. Lemmas about the status and the rows of results.
2. AuditPrepare composed with AuditScans, `launched` giving the plan.
3. The updaters that are left out of PackageUpdaters (NuGet, Gradle, yarn, conan,
   gem, CocoaPods, Swift).
4. Results: status codes and errors as an abstract log that AuditScans and
   ScanPipeline implement.

## 7. Not modelled

Command-line parsing, severities, requests to services, the commands of the package
managers, the indexer and the plugin: their data is input to the modelled parts,
abstracted to success, failure or a choice. Text is left out everywhere: messages,
tables, fingerprints, the editing of a descriptor, the parsing of a lock file's
syntax (DependencyGraphs starts from its edges). Of the modelled files, logging,
progress bars and analytics are left out. Data races inside a JAS result (SARIF)
are out of scope; `ResultsMu` is modelled where it is held over more than a step.
ScanPipeline leaves the wait groups of its third runner out because nothing
counts in them. ContributorsScan keeps the commits of a repository fixed, so it
says nothing about how stale a valid entry is. Enrich hands one
file from one runner to the next, so nothing interleaves; the git, build and docker commands, upload, offline update and
curl are sequential wrappers.
