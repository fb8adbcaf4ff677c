------------------------------ MODULE JasScan ------------------------------
(***************************************************************************)
(* jas/common.go and the scanners it serves (secrets, services, iac, sast, *)
(* applicability, malicious code): one scan writes a configuration in a    *)
(* directory of its own, runs the analyzer manager on it, reads the two    *)
(* files of results the manager may leave, drops what is suppressed or not *)
(* severe enough, and records it with the exit code.  jf audit runs its    *)
(* scans on the workers of a runner; jf malicious-scan runs those of all   *)
(* its targets on one.                                                     *)
(*                                                                         *)
(* A directory is named for the scanner, the second and the worker.  A     *)
(* file holds who it is about and the findings, [suppressed, severity].    *)
(***************************************************************************)
EXTENDS Naturals

CONSTANTS Jobs,        \* what the command is called with
          Workers,
          LastSecond,  \* bounds the clock
          Nobody       \* no scan, no file, no directory

VARIABLES job,         \* the command's input
          progress,    \* start, scanning, ended or refused
          todo,        \* the runner's queue: the places of its scans in the command's list
          second,
          shelf,       \* directory -> its files
          busy,        \* worker -> its scan and the scan's next call
          kept,        \* what was recorded
          defaults     \* DefaultJasExcludePatterns, a slice the whole process has

jasVars == <<job, progress, todo, second, shelf, busy, kept, defaults>>

Kinds == {"secrets", "services", "iac", "sast", "applicability", "malicious"}
\* Only these scanners' violations are recorded.
Violating == Kinds \ {"applicability", "malicious"}
\* exitCodeErrorsMap: not entitled, unsupported command, unsupported system.
KnownExits == {31, 13, 55}
\* Not the exit code of a process: the call itself failed.
NoExit == 99

Directories == Kinds \X (0 .. LastSecond) \X Workers
Tasks == UNION {{j.scans[i] : i \in DOMAIN j.scans} : j \in Jobs}
Empty == [config |-> Nobody, compared |-> Nobody, found |-> Nobody, violating |-> Nobody]
Idle == [call |-> "idle", scan |-> Nobody, dir |-> Nobody, exit |-> 0, found |-> Nobody, violating |-> Nobody]

\* The patterns before that of node_modules, at its place, and after it.
NodeModules == "node_modules"
DefaultJasExcludePatterns == [before |-> "test", at |-> NodeModules, after |-> "target"]
Elements(list) == {list.before, list.at, list.after}

JasInit ==
    /\ job \in Jobs
    /\ progress = "start"
    /\ todo = {}
    /\ second = 0
    /\ shelf = [d \in Directories |-> Empty]
    /\ busy = [w \in Workers |-> Idle]
    /\ kept = {}
    /\ defaults = DefaultJasExcludePatterns

--------------------------------------------------------------------------
(* The scanner and its tasks                                               *)

\* By the configuration profile, else by the application's own module.
ShouldSkipScanner(s) == IF s.profile # "none" THEN s.profile = "off" ELSE s.excluded

\* No platform or Xray URL: no scanner, which only jf audit takes as it is.
\* It also fails when the analyzer manager cannot be had.
NewJasScanner ==
    /\ progress = "start"
    /\ \/ /\ job.url
          /\ progress' = "scanning"
          /\ todo' = {i \in DOMAIN job.scans : job.malicious \/ ~ShouldSkipScanner(job.scans[i])}
       \/ progress' = "refused" /\ UNCHANGED todo
       \/ /\ ~job.url /\ ~job.malicious
          /\ progress' = "ended" /\ UNCHANGED todo
    /\ UNCHANGED <<job, second, shelf, busy, kept, defaults>>

Tick == /\ progress = "scanning" /\ second < LastSecond
        /\ second' = second + 1
        /\ UNCHANGED <<job, progress, todo, shelf, busy, kept, defaults>>

Call(w, call) == busy' = [busy EXCEPT ![w].call = call]
Breaks(w) == busy' = [busy EXCEPT ![w].call = "record", ![w].exit = NoExit]

\* Changed-files mode without a changed file in the target: no SAST scan.
NothingToScan(s) == s.nothing /\ s.kind = "sast"
NoCves(s) == s.nothing /\ s.kind = "applicability"

TakeScan(w) ==
    /\ progress = "scanning" /\ busy[w].call = "idle"
    /\ job.malicious => \A v \in Workers : busy[v].call = "idle" /\ \A k \in kept : k.worker = w
    /\ \E i \in todo :
          /\ \A j \in todo : i <= j
          /\ busy' = [busy EXCEPT ![w] = [Idle EXCEPT !.scan = job.scans[i],
                         !.call = IF NothingToScan(job.scans[i]) THEN "record" ELSE "directory"]]
          /\ todo' = todo \ {i}
    /\ UNCHANGED <<job, progress, second, shelf, kept, defaults>>

--------------------------------------------------------------------------
(* One scan                                                                *)

\* One directory for a scanner's workers.
SharedDirectory(kind, w) == <<kind, second, CHOOSE v \in Workers : TRUE>>
ScannerDirectory(kind, w) == <<kind, second, w>>

\* CreateScannerTempDirectory takes a directory that exists as it is; the
\* manager of the scan then saves the results to compare with.
BeginScan(w) ==
    LET s == busy[w].scan
        dir == ScannerDirectory(s.kind, w)
    IN  /\ busy[w].call = "directory"
        /\ \/ Breaks(w) /\ UNCHANGED shelf
           \/ /\ busy' = [busy EXCEPT ![w].dir = dir,
                              ![w].call = IF NoCves(s) THEN "record" ELSE "config"]
              /\ shelf' = IF s.compare /\ ~NoCves(s) THEN [shelf EXCEPT ![dir].compared = s] ELSE shelf
        /\ UNCHANGED <<job, progress, todo, second, kept, defaults>>

Shelf(w) == shelf[busy[w].dir]
Put(w, files) == shelf' = [shelf EXCEPT ![busy[w].dir] = files]

\* GetJasExcludePatterns for an application's module: the flags and the central
\* configuration, else the module's own patterns; GetJasExcludePatternsForTarget:
\* the central configuration, else the target's own patterns, unless they are
\* SCA's.  If there are none, the scan takes the defaults.
OwnPatterns(s) ==
    CASE s.kind = "malicious" -> s.flags
      [] s.kind # "malicious" /\ s.deprecated ->
            IF s.flags \cup s.central # {} THEN s.flags \cup s.central ELSE s.module
      [] OTHER -> IF s.central # {} THEN s.central ELSE s.flags
TakesDefaults(s) == OwnPatterns(s) = {}
\* Third-party contextual scans look into node_modules.
LooksIntoModules(s) == s.kind = "applicability" /\ s.thirdParty
WithoutNodeModules(s, dirs) == IF LooksIntoModules(s) THEN dirs \ {NodeModules} ELSE dirs

\* Faulty variant: the pattern after it goes.
DeletedNext(list) == [list EXCEPT !.after = ""]
\* slices.Delete moves the patterns after it down, in the slice of the process,
\* and clears the last.
Deleted(list) == [list EXCEPT !.at = list.after, !.after = ""]
\* A worker that reads, or moves, the elements while another moves them meets
\* each of them before or after.
Mixes(list) == {[list EXCEPT !.at = a, !.after = b] : a \in {list.at, list.after}, b \in {list.after, ""}}
ListsSeen == IF \E v \in Workers : busy[v].call = "delete" THEN Mixes(defaults) ELSE {defaults}

WriteConfig(w, dirs) ==
    LET s == busy[w].scan
    IN  /\ Put(w, [Shelf(w) EXCEPT !.config = [scan |-> s, skipped |-> dirs, compared |-> s.compare]])
        /\ Call(w, "run")

CreateConfig(w) ==
    LET s == busy[w].scan
    IN  /\ busy[w].call = "config"
        /\ \/ Breaks(w) /\ UNCHANGED shelf
           \/ ~TakesDefaults(s) /\ WriteConfig(w, WithoutNodeModules(s, OwnPatterns(s)))
           \/ TakesDefaults(s) /\ \E list \in ListsSeen :
                 /\ LooksIntoModules(s) => list.at # NodeModules
                 /\ WriteConfig(w, Elements(list))
           \/ /\ TakesDefaults(s) /\ LooksIntoModules(s) /\ defaults.at = NodeModules
              /\ Call(w, "delete") /\ UNCHANGED shelf
        /\ UNCHANGED <<job, progress, todo, second, kept, defaults>>

\* removeElementFromSlice found the place of node_modules; another scan may
\* have removed it since.
DeleteElement(w) ==
    /\ busy[w].call = "delete"
    /\ defaults' \in IF defaults.at = NodeModules THEN {Deleted(defaults)} ELSE Mixes(defaults)
    /\ Call(w, "write")
    /\ UNCHANGED <<job, progress, todo, second, shelf, kept>>

\* What is left of the slice is one shorter.
WriteShortened(w) ==
    /\ busy[w].call = "write"
    /\ \/ Breaks(w) /\ UNCHANGED shelf
       \/ \E list \in ListsSeen : WriteConfig(w, {list.before, list.at})
    /\ UNCHANGED <<job, progress, todo, second, kept, defaults>>

\* What the manager finds: nothing of the findings it compares with, nothing
\* in a directory it skips.
Report(config, old) ==
    [scan |-> config.scan, skipped |-> config.skipped,
     old |-> IF config.compared THEN old ELSE Nobody]

\* ExecWithOutputFile waits for the manager, which reads the directory's
\* configuration and leaves up to two files if it ends well.
RunAnalyzerManager(w) ==
    /\ busy[w].call = "run"
    /\ \/ /\ \E exit \in {1, 31, NoExit} :
                busy' = [busy EXCEPT ![w].call = "record", ![w].exit = exit]
          /\ UNCHANGED shelf
       \/ /\ \E f, v \in BOOLEAN :
                LET report == Report(Shelf(w).config, Shelf(w).compared)
                IN  Put(w, [Shelf(w) EXCEPT !.found = IF f THEN report ELSE @,
                                            !.violating = IF v THEN report ELSE @])
          /\ Call(w, "read")
    /\ UNCHANGED <<job, progress, todo, second, kept, defaults>>

Severe(f) == f.severity >= job.severity
\* processSarifRuns: suppressed results and those below the least severity.
Processed(report) ==
    [scan |-> report.scan, skipped |-> report.skipped, old |-> report.old,
     findings |-> {f \in report.scan.findings : ~f.suppressed /\ Severe(f)}]
Read(file) == IF file = Nobody THEN Nobody ELSE Processed(file)

\* ReadJasScanRunsFromFile: no file at all is an error, and so is one that
\* cannot be read; what was read before it is returned with the error.
ReadResults(w) ==
    LET files == Shelf(w)
        found == Read(files.found)
    IN  /\ busy[w].call = "read"
        /\ \/ Breaks(w)
           \/ /\ files.found # Nobody /\ files.violating # Nobody
              /\ busy' = [busy EXCEPT ![w].call = "record", ![w].exit = NoExit, ![w].found = found]
           \/ /\ files.found # Nobody \/ files.violating # Nobody
              /\ busy' = [busy EXCEPT ![w].call = "record", ![w].found = found,
                                      ![w].violating = Read(files.violating)]
        /\ UNCHANGED <<job, progress, todo, second, shelf, kept, defaults>>

--------------------------------------------------------------------------
(* The record                                                              *)

\* ParseAnalyzerManagerError takes a known exit code as a warning.
Reported(exit) == exit \notin KnownExits \cup {0}

\* dumpSarifRunToFileIfNeeded copies the results to the output directory.
Dumped(b) == job.dump /\ ~Reported(b.exit) /\ (b.found # Nobody \/ b.violating # Nobody)

\* Results first, with the exit code; then the error, or the copy, which may
\* fail.
RecordScan(w) ==
    LET b == busy[w]
    IN  /\ b.call = "record"
        /\ \E dumpFails \in IF Dumped(b) THEN BOOLEAN ELSE {FALSE} :
              kept' = kept \cup {[scan |-> b.scan, worker |-> w, dir |-> b.dir, status |-> b.exit,
                                  found |-> b.found,
                                  violating |-> IF b.scan.kind \in Violating THEN b.violating ELSE Nobody,
                                  blamed |-> Reported(b.exit) \/ dumpFails]}
        /\ busy' = [busy EXCEPT ![w] = Idle]
        /\ UNCHANGED <<job, progress, todo, second, shelf, defaults>>

EndScans ==
    /\ progress = "scanning" /\ todo = {} /\ \A w \in Workers : busy[w].call = "idle"
    /\ progress' = IF \E k \in kept : k.blamed THEN "refused" ELSE "ended"
    /\ UNCHANGED <<job, todo, second, shelf, busy, kept, defaults>>

JasNext ==
    \/ NewJasScanner \/ Tick \/ EndScans
    \/ \E w \in Workers : \/ TakeScan(w) \/ BeginScan(w) \/ CreateConfig(w) \/ DeleteElement(w)
                          \/ WriteShortened(w) \/ RunAnalyzerManager(w)
                          \/ ReadResults(w) \/ RecordScan(w)

JasSpec == JasInit /\ [][JasNext]_jasVars

--------------------------------------------------------------------------

\* What may be skipped, asked for and found in a file, and kept of it.
Patterns == Elements(DefaultJasExcludePatterns) \cup {""} \cup UNION {s.flags \cup s.central \cup s.module : s \in Tasks}
Configs == [scan : Tasks, skipped : SUBSET Patterns, compared : {s.compare : s \in Tasks}]
Reports == [scan : Tasks, skipped : SUBSET Patterns, old : Tasks \cup {Nobody}]
Results == [scan : Tasks, skipped : SUBSET Patterns, old : Tasks \cup {Nobody},
            findings : SUBSET UNION {s.findings : s \in Tasks}]

ASSUME JasAssumption ==
    /\ LastSecond \in Nat
    /\ \A s \in Tasks : s.kind \in Kinds
    /\ Nobody \notin Tasks \cup Directories \cup Results

ExitCodes == {0, 1, NoExit} \cup KnownExits
\* The variables range over the values the code gives them.
JasTypes ==
    /\ job \in Jobs
    /\ progress \in {"start", "scanning", "ended", "refused"}
    /\ todo \subseteq DOMAIN job.scans
    /\ second \in 0 .. LastSecond
    /\ shelf \in [Directories -> [config : Configs \cup {Nobody}, compared : Tasks \cup {Nobody},
                                  found : Reports \cup {Nobody}, violating : Reports \cup {Nobody}]]
    /\ busy \in [Workers -> [call : {"idle", "directory", "config", "delete", "write", "run", "read", "record"},
                             scan : Tasks \cup {Nobody}, dir : Directories \cup {Nobody}, exit : ExitCodes,
                             found : Results \cup {Nobody}, violating : Results \cup {Nobody}]]
    /\ kept \subseteq [scan : Tasks, worker : Workers, dir : Directories \cup {Nobody}, status : ExitCodes,
                       found : Results \cup {Nobody}, violating : Results \cup {Nobody}, blamed : BOOLEAN]
    /\ defaults \in [before : Patterns, at : Patterns, after : Patterns]

\* Two scans of one kind that one worker began within one second.
SameDirectory(k) ==
    \E other \in kept : /\ other.scan # k.scan /\ other.scan.kind = k.scan.kind
                        /\ other.worker = k.worker /\ other.dir # Nobody /\ k.dir # Nobody
                        /\ other.dir[2] = k.dir[2]
\* What a scan was asked to skip; its configuration skips no more, and no less
\* unless it took the defaults.
SkippedDirs(s) ==
    WithoutNodeModules(s, IF TakesDefaults(s) THEN Elements(DefaultJasExcludePatterns) ELSE OwnPatterns(s))
SkipsNoMore(s, dirs) ==
    /\ dirs \ {""} \subseteq SkippedDirs(s)
    /\ TakesDefaults(s) \/ dirs = SkippedDirs(s)
Sound(report, k) ==
    \/ report = Nobody
    \/ /\ report.scan = k.scan
       /\ SkipsNoMore(k.scan, report.skipped)
       /\ report.old = IF k.scan.compare THEN k.scan ELSE Nobody
       /\ {f \in k.scan.findings : f.severity >= job.severity /\ ~f.suppressed} = report.findings
\* With several workers scanning several targets at once, what is recorded for
\* a target was found in that target, compared with that target's earlier
\* results and complete but for what is suppressed or too mild; a scan that
\* read nothing is not recorded as clean unless it had nothing to scan, and a
\* failure is held against the target unless its exit code is a known one.  The
\* manager looked into every directory it was not asked to skip, also those of a
\* contextual scan into node_modules, and into no other unless the defaults apply.
\* The exception is a worker that begins two scans of one kind in one second.
ScanIsItsOwn ==
    \A k \in kept :
        /\ k.status \notin KnownExits \cup {0} => k.blamed
        /\ ~SameDirectory(k) =>
            /\ Sound(k.found, k) /\ Sound(k.violating, k)
            /\ k.status = 0 /\ k.scan.kind \in Violating /\ ~NothingToScan(k.scan) =>
                k.found # Nobody \/ k.violating # Nobody

\* flags.go:348: with third-party-contextual-analysis "the Contextual Analysis
\* scan also uses the code of the project dependencies".  So do the scans that
\* take the defaults after it.
OnlyContextLooksIntoModules ==
    \A k \in kept : k.found # Nobody /\ NodeModules \in SkippedDirs(k.scan) =>
        NodeModules \in k.found.skipped

--------------------------------------------------------------------------
(* Why it holds.                                                           *)

\* A directory belongs to a scanner and a worker.
Placed(scan, w, dir) == dir = Nobody \/ (dir \in Directories /\ dir[1] = scan.kind /\ dir[3] = w)
\* The scans that have used a directory: what is recorded, and the one there now.
Recorded(dir) == {k.scan : k \in {x \in kept : x.dir = dir}}
Users(dir) == Recorded(dir) \cup {busy[w].scan : w \in {v \in Workers : busy[v].dir = dir}}

\* What a file says is about one of these scans, compared with one of them if
\* that was asked for.
From(file, scans) ==
    file # Nobody => /\ file.scan \in scans
                     /\ file.old \in IF file.scan.compare THEN scans ELSE {Nobody}
                     /\ SkipsNoMore(file.scan, file.skipped)
\* And it is complete but for what is suppressed or too mild.
Filtered(result) ==
    result # Nobody => result.findings = {f \in result.scan.findings : ~f.suppressed /\ Severe(f)}

ShelfInv == \A d \in Directories : From(shelf[d].found, Users(d)) /\ From(shelf[d].violating, Users(d))

\* A worker's directory is its own while it scans, and holds what it put there.
OwnDirectory(w) ==
    LET b == busy[w] IN
    /\ b.call = "idle" \/ b.scan \in Tasks
    /\ Placed(b.scan, w, b.dir)
    /\ b.call \in {"idle", "directory"} => b.dir = Nobody
    /\ b.call \in {"config", "delete", "write", "run", "read"} =>
          b.dir # Nobody /\ (b.scan.compare => shelf[b.dir].compared = b.scan)
    /\ b.call = "run" => \E dirs \in SUBSET Patterns :
          /\ SkipsNoMore(b.scan, dirs)
          /\ shelf[b.dir].config = [scan |-> b.scan, skipped |-> dirs, compared |-> b.scan.compare]
\* It read its findings from there, and has an exit code that says so.
OwnFindings(w) ==
    LET b == busy[w] IN
    /\ b.call # "record" => b.exit = 0 /\ b.found = Nobody /\ b.violating = Nobody
    /\ b.dir = Nobody => b.found = Nobody /\ b.violating = Nobody
    /\ \A result \in {b.found, b.violating} : From(result, Users(b.dir)) /\ Filtered(result)
    /\ b.call = "record" /\ b.exit = 0 =>
          \/ b.found # Nobody \/ b.violating # Nobody
          \/ NothingToScan(b.scan) \/ NoCves(b.scan)
\* The slice only loses patterns, and node_modules for good.
Shortens(w) ==
    busy[w].call \in {"delete", "write"} => TakesDefaults(busy[w].scan) /\ LooksIntoModules(busy[w].scan)
DefaultsInv ==
    /\ Elements(defaults) \subseteq Elements(DefaultJasExcludePatterns) \cup {""}
    /\ defaults.before # NodeModules /\ defaults.after # NodeModules
    /\ \A w \in Workers : Shortens(w)
    /\ \A w \in Workers : busy[w].call = "write" => defaults.at # NodeModules
WorkerInv == \A w \in Workers : OwnDirectory(w) /\ OwnFindings(w)

KeptInv ==
    \A k \in kept :
        /\ Placed(k.scan, k.worker, k.dir)
        /\ k.dir = Nobody => k.found = Nobody /\ k.violating = Nobody
        /\ \A result \in {k.found, k.violating} : From(result, Recorded(k.dir)) /\ Filtered(result)
        /\ k.status \notin KnownExits \cup {0} => k.blamed
        /\ k.status = 0 /\ k.scan.kind \in Violating /\ ~NothingToScan(k.scan) =>
              k.found # Nobody \/ k.violating # Nobody

JasInv == JasTypes /\ ShelfInv /\ WorkerInv /\ KeptInv /\ DefaultsInv
=============================================================================
