--------------------------- MODULE JasScan_proofs ---------------------------
(***************************************************************************)
(* Proofs about JasScan, for any scans, any number of workers and any      *)
(* number of seconds, and about AnalyzerManager: the executable that       *)
(* these scans run.                                                        *)
(***************************************************************************)
EXTENDS JasScan, AnalyzerManager, TLAPS

-----------------------------------------------------------------------------
(* The operators.                                                          *)

\* The scans of a command are scans of some command.
LEMMA ScansOfJob ==
    ASSUME job \in Jobs, NEW i \in DOMAIN job.scans
    PROVE  job.scans[i] \in Tasks /\ job.scans[i].kind \in Kinds
<1>1. job.scans[i] \in Tasks
  BY DEF Tasks
<1> QED BY <1>1, JasAssumption

\* A scan excludes only what somebody named.
LEMMA OwnNamed ==
    ASSUME NEW s \in Tasks
    PROVE  OwnPatterns(s) \in SUBSET Patterns /\ WithoutNodeModules(s, OwnPatterns(s)) \in SUBSET Patterns
<1>1. s.flags \cup s.central \cup s.module \subseteq Patterns
  BY DEF Patterns
<1>2. OwnPatterns(s) \in SUBSET Patterns
  BY <1>1 DEF OwnPatterns
<1> QED BY <1>2 DEF WithoutNodeModules

\* Reading a file drops only what is suppressed or too mild.
LEMMA ReadFile ==
    ASSUME NEW file \in Reports \cup {Nobody}
    PROVE  /\ Read(file) \in Results \cup {Nobody}
           /\ file # Nobody => Read(file) # Nobody
           /\ Filtered(Read(file))
           /\ \A scans : From(file, scans) => From(Read(file), scans)
<1>1. CASE file = Nobody
  BY <1>1 DEF Read, Filtered, From
<1>2. CASE file # Nobody
  <2>1. file \in Reports /\ Read(file) = Processed(file)
    BY <1>2 DEF Read
  <2>2. file.scan.findings \subseteq UNION {s.findings : s \in Tasks}
    BY <2>1 DEF Reports
  <2>3. Processed(file) \in Results
    BY <2>1, <2>2 DEF Processed, Results, Reports
  <2>4. Read(file) # Nobody
    BY <2>1, <2>3, JasAssumption
  <2>5. Filtered(Read(file))
    BY <2>1 DEF Filtered, Processed
  <2>6. \A scans : From(file, scans) => From(Read(file), scans)
    BY <1>2, <2>1 DEF From, Processed
  <2> QED BY <2>1, <2>3, <2>4, <2>5, <2>6
<1> QED BY <1>1, <1>2

\* A report stays about one of the scans when there are more of them.
LEMMA FromMore ==
    ASSUME NEW file, NEW few, NEW more, few \subseteq more, From(file, few)
    PROVE  From(file, more)
  BY DEF From

-----------------------------------------------------------------------------
(* The invariant.                                                          *)

\* Before the scanner is made no file exists and nothing is recorded.
LEMMA InitInv == JasInit => JasInv
<1> SUFFICES ASSUME JasInit PROVE JasInv
  OBVIOUS
<1> USE JasAssumption DEF JasInit, Idle, Empty
<1>0. DefaultJasExcludePatterns \in [before : Patterns, at : Patterns, after : Patterns]
  BY DEF Patterns, Elements, DefaultJasExcludePatterns
<1>1. JasTypes
  BY <1>0 DEF JasTypes, ExitCodes, KnownExits
<1>2. ShelfInv
  BY DEF ShelfInv, From
<1>3. WorkerInv
  BY DEF WorkerInv, OwnDirectory, OwnFindings, From, Filtered, Placed
<1>4. KeptInv
  BY DEF KeptInv
<1>5. DefaultsInv
  BY DEF DefaultsInv, Shortens, Elements, DefaultJasExcludePatterns, NodeModules
<1> QED BY <1>1, <1>2, <1>3, <1>4, <1>5 DEF JasInv

\* What a worker may read of the shared slice: none but its patterns, and none
\* that was removed.
LEMMA ListsKnown ==
    ASSUME JasInv, NEW list \in ListsSeen \cup Mixes(defaults)
    PROVE  /\ Elements(list) \subseteq Elements(DefaultJasExcludePatterns) \cup {""}
           /\ list.before # NodeModules /\ list.after # NodeModules
           /\ defaults.at # NodeModules => list.at # NodeModules
           /\ list \in [before : Patterns, at : Patterns, after : Patterns]
<1>1. /\ DefaultsInv
      /\ defaults \in [before : Patterns, at : Patterns, after : Patterns]
      /\ "" \in Patterns
  BY DEF JasInv, JasTypes, Patterns
<1>2. CASE list = defaults
  BY <1>1, <1>2 DEF DefaultsInv
<1>3. CASE list \in Mixes(defaults)
  <2>1. PICK a \in {defaults.at, defaults.after}, b \in {defaults.after, ""} :
           list = [defaults EXCEPT !.at = a, !.after = b]
    BY <1>3 DEF Mixes
  <2>2. list.before = defaults.before /\ list.at = a /\ list.after = b
    BY <1>1, <2>1
  <2>3. list \in [before : Patterns, at : Patterns, after : Patterns]
    BY <1>1, <2>1
  <2> QED BY <1>1, <2>2, <2>3 DEF DefaultsInv, Elements, NodeModules
<1> QED BY <1>2, <1>3 DEF ListsSeen

\* The steps that write a scan's configuration.
Configures(w) == CreateConfig(w) \/ DeleteElement(w) \/ WriteShortened(w)

\* They break, look for the pattern to remove, or write one that skips no more
\* than was asked for.
LEMMA ConfigStep ==
    ASSUME JasInv, NEW w \in Workers, Configures(w)
    PROVE  /\ busy[w].call \in {"config", "delete", "write"}
           /\ UNCHANGED <<job, progress, todo, second, kept>>
           /\ \/ Breaks(w) /\ UNCHANGED shelf
              \/ (Call(w, "delete") \/ Call(w, "write")) /\ UNCHANGED shelf
              \/ \E dirs \in SUBSET Patterns : SkipsNoMore(busy[w].scan, dirs) /\ WriteConfig(w, dirs)
<1> DEFINE s == busy[w].scan
<1>1. CASE DeleteElement(w)
  BY <1>1 DEF DeleteElement
<1>2. ASSUME NEW list \in ListsSeen, NEW dirs, dirs \subseteq Elements(list), TakesDefaults(s),
             LooksIntoModules(s) => NodeModules \notin dirs
      PROVE  dirs \in SUBSET Patterns /\ SkipsNoMore(s, dirs)
  <2>1. dirs \subseteq Elements(DefaultJasExcludePatterns) \cup {""}
    BY <1>2, ListsKnown
  <2>2. dirs \in SUBSET Patterns
    BY <2>1 DEF Patterns
  <2> HIDE DEF s
  <2> QED BY <1>2, <2>1, <2>2 DEF SkipsNoMore, SkippedDirs, WithoutNodeModules
<1>3. CASE CreateConfig(w)
  <2>1. s \in Tasks
    BY <1>3 DEF CreateConfig, JasInv, WorkerInv, OwnDirectory
  <2>2. CASE ~TakesDefaults(s) /\ WriteConfig(w, WithoutNodeModules(s, OwnPatterns(s)))
    <3>1. SkipsNoMore(s, WithoutNodeModules(s, OwnPatterns(s)))
      BY <2>2 DEF SkipsNoMore, SkippedDirs
    <3>2. WithoutNodeModules(s, OwnPatterns(s)) \in SUBSET Patterns
      BY <2>1, OwnNamed
    <3> QED BY <1>3, <2>2, <3>1, <3>2 DEF CreateConfig
  <2>3. CASE TakesDefaults(s) /\ \E list \in ListsSeen :
                 /\ LooksIntoModules(s) => list.at # NodeModules
                 /\ WriteConfig(w, Elements(list))
    <3>1. PICK list \in ListsSeen : /\ LooksIntoModules(s) => list.at # NodeModules
                                    /\ WriteConfig(w, Elements(list))
      BY <2>3
    <3>2. LooksIntoModules(s) => NodeModules \notin Elements(list)
      BY <3>1, ListsKnown DEF Elements
    <3>3. Elements(list) \in SUBSET Patterns /\ SkipsNoMore(s, Elements(list))
      BY <1>2, <2>3, <3>2
    <3> QED BY <1>3, <3>1, <3>3 DEF CreateConfig
  <2>4. CASE Breaks(w) /\ UNCHANGED shelf
    BY <1>3, <2>4 DEF CreateConfig
  <2>5. CASE Call(w, "delete") /\ UNCHANGED shelf
    BY <1>3, <2>5 DEF CreateConfig
  <2> QED BY <1>3, <2>2, <2>3, <2>4, <2>5 DEF CreateConfig
<1>4. CASE WriteShortened(w)
  <2>1. CASE Breaks(w) /\ UNCHANGED shelf
    BY <1>4, <2>1 DEF WriteShortened
  <2>2. CASE \E list \in ListsSeen : WriteConfig(w, {list.before, list.at})
    <3>1. PICK list \in ListsSeen : WriteConfig(w, {list.before, list.at})
      BY <2>2
    <3>2. TakesDefaults(s) /\ LooksIntoModules(s) /\ defaults.at # NodeModules
      BY <1>4 DEF WriteShortened, JasInv, DefaultsInv, Shortens
    <3>3. NodeModules \notin {list.before, list.at} /\ {list.before, list.at} \subseteq Elements(list)
      BY <3>2, ListsKnown DEF Elements
    <3>4. {list.before, list.at} \in SUBSET Patterns /\ SkipsNoMore(s, {list.before, list.at})
      BY <1>2, <3>2, <3>3
    <3> QED BY <1>4, <3>1, <3>4 DEF WriteShortened
  <2> QED BY <1>4, <2>1, <2>2 DEF WriteShortened
<1> QED BY <1>1, <1>3, <1>4 DEF Configures

\* The types of a scan's step.
LEMMA TypesStep ==
    ASSUME JasInv, JasNext
    PROVE  JasTypes'
<1> DEFINE Files == [config : Configs \cup {Nobody}, compared : Tasks \cup {Nobody},
                     found : Reports \cup {Nobody}, violating : Reports \cup {Nobody}]
           Works == [call : {"idle", "directory", "config", "delete", "write", "run", "read", "record"},
                     scan : Tasks \cup {Nobody}, dir : Directories \cup {Nobody}, exit : ExitCodes,
                     found : Results \cup {Nobody}, violating : Results \cup {Nobody}]
           Records == [scan : Tasks, worker : Workers, dir : Directories \cup {Nobody},
                       status : ExitCodes, found : Results \cup {Nobody},
                       violating : Results \cup {Nobody}, blamed : BOOLEAN]
<1>0. ASSUME NEW w \in Workers, NEW exit \in ExitCodes,
             busy' = [busy EXCEPT ![w].call = "record", ![w].exit = exit]
      PROVE  busy' \in [Workers -> Works]
  <2>1. busy \in [Workers -> Works]
    BY DEF JasInv, JasTypes
  <2>2. [busy[w] EXCEPT !.call = "record", !.exit = exit] \in Works
    BY <2>1
  <2>3. busy' = [busy EXCEPT ![w] = [busy[w] EXCEPT !.call = "record", !.exit = exit]]
    BY <1>0, <2>1
  <2> HIDE DEF Works
  <2> QED BY <2>1, <2>2, <2>3
<1> USE JasAssumption DEF JasInv
<1>1. CASE NewJasScanner
  BY <1>1 DEF NewJasScanner, JasTypes
<1>2. CASE Tick
  BY <1>2 DEF Tick, JasTypes
<1>3. CASE EndScans
  BY <1>3 DEF EndScans, JasTypes
<1>4. ASSUME NEW w \in Workers, TakeScan(w) PROVE JasTypes'
  <2>1. PICK i \in todo :
           /\ busy' = [busy EXCEPT ![w] = [Idle EXCEPT !.scan = job.scans[i],
                          !.call = IF NothingToScan(job.scans[i]) THEN "record" ELSE "directory"]]
           /\ todo' = todo \ {i}
    BY <1>4 DEF TakeScan
  <2>2. job.scans[i] \in Tasks
    BY ScansOfJob DEF JasTypes
  <2> QED BY <1>4, <2>1, <2>2 DEF TakeScan, JasTypes, Idle, ExitCodes
<1>5. ASSUME NEW w \in Workers, BeginScan(w) PROVE JasTypes'
  <2>1. busy[w].scan \in Tasks /\ busy[w].scan.kind \in Kinds
    BY <1>5 DEF BeginScan, WorkerInv, OwnDirectory
  <2>2. ScannerDirectory(busy[w].scan.kind, w) \in Directories
    BY <2>1 DEF JasTypes, ScannerDirectory, Directories
  <2>3. busy \in [Workers -> Works] /\ shelf \in [Directories -> Files]
    BY DEF JasTypes
  <2>4. CASE Breaks(w) /\ UNCHANGED shelf
    <3>1. busy' \in [Workers -> Works]
      BY <1>0, <2>4 DEF Breaks, ExitCodes
    <3> QED BY <1>5, <2>4, <3>1 DEF BeginScan, JasTypes
  <2>5. ASSUME NEW dir \in Directories, NEW call \in {"record", "config"}, NEW s \in Tasks,
               busy' = [busy EXCEPT ![w].dir = dir, ![w].call = call],
               shelf' \in {[shelf EXCEPT ![dir].compared = s], shelf}
        PROVE  busy' \in [Workers -> Works] /\ shelf' \in [Directories -> Files]
    <3>1. [shelf[dir] EXCEPT !.compared = s] \in Files
      BY <2>3
    <3>2. [busy[w] EXCEPT !.dir = dir, !.call = call] \in Works
      BY <2>3
    <3>3. busy' = [busy EXCEPT ![w] = [busy[w] EXCEPT !.dir = dir, !.call = call]]
      BY <2>3, <2>5
    <3>4. shelf' \in {[shelf EXCEPT ![dir] = [shelf[dir] EXCEPT !.compared = s]], shelf}
      BY <2>3, <2>5
    <3> HIDE DEF Works, Files
    <3> QED BY <2>3, <3>1, <3>2, <3>3, <3>4
  <2>6. CASE /\ busy' = [busy EXCEPT ![w].dir = ScannerDirectory(busy[w].scan.kind, w),
                              ![w].call = IF NoCves(busy[w].scan) THEN "record" ELSE "config"]
             /\ shelf' = IF busy[w].scan.compare /\ ~NoCves(busy[w].scan)
                         THEN [shelf EXCEPT ![ScannerDirectory(busy[w].scan.kind, w)].compared = busy[w].scan]
                         ELSE shelf
    <3>1. busy' \in [Workers -> Works] /\ shelf' \in [Directories -> Files]
      BY <2>1, <2>2, <2>5, <2>6
    <3> QED BY <1>5, <3>1 DEF BeginScan, JasTypes
  <2> QED BY <1>5, <2>4, <2>6 DEF BeginScan
<1>6. ASSUME NEW w \in Workers, Configures(w) PROVE JasTypes'
  <2>1. /\ busy[w].call \in {"config", "delete", "write"}
        /\ UNCHANGED <<job, progress, todo, second, kept>>
    BY <1>6, ConfigStep
  <2>2. busy[w].scan \in Tasks /\ busy[w].dir \in Directories
    BY <2>1 DEF WorkerInv, OwnDirectory, JasTypes
  <2>3. busy' \in [Workers -> Works] /\ shelf' \in [Directories -> Files]
    <3>1. CASE Breaks(w) /\ UNCHANGED shelf
      BY <1>0, <3>1 DEF Breaks, ExitCodes, JasTypes
    <3>2. CASE (Call(w, "delete") \/ Call(w, "write")) /\ UNCHANGED shelf
      BY <3>2 DEF Call, JasTypes
    <3>3. CASE \E dirs \in SUBSET Patterns : SkipsNoMore(busy[w].scan, dirs) /\ WriteConfig(w, dirs)
      <4>1. PICK dirs \in SUBSET Patterns : WriteConfig(w, dirs)
        BY <3>3
      <4>2. PICK c \in Configs :
               c = [scan |-> busy[w].scan, skipped |-> dirs, compared |-> busy[w].scan.compare]
        BY <2>2 DEF Configs
      <4>3. Put(w, [Shelf(w) EXCEPT !.config = c]) /\ Call(w, "run")
        BY <4>1, <4>2 DEF WriteConfig
      <4>4. [Shelf(w) EXCEPT !.config = c] \in Files
        BY <2>2 DEF Shelf, JasTypes
      <4>5. shelf' \in [Directories -> Files]
        BY <4>3, <4>4, <2>2 DEF Put, JasTypes
      <4>6. busy' \in [Workers -> Works]
        BY <4>3 DEF Call, JasTypes
      <4> QED BY <4>5, <4>6
    <3> QED BY <1>6, ConfigStep, <3>1, <3>2, <3>3
  <2>4. defaults' \in [before : Patterns, at : Patterns, after : Patterns]
    <3>1. CASE DeleteElement(w)
      <4>1. Deleted(defaults) \in Mixes(defaults)
        BY DEF Deleted, Mixes
      <4>2. defaults' \in Mixes(defaults)
        BY <3>1, <4>1 DEF DeleteElement
      <4> QED BY <4>2, ListsKnown
    <3> QED BY <1>6, <3>1 DEF Configures, CreateConfig, WriteShortened, JasTypes
  <2> QED BY <2>1, <2>3, <2>4 DEF JasTypes
<1>7. ASSUME NEW w \in Workers, RunAnalyzerManager(w) PROVE JasTypes'
  <2>1. busy[w].scan \in Tasks /\ busy[w].dir \in Directories
    BY <1>7 DEF RunAnalyzerManager, WorkerInv, OwnDirectory, JasTypes
  <2>2. PICK dirs \in SUBSET Patterns :
           Shelf(w).config = [scan |-> busy[w].scan, skipped |-> dirs, compared |-> busy[w].scan.compare]
    BY <1>7 DEF RunAnalyzerManager, WorkerInv, OwnDirectory, Shelf
  <2>3. Shelf(w).compared \in Tasks \cup {Nobody}
    BY <2>1 DEF Shelf, JasTypes
  <2>5. Report(Shelf(w).config, Shelf(w).compared) \in Reports
    BY <2>1, <2>2, <2>3 DEF Report, Reports
  <2>6. CASE UNCHANGED shelf /\ \E exit \in {1, 31, NoExit} :
                busy' = [busy EXCEPT ![w].call = "record", ![w].exit = exit]
    <3>1. busy' \in [Workers -> Works]
      BY <1>0, <2>6 DEF ExitCodes, KnownExits
    <3> QED BY <1>7, <2>6, <3>1 DEF RunAnalyzerManager, JasTypes
  <2>7. CASE /\ \E f, v \in BOOLEAN :
                   LET report == Report(Shelf(w).config, Shelf(w).compared)
                   IN  Put(w, [Shelf(w) EXCEPT !.found = IF f THEN report ELSE @,
                                               !.violating = IF v THEN report ELSE @])
             /\ Call(w, "read")
    <3>1. PICK found \in Reports \cup {Nobody}, violating \in Reports \cup {Nobody} :
             Put(w, [Shelf(w) EXCEPT !.found = found, !.violating = violating])
      BY <2>1, <2>5, <2>7 DEF Shelf, JasTypes
    <3>2. [Shelf(w) EXCEPT !.found = found, !.violating = violating] \in Files
      <4>1. Shelf(w) \in Files
        BY <2>1 DEF Shelf, JasTypes
      <4> QED BY <4>1
    <3>3. shelf' \in [Directories -> Files]
      BY <3>1, <3>2, <2>1 DEF Put, JasTypes
    <3>4. busy' \in [Workers -> Works]
      BY <2>7 DEF Call, JasTypes
    <3> QED BY <1>7, <3>3, <3>4 DEF RunAnalyzerManager, JasTypes
  <2> QED BY <1>7, <2>6, <2>7 DEF RunAnalyzerManager
<1>8. ASSUME NEW w \in Workers, ReadResults(w) PROVE JasTypes'
  <2>1. busy[w].dir \in Directories
    BY <1>8 DEF ReadResults, WorkerInv, OwnDirectory, JasTypes
  <2>2. Shelf(w).found \in Reports \cup {Nobody} /\ Shelf(w).violating \in Reports \cup {Nobody}
    BY <2>1 DEF Shelf, JasTypes
  <2>3. Read(Shelf(w).found) \in Results \cup {Nobody} /\ Read(Shelf(w).violating) \in Results \cup {Nobody}
    BY <2>2, ReadFile
  <2>4. ASSUME NEW found \in Results \cup {Nobody}, NEW violating \in Results \cup {Nobody},
               NEW exit \in ExitCodes,
               busy' = [busy EXCEPT ![w] = [busy[w] EXCEPT !.call = "record", !.exit = exit,
                                                !.found = found, !.violating = violating]]
        PROVE  busy' \in [Workers -> Works]
    <3>1. busy \in [Workers -> Works]
      BY DEF JasTypes
    <3>2. [busy[w] EXCEPT !.call = "record", !.exit = exit, !.found = found, !.violating = violating] \in Works
      BY <3>1
    <3> HIDE DEF Works
    <3> QED BY <2>4, <3>1, <3>2
  <2>5. busy' \in [Workers -> Works]
    <3> DEFINE found == Read(Shelf(w).found)
               violating == Read(Shelf(w).violating)
    <3>1. busy \in [Workers -> Works] /\ NoExit \in ExitCodes
      BY DEF JasTypes, ExitCodes
    <3>2. CASE Breaks(w)
      BY <1>0, <3>1, <3>2 DEF Breaks
    <3>3. CASE busy' = [busy EXCEPT ![w].call = "record", ![w].exit = NoExit, ![w].found = found]
      <4>1. /\ busy' = [busy EXCEPT ![w] = [busy[w] EXCEPT !.call = "record", !.exit = NoExit,
                                                !.found = found, !.violating = busy[w].violating]]
            /\ busy[w].violating \in Results \cup {Nobody}
        BY <3>1, <3>3
      <4> QED BY <2>3, <2>4, <3>1, <4>1
    <3>4. CASE busy' = [busy EXCEPT ![w].call = "record", ![w].found = found, ![w].violating = violating]
      <4>1. /\ busy' = [busy EXCEPT ![w] = [busy[w] EXCEPT !.call = "record", !.exit = busy[w].exit,
                                                !.found = found, !.violating = violating]]
            /\ busy[w].exit \in ExitCodes
        BY <3>1, <3>4
      <4> QED BY <2>3, <2>4, <4>1
    <3> QED BY <1>8, <3>2, <3>3, <3>4 DEF ReadResults
  <2> QED BY <1>8, <2>5 DEF ReadResults, JasTypes
<1>9. ASSUME NEW w \in Workers, RecordScan(w) PROVE JasTypes'
  <2>1. busy[w].scan \in Tasks
    BY <1>9 DEF RecordScan, WorkerInv, OwnDirectory
  <2>2. busy[w] \in Works
    BY DEF JasTypes
  <2>3. busy' \in [Workers -> Works]
    BY <1>9 DEF RecordScan, JasTypes, Idle, ExitCodes
  <2>4. kept' \subseteq Records
    <3>1. PICK dumpFails \in BOOLEAN :
             kept' = kept \cup {[scan |-> busy[w].scan, worker |-> w, dir |-> busy[w].dir,
                                 status |-> busy[w].exit, found |-> busy[w].found,
                                 violating |-> IF busy[w].scan.kind \in Violating
                                               THEN busy[w].violating ELSE Nobody,
                                 blamed |-> Reported(busy[w].exit) \/ dumpFails]}
      BY <1>9 DEF RecordScan
    <3>2. (Reported(busy[w].exit) \/ dumpFails) \in BOOLEAN
      BY DEF Reported
    <3>3. kept \subseteq Records
      BY DEF JasTypes
    <3>4. [scan |-> busy[w].scan, worker |-> w, dir |-> busy[w].dir,
           status |-> busy[w].exit, found |-> busy[w].found,
           violating |-> IF busy[w].scan.kind \in Violating THEN busy[w].violating ELSE Nobody,
           blamed |-> Reported(busy[w].exit) \/ dumpFails] \in Records
      BY <2>1, <2>2, <3>2
    <3> HIDE DEF Records
    <3> QED BY <3>1, <3>3, <3>4
  <2> QED BY <1>9, <2>3, <2>4 DEF RecordScan, JasTypes
<1> QED BY <1>1, <1>2, <1>3, <1>4, <1>5, <1>6, <1>7, <1>8, <1>9 DEF JasNext, Configures

\* Nothing that was recorded disappears, and no user of a directory is forgotten.
LEMMA KeptGrows ==
    ASSUME JasNext
    PROVE  kept \subseteq kept' /\ job' = job
  BY DEF JasNext, NewJasScanner, Tick, EndScans, TakeScan, BeginScan, CreateConfig,
     DeleteElement, WriteShortened, RunAnalyzerManager, ReadResults, RecordScan

\* Directories and what has been recorded of them only gain users.
LEMMA UsersGrow ==
    ASSUME JasInv, JasNext, NEW d \in Directories
    PROVE  Recorded(d) \subseteq Recorded(d)' /\ Users(d) \subseteq Users(d)'
<1>1. Recorded(d) \subseteq Recorded(d)'
  BY KeptGrows DEF Recorded
<1>2. ASSUME NEW v \in Workers, busy[v].dir = d
      PROVE  busy[v].scan \in Users(d)'
  <2>1. d # Nobody
    BY JasAssumption
  <2>2. busy \in [Workers -> [call : {"idle", "directory", "config", "delete", "write", "run", "read", "record"},
                              scan : Tasks \cup {Nobody}, dir : Directories \cup {Nobody},
                              exit : ExitCodes, found : Results \cup {Nobody},
                              violating : Results \cup {Nobody}]]
    BY DEF JasInv, JasTypes
  <2>3. CASE busy'[v].dir = busy[v].dir /\ busy'[v].scan = busy[v].scan
    BY <1>2, <2>3 DEF Users
  <2>4. CASE RecordScan(v)
    <3>1. \E k \in kept' : k.dir = d /\ k.scan = busy[v].scan
      <4>1. PICK dumpFails \in BOOLEAN :
               kept' = kept \cup {[scan |-> busy[v].scan, worker |-> v, dir |-> busy[v].dir,
                                   status |-> busy[v].exit, found |-> busy[v].found,
                                   violating |-> IF busy[v].scan.kind \in Violating
                                                 THEN busy[v].violating ELSE Nobody,
                                   blamed |-> Reported(busy[v].exit) \/ dumpFails]}
        BY <2>4 DEF RecordScan
      <4> DEFINE k == [scan |-> busy[v].scan, worker |-> v, dir |-> busy[v].dir,
                       status |-> busy[v].exit, found |-> busy[v].found,
                       violating |-> IF busy[v].scan.kind \in Violating
                                     THEN busy[v].violating ELSE Nobody,
                       blamed |-> Reported(busy[v].exit) \/ dumpFails]
      <4>2. k \in kept'
        BY <4>1
      <4>3. k.dir = d /\ k.scan = busy[v].scan
        BY <1>2
      <4> HIDE DEF k
      <4> QED BY <4>2, <4>3
    <3> QED BY <3>1 DEF Users, Recorded
  <2>5. CASE NewJasScanner \/ Tick \/ EndScans
    BY <2>3, <2>5 DEF NewJasScanner, Tick, EndScans
  <2>6. ASSUME NEW w \in Workers, TakeScan(w) PROVE busy'[v].dir = busy[v].dir /\ busy'[v].scan = busy[v].scan
    <3>1. w # v
      BY <1>2, <2>1, <2>6 DEF JasInv, WorkerInv, OwnDirectory, TakeScan
    <3> QED BY <2>2, <2>6, <3>1 DEF TakeScan
  <2>7. ASSUME NEW w \in Workers, BeginScan(w) PROVE busy'[v].dir = busy[v].dir /\ busy'[v].scan = busy[v].scan
    <3>1. w # v
      BY <1>2, <2>1, <2>7 DEF JasInv, WorkerInv, OwnDirectory, BeginScan
    <3> QED BY <2>2, <2>7, <3>1 DEF BeginScan, Breaks
  <2>8. ASSUME NEW w \in Workers, Configures(w) \/ RunAnalyzerManager(w) \/ ReadResults(w)
        PROVE  busy'[v].dir = busy[v].dir /\ busy'[v].scan = busy[v].scan
    <3>1. CASE Configures(w)
      <4>1. Breaks(w) \/ \E call : Call(w, call)
        BY <3>1, ConfigStep DEF WriteConfig
      <4> QED BY <2>2, <4>1 DEF Breaks, Call
    <3>2. CASE RunAnalyzerManager(w)
      <4>1. (\E exit : busy' = [busy EXCEPT ![w].call = "record", ![w].exit = exit]) \/ Call(w, "read")
        BY <3>2 DEF RunAnalyzerManager
      <4> QED BY <2>2, <4>1 DEF Call
    <3>3. CASE ReadResults(w)
      BY <2>2, <3>3 DEF ReadResults, Breaks
    <3> QED BY <2>8, <3>1, <3>2, <3>3
  <2>9. ASSUME NEW w \in Workers, RecordScan(w), w # v PROVE busy'[v].dir = busy[v].dir /\ busy'[v].scan = busy[v].scan
    BY <2>2, <2>9 DEF RecordScan
  <2> QED BY <2>3, <2>4, <2>5, <2>6, <2>7, <2>8, <2>9 DEF JasNext, Configures
<1>3. Recorded(d)' \subseteq Users(d)'
  BY DEF Users
<1> QED BY <1>1, <1>2, <1>3 DEF Users

\* A step of the scan of one worker.
Step(w) == \/ TakeScan(w) \/ BeginScan(w) \/ Configures(w) \/ RunAnalyzerManager(w)
           \/ ReadResults(w) \/ RecordScan(w)

\* It leaves the other workers and their directories alone.
LEMMA Elsewhere ==
    ASSUME JasInv, NEW w \in Workers, Step(w)
    PROVE  /\ \A v \in Workers \ {w} : busy'[v] = busy[v]
           /\ \A d \in Directories : d[3] # w => shelf'[d] = shelf[d]
<1>1. /\ busy[w].call # "idle" => busy[w].scan \in Tasks
      /\ busy[w].dir # Nobody => busy[w].dir \in Directories /\ busy[w].dir[3] = w
      /\ busy[w].call \in {"config", "delete", "write", "run", "read"} => busy[w].dir # Nobody
  BY DEF JasInv, WorkerInv, OwnDirectory, Placed
<1>2. shelf \in [Directories -> [config : Configs \cup {Nobody}, compared : Tasks \cup {Nobody},
                                 found : Reports \cup {Nobody}, violating : Reports \cup {Nobody}]]
      /\ DOMAIN busy = Workers
  BY DEF JasInv, JasTypes
<1>3. \A v \in Workers \ {w} : busy'[v] = busy[v]
  BY <1>2, ConfigStep
  DEF Step, TakeScan, BeginScan, RunAnalyzerManager, ReadResults, RecordScan, Breaks, Call, WriteConfig
<1>4. CASE TakeScan(w) \/ ReadResults(w) \/ RecordScan(w)
  BY <1>3, <1>4 DEF TakeScan, ReadResults, RecordScan
<1>5. CASE BeginScan(w)
  <2>1. ScannerDirectory(busy[w].scan.kind, w)[3] = w
    BY DEF ScannerDirectory
  <2> QED BY <1>2, <1>3, <1>5, <2>1 DEF BeginScan
<1>6. CASE Configures(w)
  <2>1. busy[w].dir # Nobody /\ (UNCHANGED shelf \/ \E files : Put(w, files))
    BY <1>1, <1>6, ConfigStep DEF WriteConfig
  <2> QED BY <1>1, <1>2, <1>3, <2>1 DEF Put
<1>7. CASE RunAnalyzerManager(w)
  BY <1>1, <1>2, <1>3, <1>7 DEF RunAnalyzerManager, Put
<1> QED BY <1>4, <1>5, <1>6, <1>7 DEF Step

\* So they keep what holds of them.
LEMMA OthersKept ==
    ASSUME JasInv, NEW w \in Workers, Step(w), NEW v \in Workers, v # w
    PROVE  OwnDirectory(v)' /\ OwnFindings(v)'
<1>1. JasNext
  BY DEF JasNext, Step, Configures
<1>2. busy'[v] = busy[v] /\ job' = job
  BY <1>1, Elsewhere, KeptGrows
<1>3. OwnDirectory(v) /\ OwnFindings(v) /\ busy[v].dir \in Directories \cup {Nobody}
  BY DEF JasInv, WorkerInv, JasTypes
<1>4. busy[v].dir # Nobody => shelf'[busy[v].dir] = shelf[busy[v].dir]
  BY <1>3, Elsewhere DEF OwnDirectory, Placed
<1>5. OwnDirectory(v)'
  BY <1>2, <1>3, <1>4 DEF OwnDirectory
<1>6. \A result \in {busy[v].found, busy[v].violating} : From(result, Users(busy[v].dir)')
  <2>1. CASE busy[v].dir = Nobody
    BY <1>3, <2>1 DEF OwnFindings, From
  <2>2. CASE busy[v].dir # Nobody
    <3>1. Users(busy[v].dir) \subseteq Users(busy[v].dir)'
      BY <1>1, <1>2, <1>3, <2>2, UsersGrow
    <3> QED BY <1>3, <3>1, FromMore DEF OwnFindings
  <2> QED BY <2>1, <2>2
<1>7. OwnFindings(v)'
  BY <1>2, <1>3, <1>6 DEF OwnFindings, Filtered, Severe, Users, Recorded
<1> QED BY <1>5, <1>7

\* The analyzer manager leaves new files or the old ones, in one directory.
LEMMA RunLeaves ==
    ASSUME JasInv, NEW w \in Workers, RunAnalyzerManager(w)
    PROVE  LET d == busy[w].dir
               report == Report(shelf[d].config, shelf[d].compared)
           IN  /\ d \in Directories
               /\ shelf'[d].compared = shelf[d].compared
               /\ shelf'[d].found \in {shelf[d].found, report}
               /\ shelf'[d].violating \in {shelf[d].violating, report}
               /\ \A e \in Directories \ {d} : shelf'[e] = shelf[e]
<1> DEFINE d == busy[w].dir
           report == Report(shelf[d].config, shelf[d].compared)
<1>1. /\ d \in Directories
      /\ shelf \in [Directories -> [config : Configs \cup {Nobody}, compared : Tasks \cup {Nobody},
                                    found : Reports \cup {Nobody}, violating : Reports \cup {Nobody}]]
  BY DEF RunAnalyzerManager, JasInv, WorkerInv, OwnDirectory, JasTypes
<1>2. CASE shelf' = shelf
  BY <1>1, <1>2
<1>3. CASE \E f, v \in BOOLEAN :
              Put(w, [Shelf(w) EXCEPT !.found = IF f THEN report ELSE @,
                                      !.violating = IF v THEN report ELSE @])
  <2> HIDE DEF report
  <2>1. PICK found \in {shelf[d].found, report}, violating \in {shelf[d].violating, report} :
           shelf' = [shelf EXCEPT ![d] = [shelf[d] EXCEPT !.found = found, !.violating = violating]]
    BY <1>1, <1>3 DEF Put, Shelf
  <2>2. shelf'[d] = [shelf[d] EXCEPT !.found = found, !.violating = violating]
    BY <1>1, <2>1
  <2>3. shelf'[d].found = found /\ shelf'[d].violating = violating
        /\ shelf'[d].compared = shelf[d].compared
    BY <1>1, <2>2
  <2> QED BY <1>1, <2>1, <2>3 DEF report
<1> QED BY <1>2, <1>3 DEF RunAnalyzerManager, Shelf

\* The users of a directory only become more, so its files stay about them.
LEMMA FilesStay ==
    ASSUME JasInv, JasNext, NEW d \in Directories
    PROVE  From(shelf[d].found, Users(d)') /\ From(shelf[d].violating, Users(d)')
<1>1. From(shelf[d].found, Users(d)) /\ From(shelf[d].violating, Users(d))
  BY DEF JasInv, ShelfInv
<1>2. Users(d) \subseteq Users(d)'
  BY UsersGrow
<1> QED BY <1>1, <1>2 DEF From

\* A worker's own step keeps its directory in order.
LEMMA DirectoryStep ==
    ASSUME JasInv, NEW w \in Workers, Step(w)
    PROVE  OwnDirectory(w)'
<1>1. /\ OwnDirectory(w)
      /\ busy \in [Workers -> [call : {"idle", "directory", "config", "delete", "write", "run", "read", "record"},
                               scan : Tasks \cup {Nobody}, dir : Directories \cup {Nobody},
                               exit : ExitCodes, found : Results \cup {Nobody},
                               violating : Results \cup {Nobody}]]
      /\ shelf \in [Directories -> [config : Configs \cup {Nobody}, compared : Tasks \cup {Nobody},
                                    found : Reports \cup {Nobody}, violating : Reports \cup {Nobody}]]
      /\ busy[w].dir # Nobody => busy[w].dir \in Directories
  BY DEF JasInv, WorkerInv, JasTypes
<1>2. CASE TakeScan(w)
  <2>1. PICK i \in todo :
           busy' = [busy EXCEPT ![w] = [Idle EXCEPT !.scan = job.scans[i],
                       !.call = IF NothingToScan(job.scans[i]) THEN "record" ELSE "directory"]]
    BY <1>2 DEF TakeScan
  <2>2. job.scans[i] \in Tasks
    BY ScansOfJob DEF JasInv, JasTypes
  <2>3. /\ busy'[w].scan = job.scans[i] /\ busy'[w].dir = Nobody
        /\ busy'[w].call \in {"record", "directory"}
    BY <1>1, <2>1 DEF Idle
  <2> QED BY <2>2, <2>3 DEF OwnDirectory, Placed
<1>3. CASE BeginScan(w)
  <2> DEFINE s == busy[w].scan
             dir == ScannerDirectory(s.kind, w)
  <2>1. s \in Tasks /\ s.kind \in Kinds /\ busy[w].dir = Nobody
    BY <1>1, <1>3, JasAssumption DEF BeginScan, OwnDirectory
  <2>2. dir \in Directories /\ dir[1] = s.kind /\ dir[3] = w
    BY <2>1 DEF ScannerDirectory, Directories, JasInv, JasTypes
  <2>3. CASE Breaks(w)
    <3>1. /\ busy'[w].scan = s /\ busy'[w].dir = Nobody /\ busy'[w].call = "record"
      BY <1>1, <2>1, <2>3 DEF Breaks
    <3> QED BY <2>1, <3>1 DEF OwnDirectory, Placed
  <2>4. CASE /\ busy' = [busy EXCEPT ![w].dir = dir,
                                     ![w].call = IF NoCves(s) THEN "record" ELSE "config"]
             /\ shelf' = IF s.compare /\ ~NoCves(s) THEN [shelf EXCEPT ![dir].compared = s] ELSE shelf
    <3>1. /\ busy'[w].scan = s /\ busy'[w].dir = dir
          /\ busy'[w].call = IF NoCves(s) THEN "record" ELSE "config"
      BY <1>1, <2>4
    <3>2. s.compare /\ ~NoCves(s) => shelf'[dir].compared = s
      BY <1>1, <2>2, <2>4
    <3>3. dir # Nobody
      BY <2>2, JasAssumption
    <3> HIDE DEF s, dir
    <3> QED BY <2>1, <2>2, <3>1, <3>2, <3>3 DEF OwnDirectory, Placed
  <2> QED BY <1>3, <2>3, <2>4 DEF BeginScan
<1>4. CASE Configures(w)
  <2>1. busy[w].call \in {"config", "delete", "write"}
    BY <1>4, ConfigStep
  <2>2. CASE Breaks(w)
    BY <1>1, <2>1, <2>2 DEF Breaks, OwnDirectory
  <2>3. CASE (Call(w, "delete") \/ Call(w, "write")) /\ UNCHANGED shelf
    <3>1. /\ busy'[w].scan = busy[w].scan /\ busy'[w].dir = busy[w].dir
          /\ busy'[w].call \in {"delete", "write"}
      BY <1>1, <2>3 DEF Call
    <3> QED BY <1>1, <2>1, <2>3, <3>1 DEF OwnDirectory
  <2>4. CASE \E dirs \in SUBSET Patterns : SkipsNoMore(busy[w].scan, dirs) /\ WriteConfig(w, dirs)
    <3>1. PICK dirs \in SUBSET Patterns : SkipsNoMore(busy[w].scan, dirs) /\ WriteConfig(w, dirs)
      BY <2>4
    <3>2. /\ busy'[w].scan = busy[w].scan /\ busy'[w].dir = busy[w].dir /\ busy'[w].call = "run"
      BY <1>1, <3>1 DEF WriteConfig, Call
    <3>3. busy[w].dir \in Directories
      BY <1>1, <2>1 DEF OwnDirectory
    <3>4. /\ shelf'[busy[w].dir].compared = shelf[busy[w].dir].compared
          /\ shelf'[busy[w].dir].config =
                [scan |-> busy[w].scan, skipped |-> dirs, compared |-> busy[w].scan.compare]
      BY <1>1, <3>1, <3>3 DEF WriteConfig, Put, Shelf
    <3> QED BY <1>1, <2>1, <3>1, <3>2, <3>4 DEF OwnDirectory
  <2> QED BY <1>4, <2>2, <2>3, <2>4, ConfigStep
<1>5. CASE RunAnalyzerManager(w)
  <2>1. /\ busy'[w].scan = busy[w].scan /\ busy'[w].dir = busy[w].dir
        /\ busy'[w].call \in {"record", "read"}
    <3>1. (\E exit : busy' = [busy EXCEPT ![w].call = "record", ![w].exit = exit]) \/ Call(w, "read")
      BY <1>5 DEF RunAnalyzerManager
    <3> QED BY <1>1, <3>1 DEF Call
  <2>2. busy[w].dir \in Directories
    BY <1>1, <1>5 DEF RunAnalyzerManager, OwnDirectory
  <2>3. shelf'[busy[w].dir].compared = shelf[busy[w].dir].compared
    BY <1>5, RunLeaves
  <2> QED BY <1>1, <1>5, <2>1, <2>3 DEF RunAnalyzerManager, OwnDirectory
<1>6. CASE ReadResults(w)
  <2>1. /\ busy'[w].scan = busy[w].scan /\ busy'[w].dir = busy[w].dir
        /\ busy'[w].call = "record"
    BY <1>1, <1>6 DEF ReadResults, Breaks
  <2> QED BY <1>1, <1>6, <2>1 DEF ReadResults, OwnDirectory
<1>7. CASE RecordScan(w)
  <2>1. busy'[w] = Idle
    BY <1>1, <1>7 DEF RecordScan
  <2> QED BY <2>1 DEF OwnDirectory, Placed, Idle
<1> QED BY <1>2, <1>3, <1>4, <1>5, <1>6, <1>7 DEF Step

\* What it holds of findings comes from the users of that directory.
LEMMA FindingsStep ==
    ASSUME JasInv, NEW w \in Workers, Step(w)
    PROVE  OwnFindings(w)'
<1> DEFINE b == busy[w]
           c == busy'[w]
<1>1. /\ OwnDirectory(w) /\ OwnFindings(w) /\ ShelfInv
      /\ busy \in [Workers -> [call : {"idle", "directory", "config", "delete", "write", "run", "read", "record"},
                               scan : Tasks \cup {Nobody}, dir : Directories \cup {Nobody},
                               exit : ExitCodes, found : Results \cup {Nobody},
                               violating : Results \cup {Nobody}]]
      /\ shelf \in [Directories -> [config : Configs \cup {Nobody}, compared : Tasks \cup {Nobody},
                                    found : Reports \cup {Nobody}, violating : Reports \cup {Nobody}]]
  BY DEF JasInv, WorkerInv, JasTypes
<1>2. JasNext /\ job' = job
  BY KeptGrows DEF Step, Configures, JasNext
<1>3. ASSUME c.found = Nobody, c.violating = Nobody,
             c.call # "record" => c.exit = 0,
             c.call = "record" /\ c.exit = 0 => NothingToScan(c.scan) \/ NoCves(c.scan)
      PROVE  OwnFindings(w)'
  BY <1>3 DEF OwnFindings, From, Filtered
<1>4. CASE TakeScan(w)
  <2>1. PICK i \in todo :
           busy' = [busy EXCEPT ![w] = [Idle EXCEPT !.scan = job.scans[i],
                       !.call = IF NothingToScan(job.scans[i]) THEN "record" ELSE "directory"]]
    BY <1>4 DEF TakeScan
  <2>2. /\ c.found = Nobody /\ c.violating = Nobody /\ c.exit = 0
        /\ c.call = "record" => NothingToScan(c.scan)
    BY <1>1, <2>1 DEF Idle
  <2> QED BY <1>3, <2>2
<1>5. CASE BeginScan(w)
  <2>1. b.found = Nobody /\ b.violating = Nobody /\ b.exit = 0
    BY <1>1, <1>5 DEF BeginScan, OwnFindings
  <2>2. CASE Breaks(w)
    <3>1. c.found = Nobody /\ c.violating = Nobody /\ c.call = "record" /\ c.exit = NoExit
      BY <1>1, <2>1, <2>2 DEF Breaks
    <3> QED BY <1>3, <3>1 DEF NoExit
  <2>3. CASE busy' = [busy EXCEPT ![w].dir = ScannerDirectory(busy[w].scan.kind, w),
                                  ![w].call = IF NoCves(busy[w].scan) THEN "record" ELSE "config"]
    <3>1. /\ c.found = Nobody /\ c.violating = Nobody /\ c.exit = 0 /\ c.scan = b.scan
          /\ c.call = "record" => NoCves(b.scan)
      BY <1>1, <2>1, <2>3
    <3> QED BY <1>3, <3>1
  <2> QED BY <1>5, <2>2, <2>3 DEF BeginScan
<1>6. CASE Configures(w)
  <2>1. b.found = Nobody /\ b.violating = Nobody /\ b.exit = 0
    BY <1>1, <1>6, ConfigStep DEF OwnFindings
  <2>2. CASE Breaks(w)
    <3>1. c.found = Nobody /\ c.violating = Nobody /\ c.call = "record" /\ c.exit = NoExit
      BY <1>1, <2>1, <2>2 DEF Breaks
    <3> QED BY <1>3, <3>1 DEF NoExit
  <2>3. CASE \E call \in {"delete", "write", "run"} : Call(w, call)
    <3>1. c.found = Nobody /\ c.violating = Nobody /\ c.exit = 0 /\ c.call \in {"delete", "write", "run"}
      BY <1>1, <2>1, <2>3 DEF Call
    <3> QED BY <1>3, <3>1
  <2> QED BY <1>6, <2>2, <2>3, ConfigStep DEF WriteConfig
<1>7. CASE RunAnalyzerManager(w)
  <2>1. b.found = Nobody /\ b.violating = Nobody /\ b.exit = 0
    BY <1>1, <1>7 DEF RunAnalyzerManager, OwnFindings
  <2>2. (\E exit \in {1, 31, NoExit} : busy' = [busy EXCEPT ![w].call = "record", ![w].exit = exit])
        \/ Call(w, "read")
    BY <1>7 DEF RunAnalyzerManager
  <2>3. /\ c.found = Nobody /\ c.violating = Nobody
        /\ (c.call = "record" /\ c.exit # 0) \/ (c.call = "read" /\ c.exit = 0)
    BY <1>1, <2>1, <2>2 DEF Call, NoExit
  <2> QED BY <1>3, <2>3
<1>8. CASE ReadResults(w)
  <2>1. b.found = Nobody /\ b.violating = Nobody /\ b.exit = 0
    BY <1>1, <1>8 DEF ReadResults, OwnFindings
  <2>2. PICK d \in Directories : d = b.dir /\ d # Nobody
    BY <1>1, <1>8 DEF ReadResults, OwnDirectory
  <2> DEFINE files == shelf[d]
             found == Read(files.found)
             violating == Read(files.violating)
  <2>3. files.found \in Reports \cup {Nobody} /\ files.violating \in Reports \cup {Nobody}
    BY <1>1, <2>2
  <2>4. /\ From(files.found, Users(d)') /\ From(files.violating, Users(d)')
    BY <1>2, FilesStay
  <2>5. /\ From(found, Users(d)') /\ From(violating, Users(d)')
        /\ Filtered(found) /\ Filtered(violating)
        /\ files.found # Nobody => found # Nobody
        /\ files.violating # Nobody => violating # Nobody
    BY <2>3, <2>4, ReadFile
  <2> HIDE DEF found, violating
  <2>6. /\ c.dir = b.dir /\ c.call = "record"
        /\ \/ c.found = Nobody /\ c.violating = Nobody /\ c.exit = NoExit
           \/ c.found = found /\ c.violating = Nobody /\ c.exit = NoExit
           \/ c.found = found /\ c.violating = violating
              /\ (found # Nobody \/ violating # Nobody)
    <3>1. \/ Breaks(w)
          \/ busy' = [busy EXCEPT ![w].call = "record", ![w].exit = NoExit, ![w].found = found]
          \/ /\ files.found # Nobody \/ files.violating # Nobody
             /\ busy' = [busy EXCEPT ![w].call = "record", ![w].found = found,
                                     ![w].violating = violating]
      BY <1>8, <2>2 DEF ReadResults, Shelf, found, violating
    <3>2. CASE Breaks(w)
      BY <1>1, <2>1, <3>2 DEF Breaks
    <3>3. CASE busy' = [busy EXCEPT ![w].call = "record", ![w].exit = NoExit, ![w].found = found]
      BY <1>1, <2>1, <3>3
    <3>4. CASE /\ files.found # Nobody \/ files.violating # Nobody
               /\ busy' = [busy EXCEPT ![w].call = "record", ![w].found = found,
                                       ![w].violating = violating]
      BY <1>1, <2>5, <3>4
    <3> QED BY <3>1, <3>2, <3>3, <3>4
  <2>7. From(Nobody, Users(d)') /\ Filtered(Nobody)
    BY DEF From, Filtered
  <2>8. \A result \in {c.found, c.violating} : From(result, Users(d)') /\ Filtered(result)
    BY <2>5, <2>6, <2>7
  <2> QED BY <2>2, <2>6, <2>8, <1>2 DEF OwnFindings, NoExit, Filtered, Severe
<1>9. CASE RecordScan(w)
  <2>1. c = Idle
    BY <1>1, <1>9 DEF RecordScan
  <2> QED BY <1>3, <2>1 DEF Idle
<1> QED BY <1>4, <1>5, <1>6, <1>7, <1>8, <1>9 DEF Step

\* A file that is new is about the scan in the directory, compared with its
\* own earlier results; the files that stay are about the users there were.
LEMMA ShelfStep ==
    ASSUME JasInv, JasNext
    PROVE  ShelfInv'
<1> SUFFICES ASSUME NEW d \in Directories
             PROVE  From(shelf'[d].found, Users(d)') /\ From(shelf'[d].violating, Users(d)')
  BY DEF ShelfInv
<1>1. /\ From(shelf[d].found, Users(d)') /\ From(shelf[d].violating, Users(d)')
  BY FilesStay
<1>2. shelf \in [Directories -> [config : Configs \cup {Nobody}, compared : Tasks \cup {Nobody},
                                 found : Reports \cup {Nobody}, violating : Reports \cup {Nobody}]]
  BY DEF JasInv, JasTypes
<1>3. CASE shelf'[d].found = shelf[d].found /\ shelf'[d].violating = shelf[d].violating
  BY <1>1, <1>3
<1>4. CASE NewJasScanner \/ Tick \/ EndScans
  BY <1>3, <1>4 DEF NewJasScanner, Tick, EndScans
<1>5. ASSUME NEW w \in Workers, TakeScan(w) \/ ReadResults(w) \/ RecordScan(w)
      PROVE  shelf' = shelf
  BY <1>5 DEF TakeScan, ReadResults, RecordScan
<1>6. ASSUME NEW w \in Workers, BeginScan(w) \/ Configures(w)
      PROVE  shelf'[d].found = shelf[d].found /\ shelf'[d].violating = shelf[d].violating
  <2>1. CASE BeginScan(w)
    BY <1>2, <2>1 DEF BeginScan
  <2>2. CASE Configures(w)
    <3>1. UNCHANGED shelf \/ \E c : Put(w, [Shelf(w) EXCEPT !.config = c])
      BY <2>2, ConfigStep DEF WriteConfig
    <3>2. CASE \E c : Put(w, [Shelf(w) EXCEPT !.config = c])
      <4>1. busy[w].dir \in Directories
        BY <2>2, ConfigStep DEF JasInv, JasTypes, WorkerInv, OwnDirectory
      <4>2. PICK c : shelf' = [shelf EXCEPT ![busy[w].dir] = [shelf[busy[w].dir] EXCEPT !.config = c]]
        BY <3>2 DEF Put, Shelf
      <4> QED BY <1>2, <4>1, <4>2
    <3> QED BY <3>1, <3>2
  <2> QED BY <1>6, <2>1, <2>2
<1>7. ASSUME NEW w \in Workers, RunAnalyzerManager(w)
      PROVE  From(shelf'[d].found, Users(d)') /\ From(shelf'[d].violating, Users(d)')
  <2>1. CASE d # busy[w].dir
    BY <1>3, <1>7, <2>1, RunLeaves
  <2>2. CASE d = busy[w].dir
    <3> DEFINE report == Report(shelf[d].config, shelf[d].compared)
               s == busy[w].scan
    <3>1. PICK dirs \in SUBSET Patterns :
             /\ SkipsNoMore(s, dirs)
             /\ shelf[d].config = [scan |-> s, skipped |-> dirs, compared |-> s.compare]
             /\ s.compare => shelf[d].compared = s
      BY <1>7, <2>2 DEF RunAnalyzerManager, JasInv, WorkerInv, OwnDirectory
    <3>2. report.scan = s /\ report.skipped = dirs /\ report.old = IF s.compare THEN s ELSE Nobody
      BY <3>1 DEF Report
    <3>3. s \in Users(d)'
      <4>1. s \in Users(d)
        BY <2>2 DEF Users
      <4> QED BY <4>1, UsersGrow
    <3>4. shelf'[d].found \in {shelf[d].found, report} /\ shelf'[d].violating \in {shelf[d].violating, report}
      BY <1>7, <2>2, RunLeaves
    <3> HIDE DEF report, s
    <3>5. From(report, Users(d)')
      BY <3>1, <3>2, <3>3 DEF From
    <3> QED BY <1>1, <3>4, <3>5
  <2> QED BY <2>1, <2>2
<1> QED BY <1>3, <1>4, <1>5, <1>6, <1>7 DEF JasNext, Configures

\* What is recorded keeps its users.
LEMMA RecordsStay ==
    ASSUME JasInv, JasNext, NEW k \in kept
    PROVE  /\ Placed(k.scan, k.worker, k.dir)
           /\ k.dir = Nobody => k.found = Nobody /\ k.violating = Nobody
           /\ \A result \in {k.found, k.violating} : From(result, Recorded(k.dir)') /\ Filtered(result)'
           /\ k.status \notin KnownExits \cup {0} => k.blamed
           /\ k.status = 0 /\ k.scan.kind \in Violating /\ ~NothingToScan(k.scan) =>
                 k.found # Nobody \/ k.violating # Nobody
<1>1. Recorded(k.dir) \subseteq Recorded(k.dir)' /\ job' = job
  BY KeptGrows DEF Recorded
<1> QED BY <1>1 DEF JasInv, KeptInv, From, Filtered, Severe

\* A record is made of what its worker holds.
LEMMA KeptStep ==
    ASSUME JasInv, JasNext
    PROVE  KeptInv'
<1>1. CASE kept' = kept
  BY <1>1, RecordsStay DEF KeptInv
<1>2. ASSUME NEW w \in Workers, RecordScan(w)
      PROVE  KeptInv'
  <2> DEFINE b == busy[w]
             Recording(dumpFails) ==
                 [scan |-> b.scan, worker |-> w, dir |-> b.dir, status |-> b.exit, found |-> b.found,
                  violating |-> IF b.scan.kind \in Violating THEN b.violating ELSE Nobody,
                  blamed |-> Reported(b.exit) \/ dumpFails]
  <2>1. PICK dumpFails \in BOOLEAN : kept' = kept \cup {Recording(dumpFails)}
    BY <1>2 DEF RecordScan
  <2>2. PICK new : new = Recording(dumpFails)
    OBVIOUS
  <2>3. /\ new.scan = b.scan /\ new.worker = w /\ new.dir = b.dir /\ new.status = b.exit
        /\ new.found = b.found /\ new.violating \in {b.violating, Nobody}
        /\ b.scan.kind \in Violating => new.violating = b.violating
        /\ new.blamed = (Reported(b.exit) \/ dumpFails)
    BY <2>2
  <2>4. kept' = kept \cup {new}
    BY <2>1, <2>2
  <2> HIDE DEF Recording
  <2>5. /\ OwnDirectory(w) /\ OwnFindings(w) /\ b.call = "record" /\ b.scan \in Tasks
        /\ job' = job
    BY <1>2 DEF JasInv, WorkerInv, OwnDirectory, RecordScan
  <2>6. Placed(new.scan, new.worker, new.dir)
        /\ (new.dir = Nobody => new.found = Nobody /\ new.violating = Nobody)
    BY <2>3, <2>5 DEF OwnDirectory, OwnFindings
  <2>7. new.dir # Nobody => Users(new.dir) \subseteq Recorded(new.dir)'
    <3> SUFFICES ASSUME new.dir # Nobody, NEW s \in Users(new.dir)
                 PROVE  s \in Recorded(new.dir)'
      OBVIOUS
    <3>1. CASE s \in Recorded(new.dir)
      BY <2>4, <3>1 DEF Recorded
    <3>2. CASE \E v \in Workers : busy[v].dir = new.dir /\ s = busy[v].scan
      <4>1. PICK v \in Workers : busy[v].dir = new.dir /\ s = busy[v].scan
        BY <3>2
      <4>2. busy[v].dir[3] = v /\ new.dir[3] = w
        BY <2>3, <2>6, <4>1 DEF JasInv, WorkerInv, OwnDirectory, Placed
      <4>3. s = new.scan
        BY <2>3, <4>1, <4>2
      <4> QED BY <2>4, <4>3 DEF Recorded
    <3> QED BY <3>1, <3>2 DEF Users
  <2>8. \A result \in {new.found, new.violating} : From(result, Recorded(new.dir)') /\ Filtered(result)'
    <3>1. \A result \in {new.found, new.violating} :
             result = Nobody \/ (From(result, Users(new.dir)) /\ Filtered(result))
      BY <2>3, <2>5 DEF OwnFindings
    <3>2. \A result \in {new.found, new.violating} : Filtered(result)'
      BY <2>5, <3>1 DEF Filtered, Severe
    <3>3. \A result \in {new.found, new.violating} : From(result, Recorded(new.dir)')
      BY <2>6, <2>7, <3>1 DEF From
    <3> QED BY <3>2, <3>3
  <2>9. new.status \notin KnownExits \cup {0} => new.blamed
    BY <2>3 DEF Reported
  <2>10. new.status = 0 /\ new.scan.kind \in Violating /\ ~NothingToScan(new.scan) =>
            new.found # Nobody \/ new.violating # Nobody
    BY <2>3, <2>5 DEF OwnFindings, NoCves, Violating
  <2> QED BY <2>4, <2>6, <2>8, <2>9, <2>10, RecordsStay DEF KeptInv
<1> QED BY <1>1, <1>2 DEF JasNext, NewJasScanner, Tick, EndScans, TakeScan, BeginScan,
     CreateConfig, DeleteElement, WriteShortened, RunAnalyzerManager, ReadResults

\* Workers that do not move keep what holds of them.
LEMMA Unmoved ==
    ASSUME JasInv, UNCHANGED <<job, shelf, busy, kept>>
    PROVE  WorkerInv'
<1> SUFFICES ASSUME NEW v \in Workers PROVE OwnDirectory(v)' /\ OwnFindings(v)'
  BY DEF WorkerInv
<1>1. OwnDirectory(v) /\ OwnFindings(v)
  BY DEF JasInv, WorkerInv
<1>2. OwnDirectory(v)'
  BY <1>1 DEF OwnDirectory
<1>3. OwnFindings(v)'
  BY <1>1 DEF OwnFindings, Users, Recorded, Filtered, Severe
<1> QED BY <1>2, <1>3

\* The shared slice loses node_modules once, and no worker is left with a place
\* that holds it.
LEMMA DefaultsStep ==
    ASSUME JasInv, JasNext
    PROVE  DefaultsInv'
<1>0. DefaultsInv /\ busy \in [Workers -> [call : {"idle", "directory", "config", "delete", "write", "run", "read", "record"},
                               scan : Tasks \cup {Nobody}, dir : Directories \cup {Nobody},
                               exit : ExitCodes, found : Results \cup {Nobody},
                               violating : Results \cup {Nobody}]]
  BY DEF JasInv, JasTypes
<1>1. ASSUME NEW w \in Workers, defaults' = defaults, \A v \in Workers \ {w} : busy'[v] = busy[v],
             busy'[w].call \notin {"delete", "write"}
      PROVE  DefaultsInv'
  BY <1>0, <1>1 DEF DefaultsInv, Shortens
<1>2. ASSUME NEW w \in Workers, Step(w), ~Configures(w) PROVE DefaultsInv'
  <2>1. defaults' = defaults
    BY <1>2, Zenon DEF Step, TakeScan, BeginScan, RunAnalyzerManager, ReadResults, RecordScan
  <2>2. busy'[w].call \notin {"delete", "write"}
    <3>1. CASE TakeScan(w)
      <4>1. PICK i \in todo :
               busy' = [busy EXCEPT ![w] = [Idle EXCEPT !.scan = job.scans[i],
                           !.call = IF NothingToScan(job.scans[i]) THEN "record" ELSE "directory"]]
        BY <3>1 DEF TakeScan
      <4> QED BY <1>0, <4>1 DEF Idle
    <3>2. CASE BeginScan(w)
      BY <1>0, <3>2 DEF BeginScan, Breaks
    <3>3. CASE RunAnalyzerManager(w)
      <4>1. CASE Call(w, "read")
        BY <1>0, <4>1 DEF Call
      <4>2. CASE \E exit : busy' = [busy EXCEPT ![w].call = "record", ![w].exit = exit]
        <5>1. PICK exit : busy' = [busy EXCEPT ![w].call = "record", ![w].exit = exit]
          BY <4>2
        <5> QED BY <1>0, <5>1
      <4> QED BY <3>3, <4>1, <4>2 DEF RunAnalyzerManager
    <3>4. CASE ReadResults(w)
      BY <1>0, <3>4 DEF ReadResults, Breaks
    <3>5. CASE RecordScan(w)
      BY <1>0, <3>5 DEF RecordScan, Idle
    <3> QED BY <1>2, <3>1, <3>2, <3>3, <3>4, <3>5 DEF Step
  <2> QED BY <1>1, <1>2, <2>1, <2>2, Elsewhere
<1>3. ASSUME NEW w \in Workers, CreateConfig(w) PROVE DefaultsInv'
  <2>0. \A v \in Workers \ {w} : busy'[v] = busy[v]
    BY <1>3, Elsewhere DEF Step, Configures
  <2>1. defaults' = defaults
    BY <1>3 DEF CreateConfig
  <2>2. CASE Breaks(w) \/ Call(w, "run")
    <3>1. busy'[w].call \notin {"delete", "write"}
      BY <1>0, <2>2 DEF Breaks, Call
    <3> QED BY <1>1, <2>0, <2>1, <3>1
  <2>3. CASE TakesDefaults(busy[w].scan) /\ LooksIntoModules(busy[w].scan) /\ Call(w, "delete")
    <3>1. busy'[w].call = "delete" /\ busy'[w].scan = busy[w].scan
      BY <1>0, <2>3 DEF Call
    <3> QED BY <1>0, <2>0, <2>1, <2>3, <3>1 DEF DefaultsInv, Shortens
  <2> QED BY <1>3, <2>2, <2>3 DEF CreateConfig, WriteConfig
<1>4. ASSUME NEW w \in Workers, DeleteElement(w) PROVE DefaultsInv'
  <2>0. \A v \in Workers \ {w} : busy'[v] = busy[v]
    BY <1>4, Elsewhere DEF Step, Configures
  <2>1. busy'[w].call = "write" /\ busy'[w].scan = busy[w].scan /\ busy[w].call = "delete"
    BY <1>0, <1>4 DEF DeleteElement, Call
  <2>2. /\ Elements(defaults') \subseteq Elements(DefaultJasExcludePatterns) \cup {""}
        /\ defaults'.before # NodeModules /\ defaults'.after # NodeModules
        /\ defaults'.at # NodeModules
    <3>1. CASE defaults.at = NodeModules
      <4>1. defaults' = Deleted(defaults)
        BY <1>4, <3>1 DEF DeleteElement
      <4>2. defaults' \in Mixes(defaults)
        BY <4>1 DEF Deleted, Mixes
      <4>3. defaults'.at = defaults.after
        BY <4>1 DEF Deleted, JasInv, JasTypes
      <4> QED BY <1>0, <4>2, <4>3, ListsKnown DEF DefaultsInv
    <3>2. CASE defaults.at # NodeModules
      BY <1>4, <3>2, ListsKnown DEF DeleteElement
    <3> QED BY <3>1, <3>2
  <2> QED BY <1>0, <2>0, <2>1, <2>2 DEF DefaultsInv, Shortens
<1>5. ASSUME NEW w \in Workers, WriteShortened(w) PROVE DefaultsInv'
  <2>0. \A v \in Workers \ {w} : busy'[v] = busy[v]
    BY <1>5, Elsewhere DEF Step, Configures
  <2>1. defaults' = defaults
    BY <1>5 DEF WriteShortened
  <2>2. busy'[w].call \notin {"delete", "write"}
    BY <1>0, <1>5 DEF WriteShortened, WriteConfig, Breaks, Call
  <2> QED BY <1>1, <2>0, <2>1, <2>2
<1>6. CASE NewJasScanner \/ Tick \/ EndScans
  BY <1>0, <1>6 DEF NewJasScanner, Tick, EndScans, DefaultsInv, Shortens
<1> QED BY <1>2, <1>3, <1>4, <1>5, <1>6 DEF JasNext, Step, Configures

\* No step breaks it.
LEMMA StepInv == JasInv /\ [JasNext]_jasVars => JasInv'
<1> SUFFICES ASSUME JasInv, [JasNext]_jasVars PROVE JasInv'
  OBVIOUS
<1>1. CASE JasNext
  <2>1. JasTypes' /\ ShelfInv' /\ KeptInv' /\ DefaultsInv'
    BY <1>1, TypesStep, ShelfStep, KeptStep, DefaultsStep
  <2>2. ASSUME NEW w \in Workers, Step(w) PROVE WorkerInv'
    <3>1. OwnDirectory(w)' /\ OwnFindings(w)'
      BY <2>2, DirectoryStep, FindingsStep
    <3>2. \A v \in Workers \ {w} : OwnDirectory(v)' /\ OwnFindings(v)'
      BY <2>2, OthersKept
    <3> QED BY <3>1, <3>2 DEF WorkerInv
  <2>3. CASE NewJasScanner \/ Tick \/ EndScans
    <3>1. UNCHANGED <<job, shelf, busy, kept>>
      BY <2>3 DEF NewJasScanner, Tick, EndScans
    <3> QED BY <2>1, <3>1, Unmoved DEF JasInv
  <2> QED BY <1>1, <2>1, <2>2, <2>3 DEF JasNext, Step, Configures, JasInv
<1>2. CASE UNCHANGED jasVars
  <2>1. JasTypes'
    BY <1>2 DEF jasVars, JasInv, JasTypes
  <2>2. \A d : Users(d)' = Users(d) /\ Recorded(d)' = Recorded(d)
    BY <1>2 DEF jasVars, Users, Recorded
  <2>3. ShelfInv'
    BY <1>2, <2>2 DEF jasVars, JasInv, ShelfInv, From
  <2>4. KeptInv'
    BY <1>2 DEF jasVars, JasInv, KeptInv, Recorded, Filtered, Severe
  <2>5. DefaultsInv'
    BY <1>2 DEF jasVars, JasInv, DefaultsInv, Shortens
  <2> QED BY <1>2, <2>1, <2>3, <2>4, <2>5, Unmoved DEF jasVars, JasInv
<1> QED BY <1>1, <1>2

-----------------------------------------------------------------------------
(* The theorems.                                                           *)

\* The inductive invariant of the scans: files, workers and records stay
\* about the scans that used the directory.
THEOREM ScansInvariant == JasSpec => []JasInv
<1> QED BY InitInv, StepInv, PTL DEF JasSpec

\* A record that shares its directory with no other scan is of its own scan.
LEMMA OwnRecord ==
    ASSUME JasInv
    PROVE  ScanIsItsOwn
<1> SUFFICES ASSUME NEW k \in kept, ~SameDirectory(k)
             PROVE  Sound(k.found, k) /\ Sound(k.violating, k)
  BY DEF ScanIsItsOwn, JasInv, KeptInv
<1>1. /\ Placed(k.scan, k.worker, k.dir)
      /\ k.dir = Nobody => k.found = Nobody /\ k.violating = Nobody
      /\ \A result \in {k.found, k.violating} : From(result, Recorded(k.dir)) /\ Filtered(result)
  BY DEF JasInv, KeptInv
<1>2. CASE k.dir = Nobody
  BY <1>1, <1>2 DEF Sound
<1>3. CASE k.dir # Nobody
  <2>1. ASSUME NEW s \in Recorded(k.dir) PROVE s = k.scan
    <3>1. PICK other \in kept : other.dir = k.dir /\ other.scan = s
      BY DEF Recorded
    <3>2. /\ other.scan.kind = k.scan.kind /\ other.worker = k.worker
          /\ other.dir # Nobody /\ other.dir[2] = k.dir[2]
      BY <1>1, <1>3, <3>1 DEF JasInv, KeptInv, Placed
    <3> QED BY <3>1, <3>2, <1>3 DEF SameDirectory
  <2>2. ASSUME NEW result \in {k.found, k.violating}, result # Nobody
        PROVE  Sound(result, k)
    <3>1. result.scan = k.scan /\ result.old = IF k.scan.compare THEN k.scan ELSE Nobody
      BY <1>1, <2>1, <2>2 DEF From
    <3>2. result.findings = {f \in k.scan.findings : f.severity >= job.severity /\ ~f.suppressed}
      BY <1>1, <2>2, <3>1 DEF Filtered, Severe
    <3>3. SkipsNoMore(k.scan, result.skipped)
      BY <1>1, <2>2, <3>1 DEF From
    <3> QED BY <3>1, <3>2, <3>3 DEF Sound
  <2> QED BY <2>2 DEF Sound
<1> QED BY <1>2, <1>3

\* With any number of workers and targets, what is recorded for a scan was
\* found by it, compared with its own earlier results and dropped only if
\* suppressed or too mild, unless its worker used the directory twice; a scan
\* that read nothing is not recorded as clean, and failures are blamed.
THEOREM ScansAreTheirOwn == JasSpec => []ScanIsItsOwn
<1>1. JasInv => ScanIsItsOwn
  BY OwnRecord
<1> QED BY <1>1, ScansInvariant, PTL

-----------------------------------------------------------------------------
(* The executable the scans run: AnalyzerManager, for any number of         *)
(* processes, any versions and requests.                                    *)

\* Nothing is installed and nobody has begun.
LEMMA ManagerInitInv == ManagerInit => ManagerInv
  BY ManagerAssumption
  DEF ManagerInit, ManagerInv, ManagerTypes, ChildKnown, Alone, ChecksumTells, CacheKnown,
      Unpacking, Relying, Wanted

\* A request names one of the versions.
LEMMA WantedIsAVersion == ASSUME NEW p \in Processes, request \in Requests
                          PROVE  /\ Wanted(p) \in Versions
                                 /\ Wanted(p) # Nothing /\ Wanted(p) # "mixed"
  BY ManagerAssumption DEF Wanted

\* What p does next is not what any other process does next.
LEMMA OnlyMoves ==
    ASSUME NEW p \in Processes, ManagerTypes, NEW call, GoTo(p, call)
    PROVE  /\ doing'[p] = call
           /\ \A q \in Processes : q # p => doing'[q] = doing[q]
  BY DEF GoTo, ManagerTypes

\* Every step keeps the types, and a manager that runs is waited for.
LEMMA ManagerTypesStep == ManagerInv /\ [ManagerNext]_managerVars => ManagerTypes' /\ ChildKnown'
<1> SUFFICES ASSUME ManagerInv, [ManagerNext]_managerVars
             PROVE  ManagerTypes' /\ ChildKnown'
  OBVIOUS
<1> USE DEF ManagerInv, ManagerTypes, ChildKnown
<1>1. CASE UNCHANGED managerVars
  BY <1>1 DEF managerVars
<1>2. ASSUME NEW p \in Processes, CheckFails(p) \/ DownloadFails(p) \/ NotLocated(p) \/ StartFails(p)
      PROVE  ManagerTypes' /\ ChildKnown'
  BY <1>2 DEF CheckFails, DownloadFails, NotLocated, StartFails, GoTo
<1>3. ASSUME NEW p \in Processes, isArtifactChecksumsMatch(p)
      PROVE  ManagerTypes' /\ ChildKnown'
  BY <1>3, Zenon DEF isArtifactChecksumsMatch, GoTo, Watch, Met
<1>4. ASSUME NEW p \in Processes, BeginUnpack(p)
      PROVE  ManagerTypes' /\ ChildKnown'
  BY <1>4 DEF BeginUnpack, Unpack, GoTo, Watch, Met
<1>5. ASSUME NEW p \in Processes, EndUnpack(p) \/ CreateChecksumFile(p)
      PROVE  ManagerTypes' /\ ChildKnown'
  BY <1>5, WantedIsAVersion DEF EndUnpack, CreateChecksumFile, GoTo
<1>6. ASSUME NEW p \in Processes, Interrupted(p)
      PROVE  ManagerTypes' /\ ChildKnown'
  BY <1>6 DEF Interrupted, GoTo, Unpacking
<1>7. ASSUME NEW p \in Processes, Start(p) \/ Exits(p) \/ TimeoutReached(p)
      PROVE  ManagerTypes' /\ ChildKnown'
  BY <1>7 DEF Start, Exits, TimeoutReached, killProcessTree, GoTo
<1> QED
  BY <1>1, <1>2, <1>3, <1>4, <1>5, <1>6, <1>7 DEF ManagerNext
Undisturbed == Alone /\ ChecksumTells /\ CacheKnown

\* A process that fails or ends changes nothing the others rely on.
LEMMA LeavingKeeps ==
    ASSUME ManagerInv, Undisturbed, NEW p \in Processes, ~Unpacking(p),
           NEW call \in {"failed", "done", "wait"}, GoTo(p, call),
           UNCHANGED <<request, checksum, content>>,
           \A q \in Processes : started'[q] \in {Nothing, Wanted(q)}
    PROVE  Undisturbed'
<1> USE DEF Unpacking, Relying, Wanted
<1>1. /\ doing'[p] = call
      /\ \A q \in Processes : q # p => doing'[q] = doing[q]
  BY OnlyMoves DEF ManagerInv
<1>2. Alone'
  BY <1>1 DEF Undisturbed, Alone
<1>3. ChecksumTells'
  BY <1>1 DEF Undisturbed, ChecksumTells
<1>4. CacheKnown'
  BY <1>1 DEF Undisturbed, CacheKnown
<1> QED
  BY <1>2, <1>3, <1>4 DEF Undisturbed

\* Who goes by a checksum that matches finds the files of its version, and who
\* does not is about to unpack: unless another process is at it.
LEMMA CheckKeeps ==
    ASSUME ManagerInv, Undisturbed, NEW p \in Processes, isArtifactChecksumsMatch(p), ~Met
    PROVE  Undisturbed'
<1> USE DEF Unpacking, Relying
<1>1. /\ doing[p] = "check"
      /\ doing'[p] = IF checksum = Wanted(p) THEN "locate" ELSE "download"
      /\ \A q \in Processes : q # p => doing'[q] = doing[q]
  BY OnlyMoves DEF ManagerInv, isArtifactChecksumsMatch
<1>2. UNCHANGED <<request, checksum, content, started>>
  BY DEF isArtifactChecksumsMatch
<1>3. \A q \in Processes : q # p => ~Unpacking(q)
  <2> SUFFICES ASSUME NEW q \in Processes, q # p, Unpacking(q) PROVE FALSE
    OBVIOUS
  <2>1. Unpacking(q)' /\ Relying(p)'
    BY <1>1
  <2> QED
    BY <2>1 DEF Met
<1>4. checksum = Nothing \/ checksum = content
  BY <1>1, <1>3 DEF Undisturbed, ChecksumTells
<1>5. Alone'
  BY <1>1, <1>3 DEF Undisturbed, Alone
<1>6. ChecksumTells'
  BY <1>2, <1>4 DEF ChecksumTells
<1>7. Wanted(p) # Nothing
  BY WantedIsAVersion DEF ManagerInv, ManagerTypes
<1>8. CacheKnown'
  BY <1>1, <1>2, <1>4, <1>7 DEF Undisturbed, CacheKnown, Wanted
<1> QED
  BY <1>5, <1>6, <1>8 DEF Undisturbed

\* Unpacking begins while nobody else relies on the cache.
LEMMA BeginUnpackKeeps ==
    ASSUME ManagerInv, Undisturbed, NEW p \in Processes, BeginUnpack(p), ~Met
    PROVE  Undisturbed'
<1> USE DEF Unpacking, Relying
<1>1. /\ doing[p] = "download" /\ doing'[p] = "unpack"
      /\ \A q \in Processes : q # p => doing'[q] = doing[q]
  BY OnlyMoves DEF ManagerInv, BeginUnpack
<1>2. UNCHANGED <<request, checksum, started>>
  BY DEF BeginUnpack, Unpack
<1>3. \A q \in Processes : q # p => ~Relying(q)
  <2> SUFFICES ASSUME NEW q \in Processes, q # p, Relying(q) PROVE FALSE
    OBVIOUS
  <2>1. Unpacking(p)' /\ Relying(q)'
    BY <1>1
  <2> QED
    BY <2>1 DEF Met
<1>4. Alone'
  BY <1>1, <1>3 DEF Alone
<1>5. ChecksumTells'
  BY <1>1 DEF ChecksumTells
<1>6. CacheKnown'
  BY <1>1, <1>2, <1>3 DEF Undisturbed, CacheKnown, Wanted
<1> QED
  BY <1>4, <1>5, <1>6 DEF Undisturbed

\* Who ends unpacking, or writes the checksum, is alone with the cache.
LEMMA UnpackedKeeps ==
    ASSUME ManagerInv, Undisturbed, NEW p \in Processes, EndUnpack(p) \/ CreateChecksumFile(p)
    PROVE  Undisturbed'
<1> USE DEF Unpacking, Relying
<1>1. /\ doing[p] \in {"unpack", "mark"}
      /\ doing'[p] = IF doing[p] = "unpack" THEN "mark" ELSE "locate"
      /\ \A q \in Processes : q # p => doing'[q] = doing[q]
  BY OnlyMoves DEF ManagerInv, EndUnpack, CreateChecksumFile
<1>2. /\ content' = Wanted(p)
      /\ checksum' = IF doing[p] = "unpack" THEN checksum ELSE Wanted(p)
      /\ UNCHANGED <<request, started>>
  BY DEF EndUnpack, CreateChecksumFile, Undisturbed, CacheKnown
<1>3. \A q \in Processes : q # p => ~Relying(q)
  BY <1>1 DEF Undisturbed, Alone
<1>4. Alone'
  BY <1>1, <1>3 DEF Alone
<1>5. ChecksumTells'
  BY <1>1, <1>2 DEF ChecksumTells, Wanted
<1>6. CacheKnown'
  BY <1>1, <1>2, <1>3 DEF Undisturbed, CacheKnown, Wanted
<1> QED
  BY <1>4, <1>5, <1>6 DEF Undisturbed

\* Interrupted without a checksum file, the next process unpacks anew.
LEMMA InterruptedKeeps ==
    ASSUME ManagerInv, Undisturbed, NEW p \in Processes, Interrupted(p),
           checksum \in {Nothing, Wanted(p)}
    PROVE  Undisturbed'
<1> USE DEF Unpacking, Relying
<1>1. /\ doing[p] \in {"unpack", "mark"} /\ doing'[p] = "failed"
      /\ \A q \in Processes : q # p => doing'[q] = doing[q]
  BY OnlyMoves DEF ManagerInv, Interrupted
<1>2. UNCHANGED <<request, checksum, content, started>>
  BY DEF Interrupted
<1>3. checksum = Nothing
  BY <1>1 DEF Undisturbed, CacheKnown
<1>4. Alone'
  BY <1>1 DEF Undisturbed, Alone
<1>5. ChecksumTells'
  BY <1>2, <1>3 DEF ChecksumTells
<1>6. CacheKnown'
  BY <1>1, <1>2 DEF Undisturbed, CacheKnown, Wanted
<1> QED
  BY <1>4, <1>5, <1>6 DEF Undisturbed

\* Every step keeps what is known of the cache, or is a disturbance.
LEMMA CacheStep ==
    ManagerInv /\ Undisturbed /\ [ManagerNext]_managerVars => Undisturbed' \/ disturbed'
<1> SUFFICES ASSUME ManagerInv, Undisturbed, [ManagerNext]_managerVars, ~disturbed'
             PROVE  Undisturbed'
  OBVIOUS
<1>1. CASE UNCHANGED managerVars
  BY <1>1 DEF managerVars, Undisturbed, Alone, ChecksumTells, CacheKnown, Unpacking, Relying, Wanted
<1>2. ASSUME NEW p \in Processes, CheckFails(p) \/ DownloadFails(p) \/ NotLocated(p) \/ StartFails(p)
      PROVE  Undisturbed'
  <2>1. /\ ~Unpacking(p) /\ GoTo(p, "failed")
        /\ UNCHANGED <<request, checksum, content, started>>
    BY <1>2 DEF CheckFails, DownloadFails, NotLocated, StartFails, Unpacking
  <2> QED
    BY <2>1, LeavingKeeps DEF Undisturbed, CacheKnown
<1>3. ASSUME NEW p \in Processes, isArtifactChecksumsMatch(p)
      PROVE  Undisturbed'
  <2>1. ~Met
    BY <1>3, Zenon DEF isArtifactChecksumsMatch, Watch
  <2> QED
    BY <1>3, <2>1, CheckKeeps
<1>4. ASSUME NEW p \in Processes, BeginUnpack(p)
      PROVE  Undisturbed'
  <2>1. ~Met
    BY <1>4, Zenon DEF BeginUnpack, Watch
  <2> QED
    BY <1>4, <2>1, BeginUnpackKeeps
<1>5. ASSUME NEW p \in Processes, EndUnpack(p) \/ CreateChecksumFile(p)
      PROVE  Undisturbed'
  BY <1>5, UnpackedKeeps
<1>6. ASSUME NEW p \in Processes, Interrupted(p)
      PROVE  Undisturbed'
  <2>1. checksum \in {Nothing, Wanted(p)}
    BY <1>6 DEF Interrupted
  <2> QED
    BY <1>6, <2>1, InterruptedKeeps
<1>7. ASSUME NEW p \in Processes, Start(p)
      PROVE  Undisturbed'
  <2>1. /\ ~Unpacking(p) /\ GoTo(p, "wait") /\ doing[p] = "locate"
        /\ UNCHANGED <<request, checksum, content>>
        /\ started' = [started EXCEPT ![p] = content]
    BY <1>7 DEF Start, Unpacking
  <2>2. content = Wanted(p)
    BY <2>1 DEF Undisturbed, CacheKnown
  <2>3. \A q \in Processes : started'[q] \in {Nothing, Wanted(q)}
    BY <2>1, <2>2 DEF Undisturbed, CacheKnown, ManagerInv, ManagerTypes
  <2> QED
    BY <2>1, <2>3, LeavingKeeps
<1>8. ASSUME NEW p \in Processes, Exits(p) \/ TimeoutReached(p)
      PROVE  Undisturbed'
  <2>1. /\ ~Unpacking(p) /\ (GoTo(p, "done") \/ GoTo(p, "failed"))
        /\ UNCHANGED <<request, checksum, content, started>>
    BY <1>8 DEF Exits, TimeoutReached, Unpacking
  <2> QED
    BY <2>1, LeavingKeeps DEF Undisturbed, CacheKnown
<1> QED
  BY <1>1, <1>2, <1>3, <1>4, <1>5, <1>6, <1>7, <1>8 DEF ManagerNext

\* A disturbance stays one.
LEMMA DisturbedStays == ManagerInv /\ disturbed /\ [ManagerNext]_managerVars => disturbed'
  BY DEF ManagerNext, managerVars, CheckFails, isArtifactChecksumsMatch, DownloadFails, BeginUnpack,
         EndUnpack, CreateChecksumFile, Interrupted, NotLocated, Start, StartFails, Exits,
         TimeoutReached, Watch

-----------------------------------------------------------------------------
\* The inductive invariant of the cache and its users holds for any number of
\* processes and any versions they want.
THEOREM ManagerInvariant == ManagerSpec => []ManagerInv
<1>1. ManagerInv /\ [ManagerNext]_managerVars => ManagerInv'
  BY ManagerTypesStep, CacheStep, DisturbedStays DEF ManagerInv, Undisturbed
<1> QED
  BY <1>1, ManagerInitInv, PTL DEF ManagerSpec

\* Whatever was killed at whatever point before it, a process starts complete
\* files of the version it wants, as long as no two processes met at the cache
\* and no other version was left half unpacked; and none outlives its manager.
THEOREM ManagerStartsWhole == ManagerSpec => []ManagerIsWhole
<1>1. ManagerInv => ManagerIsWhole
  BY DEF ManagerInv, ChildKnown, CacheKnown, ManagerIsWhole
<1> QED
  BY <1>1, ManagerInvariant, PTL
=============================================================================
