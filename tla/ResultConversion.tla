------------------------- MODULE ResultConversion -------------------------
(***************************************************************************)
(* utils/results/conversion and utils/results/output: the results of a     *)
(* command, target by target, turned into the report formats.              *)
(*                                                                         *)
(* parseCommandResults feeds one stream of calls to one parser, and the    *)
(* five parsers (simple JSON, table, SARIF, CycloneDX, summary) implement  *)
(* one interface.  They share nothing but the read-only results, so they   *)
(* run here side by side on one stream, which is what lets the properties  *)
(* compare them; a conversion of the program runs one of them.             *)
(*                                                                         *)
(* A finding of a target is an issue (ref) with the components it hits; a  *)
(* hit has the direct components and impact paths BuildImpactPath found    *)
(* and the fixed versions.  Severities, texts and fingerprints are left    *)
(* out: no property is about them.                                         *)
(***************************************************************************)
EXTENDS Naturals, Sequences, FiniteSets
LOCAL INSTANCE SequencesExt
LOCAL INSTANCE FiniteSetsExt
LOCAL INSTANCE TLC

CONSTANTS Cases,    \* the command results the runs start from
          Asks,     \* the conversion parameters
          None      \* no component, location, run or scan

VARIABLES case,     \* SecurityCommandResults
          ask,      \* ResultConvertParams
          at,       \* the index of the next target of the stream
          stage,    \* which call of parseCommandResults comes next
          simple,   \* formats.SimpleJsonResults, and the table's before Get
          sbomRows, \* the SBOM rows of the table
          sarif,    \* CmdResultsSarifConverter
          bom,      \* the CycloneDX document being built
          summary   \* formats.ResultsSummary with the scan being filled

convVars == <<case, ask, at, stage, simple, sbomRows, sarif, bom, summary>>

Kinds == <<"secrets", "services", "iac", "sast", "malicious">>

NoScan == [name |-> None]
FreshTarget == [sca |-> None, jas |-> [k \in ToSet(Kinds) |-> None]]

ConvInit ==
    /\ case \in Cases
    /\ ask \in Asks
    /\ at = 1
    /\ stage = "print"
    /\ simple = [errors |-> 0, rows |-> <<>>, unique |-> <<>>, licences |-> <<>>,
                 jas |-> <<>>, violations |-> <<>>, uniqueViolations |-> <<>>, jasViolations |-> <<>>]
    /\ sbomRows = <<>>
    /\ sarif = [target |-> None, runs |-> <<>>, violations |-> None]
    /\ bom = [components |-> {}, issues |-> <<>>, sast |-> <<>>]
    /\ summary = [scans |-> <<>>, current |-> NoScan, failed |-> FALSE]

--------------------------------------------------------------------------
(* What the walks over the results visit.                                  *)

Unhit(ref) == [ref |-> ref, comp |-> None, fixes |-> {}, directs |-> {}, paths |-> <<>>]
HitsOf(issue, hits) ==
    IF issue.hits = <<>> THEN <<Unhit(issue.ref)>>
    ELSE [h \in 1 .. Len(hits) |-> [ref |-> issue.ref] @@ hits[h]]

\* An affected reference that is no component of the BOM, or that is a file
\* (evidence), is skipped; an issue that affects nothing is handled once.
ForEachScaBomVulnerability(t) ==
    FlattenSeq([i \in 1 .. Len(t.issues) |->
        HitsOf(t.issues[i], SelectSeq(t.issues[i].hits, LAMBDA h : h.comp \in t.libraries))])
ForEachScanGraphVulnerability(response) ==
    FlattenSeq([i \in 1 .. Len(response) |-> HitsOf(response[i], response[i].hits)])

ResultsOf(runs) == FlattenSeq([r \in 1 .. Len(runs) |-> runs[r].results])
ForEachJasIssue(runs) ==
    LET reported == SelectSeq(ResultsOf(runs), LAMBDA r : ~r.informational)
    IN  FlattenSeq([i \in 1 .. Len(reported) |->
            IF reported[i].spots = <<>> THEN <<[rule |-> reported[i].rule, spot |-> None]>>
            ELSE [s \in 1 .. Len(reported[i].spots) |->
                    [rule |-> reported[i].rule, spot |-> reported[i].spots[s]]]])

\* GroupResultsByLocation: of the results with one rule and one first location
\* the first is kept.
ResultId(r) == <<r.rule, IF r.spots = <<>> THEN None ELSE Head(r.spots)>>
Grouped(run) ==
    [run EXCEPT !.results = FoldLeft(LAMBDA kept, r :
        IF \E k \in 1 .. Len(kept) : ResultId(kept[k]) = ResultId(r) THEN kept
        ELSE Append(kept, r), <<>>, @)]
JasRuns(t, kind) ==
    IF kind = "sast" THEN [r \in 1 .. Len(t.jas[kind]) |-> Grouped(t.jas[kind][r])]
    ELSE t.jas[kind]

--------------------------------------------------------------------------
(* The table: one row for each component, issue and fixability.            *)

UniqueKey(row) == <<row.ref, row.comp, row.fixes # {}>>

\* The key of a path is its root, or the direct component of a path of two.
PathKey(path) == IF Len(path) = 2 THEN path[2] ELSE path[1]
AppendIfUnique(paths, more) ==
    FoldLeft(LAMBDA kept, p :
        IF \E k \in 1 .. Len(kept) : PathKey(kept[k]) = PathKey(p) THEN kept
        ELSE Append(kept, p), paths, more)
Common(long, short) == SelectSeq(short, LAMBDA n : n \in ToSet(long))
Whole(sub, long, short) == Len(sub) \in {Len(long), Len(short)}
\* With several roots a path that lies on another replaces it, on either side.
Shortened(paths, others, strictly) ==
    [i \in 1 .. Len(paths) |->
        FoldLeft(LAMBDA p, o :
            IF (IF strictly THEN Len(o) < Len(p) ELSE Len(o) <= Len(p)) /\ Whole(Common(p, o), p, o)
            THEN Common(p, o) ELSE p, paths[i], others)]
MergePaths(paths, more, multipleRoots) ==
    IF multipleRoots
    THEN AppendIfUnique(Shortened(paths, more, FALSE), Shortened(more, paths, TRUE))
    ELSE AppendIfUnique(paths, more)

MergeByFirst(row, again, multipleRoots) == row
Merge(row, again, multipleRoots) ==
    [row EXCEPT !.fixes = @ \cap again.fixes,
                !.directs = @ \cup again.directs,
                !.paths = MergePaths(@, again.paths, multipleRoots)]
RemoveScaDuplications(rows, multipleRoots) ==
    FoldLeft(LAMBDA kept, row :
        LET same == {k \in 1 .. Len(kept) : kept[k].key = UniqueKey(row)}
        IN  IF same = {} THEN Append(kept, row @@ [key |-> UniqueKey(row)])
            ELSE [kept EXCEPT ![Min(same)] = Merge(@, row, multipleRoots)], <<>>, rows)

--------------------------------------------------------------------------
(* SARIF: the runs of the current target, patched and flushed.             *)

\* createAndAddScaIssue: a result for each direct component; a hit without
\* direct components gives a rule and no result; an issue without components
\* gives one result that has no location.
ScaResults(hit) ==
    IF hit.directs = {}
    THEN IF hit.comp = None THEN <<[rule |-> <<hit.ref, None>>, spots |-> <<>>]>> ELSE <<>>
    ELSE LET directs == SetToSeq(hit.directs)
         IN  [d \in 1 .. Len(directs) |->
                [rule |-> <<hit.ref, hit.comp>>, spots |-> <<directs[d]>>]]
ScaRun(current, hits) ==
    [tool |-> "xray",
     results |-> (IF current = None THEN <<>> ELSE current.results)
                 \o FlattenSeq([h \in 1 .. Len(hits) |-> ScaResults(hits[h])])]

\* Code scanning refuses results without locations: patchResults drops them.
PatchResults(results) == SelectSeq(results, LAMBDA r : r.spots # <<>>)
Patched(run) == [tool |-> run.tool, results |-> PatchResults(run.results)]

\* Runs of another tool than the first run of the kind are skipped.
CombineJasRuns(current, runs) ==
    FoldLeft(LAMBDA into, run :
        CASE into = None -> Patched(run)
          [] into # None /\ into.tool # run.tool -> into
          [] OTHER -> [into EXCEPT !.results = @ \o Patched(run).results],
        current, runs)

RunsOf(target) ==
    SelectSeq(<<IF target.sca = None THEN None ELSE Patched(target.sca)>>
              \o [k \in 1 .. Len(Kinds) |-> target.jas[Kinds[k]]], LAMBDA r : r # None)
Flush(s) ==
    IF s.target = None THEN s
    ELSE [s EXCEPT !.runs = @ \o RunsOf(s.target), !.target = None]
CombineBySameTool(runs) ==
    [tool \in {runs[r].tool : r \in 1 .. Len(runs)} |->
        ResultsOf(SelectSeq(runs, LAMBDA r : r.tool = tool))]

--------------------------------------------------------------------------
(* CycloneDX: components and issues are looked up by reference first.      *)

\* getOrCreateScaIssue: an issue that is there stays as it is, affects included.
GetOrCreateScaIssues(b, t) ==
    FoldLeft(LAMBDA doc, hit :
        [doc EXCEPT !.components = @ \cup ({hit.comp} \ {None}),
                    !.issues = @ @@ (hit.ref :> {h.comp : h \in
                        UNION {ToSet(t.issues[i].hits) : i \in {j \in 1 .. Len(t.issues) :
                            t.issues[j].ref = hit.ref}}})],
        b, ForEachScaBomVulnerability(t))
\* ParseScanGraphVulnerabilityToSbom and getOrCreateJasIssue with
\* AddFileIssueAffects: what is affected is added to the issue.
Affect(doc, ref, comps) ==
    [doc EXCEPT !.components = @ \cup comps,
                !.issues = (ref :> ((IF ref \in DOMAIN @ THEN @[ref] ELSE {}) \cup comps)) @@ @]

--------------------------------------------------------------------------
(* The stream.                                                             *)

Current == case.targets[at]
HasInformation(t) ==
    \/ \E k \in ToSet(Kinds) : ResultsOf(t.jas[k]) # <<>>
    \/ t.sca /\ (t.issues # <<>> \/ t.licensed # {} \/ \E r \in ToSet(t.old) : r # <<>>)

\* PrintScanResults: with errors that are not to be skipped and no information
\* nothing is printed.  Reset puts the command's own errors into the simple JSON.
PrintScanResults ==
    /\ stage = "print"
    /\ LET targets == ToSet(case.targets)
       IN  stage' = IF (case.errors > 0 \/ \E t \in targets : t.errors > t.skipped)
                       /\ ~\E t \in targets : HasInformation(t)
                    THEN "silent" ELSE "target"
    /\ simple' = IF stage' = "target" THEN [simple EXCEPT !.errors = case.errors] ELSE simple
    /\ UNCHANGED <<case, ask, at, sbomRows, sarif, bom, summary>>

\* A target that is not asked for is skipped.
SkipTarget ==
    /\ stage = "target" /\ at <= Len(case.targets)
    /\ ~Current.included
    /\ at' = at + 1
    /\ UNCHANGED <<case, ask, stage, simple, sbomRows, sarif, bom, summary>>

\* The summary closes a scan and opens the next.
NextScan(s, name) ==
    [s EXCEPT !.scans = IF s.current = NoScan THEN @ ELSE Append(@, s.current),
              !.current = [name |-> name, sca |-> 0, violations |-> 0,
                           jas |-> [k \in ToSet(Kinds) |-> 0]]]

\* ParseSbom: the components join the document; those of unknown relation are
\* not in the table.
SbomInBom(doc, t) == [doc EXCEPT !.components = @ \cup t.libraries]
SbomTable(t) == SetToSeq(t.related)
TargetErrors(s, t) == [s EXCEPT !.errors = @ + t.errors]

ParseNewTargetResults ==
    /\ stage = "target" /\ at <= Len(case.targets)
    /\ Current.included
    /\ simple' = TargetErrors(simple, Current)
    /\ sarif' = [Flush(sarif) EXCEPT !.target = FreshTarget]
    /\ bom' = IF ask.sbom /\ Current.sca THEN SbomInBom(bom, Current) ELSE bom
    /\ sbomRows' = IF ask.sbom /\ Current.sca THEN sbomRows \o SbomTable(Current) ELSE sbomRows
    /\ summary' = NextScan(summary, Current.name)
    /\ stage' = "sca"
    /\ UNCHANGED <<case, ask, at>>

--------------------------------------------------------------------------
(* What each parser makes of the findings of a target.                     *)

ScaRows(old, new) == old \o new
LicenceRows(t) == IF ask.licences THEN SetToSeq(t.licensed) ELSE <<>>
\* The SARIF run of the target exists once its issues were parsed.
ScaInSarif(s, t, old, new) ==
    IF t.old = <<>> /\ t.issues = <<>> THEN s ELSE [s EXCEPT !.target.sca = ScaRun(@, old \o new)]
ScaInBom(doc, t, old) ==
    GetOrCreateScaIssues(FoldLeft(LAMBDA d, hit : Affect(d, hit.ref, {hit.comp} \ {None}), doc, old), t)
\* The summary counts an issue once for each parse, unless the SCA failed.
ScaCount(t, new) ==
    Cardinality({h.ref : h \in ToSet(new)})
    + MapThenSumSet(LAMBDA r : Cardinality({t.old[r][i].ref : i \in 1 .. Len(t.old[r])}), 1 .. Len(t.old))

SourceCodeRow(kind, issue) == [kind |-> kind] @@ issue
JasRows(t) ==
    FlattenSeq([k \in 1 .. Len(Kinds) |->
        LET found == ForEachJasIssue(JasRuns(t, Kinds[k]))
        IN  [i \in 1 .. Len(found) |-> SourceCodeRow(Kinds[k], found[i])]])
JasInSarif(s, t) ==
    [s EXCEPT !.target.jas = [k \in ToSet(Kinds) |-> CombineJasRuns(@[k], JasRuns(t, k))]]
\* CycloneDX keeps the SAST runs as they are unless it is told to parse them.  A
\* finding without a place affects the file of the empty path, which is None here.
JasInBom(doc, t) ==
    FoldLeft(LAMBDA each, k : FoldLeft(LAMBDA d, i : Affect(d, i.rule, {i.spot}), each,
                                       ForEachJasIssue(JasRuns(t, k))),
             [doc EXCEPT !.sast = IF ask.parseSast THEN @ ELSE @ \o JasRuns(t, "sast")],
             SelectSeq(Kinds, LAMBDA k : k # "sast" \/ ask.parseSast))
\* An issue without a location is not counted.
JasCount(t, k) == Len(SelectSeq(ForEachJasIssue(JasRuns(t, k)), LAMBDA i : i.spot # None))

\* SARIF does not show operational risks.
ViolationsInSarif(v) ==
    [tool |-> "policy", results |-> FlattenSeq([h \in 1 .. Len(v.sca) |-> ScaResults(v.sca[h])])
        \o [j \in 1 .. Len(v.jas) |-> [rule |-> v.jas[j].rule, spots |-> v.jas[j].spots]]]
ViolationCount(v) == Len(v.sca) + Len(SelectSeq(v.jas, LAMBDA j : j.spots # <<>>))
\* The summary adds all violations to the scan of the last target and fails if
\* no target was parsed.
CountViolations(s, v) ==
    CASE s.current = NoScan -> [s EXCEPT !.failed = TRUE]
      [] s.current # NoScan /\ (~ask.violations \/ case.violationsFailed) -> s
      [] OTHER -> [s EXCEPT !.current.violations = ViolationCount(v)]

--------------------------------------------------------------------------
\* parseScaResults: the deprecated responses first, then the issues of the BOM,
\* then its licences.
ParseScaResults ==
    /\ stage = "sca"
    /\ LET t == Current
           wanted == t.sca /\ ask.scaRequested
           old == FlattenSeq([r \in 1 .. Len(t.old) |-> ForEachScanGraphVulnerability(t.old[r])])
           new == ForEachScaBomVulnerability(t)
           all == wanted /\ ask.vulnerabilities
       IN  /\ simple' = [simple EXCEPT !.rows = IF all THEN @ \o ScaRows(old, new) ELSE @,
                                       !.licences = IF wanted THEN @ \o LicenceRows(t) ELSE @]
           /\ sarif' = IF all THEN ScaInSarif(sarif, t, old, new) ELSE sarif
           /\ bom' = IF all THEN ScaInBom(bom, t, old) ELSE bom
           /\ summary' = IF all /\ ~case.scaFailed
                         THEN [summary EXCEPT !.current.sca = ScaCount(t, new)] ELSE summary
    /\ stage' = IF case.entitled THEN "jas" ELSE "target"
    /\ at' = IF case.entitled THEN at ELSE at + 1
    /\ UNCHANGED <<case, ask, sbomRows>>

\* parseJasResults: the five kinds in order.
ParseJasResults ==
    /\ stage = "jas"
    /\ IF ask.vulnerabilities
       THEN /\ simple' = [simple EXCEPT !.jas = @ \o JasRows(Current)]
            /\ sarif' = JasInSarif(sarif, Current)
            /\ bom' = JasInBom(bom, Current)
            /\ summary' = [summary EXCEPT !.current.jas =
                    [k \in ToSet(Kinds) |-> @[k] + JasCount(Current, k)]]
       ELSE UNCHANGED <<simple, sarif, bom, summary>>
    /\ stage' = "target" /\ at' = at + 1
    /\ UNCHANGED <<case, ask, sbomRows>>

\* parseViolations, which CycloneDX does not show.
ParseViolations ==
    /\ stage = "target" /\ at > Len(case.targets)
    /\ LET v == case.violations
       IN  IF (ask.violations \/ case.violationContext) /\ v # None /\ case.targets # <<>>
           THEN /\ simple' = [simple EXCEPT !.violations = v.sca, !.jasViolations = v.jas]
                /\ sarif' = IF case.violationsFailed THEN sarif
                            ELSE [sarif EXCEPT !.violations = ViolationsInSarif(v)]
                /\ summary' = CountViolations(summary, v)
           ELSE UNCHANGED <<simple, sarif, summary>>
    /\ stage' = "get"
    /\ UNCHANGED <<case, ask, at, sbomRows, bom>>

\* Get flushes the last target, adds the violations and combines the runs.  The
\* table has one row for the violations of several watches, with the context of
\* the first.
Get ==
    /\ stage = "get"
    /\ sarif' = LET flushed == Flush(sarif)
                    last == IF flushed.violations = None \/ flushed.violations.results = <<>> THEN <<>>
                            ELSE <<Patched(flushed.violations)>>
                IN  [flushed EXCEPT !.runs = @ \o last]
    /\ simple' = [simple EXCEPT
            !.unique = RemoveScaDuplications(simple.rows, case.multipleTargets),
            !.uniqueViolations = RemoveScaDuplications(simple.violations, case.multipleTargets)]
    /\ summary' = [NextScan(summary, None) EXCEPT !.current = NoScan]
    /\ stage' = "converted"
    /\ UNCHANGED <<case, ask, at, sbomRows, bom>>

ConvNext == \/ PrintScanResults \/ SkipTarget \/ ParseNewTargetResults \/ ParseScaResults
            \/ ParseJasResults \/ ParseViolations \/ Get

ConvSpec == ConvInit /\ [][ConvNext]_convVars /\ WF_convVars(ConvNext)
--------------------------------------------------------------------------
(* Properties.                                                             *)

Shown == {i \in 1 .. Len(case.targets) : case.targets[i].included}
Asked(t) == t.sca /\ ask.scaRequested /\ ask.vulnerabilities
OldIssues(t) == UNION {ToSet(r) : r \in ToSet(t.old)}
IssuesOf(t) == ToSet(t.issues) \cup OldIssues(t)
\* The hits of some issues that every format owes the reader of a target.
HitsIn(t, found) ==
    IF ~Asked(t) THEN {}
    ELSE UNION {{[ref |-> i.ref] @@ h : h \in {g \in ToSet(i.hits) : g.comp \in t.libraries}} : i \in found}
Hits(t) == HitsIn(t, IssuesOf(t))
\* The issues the CycloneDX document has when it comes to the BOM of a target.
Before(i) ==
    UNION {{issue.ref : issue \in IssuesOf(case.targets[j])} : j \in {k \in Shown : k < i /\ Asked(case.targets[k])}}
    \cup {issue.ref : issue \in OldIssues(case.targets[i])}
\* The located results of a kind that are not merely informational.
Spots(t, kind) ==
    UNION {UNION {{<<r.rule, s>> : s \in ToSet(r.spots)} :
        r \in {q \in ToSet(t.jas[kind][n].results) : ~q.informational}} : n \in 1 .. Len(t.jas[kind])}
Document == CombineBySameTool(sarif.runs)
InSarif(tool, rule, spot) ==
    tool \in DOMAIN Document /\ \E r \in ToSet(Document[tool]) : r.rule = rule /\ spot \in ToSet(r.spots)

\* A row of the table stands for a hit.
RowOf(row, h) ==
    /\ row.ref = h.ref /\ row.comp = h.comp
    /\ h.directs \subseteq row.directs /\ row.fixes \subseteq h.fixes
\* A hit is in the table with every direct component that leads to it and in the
\* SARIF once for each of them.
HitReported(h) ==
    /\ \E row \in ToSet(simple.unique) : RowOf(row, h)
    /\ \A d \in h.directs : InSarif("xray", <<h.ref, h.comp>>, d)
\* The BOM says that the issue affects the component; for an issue that was in
\* the document before the target's BOM only that both exist.
HitInBom(i, h) ==
    /\ h.ref \in DOMAIN bom.issues /\ h.comp \in bom.components
    /\ \/ h.comp \in bom.issues[h.ref]
       \/ h.ref \in Before(i) /\ h \notin HitsIn(case.targets[i], OldIssues(case.targets[i]))

\* A located finding of a scanner is in the rows and, if the run's tool is that
\* of the first run of its kind, in the SARIF; grouping keeps one SAST result
\* for a rule and place.
SpotReported(t, kind) ==
    LET first == t.jas[kind][1]
    IN  /\ kind # "sast" => \A s \in Spots(t, kind) :
            /\ \E row \in ToSet(simple.jas) : row.kind = kind /\ <<row.rule, row.spot>> = s
            /\ s[1] \in DOMAIN bom.issues /\ s[2] \in bom.issues[s[1]]
        /\ t.jas[kind] # <<>> => \A r \in ToSet(first.results) :
            r.spots # <<>> => InSarif(first.tool, r.rule, Head(r.spots))

\* conversion: whatever the format, no finding of a target that was asked for is
\* lost, be it of an earlier target, of the last one, or seen twice; a finding
\* has one row in the table and one SARIF result for each direct component of
\* each target; each violation is in the row of its issue and component; and the
\* summary has a scan for each target.  The exception is the CycloneDX document,
\* which keeps the components an issue affects as it first has it: another
\* component that the BOM of a later target names is there, but not affected.
FormatsAgree ==
    stage = "converted" =>
        /\ \A i \in Shown : \A h \in Hits(case.targets[i]) : HitReported(h) /\ HitInBom(i, h)
        /\ \A v \in ToSet(simple.violations) : \E row \in ToSet(simple.uniqueViolations) : RowOf(row, v)
        /\ case.entitled /\ ask.vulnerabilities =>
            \A i \in Shown, k \in ToSet(Kinds) : SpotReported(case.targets[i], k)
        /\ \A a, b \in 1 .. Len(simple.unique) : a # b => simple.unique[a].key # simple.unique[b].key
        /\ ~case.entitled => simple.jas = <<>> /\ DOMAIN Document \subseteq {"xray", "policy"}
        /\ Len(summary.scans) = Cardinality(Shown)

ConvTypes ==
    /\ stage \in {"print", "target", "sca", "jas", "get", "converted", "silent"}
    /\ at \in 1 .. Len(case.targets) + 1
    /\ stage \in {"sca", "jas"} => at <= Len(case.targets) /\ sarif.target # None
=============================================================================
