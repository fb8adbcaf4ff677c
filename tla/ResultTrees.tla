---------------------------- MODULE ResultTrees ----------------------------
(***************************************************************************)
(* The bill of materials of one target and what is read back from it       *)
(* (utils/results/common.go, utils/formats/cdxutils): dependency trees are *)
(* written down as components and dependencies, in a diff scan what the    *)
(* other results know is excluded, the trees are grown again for the scan, *)
(* Xray's issues become vulnerabilities of components, the contextual      *)
(* analysis gives each CVE a status, and the rows of the report name the   *)
(* direct dependencies that bring a component in.                          *)
(*                                                                         *)
(* A component is a number; numbers stand in the order of the references.  *)
(***************************************************************************)
EXTENDS Naturals, Integers, Sequences, FiniteSets, SequencesExt

CONSTANTS
    Forests,        \* sequences of trees [id, nodes]
    Boms,           \* bills of materials of Xray-lib, which mark roots and hold files
    Others,         \* what the results to compare with contain: sets of components
    Answers,        \* Xray's issues: sequences of [id, cves, comps, sound]
    Scans,          \* the contextual analysis: sequences of functions from CVEs to statuses
    EvidenceFile,   \* the file in which an applicable CVE is used
    DefaultRoot,    \* the component "root" some technologies put on top
    Cap,            \* MaxUniqueAppearances
    MaxInt8         \* the largest value of the int8 that counts appearances

ASSUME CapAssumption == Cap \in Nat \ {0, 1} /\ MaxInt8 \in Nat /\ MaxInt8 > Cap

VARIABLES
    bom,        \* [comps, deps, listed, marked, files, meta]; listed: deps is there, be it empty
    compared,   \* the components that were excluded
    forest,     \* the trees that were grown: the paths from a root to a node
    grown,      \* component -> how often its dependencies were followed
    issues,     \* the issues that are left to convert
    answer,     \* all of Xray's issues
    vulns,      \* the vulnerabilities: reference -> [id, affects, status]
    scans,      \* the runs of the contextual analysis
    rows,       \* the rows of the report
    stage       \* "idle", "built", "grow", "issues", "context", "rows" or "done"

resultVars == <<bom, compared, forest, grown, issues, answer, vulns, scans, rows, stage>>

NoBom == [comps |-> <<>>, deps |-> <<>>, listed |-> FALSE, marked |-> {}, files |-> {}, meta |-> DefaultRoot]
NoComp == -1

ResultInit ==
    /\ bom = NoBom /\ compared = {} /\ forest = {} /\ grown = <<>> /\ issues = <<>> /\ answer = <<>>
    /\ vulns = <<>> /\ scans = <<>> /\ rows = {} /\ stage = "idle"

-----------------------------------------------------------------------------
(* Reading a bill of materials.                                            *)

Comps(b) == ToSet(b.comps)
Entries(b) == {b.deps[i].ref : i \in DOMAIN b.deps}
DependsOn(b, ref) == UNION {b.deps[i].on : i \in {j \in DOMAIN b.deps : b.deps[j].ref = ref}}

\* A top of the dependencies is a root; the default root hands its place on,
\* and the described directory gives way to its children that have entries.
PotentialRoots(b, ref, skip) ==
    (IF ref = DefaultRoot /\ skip THEN DependsOn(b, ref) \cap (Entries(b) \cup Comps(b)) ELSE {})
    \cup (IF ref \in Comps(b) \ b.files THEN {ref}
          ELSE IF ref = b.meta THEN DependsOn(b, ref) \cap Entries(b) ELSE {})

Roots(b, skip) ==
    LET depended == UNION {b.deps[i].on : i \in DOMAIN b.deps}
        tops     == UNION {PotentialRoots(b, ref, skip) : ref \in Entries(b) \ depended}
    IN  IF b.comps = <<>> THEN {}
        ELSE IF b.marked # {} THEN b.marked
        ELSE IF tops # {} THEN tops
        ELSE Comps(b) \ (b.files \cup Entries(b))

\* Parents in the order of the entries.
Parents(b, c) ==
    LET above == SelectSeq(b.deps, LAMBDA e : c \in e.on /\ e.ref \in Comps(b))
    IN  [i \in DOMAIN above |-> above[i].ref]

Relation(b, c) ==
    IF c \notin Comps(b) \ b.files THEN "unknown"
    ELSE IF c \in Roots(b, TRUE) THEN "root"
    ELSE IF Parents(b, c) = <<>> \/ ToSet(Parents(b, c)) \cap Roots(b, TRUE) # {} THEN "direct"
    ELSE "transitive"

-----------------------------------------------------------------------------
(* Trees to a bill of materials: the first node met with an id counts.     *)

RECURSIVE Visit(_, _)
Visit(node, b) ==
    IF node.id \in Comps(b) THEN b
    ELSE FoldLeft(LAMBDA acc, n : Visit(n, acc),
                  [b EXCEPT !.comps = Append(@, node.id),
                            !.deps  = IF node.nodes = <<>> THEN @
                                      ELSE Append(@, [ref |-> node.id, on |-> {n.id : n \in ToSet(node.nodes)}])],
                  node.nodes)

DepsTreeToSbom(f) ==
    /\ stage = "idle"
    /\ LET read == FoldLeft(LAMBDA acc, tree : Visit(tree, acc), NoBom, f)
       IN  bom' = [read EXCEPT !.listed = read.deps # <<>>]
    /\ stage' = "built"
    /\ UNCHANGED <<compared, forest, grown, issues, answer, vulns, scans, rows>>

ReadBom(b) ==
    /\ stage = "idle"
    /\ bom' = b
    /\ stage' = "built"
    /\ UNCHANGED <<compared, forest, grown, issues, answer, vulns, scans, rows>>

\* The diff scan: what the other results know goes, with its entry, except a
\* root; a library that nothing mentions any more goes too.  Without results to
\* compare with (others = {}) all of it stays.
Without(b, gone) ==
    LET deps  == SelectSeq([i \in DOMAIN b.deps |-> [b.deps[i] EXCEPT !.on = @ \ gone]], LAMBDA e : e.ref \notin gone)
        named == {deps[i].ref : i \in DOMAIN deps} \cup UNION {deps[i].on : i \in DOMAIN deps}
    IN  [b EXCEPT !.deps  = SelectSeq(deps, LAMBDA e : e.on # {}),
                  !.comps = SelectSeq(@, LAMBDA c : c \in b.files \cup named)]

Exclude(others) ==
    /\ stage = "built"
    /\ LET index == Roots(bom, FALSE)
           gone  == {c \in others \cap Comps(bom) : c \in bom.files \/ c \notin index}
       IN  bom' = IF others = {} \/ bom.comps = <<>> \/ bom.deps = <<>> THEN bom ELSE Without(bom, gone)
    /\ compared' = IF bom.deps = <<>> THEN {} ELSE others
    /\ stage' = "grow"
    /\ UNCHANGED <<forest, grown, issues, answer, vulns, scans, rows>>

-----------------------------------------------------------------------------
(* The trees for the scan.                                                 *)

\* An int8.
Plus1(n) == IF n = MaxInt8 THEN -MaxInt8 - 1 ELSE n + 1

\* Faulty variant: the node is compared with itself as well.
HasLoopWithItself(path) == \E i \in 1..Len(path) : path[i] = Last(path)

HasLoop(path) == \E i \in 1..(Len(path) - 1) : path[i] = Last(path)

\* A node whose component has appeared too often is a leaf.
RECURSIVE Grow(_, _, _)
Grow(b, path, acc) ==
    LET ref  == Last(path)
        app  == [acc.app EXCEPT ![ref] = Plus1(@)]
        stop == app[ref] >= Cap \/ HasLoop(path)
        here == [paths |-> acc.paths \cup {path}, app |-> app,
                 grown |-> IF stop THEN acc.grown ELSE [acc.grown EXCEPT ![ref] = @ + 1]]
    IN  IF stop THEN here
        ELSE FoldLeft(LAMBDA a, d : Grow(b, Append(path, d), a), here,
                      SetToSortSeq(DependsOn(b, ref), LAMBDA x, y : x < y))

\* The roots come out of a set: in any order.  Without a list of dependencies
\* there are no trees, be there components.
BomToFullTree ==
    /\ stage = "grow"
    /\ \E order \in SetToSeqs(Roots(bom, FALSE)) :
          LET known == Comps(bom) \cup Entries(bom) \cup UNION {bom.deps[i].on : i \in DOMAIN bom.deps}
              zero  == [c \in known |-> 0]
              end   == FoldLeft(LAMBDA a, r : Grow(bom, <<r>>, a), [paths |-> {}, app |-> zero, grown |-> zero], order)
          IN  /\ forest' = IF bom.listed THEN end.paths ELSE {}
              /\ grown' = IF bom.listed THEN end.grown ELSE zero
    /\ stage' = "issues"
    /\ UNCHANGED <<bom, compared, issues, answer, vulns, scans, rows>>

BomToFlatTree(b) == Comps(b) \ b.files

-----------------------------------------------------------------------------
(* Xray's issues become vulnerabilities.                                   *)

ScanAnswers(a) ==
    /\ stage = "issues" /\ answer = <<>>
    /\ answer' = a /\ issues' = a
    /\ UNCHANGED <<bom, compared, forest, grown, vulns, scans, rows, stage>>

Refs(issue) == IF issue.cves = {} THEN {issue.id} ELSE issue.cves

\* GetOrCreateScaIssue keeps the issue that came first with a reference.
Merged(issue) ==
    [ref \in DOMAIN vulns \cup Refs(issue) |->
        IF ref \notin Refs(issue) THEN vulns[ref]
        ELSE IF ref \in DOMAIN vulns THEN [vulns[ref] EXCEPT !.affects = @ \cup issue.comps]
        ELSE [id |-> issue.id, affects |-> issue.comps, status |-> "none"]]

\* A component the bill of materials does not hold is added to it.  An issue
\* whose severity cannot be read is an error, the others are kept.
ParseIssue ==
    /\ stage = "issues" /\ issues # <<>>
    /\ LET issue == Head(issues) IN
        /\ vulns' = IF issue.sound THEN Merged(issue) ELSE vulns
        /\ bom' = IF issue.sound THEN [bom EXCEPT !.comps = @ \o SetToSeq(issue.comps \ Comps(bom))] ELSE bom
    /\ issues' = Tail(issues)
    /\ UNCHANGED <<compared, forest, grown, answer, scans, rows, stage>>

IssuesParsed ==
    /\ stage = "issues" /\ answer # <<>> /\ issues = <<>>
    /\ stage' = "context"
    /\ UNCHANGED <<bom, compared, forest, grown, issues, answer, vulns, scans, rows>>

-----------------------------------------------------------------------------
(* The contextual analysis.                                                *)

\* Faulty variant: the first status that is not an error decides.
FirstApplicabilityStatus(statuses) ==
    LET actual == SelectSeq(statuses, LAMBDA s : s # "notScanned")
    IN  IF actual = <<>> THEN "notCovered" ELSE actual[1]

GetFinalApplicabilityStatus(statuses) ==
    LET actual == SelectSeq(statuses, LAMBDA s : s # "notScanned")
        found  == ToSet(actual)
    IN  CASE actual = <<>>              -> "notCovered"
          [] Len(actual) = 1            -> actual[1]
          [] "applicable" \in found     -> "applicable"
          [] "undetermined" \in found   -> "undetermined"
          [] "missingContext" \in found -> "missingContext"
          [] found = {"notApplicable"}  -> "notApplicable"
          [] OTHER                      -> "notCovered"

\* A run says nothing about a CVE for which it has no rule.
StatusesOf(ref, runs) == [i \in DOMAIN runs |-> IF ref \in DOMAIN runs[i] THEN runs[i][ref] ELSE "notScanned"]

\* A vulnerability that affects no component of the target is visited as well.
Visited(v) == v.affects = {} \/ v.affects \cap (Comps(bom) \ bom.files) # {}

\* A scan has results where it finds the CVE applicable.
EvidenceOf(ref, runs) == IF "applicable" \in ToSet(StatusesOf(ref, runs)) THEN {EvidenceFile} ELSE {}

\* The files of the evidence join the components, and are affected.
EnrichSbomWithApplicability(runs) ==
    LET told  == {ref \in DOMAIN vulns : runs # <<>> /\ bom.comps # <<>> /\ Visited(vulns[ref])}
        files == UNION {EvidenceOf(ref, runs) : ref \in told}
    IN  /\ stage = "context"
        /\ scans' = runs
        /\ vulns' = [ref \in DOMAIN vulns |->
                        IF ref \notin told THEN vulns[ref]
                        ELSE [vulns[ref] EXCEPT !.status = GetFinalApplicabilityStatus(StatusesOf(ref, runs)),
                                                !.affects = @ \cup EvidenceOf(ref, runs)]]
        /\ bom' = [bom EXCEPT !.comps = @ \o SetToSeq(files \ Comps(bom)), !.files = @ \cup files]
        /\ stage' = "rows"
        /\ UNCHANGED <<compared, forest, grown, issues, answer, rows>>

-----------------------------------------------------------------------------
(* The rows: which direct dependencies bring a component in.               *)

\* One path per parent: the chains of its own parents are put in front of it.
RECURSIVE ParentPath(_, _, _)
ParentPath(b, c, app) ==
    FoldLeft(LAMBDA acc, p :
                IF acc.app[p] > Cap \/ p = c THEN acc
                ELSE LET above == ParentPath(b, p, acc.app)
                     IN  [path |-> above.path \o acc.path, app |-> above.app],
             [path |-> <<c>>, app |-> [app EXCEPT ![c] = @ + 1]], Parents(b, c))

BuildImpactPath(b, c) ==
    FoldLeft(LAMBDA acc, p : LET above == ParentPath(b, p, acc.app)
                             IN  [paths |-> acc.paths \cup {Append(above.path, c)}, app |-> above.app],
             [paths |-> {}, app |-> [x \in Comps(b) |-> 0]], Parents(b, c)).paths

\* The first direct dependency of each path.
FirstDirect(path) ==
    LET direct == SelectSeq(path, LAMBDA x : Relation(bom, x) = "direct")
    IN  IF direct = <<>> THEN {} ELSE {direct[1]}

DirectComponents(c) ==
    IF Relation(bom, c) \in {"root", "direct"} THEN {c} ELSE UNION {FirstDirect(p) : p \in BuildImpactPath(bom, c)}

RowsOf(ref) ==
    LET v == vulns[ref]
    IN  IF v.affects = {} THEN {[ref |-> ref, comp |-> NoComp, status |-> v.status, direct |-> {}]}
        ELSE {[ref |-> ref, comp |-> c, status |-> v.status, direct |-> DirectComponents(c)] :
                 c \in v.affects \cap (Comps(bom) \ bom.files)}

ParseCVEs ==
    /\ stage = "rows"
    /\ rows' = IF bom.comps = <<>> THEN {} ELSE UNION {RowsOf(ref) : ref \in DOMAIN vulns}
    /\ stage' = "done"
    /\ UNCHANGED <<bom, compared, forest, grown, issues, answer, vulns, scans>>

ResultNext ==
    \/ stage = "idle" /\ \E f \in Forests : DepsTreeToSbom(f)
    \/ stage = "idle" /\ \E b \in Boms : ReadBom(b)
    \/ \E others \in Others : Exclude(others)
    \/ BomToFullTree
    \/ stage = "issues" /\ answer = <<>> /\ \E a \in Answers : ScanAnswers(a)
    \/ ParseIssue \/ IssuesParsed
    \/ \E runs \in Scans : EnrichSbomWithApplicability(runs)
    \/ ParseCVEs

-----------------------------------------------------------------------------
(* Properties.                                                             *)

\* The variables range over the values the code gives them.
ResultTypes ==
    /\ stage \in {"idle", "built", "grow", "issues", "context", "rows", "done"}
    /\ \A ref \in DOMAIN vulns : vulns[ref].status \in
          {"none", "applicable", "undetermined", "missingContext", "notApplicable", "notCovered"}

RECURSIVE ReachedFrom(_, _)
ReachedFrom(b, set) ==
    LET more == set \cup UNION {DependsOn(b, c) : c \in set}
    IN  IF more = set THEN set ELSE ReachedFrom(b, more)

\* Every dependency that hangs on a root is in a tree that is scanned, however
\* often a package is met and whichever root comes first, and no package is
\* followed more often than its cap, as long as its counter has not wrapped.
\* What the trees show is in the flat list of packages as well.
TreesComplete ==
    stage = "issues" /\ answer = <<>> =>
        LET edges == {<<p[Len(p) - 1], p[Len(p)]>> : p \in {q \in forest : Len(q) > 1}}
        IN  /\ edges = UNION {{<<c, d>> : d \in DependsOn(bom, c)} : c \in ReachedFrom(bom, Roots(bom, FALSE))}
            /\ \A c \in DOMAIN grown : Cardinality({p \in forest : Last(p) = c}) <= MaxInt8 => grown[c] < Cap
            /\ {Last(p) : p \in forest} \subseteq BomToFlatTree(bom) \cup bom.files

\* A diff scan looks at nothing the other results know, except a root and files.
DiffOnlyNew == stage = "grow" => Comps(bom) \cap compared \subseteq bom.files \cup Roots(bom, FALSE)

\* Each readable issue of Xray is in the report for each of its components,
\* or without one if it has none, and nothing else is.  The exception is an
\* issue without components that is found applicable: the file of the evidence
\* is all it affects, so it has no row.
Pairs(issue) == Refs(issue) \X (IF issue.comps = {} THEN {NoComp} ELSE issue.comps)
ReportComplete ==
    stage = "done" =>
        LET told == UNION {Pairs(answer[i]) : i \in {j \in DOMAIN answer : answer[j].sound}}
            seen == {<<r.ref, r.comp>> : r \in rows}
            unhit == {x \in told : \A y \in told : y[1] = x[1] => y[2] = NoComp}
        IN  /\ seen \subseteq told
            /\ bom.comps # <<>> =>
                 \A x \in told : x[2] # NoComp \/ (x \in unhit /\ EvidenceOf(x[1], scans) = {}) => x \in seen

\* A row calls a CVE harmless only when no run says otherwise, and applicable
\* exactly when one does.
StatusCautious ==
    \A r \in rows : LET said == ToSet(StatusesOf(r.ref, scans)) \ {"notScanned"} IN
        /\ r.status = "applicable" <=> "applicable" \in said
        /\ r.status = "notApplicable" => said = {"notApplicable"}

\* The direct dependencies of a row are direct and bring the component in; a
\* component that hangs on a root has one.
DirectRight ==
    \A r \in rows : r.comp # NoComp =>
        /\ \A d \in r.direct : Relation(bom, d) \in {"direct", "root"} /\ r.comp \in ReachedFrom(bom, {d})
        /\ r.comp \in ReachedFrom(bom, Roots(bom, TRUE)) => r.direct # {}

\* What goes to the scan is what hangs on the roots, less what is known.
TreesRight == TreesComplete /\ DiffOnlyNew

\* The rows of the report are Xray's issues, with a cautious status and with
\* the direct dependencies they come from.
RowsRight == ReportComplete /\ StatusCautious /\ DirectRight

=============================================================================
