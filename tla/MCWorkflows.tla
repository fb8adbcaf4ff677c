----------------------------- MODULE MCWorkflows ------------------------------
(* What surrounds the scanners, for TLC: the dependency trees are built by    *)
(* the package managers (builders) and read from their lock files (graphs),   *)
(* become a bill of materials that is enriched with Xray's answer (results),  *)
(* give policy violations (policy), and are converted to the formats          *)
(* (conversion); a finding is fixed in the descriptors (update).  And the     *)
(* Advanced Security scans: the analyzer manager is installed and started     *)
(* (manager) and runs each scan (scanner).  Before all of it, the audit is    *)
(* prepared (prepare).  One of the modules moves in each behaviour, as `part` *)
(* says.                                                                      *)
EXTENDS AuditPrepare, ResultTrees, AnalyzerManager, JasScan, PackageUpdaters, DepTreeBuilders,
        PolicyReport, TLC

CONSTANTS NoPackage, None

VARIABLES
    part,
    lock, manager, trees, flat, relations, lockStep,                    \* DependencyGraphs
    command, ask, at, call, simple, sbomRows, sarif, document, summary  \* ResultConversion

graphVars   == <<lock, manager, trees, flat, relations, lockStep>>
convVars    == <<command, ask, at, call, simple, sbomRows, sarif, document, summary>>

-----------------------------------------------------------------------------
(* Dependency trees: each technology alone, and with a second one.           *)

BuilderLists ==
    {<<t>> : t \in {"pip", "pipenv", "poetry", "uv", "cargo", "yarn", "pnpm", "npm", "nuget", "maven",
                    "gradle", "go", "gem", "conan", "swift", "cocoapods", "docker", "huggingface"}}
    \cup {<<"pip", "npm">>, <<"nuget", "go">>, <<"cocoapods", "maven">>}

-----------------------------------------------------------------------------
(* Lock files: forks a1 and a2, a workspace member lib, cycles, packages     *)
(* that a listing leaves out, exact declarations.                            *)

Packages == {"app", "lib", "pip", "a1", "a2", "b"}
Names == [p \in Packages |-> IF p \in {"a1", "a2"} THEN "a" ELSE p]
Ranged(n) == [name |-> n, exact |-> NoPackage]
Exactly(p) == [name |-> Names[p], exact |-> p]
LockFiles ==
    {[needs |-> [p \in Packages |-> CASE p = "app" -> app [] p = "lib" -> lib [] p = "a1" -> a1
                                      [] p = "a2" -> {Exactly("b")} [] p = "b" -> b [] OTHER -> {}],
      listed |-> listed, rooted |-> o[1], scoped |-> o[2], declared |-> o[3]] :
        app \in {{Ranged("a")}, {Exactly("a1"), Ranged("lib")}, {Exactly("b")}, {}},
        lib \in {{}, {Exactly("a2")}, {Exactly("b")}},
        a1 \in {{}, {Ranged("b")}, {Ranged("a")}},
        b \in {{}, {Ranged("a")}, {Exactly("a1")}},
        listed \in {Packages, Packages \ {"a1"}, {"app", "lib", "pip", "a1", "a2"}},
        o \in {<<TRUE, FALSE, {}>>, <<FALSE, TRUE, {}>>, <<TRUE, FALSE, {Exactly("b"), Ranged("a")}>>}}
DepGraphs == INSTANCE DependencyGraphs WITH
    Package <- Packages, NameOf <- Names, Locks <- LockFiles, rows <- relations, step <- lockStep

-----------------------------------------------------------------------------
(* Results: diamonds, a loop, a loop through the root, several modules, a    *)
(* default root, a component with more parents than Cap and MaxInt8 take.    *)

N(i, nodes) == [id |-> i, nodes |-> nodes]
L(i) == N(i, <<>>)
ForestInputs == {
    <<N(1, <<N(2, <<L(4)>>), N(3, <<N(4, <<>>)>>)>>)>>,
    <<N(1, <<N(2, <<N(3, <<L(2)>>)>>), L(3)>>)>>,
    <<N(1, <<N(2, <<L(1)>>)>>)>>,
    <<N(1, <<N(3, <<L(4)>>)>>), N(2, <<N(3, <<L(4)>>), L(4)>>)>>,
    <<N(0, <<N(1, <<N(3, <<N(4, <<L(5)>>)>>)>>), N(2, <<N(4, <<L(5)>>), L(3)>>)>>)>>,
    <<N(1, <<N(2, <<N(5, <<L(6)>>)>>), N(3, <<N(5, <<L(6)>>)>>), N(4, <<N(5, <<L(6)>>)>>),
             N(5, <<L(6)>>)>>)>>,
    <<L(1)>>, <<>>}
On(ref, on) == [ref |-> ref, on |-> on]
PluginBoms == {
    [comps |-> <<9, 1, 2, 3>>, deps |-> <<On(9, {1, 2}), On(1, {3})>>, listed |-> TRUE, marked |-> {}, files |-> {9}, meta |-> 9],
    [comps |-> <<1, 2, 3, 4>>, deps |-> <<On(1, {2}), On(2, {3}), On(3, {2, 4})>>, listed |-> TRUE, marked |-> {1},
     files |-> {}, meta |-> 9],
    [comps |-> <<1, 2>>, deps |-> <<>>, listed |-> FALSE, marked |-> {}, files |-> {}, meta |-> 9],
    [comps |-> <<1, 2>>, deps |-> <<>>, listed |-> TRUE, marked |-> {}, files |-> {}, meta |-> 9]}
Compared == {{}, {3}, {2, 3}, {1, 2, 4}}
Issue(i, cves, comps, sound) == [id |-> i, cves |-> cves, comps |-> comps, sound |-> sound]
XrayAnswers == {
    <<Issue("x1", {"c1"}, {4}, TRUE), Issue("x2", {"c1", "c2"}, {3, 7}, TRUE)>>,
    <<Issue("x1", {}, {}, TRUE), Issue("x2", {"c2"}, {2}, FALSE), Issue("x3", {"c2"}, {1, 5}, TRUE)>>,
    <<Issue("x1", {"c1"}, {}, TRUE), Issue("x2", {"c1"}, {5, 6, 4}, TRUE), Issue("x3", {"c2"}, {}, TRUE)>>}
Applicability == {"applicable", "undetermined", "missingContext", "notApplicable", "notCovered", "notScanned"}
ContextScans == {<<>>} \cup {<<("c1" :> a), ("c1" :> b @@ "c2" :> a)>> : a, b \in Applicability}

-----------------------------------------------------------------------------
(* Policy: one or two targets; violations of each kind with policies that    *)
(* skip what is not applicable or fail the build, or have no policy.         *)

Rule(skip, fail) == [skip |-> skip, fail |-> fail]
Policies == {{Rule(TRUE, TRUE)}, {Rule(TRUE, TRUE), Rule(FALSE, TRUE)},
             {Rule(TRUE, TRUE), Rule(FALSE, FALSE)}, {}}
Violation(id, type, cves, comps, policies) ==
    [id |-> id, type |-> type, cves |-> cves, comps |-> comps, policies |-> policies,
     finding |-> "leak", sound |-> id # "odd"]
ScannedTarget(comps, affected, applicability, findings, sca, license) ==
    [comps |-> comps, vulns |-> {[id |-> "cve", affects |-> a] : a \in affected},
     applicability |-> [c \in {"cve"} |-> applicability], findings |-> findings, sca |-> sca,
     violating |-> {}, licenses |-> [c \in {"x", "y"} |-> license]]
Watched ==
    [enforcer |-> FALSE, upload |-> FALSE, repo |-> TRUE, git |-> FALSE, context |-> TRUE, watches |-> 1,
     partial |-> FALSE, fail |-> TRUE, allowed |-> {}, targets |-> <<>>, response |-> <<>>]
Enforced == [Watched EXCEPT !.enforcer = TRUE, !.upload = TRUE]
\* Xray reports the violations of the uploaded BOM.
Responses ==
    {<<Violation("s", "security", {"cve"}, {"x", "z"}, p)>> : p \in Policies} \cup
    {<<Violation("l", "license", {}, {"x"}, {Rule(FALSE, TRUE)}), Violation("u", "unknown", {}, {}, {})>>,
     <<Violation("e", "exposure", {}, {}, {Rule(FALSE, FALSE)}), Violation("o", "opRisk", {}, {"z"}, {})>>}
UploadedTargets ==
    {ScannedTarget(c, v, a, {"leak"}, {}, "mit") :
        c \in {{"x"}, {"x", "y"}}, v \in {{}, {{"x"}}, {{}}}, a \in {"applicable", "notApplicable"}}
EnforcerCases ==
    {[Enforced EXCEPT !.targets = <<a, b>>, !.response = r] :
        a \in UploadedTargets, b \in {u \in UploadedTargets : "y" \notin u.comps}, r \in Responses} \cup
    {[Enforced EXCEPT !.upload = u, !.context = u, !.git = TRUE, !.repo = h, !.partial = p, !.watches = 2] :
        u \in BOOLEAN, h \in BOOLEAN, p \in BOOLEAN}
\* The scan responses hold the violations, or the allowed licences find them.
LocalTargets ==
    {ScannedTarget({"x"}, {}, a, {}, sca, "gpl") :
        a \in {"applicable", "notApplicable"},
        sca \in {{Violation("s", "security", {"cve"}, {"x"}, p)} : p \in Policies} \cup
                {{Violation("odd", "security", {"cve"}, {"x"}, {}),
                  Violation("l", "license", {}, {"root", "x"}, {Rule(FALSE, TRUE)})}}}
LocalCases ==
    {[Watched EXCEPT !.partial = p, !.allowed = l,
        !.targets = <<a, [b EXCEPT !.violating = {Violation("j", "secrets", {}, {}, {})}]>>] :
        p \in BOOLEAN, l \in {{}, {"mit"}}, a \in LocalTargets, b \in LocalTargets}
PolicyCases == EnforcerCases \cup LocalCases

-----------------------------------------------------------------------------
(* Conversion: an issue in two targets and in two responses of one target,   *)
(* hits without a direct component or outside the BOM, an issue that hits    *)
(* another component in a later target, scanners that report                 *)
(* in several runs, targets that are not asked for.                          *)

Hit(comp, fixes, directs, paths) == [comp |-> comp, fixes |-> fixes, directs |-> directs, paths |-> paths]
Finding(ref, hits) == [ref |-> ref, hits |-> hits]
Shared == Finding("cve1", <<Hit("a", {1, 2}, {"a"}, <<<<"r1", "a">>>>),
                            Hit("b", {}, {"a", "c"}, <<<<"r1", "a", "b">>, <<"r1", "c", "b">>>>)>>)
Again  == Finding("cve1", <<Hit("a", {2}, {"b"}, <<<<"r2", "b", "a">>>>)>>)
Unhit  == Finding("cve2", <<>>)
Stray  == Finding("cve2", <<Hit("c", {1}, {}, <<>>), Hit("file", {}, {}, <<>>)>>)
Single == Finding("cve2", <<Hit("b", {1}, {"b"}, <<<<"r1", "b">>>>)>>)
\* The issue of Single hits one component more.
Wider  == Finding("cve2", <<Single.hits[1], Hit("c", {1}, {"c"}, <<<<"r2", "c">>>>)>>)
Spotted(rule, spots, informational) == [rule |-> rule, spots |-> spots, informational |-> informational]
ToolRun(tool, found) == [tool |-> tool, results |-> found]
NoJas == [k \in {"secrets", "services", "iac", "sast", "malicious"} |-> <<>>]
SecretsAndSast ==
    [NoJas EXCEPT !["secrets"] = <<ToolRun("exp", <<Spotted("R1", <<"f1">>, FALSE), Spotted("R2", <<>>, FALSE)>>),
                                   ToolRun("exp", <<Spotted("R1", <<"f2">>, FALSE)>>)>>,
                  !["sast"] = <<ToolRun("usaf", <<Spotted("S1", <<"f1">>, FALSE),
                                                  Spotted("S1", <<"f1", "f2">>, FALSE)>>)>>]
IacAndMalicious ==
    [NoJas EXCEPT !["iac"] = <<ToolRun("iac", <<Spotted("C1", <<"f1", "f2">>, FALSE), Spotted("C2", <<"f3">>, TRUE)>>),
                               ToolRun("other", <<Spotted("C1", <<"f4">>, FALSE)>>)>>,
                  !["malicious"] = <<ToolRun("mal", <<Spotted("M1", <<"f1">>, FALSE)>>)>>]
Target(name, found, jas) ==
    [name |-> name, included |-> TRUE, errors |-> 0, skipped |-> 0, sca |-> TRUE, old |-> <<>>, issues |-> found,
     libraries |-> {"a", "b", "c"}, licensed |-> {"a"}, related |-> {"a", "b"}, jas |-> jas]
TargetLists == {
    <<>>,
    <<[Target("t1", <<>>, NoJas) EXCEPT !.errors = 1, !.licensed = {}]>>,
    <<Target("t1", <<Shared, Stray>>, SecretsAndSast),
      [Target("t2", <<Again, Unhit>>, IacAndMalicious) EXCEPT !.errors = 1, !.skipped = 1]>>,
    <<[Target("t1", <<>>, IacAndMalicious) EXCEPT !.old = <<<<Shared>>, <<Shared, Single>>>>],
      [Target("t2", <<Again>>, SecretsAndSast) EXCEPT !.included = FALSE],
      [Target("t3", <<>>, SecretsAndSast) EXCEPT !.sca = FALSE]>>,
    <<[Target("t1", <<Again>>, SecretsAndSast) EXCEPT !.included = FALSE]>>,
    <<Target("t1", <<Single>>, NoJas),
      [Target("t2", <<Wider>>, SecretsAndSast) EXCEPT !.old = <<<<Shared>>>>]>>}
Violated(watch, hit) == [ref |-> "cve1", watch |-> watch] @@ hit
PolicyResults == {None, [sca |-> <<Violated("w1", Again.hits[1]), Violated("w2", Shared.hits[1])>>,
                         jas |-> <<Spotted("R1", <<"f1">>, FALSE), Spotted("R2", <<>>, FALSE)>>]}
Commands ==
    {c \in [targets : TargetLists, errors : {0, 1}, entitled : BOOLEAN, scaFailed : BOOLEAN,
            violations : PolicyResults, violationContext : BOOLEAN, violationsFailed : {FALSE},
            multipleTargets : BOOLEAN] : c.multipleTargets => Len(c.targets) > 1}
Parameters ==
    [vulnerabilities : BOOLEAN, licences : {TRUE}, sbom : BOOLEAN, scaRequested : BOOLEAN,
     violations : BOOLEAN, parseSast : BOOLEAN]
Conversion == INSTANCE ResultConversion WITH
    Cases <- Commands, Asks <- Parameters, case <- command, stage <- call, bom <- document

-----------------------------------------------------------------------------
(* Updates: up to two descriptors, vendored or not, with relative evidence   *)
(* paths in nested directories, known to git or not.                         *)

Descriptor(relative, nested, depends, tracked) ==
    [name |-> "descriptor", vendored |-> FALSE, coordinate |-> FALSE, relative |-> relative,
     nested |-> nested, depends |-> depends, hasLock |-> TRUE, tracked |-> tracked]
Plain == {Descriptor(r, n, d, t) : r, n, d, t \in BOOLEAN}
Usual == Descriptor(FALSE, TRUE, TRUE, TRUE)
Odd == {[Usual EXCEPT !.vendored = TRUE], [Usual EXCEPT !.coordinate = TRUE, !.relative = TRUE],
        [Usual EXCEPT !.name = "lock"],
        [Usual EXCEPT !.relative = TRUE, !.hasLock = FALSE, !.tracked = FALSE]}
Evidence == {{}} \cup {{a} : a \in Plain \cup Odd}
            \cup {{a, b} : a \in Plain, b \in Odd \cup {p \in Plain : p.depends /\ p.tracked}}
FixRequests ==
    [tech : {"npm", "pnpm", "go", "maven", "docker"}, direct : {TRUE}, evidence : Evidence] \cup
    [tech : {"npm", "go"}, direct : {FALSE}, evidence : {{a} : a \in Odd}] \cup
    [tech : {"pip", "poetry", "pipenv"}, direct : BOOLEAN,
     evidence : {{Descriptor(TRUE, FALSE, d, TRUE)} : d \in BOOLEAN}]

-----------------------------------------------------------------------------
(* Scanners: two workers, several targets; results to compare with, a scan   *)
(* with nothing to do, one that is not asked for, all targets on one worker. *)

JasTask(kind, target) ==
    [kind |-> kind, target |-> target, profile |-> "none", excluded |-> FALSE, nothing |-> FALSE,
     compare |-> FALSE, thirdParty |-> FALSE, deprecated |-> FALSE, flags |-> {}, central |-> {}, module |-> {},
     findings |-> [suppressed : BOOLEAN, severity : {1, 2}]]
JasCommand(tasks) == [malicious |-> FALSE, url |-> TRUE, dump |-> FALSE, severity |-> 0, scans |-> tasks]
JasJobs == {
    JasCommand(<<JasTask("secrets", "a"), [JasTask("secrets", "b") EXCEPT !.profile = "on", !.central = {"x"}],
                 [JasTask("secrets", "c") EXCEPT !.excluded = TRUE]>>),
    [JasCommand(<<[JasTask("sast", "a") EXCEPT !.compare = TRUE, !.flags = {"x"}],
                  [JasTask("sast", "b") EXCEPT !.compare = TRUE, !.deprecated = TRUE, !.module = {"y"}],
                  [JasTask("sast", "c") EXCEPT !.nothing = TRUE]>>)
        EXCEPT !.severity = 2, !.dump = TRUE],
    JasCommand(<<[JasTask("applicability", "a") EXCEPT !.thirdParty = TRUE],
                 [JasTask("applicability", "b") EXCEPT !.nothing = TRUE], JasTask("iac", "c"),
                 [JasTask("applicability", "d") EXCEPT !.profile = "off"]>>),
    JasCommand(<<[JasTask("applicability", "a") EXCEPT !.thirdParty = TRUE],
                 [JasTask("applicability", "b") EXCEPT !.thirdParty = TRUE]>>),
    [JasCommand(<<JasTask("malicious", "a"), JasTask("malicious", "b")>>) EXCEPT !.malicious = TRUE],
    [JasCommand(<<>>) EXCEPT !.url = FALSE],
    [JasCommand(<<>>) EXCEPT !.url = FALSE, !.malicious = TRUE]}

-----------------------------------------------------------------------------
(* The analyzer manager: two scans and a server share a home, in one or two  *)
(* versions, which differ by name only: the first scan asks for v1.          *)

ManagerUsers == {"scan1", "scan2", "server"}
ManagerVersions == {"v1", "v2"}
ManagerRequests ==
    {[p \in ManagerUsers |-> [version |-> v[p], server |-> p = "server", timed |-> t]] :
        v \in {w \in [ManagerUsers -> ManagerVersions] : w["scan1"] = "v1"}, t \in BOOLEAN}

-----------------------------------------------------------------------------
(* Preparation: flags and profiles that agree or not, directories with       *)
(* technologies, with none, with one that is not scanned, missing, excluded. *)

ProfileModule(root, asks, snippet, excluded, includes) ==
    [root |-> root, scans |-> asks, snippet |-> snippet, excluded |-> excluded, includes |-> includes]
ProfileLists ==
    {None, {}} \cup {{ProfileModule(".", a, FALSE, FALSE, {})} : a \in SUBSET {"sca", "secrets"}} \cup
    {{ProfileModule(".", {"secrets"}, FALSE, TRUE, {}), ProfileModule("svc", {"sca"}, TRUE, TRUE, {"src"})}}
WorkDir(name, found) == [name |-> name, exists |-> TRUE, excluded |-> FALSE, found |-> found]
DirLists ==
    {{WorkDir("a", {<<"npm", "a1">>, <<"npm", "a2">>}), [WorkDir("b", {<<"go", "b1">>}) EXCEPT !.excluded = TRUE]},
     {WorkDir("a", {<<"nuget", "a1">>, <<"dotnet", "a1">>}), WorkDir("b", {})},
     {WorkDir("a", None), [WorkDir("b", {}) EXCEPT !.exists = FALSE]},
     {WorkDir("a", {<<"pip", None>>})}}
Audit(flow, dirs) ==
    [scans : {{}, {"sca"}, {"secrets"}}, sbom : BOOLEAN, newFlow : {flow}, snippet : {FALSE},
     profile : ProfileLists, failAny : {TRUE}, partial : BOOLEAN, guard : {TRUE},
     violating : {FALSE}, git : {TRUE}, vulnerabilities : {FALSE}, excluded : {FALSE}, dirs : dirs]
Audits ==
    Audit(TRUE, {{WorkDir("a", {})}}) \cup Audit(FALSE, DirLists) \cup
    {[a EXCEPT !.guard = FALSE, !.failAny = FALSE, !.snippet = s, !.excluded = TRUE, !.vulnerabilities = ~s, !.git = g, !.violating = v] :
        a \in {b \in Audit(TRUE, {{}, {WorkDir("a", {})}}) : b.scans = {} /\ ~b.sbom /\ ~b.partial},
        s \in BOOLEAN, g \in BOOLEAN, v \in BOOLEAN}

-----------------------------------------------------------------------------
(* The parts.                                                              *)

Parts == {"builders", "graphs", "results", "policy", "conversion", "update", "scanner", "manager", "prepare"}
\* The command stops where its part ends.
Ended(p) ==
    CASE p = "builders"   -> phase = "done"
      [] p = "graphs"     -> lockStep \in {"done", "refused"}
      [] p = "results"    -> stage = "done"
      [] p = "policy"     -> moment = "done"
      [] p = "conversion" -> call \in {"converted", "silent"}
      [] p = "update"     -> step \in {"fixed", "failed", "unsupported"}
      [] p = "scanner"    -> progress \in {"ended", "refused"}
      [] p = "manager"    -> \A u \in ManagerUsers : doing[u] \in {"done", "failed"}
      [] p = "prepare"    -> prep \in {"scanning", "ended", "crashed"}
Rests(p) ==
    CASE p = "builders"   -> UNCHANGED treeVars
      [] p = "graphs"     -> UNCHANGED graphVars
      [] p = "results"    -> UNCHANGED resultVars
      [] p = "policy"     -> UNCHANGED prVars
      [] p = "conversion" -> UNCHANGED convVars
      [] p = "update"     -> UNCHANGED updVars
      [] p = "scanner"    -> UNCHANGED jasVars
      [] p = "manager"    -> UNCHANGED managerVars
      [] p = "prepare"    -> UNCHANGED apVars

\* Inputs vary only in the part that moves.
AnyOf(S, p) == IF part = p THEN S ELSE {CHOOSE x \in S : TRUE}
Init ==
    /\ part \in Parts
    /\ command \in AnyOf(Commands, "conversion") /\ ask \in AnyOf(Parameters, "conversion")
    /\ fix \in AnyOf(FixRequests, "update")
    /\ job \in AnyOf(JasJobs, "scanner") /\ request \in AnyOf(ManagerRequests, "manager")
    /\ asked \in AnyOf(Audits, "prepare")
    /\ TreesInit /\ DepGraphs!GraphsInit /\ ResultInit /\ PolicyInit
    /\ Conversion!ConvInit /\ UpdInit /\ JasInit /\ ManagerInit
    /\ PrepInit
vars == <<part, treeVars, graphVars, resultVars, prVars, convVars, updVars, jasVars, managerVars,
          apVars>>

AllElse == /\ \A p \in Parts \ {part} : Rests(p)
        /\ UNCHANGED part
BuildTrees  == part = "builders"   /\ AllElse /\ TreesNext
ReadLocks   == part = "graphs"     /\ AllElse /\ DepGraphs!GraphsNext
MakeResults == part = "results"    /\ AllElse /\ ResultNext
Enforce     == part = "policy"     /\ AllElse /\ PolicyNext
Convert     == part = "conversion" /\ AllElse /\ Conversion!ConvNext
Update      == part = "update"     /\ AllElse /\ UpdNext
Scan        == part = "scanner"    /\ AllElse /\ JasNext
RunManager  == part = "manager"    /\ AllElse /\ ManagerNext
PrepareScan == part = "prepare"    /\ AllElse /\ PrepNext
Stop        == Ended(part) /\ UNCHANGED vars
Next == BuildTrees \/ ReadLocks \/ MakeResults \/ Enforce \/ Convert \/ Update \/ Scan \/ RunManager \/ PrepareScan
        \/ Stop
Spec == Init /\ [][Next]_vars

-----------------------------------------------------------------------------
(* Properties: each module states its own.                                 *)

\* Every variable of the part that moves keeps its type, and DepTreeBuilders, PolicyReport,
\* PackageUpdaters, JasScan, AnalyzerManager and AuditPrepare their inductive invariants; the
\* other parts stay in an initial state.
WorkflowTypes ==
    CASE part = "builders"   -> TreesTypeOK /\ FailuresInv
      [] part = "graphs"     -> DepGraphs!GraphsTypeOK
      [] part = "results"    -> ResultTypes
      [] part = "policy"     -> PolicyInv
      [] part = "conversion" -> Conversion!ConvTypes
      [] part = "update"     -> UpdInv
      [] part = "scanner"    -> JasInv
      [] part = "manager"    -> ManagerInv
      [] part = "prepare"    -> PrepInv

\* The flat list holds what the lock file asks for.
ListIsExact == DepGraphs!ListIsExact
\* A verdict is traced to each direct dependency that brings the package.
RelationsComplete == DepGraphs!RelationsComplete
\* No finding is lost in a format.
FormatsAgree == Conversion!FormatsAgree
=============================================================================
