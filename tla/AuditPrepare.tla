---------------------------- MODULE AuditPrepare ----------------------------
(***************************************************************************)
(* Before the scan phase of `jf audit` (commands/audit/audit.go): the      *)
(* results context, entitlements and required software, the generator of   *)
(* bills of materials, the targets of the old flow (technologies found in  *)
(* working directories) and of the new flow (modules of the configuration  *)
(* profile), a bill of materials per target, the scan strategy, and which  *)
(* scans RunAudit then starts.  It ends where AuditScans begins.           *)
(*                                                                         *)
(* Whether a scan is asked for is decided in several places, some before   *)
(* and some after the targets know the modules of the profile.  Secrets    *)
(* stand for the scans of Advanced Security.                               *)
(***************************************************************************)
EXTENDS Naturals, FiniteSets

CONSTANTS
    Audited,    \* the command lines, profiles and directories considered
    Absent      \* no profile, no technology, no place

VARIABLES
    asked,      \* the command
    prep,       \* the next step
    context,    \* what the results are about
    entitled,   \* to Advanced Security
    checked,    \* the required software was found
    generator,  \* "idle" or "ready"
    plugin,     \* the executable of the Xray library is on this machine
    general,    \* GeneralErrors: pairs of a cause and whether it is skipped
    targets,    \* what to scan, with its modules and its bill of materials
    launched    \* the pairs of a scan and a target that RunAudit starts

apVars == <<asked, prep, context, entitled, checked, generator, plugin, general, targets, launched>>

\* asked:
\*   scans      ScansToPerform, empty for all     sbom     IncludeSbom
\*   newFlow    the generator is the Xray library snippet  IncludeSnippetDetection
\*   profile    Absent, or the modules of the configuration profile
\*   failAny    FailUponAnyScannerError           partial  --allow-partial-results
\*   guard      DetectedTechnologiesGuardCallback is set
\*   violating  watches, a repository path or a project    git  a clone URL
\*   vulnerabilities  IncludeVulnerabilities      excluded  the root, by the user
\*   dirs       the working directories; found is Absent after an error, or pairs of a
\*              technology and the place of its descriptors
CalculatedAllowPartialResults ==
    asked.partial \/ (asked.profile # Absent /\ ~asked.failAny)

PrepInit ==
    /\ asked \in Audited
    /\ prep = "context"
    /\ context = [vulnerabilities |-> FALSE, git |-> FALSE]
    /\ entitled = FALSE /\ checked = FALSE
    /\ generator = "idle"
    /\ plugin \in IF asked.newFlow THEN BOOLEAN ELSE {FALSE}
    /\ general = {} /\ targets = {} /\ launched = {}

Failed(t) == t.sbom = "failed"
\* GetErrors is nil: what was met may be skipped.
NoErrors == /\ \A e \in general : e[2]
            /\ (\E t \in targets : Failed(t)) => CalculatedAllowPartialResults

-----------------------------------------------------------------------------
(* Who asked for a scan.                                                   *)

FlagsAsk(scan) == asked.scans = {} \/ scan \in asked.scans
\* IsScanRequestedByCentralConfig, of some modules: a Boolean, or Absent.
CentralAsks(scan, modules) ==
    IF modules = {} THEN Absent ELSE \E m \in modules : scan \in m.scans
IsScanRequested(scan, modules) ==
    IF modules = {} THEN FlagsAsk(scan) ELSE CentralAsks(scan, modules)
Known(ts) == UNION {t.modules : t \in ts}
IsJASRequested(ts) == IsScanRequested("secrets", Known(ts))
\* The flags go before the profile when a scan is about to start.
shouldRunScan(scan, t) == FlagsAsk(scan) /\ (t.modules = {} \/ CentralAsks(scan, t.modules))

Snippets ==
    asked.snippet \/ (asked.profile # Absent /\ \E m \in asked.profile : m.snippet)

\* A bill of materials is generated by the profile before the flags.
shouldGenerateSbom(t) ==
    \/ asked.sbom \/ "sca" \in asked.scans
    \/ t.modules # {} /\ CentralAsks("sca", t.modules)
    \/ t.modules = {} /\ asked.scans = {}

\* Faulty variant: an SBOM that is only asked for gets no generator.
ScaNeedsGenerator == FlagsAsk("sca")
\* prepareToScan decides before there is a target.
NeedsGenerator == asked.sbom \/ IsScanRequested("sca", Known(targets))

-----------------------------------------------------------------------------
(* Context, entitlements, generator.                                       *)

\* CreateAuditResultsContext: the repository's URL is kept if the platform
\* answers and has watches for it, or the user named watches or a project.
CreateContext ==
    /\ prep = "context"
    /\ \E kept \in IF asked.git THEN BOOLEAN ELSE {FALSE} :
          context' = [git |-> kept,
                      vulnerabilities |-> asked.vulnerabilities \/ ~(asked.violating \/ kept)]
    /\ prep' = "init"
    /\ UNCHANGED <<asked, entitled, checked, generator, plugin, general, targets, launched>>

\* A step of the preparation fails, and the preparation returns.
Fails(cause, skip) == general' = general \cup {<<cause, skip>>} /\ prep' = "start"
Goes(next) == prep' = next /\ UNCHANGED general

\* Server, entitlement, software, and snippets without the entitlement.
initAuditCmdResults ==
    /\ prep = "init"
    /\ entitled' \in BOOLEAN
    /\ \/ Fails("init", FALSE) /\ UNCHANGED checked
       \/ /\ Snippets => entitled'
          /\ checked' = (entitled' /\ IsJASRequested(targets))
          /\ Goes("options")
    /\ UNCHANGED <<asked, context, generator, plugin, targets, launched>>

getScanLogicOptions ==
    /\ prep = "options"
    /\ Fails("options", CalculatedAllowPartialResults) \/ Goes("generator")
    /\ UNCHANGED <<asked, context, entitled, checked, generator, plugin, targets, launched>>

\* The Xray library is downloaded unless it is there; the generator of the
\* old flow has nothing to prepare.
PrepareGenerator ==
    /\ prep = "generator"
    /\ \/ NeedsGenerator /\ generator' = "ready" /\ plugin' = asked.newFlow /\ Goes("detect")
       \/ /\ NeedsGenerator /\ asked.newFlow
          /\ Fails("generator", CalculatedAllowPartialResults) /\ UNCHANGED <<generator, plugin>>
       \/ ~NeedsGenerator /\ Goes("detect") /\ UNCHANGED <<generator, plugin>>
    /\ UNCHANGED <<asked, context, entitled, checked, targets, launched>>

-----------------------------------------------------------------------------
(* Targets.                                                                *)

createScanTarget(dir, place, tech, modules) ==
    [dir |-> dir, place |-> place, tech |-> tech, modules |-> modules, sbom |-> "unset"]

Included == {d \in asked.dirs : d.exists /\ ~d.excluded}

\* One target per module, or one for the root; an excluded root needs a
\* directory that is included by name.
createScanTargetsFromConfigs ==
    IF asked.profile = Absent
    THEN IF asked.excluded /\ Included = {} THEN {}
         ELSE {createScanTarget("root", Absent, Absent, {})}
    ELSE {createScanTarget(m.root, Absent, Absent, {m}) :
            m \in {n \in asked.profile : ~n.excluded \/ n.includes # {}}}

\* Dotnet is found with NuGet and scanned once.
DetectedIn(d) ==
    IF d.found = Absent THEN {}
    ELSE {createScanTarget(d.name, f[2], f[1], {}) : f \in {g \in d.found : g[1] # "dotnet"}}
\* A directory without a target of its own gets one for the other scanners.
OrWhole(d) == IF DetectedIn(d) = {} THEN {createScanTarget(d.name, Absent, Absent, {})} ELSE DetectedIn(d)
detectScaTargetsFromTechnologies == UNION {OrWhole(d) : d \in Included}

\* Every target gets every module.
matchCentralConfigModulesForOldFlow(ts) ==
    IF asked.profile = Absent THEN ts ELSE {[t EXCEPT !.modules = asked.profile] : t \in ts}

\* The old flow reads the first module before it looks whether there is one.
Panics == ~asked.newFlow /\ asked.profile = {}

\* Neither a working directory nor an apps config that cannot be read stops
\* the preparation, but their errors are never skipped.
detectScanTargets ==
    /\ prep = "detect"
    /\ prep' = "guard"
    /\ \/ general' = general \cup {<<"cwd", FALSE>>} /\ UNCHANGED targets
       \/ asked.newFlow /\ targets' = createScanTargetsFromConfigs /\ UNCHANGED general
       \/ /\ ~asked.newFlow /\ ~Panics
          /\ targets' = matchCentralConfigModulesForOldFlow(detectScaTargetsFromTechnologies)
          /\ UNCHANGED general \/ general' = general \cup {<<"apps", FALSE>>}
    /\ UNCHANGED <<asked, context, entitled, checked, generator, plugin, launched>>

Crash == /\ prep = "detect" /\ Panics
         /\ prep' = "crashed"
         /\ UNCHANGED <<asked, context, entitled, checked, generator, plugin, general, targets, launched>>

\* The caller's check of the technologies: its error is never skipped, and no
\* bill of materials is generated.
AskGuard ==
    /\ prep = "guard"
    /\ \/ /\ asked.guard
          /\ general' = general \cup {<<"guard", FALSE>>} /\ prep' = "strategy"
       \/ Goes("sboms")
    /\ UNCHANGED <<asked, context, entitled, checked, generator, plugin, targets, launched>>

-----------------------------------------------------------------------------
(* Bills of materials, strategy, scans.                                    *)

Unset == {t \in targets : t.sbom = "unset"}
\* An executable that is not there cannot be run.
Generated == IF asked.newFlow /\ ~plugin THEN {"failed"} ELSE {"failed", "empty", "made"}

GenerateSbomForTarget ==
    /\ prep = "sboms" /\ Unset # {}
    /\ LET t == CHOOSE u \in Unset : TRUE
       IN  \E sbom \in IF shouldGenerateSbom(t) THEN Generated ELSE {"none"} :
              targets' = (targets \ {t}) \cup {[t EXCEPT !.sbom = sbom]}
    /\ UNCHANGED <<asked, prep, context, entitled, checked, generator, plugin, general, launched>>

SbomsDone == /\ prep = "sboms" /\ Unset = {}
             /\ Goes("strategy")
             /\ UNCHANGED <<asked, context, entitled, checked, generator, plugin, targets, launched>>

PrepareStrategy ==
    /\ prep = "strategy"
    /\ Fails("strategy", CalculatedAllowPartialResults) \/ Goes("start")
    /\ UNCHANGED <<asked, context, entitled, checked, generator, plugin, targets, launched>>

\* addJasScansToRunner and addScaScansToRunner.
RunAudit ==
    /\ prep = "start"
    /\ prep' = IF NoErrors THEN "scanning" ELSE "ended"
    /\ launched' = IF ~NoErrors THEN {} ELSE
          {<<"sca", t>> : t \in {u \in targets : shouldRunScan("sca", u) /\ u.sbom = "made"}} \cup
          {<<"secrets", t>> : t \in {u \in targets : /\ entitled /\ IsJASRequested(targets)
                                                     /\ shouldRunScan("secrets", u)}}
    /\ UNCHANGED <<asked, context, entitled, checked, generator, plugin, general, targets>>

PrepNext ==
    \/ CreateContext \/ initAuditCmdResults \/ getScanLogicOptions \/ PrepareGenerator
    \/ detectScanTargets \/ Crash \/ AskGuard \/ GenerateSbomForTarget \/ SbomsDone
    \/ PrepareStrategy \/ RunAudit

PrepSpec == PrepInit /\ [][PrepNext]_apVars

-----------------------------------------------------------------------------

Before == {"context", "init", "options", "generator", "detect", "crashed"}
Causes == {"init", "options", "generator", "cwd", "apps", "guard", "strategy"}

PrepTypes ==
    /\ prep \in Before \cup {"guard", "sboms", "strategy", "start", "scanning", "ended"}
    /\ DOMAIN context = {"vulnerabilities", "git"}
    /\ generator \in {"idle", "ready"}
    /\ general \subseteq Causes \X BOOLEAN
    /\ \A t \in targets : /\ DOMAIN t = {"dir", "place", "tech", "modules", "sbom"}
                          /\ t.sbom \in {"unset", "none", "failed", "empty", "made"}
    /\ launched \subseteq {"sca", "secrets"} \X targets

\* The flags leave SCA out, but the profile asks for it: the generator is not
\* prepared, and yet used.
OnlyByProfile(t) == ~asked.sbom /\ ~FlagsAsk("sca") /\ CentralAsks("sca", t.modules) = TRUE
\* What is used was prepared: no scan starts without the generator it needs, or
\* without the entitlement and the software it needs, no bill of materials is
\* generated by a generator that was not prepared (except when only the profile
\* asks for it), and once the caller refused the technologies nothing is
\* generated or scanned, whatever may be skipped.
PreparedBeforeUse ==
    /\ \A s \in launched : IF s[1] = "sca" THEN generator = "ready" ELSE entitled /\ checked
    /\ \A t \in targets : t.sbom \notin {"unset", "none"} => generator = "ready" \/ OnlyByProfile(t)
    /\ (\E e \in general : e[1] = "guard") =>
          launched = {} /\ prep # "scanning" /\ \A t \in targets : t.sbom = "unset"

\* What was asked for is scanned or its failure is on record: every directory
\* that exists and is not excluded has a target, every target that SCA is asked
\* for has a bill of materials, and the results are about vulnerabilities or
\* violations.
AskedIsScanned ==
    prep = "scanning" =>
        /\ context.vulnerabilities \/ context.git \/ asked.violating
        /\ ~asked.newFlow /\ general = {} => \A d \in Included : \E t \in targets : t.dir = d.name
        /\ \A t \in targets :
              shouldRunScan("sca", t) =>
                 \/ t.sbom \in {"made", "empty"}
                 \/ Failed(t) /\ CalculatedAllowPartialResults

-----------------------------------------------------------------------------
(* Why they hold: an inductive invariant.                                  *)

Refused == <<"guard", FALSE>> \in general

\* What an error that is never skipped leaves behind.
ErrorsKnown ==
    /\ prep \in {"context", "init"} => general = {}
    /\ \A c \in {"init", "guard"} : <<c, TRUE>> \notin general
    /\ Refused => prep \in {"strategy", "start", "ended"} /\ \A t \in targets : t.sbom = "unset"
ContextKnown == prep # "context" => context.vulnerabilities \/ context.git \/ asked.violating
SoftwareKnown ==
    prep \in {"context", "init"} \/ <<"init", FALSE>> \in general
    \/ checked = (entitled /\ FlagsAsk("secrets"))
\* The decision of NeedsGenerator, which no target can change any more.
GeneratorKnown ==
    /\ prep \in Before => targets = {}
    /\ prep = "detect" \/ targets # {} => generator = "ready" \/ ~(asked.sbom \/ FlagsAsk("sca"))
SbomsKnown ==
    /\ \A t \in targets : t.sbom # "unset" => (t.sbom # "none" <=> shouldGenerateSbom(t))
    /\ prep = "guard" => \A t \in targets : t.sbom = "unset"
    /\ prep \in {"strategy", "start"} => Refused \/ \A t \in targets : t.sbom # "unset"
TargetsKnown ==
    prep \notin Before /\ general = {} /\ ~asked.newFlow =>
        \A d \in Included : \E t \in targets : t.dir = d.name
ScansKnown ==
    /\ prep # "scanning" => launched = {}
    /\ prep = "scanning" => NoErrors /\ \A t \in targets : t.sbom # "unset"
    /\ \A s \in launched : IF s[1] = "sca" THEN FlagsAsk("sca") /\ s[2].sbom = "made"
                          ELSE entitled /\ FlagsAsk("secrets")

PrepInv ==
    /\ PrepTypes /\ ErrorsKnown /\ ContextKnown /\ SoftwareKnown /\ GeneratorKnown /\ SbomsKnown
    /\ TargetsKnown /\ ScansKnown
=============================================================================
