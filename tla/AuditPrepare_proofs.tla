------------------------ MODULE AuditPrepare_proofs ------------------------
(***************************************************************************)
(* Proofs about AuditPrepare, for any command lines, profiles and          *)
(* directories, and about DepTreeBuilders, for any technologies of a       *)
(* target.                                                                 *)
(***************************************************************************)
EXTENDS AuditPrepare, DepTreeBuilders, SequenceTheorems, TLAPS

\* Nothing was done yet.
LEMMA PrepInitInv == PrepInit => PrepInv
  BY DEF PrepInit, PrepInv, PrepTypes, Before, ErrorsKnown, Refused, ContextKnown, SoftwareKnown,
         GeneratorKnown, SbomsKnown, TargetsKnown, ScansKnown

\* Before there is a target, nobody knows a module: the flags decide.
LEMMA FlagsDecide == ASSUME targets = {}, NEW scan
                     PROVE  IsScanRequested(scan, Known(targets)) = FlagsAsk(scan)
<1>1. Known(targets) = {}
  BY DEF Known
<1> QED
  BY <1>1 DEF IsScanRequested

\* The record of a target that a bill of materials was generated for.
LEMMA SbomSet ==
    ASSUME NEW t, DOMAIN t = {"dir", "place", "tech", "modules", "sbom"}, NEW made
    PROVE  LET u == [t EXCEPT !.sbom = made]
           IN  /\ DOMAIN u = DOMAIN t /\ u.sbom = made
               /\ u.dir = t.dir /\ u.modules = t.modules
  OBVIOUS

\* The same for the modules.
LEMMA ModulesSet ==
    ASSUME NEW t, DOMAIN t = {"dir", "place", "tech", "modules", "sbom"}, NEW modules
    PROVE  LET u == [t EXCEPT !.modules = modules]
           IN  DOMAIN u = DOMAIN t /\ u.sbom = t.sbom /\ u.dir = t.dir
  OBVIOUS

\* Each new target is about one directory and has no bill of materials yet.
LEMMA TargetIs ==
    ASSUME NEW dir, NEW place, NEW tech, NEW modules
    PROVE  LET t == createScanTarget(dir, place, tech, modules)
           IN  /\ DOMAIN t = {"dir", "place", "tech", "modules", "sbom"}
               /\ t.sbom = "unset" /\ t.dir = dir
  BY DEF createScanTarget

\* The new flow makes such targets.
LEMMA ConfigTargets ==
    \A t \in createScanTargetsFromConfigs :
        DOMAIN t = {"dir", "place", "tech", "modules", "sbom"} /\ t.sbom = "unset"
<1> TAKE t \in createScanTargetsFromConfigs
<1>1. \E root, modules : t = createScanTarget(root, Absent, Absent, modules)
  BY DEF createScanTargetsFromConfigs
<1> QED
  BY <1>1, TargetIs

\* The old flow does too, and leaves no directory without one.
LEMMA DirectoryTargets ==
    ASSUME NEW d
    PROVE  /\ \A t \in OrWhole(d) :
                 /\ DOMAIN t = {"dir", "place", "tech", "modules", "sbom"}
                 /\ t.sbom = "unset" /\ t.dir = d.name
           /\ OrWhole(d) # {}
  BY TargetIs DEF OrWhole, DetectedIn

LEMMA OldFlowTargets ==
    LET ts == matchCentralConfigModulesForOldFlow(detectScaTargetsFromTechnologies)
    IN  /\ \A t \in ts : DOMAIN t = {"dir", "place", "tech", "modules", "sbom"} /\ t.sbom = "unset"
        /\ \A d \in Included : \E t \in ts : t.dir = d.name
<1> DEFINE found == detectScaTargetsFromTechnologies
           ts == matchCentralConfigModulesForOldFlow(found)
<1>1. \A t \in found : DOMAIN t = {"dir", "place", "tech", "modules", "sbom"} /\ t.sbom = "unset"
  BY DirectoryTargets DEF detectScaTargetsFromTechnologies
<1>2. \A d \in Included : \E t \in found : t.dir = d.name
  <2> TAKE d \in Included
  <2>1. PICK t \in OrWhole(d) : t.dir = d.name
    BY DirectoryTargets
  <2> QED
    BY <2>1 DEF detectScaTargetsFromTechnologies
<1>3. CASE asked.profile = Absent
  BY <1>1, <1>2, <1>3 DEF matchCentralConfigModulesForOldFlow
<1>4. CASE asked.profile # Absent
  <2>1. ts = {[t EXCEPT !.modules = asked.profile] : t \in found}
    BY <1>4 DEF matchCentralConfigModulesForOldFlow
  <2> HIDE DEF found, ts
  <2>2. \A t \in ts : DOMAIN t = {"dir", "place", "tech", "modules", "sbom"} /\ t.sbom = "unset"
    BY <1>1, <2>1, ModulesSet
  <2>3. \A d \in Included : \E t \in ts : t.dir = d.name
    <3> TAKE d \in Included
    <3>1. PICK t \in found : t.dir = d.name
      BY <1>2
    <3>2. [t EXCEPT !.modules = asked.profile].dir = d.name
      BY <1>1, <3>1, ModulesSet
    <3> QED
      BY <2>1, <3>2
  <2> QED
    BY <2>2, <2>3 DEF found, ts
<1> QED
  BY <1>3, <1>4

-----------------------------------------------------------------------------
(* Each step keeps the invariant.                                          *)

\* An error that is listed.
LEMMA PartialIsBoolean == CalculatedAllowPartialResults \in BOOLEAN
  BY DEF CalculatedAllowPartialResults

LEMMA ErrorListed ==
    ASSUME NEW S, S \subseteq Causes \X BOOLEAN, NEW cause \in Causes, NEW skip \in BOOLEAN
    PROVE  S \cup {<<cause, skip>>} \subseteq Causes \X BOOLEAN
  OBVIOUS

LEMMA OtherError ==
    ASSUME NEW S, NEW cause, NEW other, cause # other, NEW skip, NEW b
    PROVE  <<cause, b>> \in S \cup {<<other, skip>>} <=> <<cause, b>> \in S
  OBVIOUS

\* Before there is a target, only the facts about what was prepared can change.
LEMMA EarlyKeeps ==
    ASSUME PrepInv, prep \in Before \ {"crashed"}, prep' \in Before \cup {"start"},
           UNCHANGED <<asked, targets, launched>>,
           DOMAIN context' = {"vulnerabilities", "git"}, generator' \in {"idle", "ready"},
           general' \subseteq Causes \X BOOLEAN, prep' = "init" => general' = {}, prep' # "context",
           \A c \in {"init", "guard"} : <<c, TRUE>> \notin general',
           <<"guard", FALSE>> \notin general', prep' = "start" => general' # {},
           ContextKnown', SoftwareKnown',
           prep' = "detect" => generator' = "ready" \/ ~(asked.sbom \/ FlagsAsk("sca"))
    PROVE  PrepInv'
<1>1. targets = {} /\ targets' = {} /\ launched = {} /\ launched' = {}
  BY DEF PrepInv, GeneratorKnown, ScansKnown, Before
<1>2. prep' \notin {"guard", "scanning"}
  BY DEF Before
<1>3. PrepTypes'
  BY <1>1 DEF PrepTypes
<1>4. ErrorsKnown'
  BY <1>1 DEF ErrorsKnown, Refused
<1>5. GeneratorKnown' /\ SbomsKnown' /\ ScansKnown'
  BY <1>1, <1>2 DEF GeneratorKnown, SbomsKnown, ScansKnown, FlagsAsk
<1>6. TargetsKnown'
  BY DEF TargetsKnown
<1> QED
  BY <1>3, <1>4, <1>5, <1>6 DEF PrepInv

\* The results context tells vulnerabilities or violations.
LEMMA ContextStep == ASSUME PrepInv, CreateContext PROVE PrepInv'
<1>1. /\ prep = "context" /\ prep' = "init"
      /\ UNCHANGED <<asked, entitled, checked, generator, plugin, general, targets, launched>>
  BY DEF CreateContext
<1>2. general = {} /\ generator \in {"idle", "ready"}
  BY <1>1 DEF PrepInv, ErrorsKnown, PrepTypes
<1>3. PICK kept \in BOOLEAN :
         context' = [git |-> kept,
                     vulnerabilities |-> asked.vulnerabilities \/ ~(asked.violating \/ kept)]
  BY DEF CreateContext
<1>4. DOMAIN context' = {"vulnerabilities", "git"} /\ ContextKnown'
  BY <1>1, <1>3 DEF ContextKnown
<1>5. SoftwareKnown'
  BY <1>1 DEF SoftwareKnown
<1> QED
  BY <1>1, <1>2, <1>4, <1>5, EarlyKeeps DEF Before

\* The software is checked if the flags ask for Advanced Security.
LEMMA InitStep == ASSUME PrepInv, initAuditCmdResults PROVE PrepInv'
<1>1. /\ prep = "init" /\ general = {} /\ targets = {}
      /\ UNCHANGED <<asked, context, generator, plugin, targets, launched>>
  BY DEF initAuditCmdResults, PrepInv, ErrorsKnown, GeneratorKnown, Before
<1>2. IsJASRequested(targets) = FlagsAsk("secrets")
  BY <1>1, FlagsDecide DEF IsJASRequested
<1>3. \/ prep' = "start" /\ general' = {<<"init", FALSE>>}
      \/ prep' = "options" /\ general' = {} /\ checked' = (entitled' /\ FlagsAsk("secrets"))
  BY <1>1, <1>2 DEF initAuditCmdResults, Fails, Goes
<1>4. SoftwareKnown'
  BY <1>1, <1>3 DEF SoftwareKnown, FlagsAsk
<1>5. DOMAIN context' = {"vulnerabilities", "git"} /\ generator' \in {"idle", "ready"} /\ ContextKnown'
  BY <1>1 DEF PrepInv, PrepTypes, ContextKnown
<1>6. general' \subseteq Causes \X BOOLEAN
  <2>1. {<<"init", FALSE>>} = {} \cup {<<"init", FALSE>>}
    OBVIOUS
  <2>2. {} \cup {<<"init", FALSE>>} \subseteq Causes \X BOOLEAN
    BY ErrorListed DEF Causes
  <2> QED
    BY <1>3, <2>1, <2>2
<1> QED
  BY <1>1, <1>3, <1>4, <1>5, <1>6, EarlyKeeps DEF Before

\* The generator is ready when the flags ask for what it makes.
LEMMA GeneratorSteps ==
    ASSUME PrepInv, getScanLogicOptions \/ PrepareGenerator \/ Crash
    PROVE  PrepInv'
<1>1. /\ prep \in {"options", "generator", "detect"}
      /\ UNCHANGED <<asked, context, entitled, checked, targets, launched>>
  BY DEF getScanLogicOptions, PrepareGenerator, Crash
<1>2. targets = {} /\ general \subseteq Causes \X BOOLEAN /\ <<"guard", FALSE>> \notin general
  BY <1>1 DEF PrepInv, PrepTypes, ErrorsKnown, Refused, GeneratorKnown, Before
<1>3. NeedsGenerator <=> asked.sbom \/ FlagsAsk("sca")
  BY <1>2, FlagsDecide DEF NeedsGenerator
<1>4. PICK skip \in BOOLEAN :
        \/ /\ prep' = "start" /\ UNCHANGED generator
           /\ general' = general \cup {<<"options", skip>>} \/ general' = general \cup {<<"generator", skip>>}
        \/ prep' \in {"generator", "crashed"} /\ UNCHANGED <<general, generator>>
        \/ /\ prep' = "detect" /\ UNCHANGED general
           /\ generator' = "ready" \/ (UNCHANGED generator /\ ~NeedsGenerator)
  BY PartialIsBoolean DEF getScanLogicOptions, PrepareGenerator, Crash, Fails, Goes
<1>5. general \subseteq general' /\ general' \subseteq Causes \X BOOLEAN
  BY <1>2, <1>4, ErrorListed DEF Causes
<1>6. SoftwareKnown'
  BY <1>1, <1>5 DEF PrepInv, SoftwareKnown, FlagsAsk
<1>7. ContextKnown' /\ DOMAIN context' = {"vulnerabilities", "git"} /\ generator' \in {"idle", "ready"}
  BY <1>1, <1>4 DEF PrepInv, PrepTypes, ContextKnown
<1>8. \A c \in {"init", "guard"} : <<c, TRUE>> \notin general' /\ <<"guard", FALSE>> \notin general'
  <2>1. <<"init", TRUE>> \notin general /\ <<"guard", TRUE>> \notin general
    BY DEF PrepInv, ErrorsKnown
  <2>2. CASE UNCHANGED general
    BY <1>2, <2>1, <2>2
  <2>3. CASE general' = general \cup {<<"options", skip>>}
    BY <1>2, <2>1, <2>3, OtherError
  <2>4. CASE general' = general \cup {<<"generator", skip>>}
    BY <1>2, <2>1, <2>4, OtherError
  <2> QED
    BY <1>4, <2>2, <2>3, <2>4
<1> QED
  BY <1>1, <1>3, <1>4, <1>5, <1>6, <1>7, <1>8, EarlyKeeps DEF Before

\* The targets: new ones, or none after an error.
LEMMA TargetsStep == ASSUME PrepInv, detectScanTargets PROVE PrepInv'
<1> USE DEF PrepInv
<1>1. /\ prep = "detect" /\ prep' = "guard" /\ targets = {}
      /\ UNCHANGED <<asked, context, entitled, checked, generator, plugin, launched>>
  BY DEF detectScanTargets, GeneratorKnown, Before
<1>2. \/ targets' = {} /\ general' = general \cup {<<"cwd", FALSE>>}
      \/ /\ asked.newFlow /\ targets' = createScanTargetsFromConfigs /\ general' = general
      \/ /\ targets' = matchCentralConfigModulesForOldFlow(detectScaTargetsFromTechnologies)
         /\ general' = general \/ general' = general \cup {<<"apps", FALSE>>}
  BY <1>1 DEF detectScanTargets
<1>3. \A t \in targets' : DOMAIN t = {"dir", "place", "tech", "modules", "sbom"} /\ t.sbom = "unset"
  BY <1>2, ConfigTargets, OldFlowTargets
<1>4. launched = {}
  BY <1>1 DEF ScansKnown
<1>5. general \subseteq general' /\ ~Refused' /\ ~Refused
  <2>1. general \subseteq general' /\ ~Refused
    BY <1>1, <1>2 DEF ErrorsKnown
  <2>2. CASE general' = general
    BY <2>1, <2>2 DEF Refused
  <2>3. CASE general' = general \cup {<<"cwd", FALSE>>}
    BY <2>1, <2>3, OtherError DEF Refused
  <2>4. CASE general' = general \cup {<<"apps", FALSE>>}
    BY <2>1, <2>4, OtherError DEF Refused
  <2> QED
    BY <1>2, <2>1, <2>2, <2>3, <2>4
<1>6. PrepTypes'
  <2>1. general' \subseteq Causes \X BOOLEAN
    BY <1>2, ErrorListed DEF PrepTypes, Causes
  <2> QED
    BY <1>1, <1>3, <1>4, <2>1 DEF PrepTypes
<1>7. ErrorsKnown'
  BY <1>1, <1>2, <1>5 DEF ErrorsKnown
<1>8. ContextKnown' /\ SoftwareKnown' /\ GeneratorKnown'
  BY <1>1, <1>5 DEF ContextKnown, SoftwareKnown, GeneratorKnown, Before, FlagsAsk
<1>9. SbomsKnown' /\ ScansKnown'
  BY <1>1, <1>3, <1>4 DEF SbomsKnown, ScansKnown
<1>10. TargetsKnown'
  <2> SUFFICES ASSUME general' = {}, ~asked.newFlow
               PROVE  \A d \in Included : \E t \in targets' : t.dir = d.name
    BY <1>1 DEF TargetsKnown, Included
  <2>1. targets' = matchCentralConfigModulesForOldFlow(detectScaTargetsFromTechnologies)
    BY <1>2
  <2> QED
    BY <2>1, OldFlowTargets
<1> QED
  BY <1>6, <1>7, <1>8, <1>9, <1>10

\* The caller's refusal, and the steps to the next stage.
LEMMA StageSteps ==
    ASSUME PrepInv, AskGuard \/ SbomsDone \/ PrepareStrategy
    PROVE  PrepInv'
<1> USE DEF PrepInv, Fails, Goes
<1>1. UNCHANGED <<asked, context, entitled, checked, generator, plugin, targets, launched>>
  BY DEF AskGuard, SbomsDone, PrepareStrategy
<1>2. \A t : shouldGenerateSbom(t)' <=> shouldGenerateSbom(t)
  BY <1>1 DEF shouldGenerateSbom, CentralAsks
<1>3. launched = {} /\ prep' # "scanning"
  BY DEF AskGuard, SbomsDone, PrepareStrategy, ScansKnown
<1>4. PrepTypes'
  <2>1. general' \subseteq Causes \X BOOLEAN
    BY PartialIsBoolean, ErrorListed DEF PrepTypes, Causes, AskGuard, SbomsDone, PrepareStrategy
  <2>2. prep' \in {"strategy", "sboms", "start"}
    BY DEF AskGuard, SbomsDone, PrepareStrategy
  <2> QED
    BY <1>1, <1>3, <2>1, <2>2 DEF PrepTypes
<1>5. ErrorsKnown'
  <2> USE DEF ErrorsKnown, Refused
  <2>1. CASE AskGuard
    BY <1>1, <2>1 DEF AskGuard, SbomsKnown
  <2>2. CASE SbomsDone
    BY <1>1, <2>2 DEF SbomsDone
  <2>3. CASE PrepareStrategy
    BY <1>1, <2>3 DEF PrepareStrategy
  <2> QED
    BY <2>1, <2>2, <2>3
<1>6. ContextKnown' /\ SoftwareKnown' /\ GeneratorKnown' /\ general \subseteq general'
  BY <1>1 DEF ContextKnown, SoftwareKnown, GeneratorKnown, Before, FlagsAsk,
              AskGuard, SbomsDone, PrepareStrategy
<1>7. SbomsKnown'
  <2> USE DEF SbomsKnown, Refused
  <2>1. CASE AskGuard
    BY <1>1, <1>2, <2>1 DEF AskGuard
  <2>2. CASE SbomsDone
    BY <1>1, <1>2, <2>2 DEF SbomsDone, Unset
  <2>3. CASE PrepareStrategy
    BY <1>1, <1>2, <2>3 DEF PrepareStrategy
  <2> QED
    BY <2>1, <2>2, <2>3
<1>8. TargetsKnown'
  BY <1>1, <1>6 DEF TargetsKnown, Before, Included, AskGuard, SbomsDone, PrepareStrategy
<1>9. ScansKnown'
  BY <1>1, <1>3 DEF ScansKnown
<1> QED
  BY <1>4, <1>5, <1>6, <1>7, <1>8, <1>9

\* One more bill of materials.
LEMMA SbomStep == ASSUME PrepInv, GenerateSbomForTarget PROVE PrepInv'
<1> USE DEF PrepInv
<1>1. /\ prep = "sboms"
      /\ UNCHANGED <<asked, prep, context, entitled, checked, generator, plugin, general, launched>>
  BY DEF GenerateSbomForTarget
<1>2. PICK t \in Unset :
         \E made \in IF shouldGenerateSbom(t) THEN Generated ELSE {"none"} :
            targets' = (targets \ {t}) \cup {[t EXCEPT !.sbom = made]}
  BY DEF GenerateSbomForTarget
<1>3. PICK made \in IF shouldGenerateSbom(t) THEN Generated ELSE {"none"} :
         targets' = (targets \ {t}) \cup {[t EXCEPT !.sbom = made]}
  BY <1>2
<1> DEFINE u == [t EXCEPT !.sbom = made]
<1>4. /\ t \in targets /\ t.sbom = "unset"
      /\ DOMAIN t = {"dir", "place", "tech", "modules", "sbom"}
  BY <1>2 DEF Unset, PrepTypes
<1>5. DOMAIN u = DOMAIN t /\ u.sbom = made /\ u.dir = t.dir /\ u.modules = t.modules
  BY <1>4, SbomSet
<1>6. targets' = (targets \ {t}) \cup {u}
  BY <1>3
<1> HIDE DEF u
<1>7. made \in {"none", "failed", "empty", "made"} /\ (made # "none" <=> shouldGenerateSbom(t))
  BY <1>3 DEF Generated
<1>8. /\ shouldGenerateSbom(u) <=> shouldGenerateSbom(t)
      /\ \A v : shouldGenerateSbom(v)' <=> shouldGenerateSbom(v)
  BY <1>1, <1>5 DEF shouldGenerateSbom, CentralAsks
<1>9. launched = {}
  BY <1>1 DEF ScansKnown
<1>10. PrepTypes'
  BY <1>1, <1>4, <1>5, <1>6, <1>7, <1>9 DEF PrepTypes
<1>11. ErrorsKnown' /\ ContextKnown' /\ SoftwareKnown'
  BY <1>1 DEF ErrorsKnown, Refused, ContextKnown, SoftwareKnown, FlagsAsk
<1>12. GeneratorKnown'
  BY <1>1, <1>4 DEF GeneratorKnown, Before, FlagsAsk
<1>13. SbomsKnown'
  BY <1>1, <1>5, <1>6, <1>7, <1>8 DEF SbomsKnown
<1>14. TargetsKnown'
  <2> SUFFICES ASSUME general = {}, ~asked.newFlow, NEW d \in Included
               PROVE  \E v \in targets' : v.dir = d.name
    BY <1>1 DEF TargetsKnown, Included
  <2>1. PICK v \in targets : v.dir = d.name
    BY <1>1 DEF TargetsKnown, Before
  <2> QED
    BY <2>1, <1>5, <1>6
<1>15. ScansKnown'
  BY <1>1, <1>9 DEF ScansKnown
<1> QED
  BY <1>10, <1>11, <1>12, <1>13, <1>14, <1>15

\* The scans start, unless an error is on record that is not skipped.
LEMMA StartStep == ASSUME PrepInv, RunAudit PROVE PrepInv'
<1> USE DEF PrepInv
<1>1. /\ prep = "start" /\ prep' = IF NoErrors THEN "scanning" ELSE "ended"
      /\ UNCHANGED <<asked, context, entitled, checked, generator, plugin, general, targets>>
  BY DEF RunAudit
<1>2. NoErrors' = NoErrors /\ \A t : shouldGenerateSbom(t)' <=> shouldGenerateSbom(t)
  BY <1>1 DEF NoErrors, Failed, CalculatedAllowPartialResults, shouldGenerateSbom, CentralAsks
<1>3. NoErrors => ~Refused
  BY DEF NoErrors, Refused
<1>4. CASE ~NoErrors
  <2>1. prep' = "ended" /\ launched' = {}
    BY <1>1, <1>4 DEF RunAudit
  <2> QED
    BY <1>1, <1>2, <2>1
    DEF PrepTypes, Before, ErrorsKnown, Refused, ContextKnown, SoftwareKnown, GeneratorKnown,
        SbomsKnown, TargetsKnown, ScansKnown, FlagsAsk, Included
<1>5. CASE NoErrors
  <2>1. /\ prep' = "scanning"
        /\ launched' =
             {<<"sca", t>> : t \in {u \in targets : shouldRunScan("sca", u) /\ u.sbom = "made"}} \cup
             {<<"secrets", t>> : t \in {u \in targets : /\ entitled /\ IsJASRequested(targets)
                                                        /\ shouldRunScan("secrets", u)}}
    BY <1>1, <1>5 DEF RunAudit
  <2>2. /\ launched' \subseteq {"sca", "secrets"} \X targets
        /\ \A s \in launched' : IF s[1] = "sca" THEN FlagsAsk("sca") /\ s[2].sbom = "made"
                                 ELSE entitled /\ FlagsAsk("secrets")
    BY <2>1 DEF shouldRunScan
  <2>3. PrepTypes'
    BY <1>1, <2>1, <2>2 DEF PrepTypes
  <2>4. ErrorsKnown' /\ ContextKnown' /\ SoftwareKnown' /\ GeneratorKnown'
    BY <1>1, <1>3, <1>5, <2>1
    DEF ErrorsKnown, Refused, ContextKnown, SoftwareKnown, GeneratorKnown, Before, FlagsAsk
  <2>5. SbomsKnown' /\ TargetsKnown'
    BY <1>1, <1>2, <2>1 DEF SbomsKnown, TargetsKnown, Before, Included
  <2>6. ScansKnown'
    BY <1>1, <1>2, <1>3, <1>5, <2>1, <2>2 DEF ScansKnown, SbomsKnown, FlagsAsk
  <2> QED
    BY <2>3, <2>4, <2>5, <2>6
<1> QED
  BY <1>4, <1>5

-----------------------------------------------------------------------------
(* Theorems.                                                               *)

\* The inductive invariant: after each step of prepareToScan it is known what
\* was prepared, which targets there are, and which errors are never skipped.
THEOREM PreparationInvariant == PrepSpec => []PrepInv
<1>1. PrepInv /\ [PrepNext]_apVars => PrepInv'
  <2> SUFFICES ASSUME PrepInv, [PrepNext]_apVars PROVE PrepInv'
    OBVIOUS
  <2>1. CASE UNCHANGED apVars
    BY <2>1
    DEF apVars, PrepInv, PrepTypes, ErrorsKnown, Refused, ContextKnown, SoftwareKnown, GeneratorKnown,
        SbomsKnown, TargetsKnown, ScansKnown, FlagsAsk, Included, NoErrors, Failed,
        CalculatedAllowPartialResults, shouldGenerateSbom, CentralAsks
  <2> QED
    BY <2>1, ContextStep, InitStep, GeneratorSteps, TargetsStep, StageSteps, SbomStep, StartStep DEF PrepNext
<1> QED
  BY <1>1, PrepInitInv, PTL DEF PrepSpec

\* No scan starts without the generator, the entitlement and the software it
\* needs, no generator that was not prepared is used unless only the profile asks
\* for it, and the caller's refusal of the technologies is never skipped
\* (prepareToScan, populateScanTargets).
THEOREM PreparedIsUsed == PrepSpec => []PreparedBeforeUse
<1>1. PrepInv => PreparedBeforeUse
  <2> SUFFICES ASSUME PrepInv PROVE PreparedBeforeUse
    OBVIOUS
  <2> USE DEF PrepInv
  <2>1. \A t \in targets : t.sbom \notin {"unset", "none"} => generator = "ready" \/ OnlyByProfile(t)
    <3> SUFFICES ASSUME NEW t \in targets, t.sbom \notin {"unset", "none"}, generator # "ready"
                 PROVE  OnlyByProfile(t)
      OBVIOUS
    <3>1. shouldGenerateSbom(t) /\ ~asked.sbom /\ ~FlagsAsk("sca")
      BY DEF SbomsKnown, GeneratorKnown
    <3>2. t.modules # {} /\ CentralAsks("sca", t.modules)
      BY <3>1 DEF shouldGenerateSbom, FlagsAsk
    <3>3. CentralAsks("sca", t.modules) \in BOOLEAN
      BY <3>2 DEF CentralAsks
    <3> QED
      BY <3>1, <3>2, <3>3 DEF OnlyByProfile
  <2>2. \A s \in launched : IF s[1] = "sca" THEN generator = "ready" ELSE entitled /\ checked
    <3> SUFFICES ASSUME NEW s \in launched
                 PROVE  IF s[1] = "sca" THEN generator = "ready" ELSE entitled /\ checked
      OBVIOUS
    <3>1. prep = "scanning" /\ <<"init", FALSE>> \notin general /\ targets # {}
      BY DEF ScansKnown, NoErrors, PrepTypes
    <3>2. CASE s[1] = "sca"
      BY <3>1, <3>2 DEF ScansKnown, GeneratorKnown
    <3>3. CASE s[1] # "sca"
      BY <3>1, <3>3 DEF ScansKnown, SoftwareKnown
    <3> QED
      BY <3>2, <3>3
  <2>3. (\E e \in general : e[1] = "guard") => Refused
    <3> SUFFICES ASSUME NEW e \in general, e[1] = "guard" PROVE Refused
      OBVIOUS
    <3>1. e = <<"guard", e[2]>> /\ e[2] \in BOOLEAN
      BY DEF PrepTypes
    <3>2. e[2] # TRUE
      BY <3>1 DEF ErrorsKnown
    <3>3. e[2] = FALSE
      BY <3>1, <3>2
    <3> QED
      BY <3>1, <3>3 DEF Refused
  <2> QED
    BY <2>1, <2>2, <2>3 DEF PreparedBeforeUse, ErrorsKnown, ScansKnown
<1> QED
  BY <1>1, PreparationInvariant, PTL

\* When the scans start, every directory that is asked for has a target, and
\* every target that SCA is asked for has a bill of materials or a failure on
\* record (detectScaTargetsFromTechnologies, shouldGenerateSbom, shouldRunScan).
THEOREM NothingAskedIsLeftOut == PrepSpec => []AskedIsScanned
<1>1. PrepInv => AskedIsScanned
  <2> SUFFICES ASSUME PrepInv, prep = "scanning"
               PROVE  /\ context.vulnerabilities \/ context.git \/ asked.violating
                      /\ ~asked.newFlow /\ general = {} =>
                            \A d \in Included : \E t \in targets : t.dir = d.name
                      /\ \A t \in targets :
                            shouldRunScan("sca", t) =>
                               \/ t.sbom \in {"made", "empty"}
                               \/ Failed(t) /\ CalculatedAllowPartialResults
    BY DEF AskedIsScanned
  <2> USE DEF PrepInv
  <2>1. ASSUME NEW t \in targets, shouldRunScan("sca", t)
        PROVE  \/ t.sbom \in {"made", "empty"}
               \/ Failed(t) /\ CalculatedAllowPartialResults
    <3>1. shouldGenerateSbom(t)
      BY <2>1 DEF shouldRunScan, shouldGenerateSbom, FlagsAsk
    <3>2. t.sbom \in {"failed", "made", "empty"}
      BY <3>1 DEF ScansKnown, SbomsKnown, PrepTypes
    <3>3. Failed(t) => CalculatedAllowPartialResults
      BY DEF ScansKnown, NoErrors
    <3> QED
      BY <3>2, <3>3 DEF Failed
  <2> QED
    BY <2>1 DEF ContextKnown, TargetsKnown, Before
<1> QED
  BY <1>1, PreparationInvariant, PTL

-----------------------------------------------------------------------------
(* DepTreeBuilders: the steps of the builders.  All but the last two of the *)
(* Python builders are calm: no step assigns an error and goes on, nor does *)
(* one of the calls and branches in it.  Steps nest to different depths, so *)
(* calm means: in a set that is closed under looking into its steps.        *)

Closed(C) == \A s \in C : /\ s.op # "assign"
                          /\ s.op = "call" => s.arg \in {"raise", "else"}
                          /\ s.op \in {"choice", "call"} => s.body \in Seq(C) /\ s.alt \in Seq(C)
Calm(s) == \E C : Closed(C) /\ s \in C
CalmSteps(steps) == \E C : Closed(C) /\ steps \in Seq(C)

LEMMA ClosedUnion ==
    ASSUME NEW S, \A C \in S : Closed(C)
    PROVE  Closed(UNION S)
<1> SUFFICES ASSUME NEW s \in UNION S
             PROVE  /\ s.op # "assign"
                    /\ s.op = "call" => s.arg \in {"raise", "else"}
                    /\ s.op \in {"choice", "call"} => s.body \in Seq(UNION S) /\ s.alt \in Seq(UNION S)
  BY DEF Closed
<1>1. PICK C \in S : s \in C
  OBVIOUS
<1>2. /\ s.op # "assign"
      /\ s.op = "call" => s.arg \in {"raise", "else"}
      /\ s.op \in {"choice", "call"} => s.body \in Seq(C) /\ s.alt \in Seq(C)
  BY <1>1 DEF Closed
<1>3. C \subseteq UNION S
  OBVIOUS
<1>4. Seq(C) \subseteq Seq(UNION S)
  BY <1>3
<1> QED BY <1>2, <1>4

LEMMA ClosedPair ==
    ASSUME NEW C, NEW D, Closed(C), Closed(D)
    PROVE  Closed(C \cup D)
<1>1. UNION {C, D} = C \cup D
  OBVIOUS
<1> QED BY <1>1, ClosedUnion

\* Steps in a row are calm if each of them is.
LEMMA CalmRow ==
    ASSUME NEW S, NEW steps \in Seq(S), \A i \in 1 .. Len(steps) : Calm(steps[i])
    PROVE  CalmSteps(steps)
<1> DEFINE Set(i) == CHOOSE C : Closed(C) /\ steps[i] \in C
           All == {Set(i) : i \in 1 .. Len(steps)}
<1>1. \A i \in 1 .. Len(steps) : Closed(Set(i)) /\ steps[i] \in Set(i)
  BY DEF Calm
<1>2. Closed(UNION All)
  BY <1>1, ClosedUnion
<1>3. \A i \in 1 .. Len(steps) : steps[i] \in UNION All
  BY <1>1
<1>4. steps \in Seq(UNION All)
  <2> HIDE DEF All
  <2>1. steps \in [1 .. Len(steps) -> UNION All] /\ Len(steps) \in Nat
    BY <1>3
  <2> QED BY <2>1
<1> QED BY <1>2, <1>4 DEF CalmSteps

LEMMA CalmElements ==
    ASSUME NEW steps, CalmSteps(steps)
    PROVE  \E S : steps \in Seq(S) /\ \A i \in 1 .. Len(steps) : Calm(steps[i])
<1>1. PICK C : Closed(C) /\ steps \in Seq(C)
  BY DEF CalmSteps
<1>2. \A i \in 1 .. Len(steps) : steps[i] \in C
  BY <1>1, ElementOfSeq
<1> QED BY <1>1, <1>2 DEF Calm

LEMMA CalmConcat ==
    ASSUME NEW a, NEW b, CalmSteps(a), CalmSteps(b)
    PROVE  CalmSteps(a \o b)
<1>1. PICK C : Closed(C) /\ a \in Seq(C)
  BY DEF CalmSteps
<1>2. PICK D : Closed(D) /\ b \in Seq(D)
  BY DEF CalmSteps
<1>3. Closed(C \cup D)
  BY <1>1, <1>2, ClosedPair
<1>4. a \in Seq(C \cup D) /\ b \in Seq(C \cup D)
  BY <1>1, <1>2
<1>5. a \o b \in Seq(C \cup D)
  BY <1>4, ConcatProperties
<1> QED BY <1>3, <1>5 DEF CalmSteps

LEMMA CalmNone == CalmSteps(<<>>)
<1>1. Closed({}) /\ <<>> \in Seq({})
  BY DEF Closed
<1> QED BY <1>1 DEF CalmSteps

\* The steps without a body.
LEMMA CalmLeaf ==
    ASSUME NEW s, s.op \notin {"assign", "choice", "call"}
    PROVE  Calm(s)
<1>1. Closed({s})
  BY DEF Closed
<1> QED BY <1>1 DEF Calm

LEMMA CalmBranches ==
    ASSUME NEW a, NEW b, NEW arg, NEW op \in {"choice", "call"}, CalmSteps(a), CalmSteps(b),
           op = "call" => arg \in {"raise", "else"}
    PROVE  Calm(Step(op, arg, a, b))
<1>1. PICK C : Closed(C) /\ a \in Seq(C)
  BY DEF CalmSteps
<1>2. PICK D : Closed(D) /\ b \in Seq(D)
  BY DEF CalmSteps
<1> DEFINE s == Step(op, arg, a, b)
           E == C \cup D
           F == E \cup {s}
<1>3. Closed(E)
  BY <1>1, <1>2, ClosedPair
<1>4. E \subseteq F /\ s \in F
  OBVIOUS
<1>5. a \in Seq(F) /\ b \in Seq(F)
  BY <1>1, <1>2
<1>6. s.op = op /\ s.arg = arg /\ s.body = a /\ s.alt = b
  BY DEF Step
<1>7. Seq(E) \subseteq Seq(F)
  BY <1>4
<1>8. Closed(F)
  <2> SUFFICES ASSUME NEW x \in F
               PROVE  /\ x.op # "assign"
                      /\ x.op = "call" => x.arg \in {"raise", "else"}
                      /\ x.op \in {"choice", "call"} => x.body \in Seq(F) /\ x.alt \in Seq(F)
    BY DEF Closed
  <2>1. CASE x = s
    BY <2>1, <1>5, <1>6
  <2>2. CASE x \in E
    <3> HIDE DEF E, F, s
    <3> QED BY <2>2, <1>3, <1>7 DEF Closed
  <2> QED BY <2>1, <2>2
<1> QED BY <1>4, <1>8 DEF Calm

\* The steps as the builders write them.
LEMMA CalmStep ==
    /\ \A x : Calm(Try(x)) /\ Calm(Raise(x)) /\ Calm(MkTemp(x)) /\ Calm(ChDir(x))
    /\ \A x : Calm(SetEnv(x)) /\ Calm(Edit(x)) /\ Calm(OnExit(x))
    /\ \A x, y : Calm(Run(x, y))
<1>1. \A op, arg : op \notin {"assign", "choice", "call"} => Calm(Step(op, arg, <<>>, <<>>))
  <2> SUFFICES ASSUME NEW op, NEW arg, op \notin {"assign", "choice", "call"}
               PROVE  Calm(Step(op, arg, <<>>, <<>>))
    OBVIOUS
  <2>1. Step(op, arg, <<>>, <<>>).op = op
    BY DEF Step
  <2> QED BY <2>1, CalmLeaf
<1> QED BY <1>1 DEF Try, Raise, MkTemp, ChDir, SetEnv, Edit, OnExit, Run

LEMMA CalmCompound ==
    ASSUME NEW a, CalmSteps(a)
    PROVE  /\ Calm(Invoke(a))
           /\ \A b : CalmSteps(b) => Calm(Choice(a, b)) /\ Calm(Fallback(a, b))
BY CalmBranches, CalmNone DEF Invoke, Choice, Fallback

LEMMA CalmIf ==
    ASSUME NEW c, NEW a, c => CalmSteps(a)
    PROVE  CalmSteps(If(c, a))
BY CalmNone DEF If

\* Up to five steps that are written out.
LEMMA CalmTuple ==
    /\ \A a : Calm(a) => CalmSteps(<<a>>)
    /\ \A a, b : Calm(a) /\ Calm(b) => CalmSteps(<<a, b>>)
    /\ \A a, b, c : Calm(a) /\ Calm(b) /\ Calm(c) => CalmSteps(<<a, b, c>>)
    /\ \A a, b, c, d : Calm(a) /\ Calm(b) /\ Calm(c) /\ Calm(d) => CalmSteps(<<a, b, c, d>>)
    /\ \A a, b, c, d, e :
          Calm(a) /\ Calm(b) /\ Calm(c) /\ Calm(d) /\ Calm(e) => CalmSteps(<<a, b, c, d, e>>)
    /\ \A a, b, c, d, e, f :
          Calm(a) /\ Calm(b) /\ Calm(c) /\ Calm(d) /\ Calm(e) /\ Calm(f) =>
            CalmSteps(<<a, b, c, d, e, f>>)
<1>1. \A a : Calm(a) => CalmSteps(<<a>>)
  <2> SUFFICES ASSUME NEW a, Calm(a) PROVE CalmSteps(<<a>>)
    OBVIOUS
  <2>1. <<a>> \in Seq({a}) /\ \A i \in 1 .. Len(<<a>>) : <<a>>[i] = a
    OBVIOUS
  <2>2. \A i \in 1 .. Len(<<a>>) : Calm(<<a>>[i])
    BY <2>1
  <2> QED BY <2>1, <2>2, CalmRow
<1>2. \A a, b : Calm(a) /\ Calm(b) => CalmSteps(<<a, b>>)
  <2> SUFFICES ASSUME NEW a, NEW b, Calm(a), Calm(b) PROVE CalmSteps(<<a, b>>)
    OBVIOUS
  <2>1. <<a, b>> \in Seq({a, b}) /\ \A i \in 1 .. Len(<<a, b>>) : <<a, b>>[i] \in {a, b}
    OBVIOUS
  <2>2. \A i \in 1 .. Len(<<a, b>>) : Calm(<<a, b>>[i])
    BY <2>1
  <2> QED BY <2>1, <2>2, CalmRow
<1>3. \A a, b, c : Calm(a) /\ Calm(b) /\ Calm(c) => CalmSteps(<<a, b, c>>)
  <2> SUFFICES ASSUME NEW a, NEW b, NEW c, Calm(a), Calm(b), Calm(c) PROVE CalmSteps(<<a, b, c>>)
    OBVIOUS
  <2>1. <<a, b, c>> = <<a, b>> \o <<c>>
    OBVIOUS
  <2> QED BY <1>1, <1>2, <2>1, CalmConcat
<1>4. \A a, b, c, d : Calm(a) /\ Calm(b) /\ Calm(c) /\ Calm(d) => CalmSteps(<<a, b, c, d>>)
  <2> SUFFICES ASSUME NEW a, NEW b, NEW c, NEW d, Calm(a), Calm(b), Calm(c), Calm(d)
               PROVE  CalmSteps(<<a, b, c, d>>)
    OBVIOUS
  <2>1. <<a, b, c, d>> = <<a, b>> \o <<c, d>>
    OBVIOUS
  <2> QED BY <1>2, <2>1, CalmConcat
<1>5. \A a, b, c, d, e :
          Calm(a) /\ Calm(b) /\ Calm(c) /\ Calm(d) /\ Calm(e) => CalmSteps(<<a, b, c, d, e>>)
  <2> SUFFICES ASSUME NEW a, NEW b, NEW c, NEW d, NEW e, Calm(a), Calm(b), Calm(c), Calm(d), Calm(e)
               PROVE  CalmSteps(<<a, b, c, d, e>>)
    OBVIOUS
  <2>1. <<a, b, c, d, e>> = <<a, b, c>> \o <<d, e>>
    OBVIOUS
  <2> QED BY <1>2, <1>3, <2>1, CalmConcat
<1>6. \A a, b, c, d, e, f :
          Calm(a) /\ Calm(b) /\ Calm(c) /\ Calm(d) /\ Calm(e) /\ Calm(f) =>
            CalmSteps(<<a, b, c, d, e, f>>)
  <2> SUFFICES ASSUME NEW a, NEW b, NEW c, NEW d, NEW e, NEW f,
                      Calm(a), Calm(b), Calm(c), Calm(d), Calm(e), Calm(f)
               PROVE  CalmSteps(<<a, b, c, d, e, f>>)
    OBVIOUS
  <2>1. <<a, b, c, d, e, f>> = <<a, b, c>> \o <<d, e, f>>
    OBVIOUS
  <2> QED BY <1>3, <2>1, CalmConcat
<1> QED BY <1>1, <1>2, <1>3, <1>4, <1>5, <1>6

LEMMA CalmSeven ==
    \A a, b, c, d, e, f, g :
        Calm(a) /\ Calm(b) /\ Calm(c) /\ Calm(d) /\ Calm(e) /\ Calm(f) /\ Calm(g) =>
            CalmSteps(<<a, b, c, d, e, f, g>>)
<1> SUFFICES ASSUME NEW a, NEW b, NEW c, NEW d, NEW e, NEW f, NEW g,
                    Calm(a), Calm(b), Calm(c), Calm(d), Calm(e), Calm(f), Calm(g)
             PROVE  CalmSteps(<<a, b, c, d, e, f, g>>)
  OBVIOUS
<1>1. <<a, b, c, d, e, f, g>> = <<a, b, c>> \o <<d, e, f, g>>
  OBVIOUS
<1> QED BY CalmTuple, <1>1, CalmConcat

-----------------------------------------------------------------------------
(* DepTreeBuilders: every builder is calm.                                 *)

LEMMA CalmPip == ASSUME NEW o PROVE CalmSteps(installPipDeps(o))
<1>1. CalmSteps(SetPipVirtualEnvPath)
  <2>1. Calm(Fallback(<<Run("cwd", "venv")>>, <<Run("cwd", "virtualenv")>>))
    BY CalmStep, CalmTuple, CalmCompound
  <2> QED BY <2>1, CalmStep, CalmTuple DEF SetPipVirtualEnvPath
<1>2. CalmSteps(If(o.curation, <<Fallback(<<Try("upgrade pip")>>, <<>>), Try("cache folder")>>))
  <2>1. Calm(Fallback(<<Try("upgrade pip")>>, <<>>))
    BY CalmStep, CalmTuple, CalmCompound, CalmNone
  <2> QED BY <2>1, CalmStep, CalmTuple, CalmIf
<1>3. CalmSteps(If(o.repo, <<Try("repository URL")>>))
  BY CalmStep, CalmTuple, CalmIf
<1>4. CalmSteps(<<Choice(<<Run("cwd", "pip install -r")>>,
                <<Fallback(<<Run("cwd", "pip install .")>>, <<Run("cwd", "pip install -r")>>)>>)>>)
  <2>1. Calm(Fallback(<<Run("cwd", "pip install .")>>, <<Run("cwd", "pip install -r")>>))
    BY CalmStep, CalmTuple, CalmCompound
  <2> QED BY <2>1, CalmStep, CalmTuple, CalmCompound
<1> QED BY <1>1, <1>2, <1>3, <1>4, CalmConcat DEF installPipDeps

LEMMA CalmPipenv == ASSUME NEW o PROVE CalmSteps(installPipenvDeps(o))
<1>1. CalmSteps(runPipenvInstallFromRemoteRegistry(o))
  <2>1. CASE o.curation
    BY <2>1, CalmStep, CalmTuple DEF runPipenvInstallFromRemoteRegistry
  <2>2. CASE ~o.curation
    BY <2>2, CalmStep, CalmTuple DEF runPipenvInstallFromRemoteRegistry
  <2> QED BY <2>1, <2>2
<1>2. CalmSteps(If(o.curation, protectPipenvCurationEnvironment))
  BY CalmStep, CalmTuple, CalmIf DEF protectPipenvCurationEnvironment
<1>3. CalmSteps(<<SetEnv("WORKON_HOME"), OnExit(UnsetEnv("WORKON_HOME"))>>)
  BY CalmStep, CalmTuple
<1>4. CalmSteps(<<Try("pip.conf"), Try("Pipfile source"),
                  Choice(runPipenvInstallFromRemoteRegistry(o), <<Raise("failed")>>)>>)
  <2>1. Calm(Choice(runPipenvInstallFromRemoteRegistry(o), <<Raise("failed")>>))
    BY <1>1, CalmStep, CalmTuple, CalmCompound
  <2> QED BY <2>1, CalmStep, CalmTuple
<1>5. CalmSteps(<<Run("cwd", "pipenv install")>>)
  BY CalmStep, CalmTuple
<1>6. CASE o.repo
  BY <1>1, <1>2, <1>3, <1>6, CalmConcat DEF installPipenvDeps
<1>7. CASE ~o.repo /\ o.curation
  BY <1>2, <1>3, <1>4, <1>7, CalmConcat DEF installPipenvDeps
<1>8. CASE ~o.repo /\ ~o.curation
  BY <1>2, <1>3, <1>5, <1>8, CalmConcat DEF installPipenvDeps
<1> QED BY <1>6, <1>7, <1>8

LEMMA CalmPoetry == ASSUME NEW o PROVE CalmSteps(installPoetryDeps(o))
<1> DEFINE update == Fallback(<<Run("cwd", "poetry lock --no-update")>>, <<Run("cwd", "poetry lock")>>)
           lock == Choice(<<Run("cwd", "poetry lock")>>, <<update>>)
           ends == IF o.curation THEN <<Choice(<<lock>>, <<>>)>> ELSE <<Run("cwd", "poetry install")>>
<1>1. Calm(update)
  BY CalmStep, CalmTuple, CalmCompound
<1>2. Calm(lock)
  BY <1>1, CalmStep, CalmTuple, CalmCompound
<1>3. CalmSteps(ends)
  <2>1. CASE o.curation
    BY <1>2, <2>1, CalmTuple, CalmCompound, CalmNone
  <2>2. CASE ~o.curation
    BY <2>2, CalmStep, CalmTuple
  <2> QED BY <2>1, <2>2
<1>4. CalmSteps(If(o.curation, <<Try("poetry version"), Try("poetry.lock exists")>>))
  BY CalmStep, CalmTuple, CalmIf
<1>5. CalmSteps(If(o.repo, <<Try("repository URL")>>))
  BY CalmStep, CalmTuple, CalmIf
<1>6. CalmSteps(If(o.repo /\ o.curation, <<Try("read pyproject"), Run("cwd", "pyproject")>>))
  BY CalmStep, CalmTuple, CalmIf
<1>7. CalmSteps(If(o.repo, <<Choice(<<Try("poetry config")>>, <<>>)>>))
  <2>1. Calm(Choice(<<Try("poetry config")>>, <<>>))
    BY CalmStep, CalmTuple, CalmCompound, CalmNone
  <2> QED BY <2>1, CalmTuple, CalmIf
<1>8. installPoetryDeps(o) =
        If(o.curation, <<Try("poetry version"), Try("poetry.lock exists")>>)
        \o If(o.repo, <<Try("repository URL")>>)
        \o If(o.repo /\ o.curation, <<Try("read pyproject"), Run("cwd", "pyproject")>>)
        \o If(o.repo, <<Choice(<<Try("poetry config")>>, <<>>)>>)
        \o ends
  BY DEF installPoetryDeps
<1> HIDE DEF ends
<1> QED BY <1>3, <1>4, <1>5, <1>6, <1>7, <1>8, CalmConcat

LEMMA CalmPython ==
    ASSUME NEW tool \in {"pip", "pipenv", "poetry"}, NEW o
    PROVE  CalmSteps(runPythonInstall(tool, o))
<1>1. CASE tool = "pip"
  BY <1>1, CalmPip DEF runPythonInstall
<1>2. CASE tool = "pipenv"
  BY <1>2, CalmPipenv DEF runPythonInstall
<1>3. CASE tool = "poetry"
  BY <1>3, CalmPoetry DEF runPythonInstall
<1> QED BY <1>1, <1>2, <1>3

LEMMA CalmCopy ==
    ASSUME NEW steps, CalmSteps(steps)
    PROVE  CalmSteps(InTempCopy(steps))
<1>1. CalmSteps(<<MkTemp("work"), OnExit(Quietly(Rm("work"))), Try("copy")>> \o steps)
  BY CalmStep, CalmTuple, CalmConcat
<1> QED BY <1>1, CalmCompound, CalmTuple DEF InTempCopy

LEMMA CalmUv == ASSUME NEW o PROVE CalmSteps(Uv(o))
<1>1. CalmSteps(generateUvLock(o))
  <2>1. CalmSteps(If(o.repo, <<MkTemp("config"), OnExit(Quietly(Rm("config")))>>))
    BY CalmStep, CalmTuple, CalmIf
  <2>2. CalmSteps(<<Try("cache folder")>>) /\ CalmSteps(<<Run("work", "uv lock")>>)
    BY CalmStep, CalmTuple
  <2>3. CalmSteps(<<Try("cache folder")>>
                  \o If(o.repo, <<MkTemp("config"), OnExit(Quietly(Rm("config")))>>)
                  \o <<Run("work", "uv lock")>>)
    BY <2>1, <2>2, CalmConcat
  <2> QED BY <2>3, CalmCompound, CalmTuple DEF generateUvLock
<1>2. CalmSteps(generateUvLockInTempDir(o))
  <2>1. CalmSteps(<<Try("verify lock"), Try("read lock")>>) /\ CalmSteps(<<Try("read lock")>>)
    BY CalmStep, CalmTuple
  <2>2. CalmSteps(If(o.repo, <<Try("verify lock")>>))
    BY CalmStep, CalmTuple, CalmIf
  <2>3. CalmSteps(generateUvLock(o) \o If(o.repo, <<Try("verify lock")>>) \o <<Try("read lock")>>)
    BY <1>1, <2>1, <2>2, CalmConcat
  <2>4. Calm(Choice(<<Try("verify lock"), Try("read lock")>>,
                    generateUvLock(o) \o If(o.repo, <<Try("verify lock")>>) \o <<Try("read lock")>>))
    BY <2>1, <2>3, CalmCompound
  <2>5. CalmSteps(<<Try("neutralize indexes"), Try("lock state"),
                    Choice(<<Try("verify lock"), Try("read lock")>>,
                           generateUvLock(o) \o If(o.repo, <<Try("verify lock")>>) \o <<Try("read lock")>>)>>)
    BY <2>4, CalmStep, CalmTuple
  <2> QED BY <2>5, CalmCopy DEF generateUvLockInTempDir
<1>3. CalmSteps(generateUvScriptLockForCuration(o))
  <2>1. CalmSteps(generateUvLock(o) \o <<Try("read lock")>>)
    BY <1>1, CalmStep, CalmTuple, CalmConcat
  <2> QED BY <2>1, CalmCopy DEF generateUvScriptLockForCuration
<1> DEFINE script == <<Try("script")>> \o If(o.repo, <<Try("index URL")>>)
                     \o generateUvScriptLockForCuration(o)
           project == If(o.repo, <<Try("index URL")>>) \o <<Try("working directory")>>
                      \o generateUvLockInTempDir(o)
<1>4. CalmSteps(script) /\ CalmSteps(project)
  <2>1. CalmSteps(If(o.repo, <<Try("index URL")>>))
    BY CalmStep, CalmTuple, CalmIf
  <2>2. CalmSteps(<<Try("script")>>) /\ CalmSteps(<<Try("working directory")>>)
    BY CalmStep, CalmTuple
  <2> QED BY <1>2, <1>3, <2>1, <2>2, CalmConcat
<1>5. CalmSteps(<<Choice(script, project), Try("packages of the lock")>>)
  BY <1>4, CalmCompound, CalmStep, CalmTuple
<1>6. CASE o.curation
  <2>1. Uv(o) = <<Try("uv version")>> \o <<Choice(script, project), Try("packages of the lock")>>
    BY <1>6 DEF Uv
  <2>2. CalmSteps(<<Try("uv version")>>)
    BY CalmStep, CalmTuple
  <2> HIDE DEF script, project
  <2> QED BY <1>5, <2>1, <2>2, CalmConcat
<1>7. CASE ~o.curation
  BY <1>7, CalmStep, CalmTuple DEF Uv
<1> QED BY <1>6, <1>7

LEMMA CalmCargo == ASSUME NEW o PROVE CalmSteps(Cargo(o))
<1>1. CalmSteps(protectCargoCurationEnvironment)
  <2>1. Calm(Invoke(<<MkTemp("cargoHome"), OnExit(RmFailed("cargoHome")), Try("config.toml"),
                      Try("credentials.toml")>>))
    BY CalmStep, CalmTuple, CalmCompound
  <2> QED BY <2>1, CalmStep, CalmTuple DEF protectCargoCurationEnvironment
<1>2. CalmSteps(If(o.repo, protectCargoCurationEnvironment))
  BY <1>1, CalmIf
<1>3. CalmSteps(<<Try("working directory"), Try("not audited before"), Try("cargo")>>)
  BY CalmStep, CalmTuple
<1> DEFINE lock == Choice(<<Run("work", "cargo generate-lockfile")>>, <<>>)
           ends == <<MkTemp("work"), OnExit(Quietly(Rm("work"))), Try("copy"), lock,
                     Try("read lock"), Try("packages of the lock"), Try("tree")>>
<1>4. CalmSteps(ends)
  <2>1. Calm(lock)
    BY CalmStep, CalmTuple, CalmCompound, CalmNone
  <2> HIDE DEF lock
  <2> QED BY <2>1, CalmStep, CalmSeven
<1>5. CASE o.curation
  <2>1. Cargo(o) = <<Try("working directory"), Try("not audited before"), Try("cargo")>>
                   \o If(o.repo, protectCargoCurationEnvironment) \o ends
    BY <1>5 DEF Cargo
  <2> HIDE DEF ends
  <2> QED BY <1>2, <1>3, <1>4, <2>1, CalmConcat
<1>6. CASE ~o.curation
  BY <1>6, CalmStep, CalmTuple DEF Cargo
<1> QED BY <1>5, <1>6

LEMMA CalmNotInstalled == ASSUME NEW o PROVE CalmSteps(NotInstalled(o)) /\ CalmSteps(isInstallRequired(o))
<1>1. CalmSteps(NotInstalled(o))
  <2>1. Calm(Choice(<<>>, <<Raise("notInstalled")>>))
    BY CalmStep, CalmTuple, CalmCompound, CalmNone
  <2> QED BY <2>1, CalmTuple, CalmIf DEF NotInstalled
<1>2. CalmSteps(<<Try("install required")>>)
  BY CalmStep, CalmTuple
<1> QED BY <1>1, <1>2, CalmConcat DEF isInstallRequired

LEMMA CalmYarn == ASSUME NEW o PROVE CalmSteps(Yarn(o))
<1>1. ASSUME NEW dir PROVE CalmSteps(runYarnInstallAccordingToVersion(dir))
  <2> DEFINE guarded == Invoke(<<OnExit(Restore({"node_modules"})), Run(dir, "node_modules")>>)
             old == <<Try("node_modules exists"), guarded>>
             byVersion == <<Try("yarn version"), Choice(<<Run(dir, "yarn install")>>, old)>>
  <2>1. Calm(guarded)
    BY CalmStep, CalmTuple, CalmCompound
  <2>2. CalmSteps(old)
    <3> HIDE DEF guarded
    <3> QED BY <2>1, CalmStep, CalmTuple
  <2>3. CalmSteps(byVersion)
    <3> HIDE DEF old
    <3> QED BY <2>2, CalmStep, CalmTuple, CalmCompound
  <2>4. runYarnInstallAccordingToVersion(dir) = <<Choice(<<Run(dir, "yarn install")>>, byVersion)>>
    BY DEF runYarnInstallAccordingToVersion
  <2> HIDE DEF byVersion
  <2> QED BY <2>3, <2>4, CalmStep, CalmTuple, CalmCompound
<1>2. ASSUME NEW dir PROVE CalmSteps(configureYarnResolutionServerAndRunInstall(dir, o))
  <2> DEFINE guard == <<Try("backup .yarnrc.yml"), OnExit(Restore({".yarnrc.yml"})), Try("credentials"),
                        SetEnv("YARN"), OnExit(UnsetEnv("YARN")), Run(dir, ".yarnrc.yml")>>
             body == guard \o runYarnInstallAccordingToVersion(dir)
  <2>1. CalmSteps(guard)
    BY CalmStep, CalmTuple
  <2>2. CalmSteps(body)
    <3> HIDE DEF guard
    <3> QED BY <1>1, <2>1, CalmConcat
  <2>3. CASE o.repo
    <3>1. configureYarnResolutionServerAndRunInstall(dir, o) =
            <<Try("yarn version"), Choice(runYarnInstallAccordingToVersion(dir), <<Invoke(body)>>)>>
      BY <2>3 DEF configureYarnResolutionServerAndRunInstall
    <3> HIDE DEF body
    <3>2. CalmSteps(<<Invoke(body)>>)
      BY <2>2, CalmTuple, CalmCompound
    <3>3. Calm(Choice(runYarnInstallAccordingToVersion(dir), <<Invoke(body)>>))
      BY <1>1, <3>2, CalmCompound
    <3> QED BY <3>1, <3>3, CalmStep, CalmTuple
  <2>4. CASE ~o.repo
    BY <1>1, <2>4 DEF configureYarnResolutionServerAndRunInstall
  <2> QED BY <2>3, <2>4
<1>3. CalmSteps(resolveCurationLockfileDir(o))
  <2> DEFINE install == Fallback(configureYarnResolutionServerAndRunInstall("lock", o),
                                 <<Try("handle the install error")>>)
             copy == <<MkTemp("lock"), OnExit(RmFailed("lock")), Try("copy"), install>>
             choose == <<Choice(<<>>, copy)>>
             body == isInstallRequired(o) \o choose
  <2>1. Calm(install)
    BY <1>2, CalmStep, CalmTuple, CalmCompound
  <2>2. CalmSteps(copy)
    <3> HIDE DEF install
    <3> QED BY <2>1, CalmStep, CalmTuple
  <2>3. CalmSteps(body)
    <3> HIDE DEF copy
    <3>1. CalmSteps(choose)
      BY <2>2, CalmTuple, CalmCompound, CalmNone
    <3> HIDE DEF choose
    <3> QED BY <3>1, CalmNotInstalled, CalmConcat
  <2>4. resolveCurationLockfileDir(o) = <<Invoke(body)>>
    BY DEF resolveCurationLockfileDir
  <2> HIDE DEF body
  <2> QED BY <2>3, <2>4, CalmTuple, CalmCompound
<1> DEFINE curated == resolveCurationLockfileDir(o)
                      \o <<OnExit(Rm("lock")), Try("yarn info"), Try("member"), Try("tree")>>
           audited == isInstallRequired(o)
                      \o <<Choice(configureYarnResolutionServerAndRunInstall("target", o), <<>>)>>
                      \o <<Try("yarn info"), Try("tree")>>
           ends == IF o.curation THEN curated ELSE audited
<1>4. CalmSteps(curated)
  <2>1. CalmSteps(<<OnExit(Rm("lock")), Try("yarn info"), Try("member"), Try("tree")>>)
    BY CalmStep, CalmTuple
  <2> QED BY <1>3, <2>1, CalmConcat
<1>5. CalmSteps(audited)
  <2>1. CalmSteps(<<Choice(configureYarnResolutionServerAndRunInstall("target", o), <<>>)>>)
    BY <1>2, CalmNone, CalmTuple, CalmCompound
  <2>2. CalmSteps(isInstallRequired(o)) /\ CalmSteps(<<Try("yarn info"), Try("tree")>>)
    BY CalmNotInstalled, CalmStep, CalmTuple
  <2> QED BY <2>1, <2>2, CalmConcat
<1>6. CalmSteps(ends)
  <2> HIDE DEF curated, audited
  <2> QED BY <1>4, <1>5
<1>7. Yarn(o) = <<Try("working directory"), Try("yarn")>> \o If(o.curation, <<Try("yarn version")>>)
                \o <<Try("package.json")>> \o ends
  BY DEF Yarn
<1>8. CalmSteps(<<Try("working directory"), Try("yarn")>>) /\ CalmSteps(<<Try("package.json")>>)
  BY CalmStep, CalmTuple
<1>9. CalmSteps(If(o.curation, <<Try("yarn version")>>))
  BY CalmStep, CalmTuple, CalmIf
<1> HIDE DEF ends
<1> QED BY <1>6, <1>7, <1>8, <1>9, CalmConcat

LEMMA CalmPnpm == ASSUME NEW o PROVE CalmSteps(Pnpm(o))
<1>1. ASSUME NEW checks, NEW install, CalmSteps(checks), CalmSteps(install)
      PROVE  CalmSteps(ResolveInCopy(checks, install))
  <2> DEFINE copy == <<MkTemp("lock"), OnExit(RmFailed("lock")), Try("copy")>> \o install
             body == checks \o <<Choice(<<>>, copy)>>
  <2>1. CalmSteps(copy)
    BY <1>1, CalmStep, CalmTuple, CalmConcat
  <2>2. CalmSteps(body)
    <3> HIDE DEF copy
    <3>1. CalmSteps(<<Choice(<<>>, copy)>>)
      BY <2>1, CalmTuple, CalmCompound, CalmNone
    <3> QED BY <1>1, <3>1, CalmConcat
  <2>3. ResolveInCopy(checks, install) = <<Invoke(body)>>
    BY DEF ResolveInCopy
  <2> HIDE DEF body
  <2> QED BY <2>2, <2>3, CalmTuple, CalmCompound
<1>2. CalmSteps(resolveLockfileDir)
  BY <1>1, CalmStep, CalmTuple DEF resolveLockfileDir
<1>3. CalmSteps(installProjectIfNeeded)
  BY <1>1, CalmStep, CalmTuple DEF installProjectIfNeeded
<1>4. CASE o.curation
  <2>1. Pnpm(o) = <<Try("working directory"), Try("pnpm")>>
                  \o (<<Try("pnpm version")>> \o resolveLockfileDir \o <<OnExit(Rm("lock")), Try("parse lock")>>)
    BY <1>4 DEF Pnpm
  <2> QED BY <1>2, <2>1, CalmStep, CalmTuple, CalmConcat
<1>5. CASE ~o.curation
  <2>1. Pnpm(o) = <<Try("working directory"), Try("pnpm")>>
                  \o (installProjectIfNeeded \o <<OnExit(Rm("lock")), Try("pnpm ls")>>)
    BY <1>5 DEF Pnpm
  <2> QED BY <1>3, <2>1, CalmStep, CalmTuple, CalmConcat
<1> QED BY <1>4, <1>5

LEMMA CalmNpm == ASSUME NEW o PROVE CalmSteps(Npm(o))
<1> DEFINE login == Choice(<<>>, <<Try("configure .npmrc"), Edit(".npmrc"), OnExit(Restore({".npmrc"}))>>)
<1>1. Calm(login)
  BY CalmStep, CalmTuple, CalmCompound, CalmNone
<1>2. Npm(o) = <<Try("working directory"), Try("npm version"), Try("package.json")>>
               \o If(o.repo, <<login>>) \o NotInstalled(o) \o <<Try("dependencies map")>>
  BY DEF Npm
<1> HIDE DEF login
<1>3. CalmSteps(If(o.repo, <<login>>))
  BY <1>1, CalmTuple, CalmIf
<1> QED BY <1>2, <1>3, CalmNotInstalled, CalmStep, CalmTuple, CalmConcat

LEMMA CalmNuget == ASSUME NEW o PROVE CalmSteps(Nuget(o))
<1>1. CalmSteps(runDotnetRestoreAndLoadSolution(o))
  <2>1. CalmSteps(If(o.repo /\ o.curation, <<SetEnv("ArtifactoryUrl")>>))
    BY CalmStep, CalmTuple, CalmIf
  <2>2. CalmSteps(If(o.repo, <<Try("configuration file")>>))
    BY CalmStep, CalmTuple, CalmIf
  <2>3. CalmSteps(If(o.curation, getEnvVariablesForCurationAudit))
    BY CalmStep, CalmTuple, CalmIf DEF getEnvVariablesForCurationAudit
  <2>4. /\ CalmSteps(<<Try("tool name")>>) /\ CalmSteps(<<Try("command")>>)
        /\ CalmSteps(<<Run("work", "restore"), Try("load solution")>>)
    BY CalmStep, CalmTuple
  <2> QED BY <2>1, <2>2, <2>3, <2>4, CalmConcat DEF runDotnetRestoreAndLoadSolution
<1>2. CalmSteps(restoreInTempDirAndGetBuildInfo(o))
  <2>1. CalmSteps(<<MkTemp("work"), OnExit(Rm("work")), Try("copy")>>) /\ CalmSteps(<<Try("build info")>>)
    BY CalmStep, CalmTuple
  <2>2. CalmSteps(<<MkTemp("work"), OnExit(Rm("work")), Try("copy")>>
                  \o runDotnetRestoreAndLoadSolution(o) \o <<Try("build info")>>)
    BY <1>1, <2>1, CalmConcat
  <2> QED BY <2>2, CalmTuple, CalmCompound DEF restoreInTempDirAndGetBuildInfo
<1>3. CalmSteps(NotInstalled(o))
  BY CalmNotInstalled
<1>4. CalmSteps(<<Choice(restoreInTempDirAndGetBuildInfo(o), <<Try("build info")>>)>>)
  BY <1>2, CalmStep, CalmTuple, CalmCompound
<1>5. CalmSteps(<<Try("working directory"), Try("solution")>>)
  BY CalmStep, CalmTuple
<1> QED BY <1>3, <1>4, <1>5, CalmConcat DEF Nuget

LEMMA CalmMaven == ASSUME NEW o PROVE CalmSteps(Maven(o))
<1>1. CalmSteps(removeMavenConfig)
  <2>1. CalmSteps(<<Try("backup"), Edit("maven.config.bkp"), Try("remove maven.config"),
                    Edit("maven.config")>>)
    BY CalmStep, CalmTuple
  <2> QED BY <2>1, CalmStep, CalmTuple, CalmCompound, CalmNone DEF removeMavenConfig
<1>2. CalmSteps(RunMvnCmd)
  <2>1. CalmSteps(<<OnExit(Restore({"maven.config", "maven.config.bkp"})), Try("mvn")>>)
    BY CalmStep, CalmTuple
  <2>2. CalmSteps(removeMavenConfig \o <<OnExit(Restore({"maven.config", "maven.config.bkp"})), Try("mvn")>>)
    BY <1>1, <2>1, CalmConcat
  <2> QED BY <2>2, CalmTuple, CalmCompound DEF RunMvnCmd
<1>3. CalmSteps(CreateTempDirWithSettingsXmlIfNeeded(o))
  <2>1. CalmSteps(If(o.repo, <<Try("settings.xml")>>))
    BY CalmStep, CalmTuple, CalmIf
  <2>2. CalmSteps(<<MkTemp("work"), OnExit(RmFailed("work"))>> \o If(o.repo, <<Try("settings.xml")>>))
    BY <2>1, CalmStep, CalmTuple, CalmConcat
  <2> QED BY <2>2, CalmTuple, CalmCompound DEF CreateTempDirWithSettingsXmlIfNeeded
<1>4. CalmSteps(<<OnExit(Rm("work")), Choice(<<>>, RunMvnCmd)>>)
  BY <1>2, CalmStep, CalmTuple, CalmCompound, CalmNone
<1>5. CalmSteps(<<Try("maven wrapper")>>) /\ CalmSteps(<<Try("read output"), Try("parse output")>>)
  BY CalmStep, CalmTuple
<1> QED BY <1>2, <1>3, <1>4, <1>5, CalmConcat DEF Maven

LEMMA CalmGradle == CalmSteps(Gradle)
<1>1. CalmSteps(createDepTreeScriptAndGetDir)
  BY CalmStep, CalmTuple DEF createDepTreeScriptAndGetDir
<1>2. CalmSteps(execGradleDepTree)
  <2>1. CalmSteps(<<Try("gradle"), Run("target", "gradle clean"), OnExit(Restore({"output"})),
                    Try("read output")>>)
    BY CalmStep, CalmTuple
  <2> QED BY <2>1, CalmTuple, CalmCompound DEF execGradleDepTree
<1>3. /\ CalmSteps(<<OnExit(Lost(Rm("work"))), Try("gradle wrapper")>>)
      /\ CalmSteps(<<Try("parse output")>>)
  BY CalmStep, CalmTuple
<1> QED BY <1>1, <1>2, <1>3, CalmConcat DEF Gradle

LEMMA CalmGo == ASSUME NEW o PROVE CalmSteps(Golang(o))
<1>1. CalmSteps(If(o.curation, <<Try("cache folder"), SetEnv("GOMODCACHE")>>))
  BY CalmStep, CalmTuple, CalmIf
<1>2. CalmSteps(If(o.repo, <<Try("repository"), SetEnv("GOPROXY")>>))
  BY CalmStep, CalmTuple, CalmIf
<1>3. CalmSteps(If(~o.curation, <<Try("go version")>>))
  BY CalmStep, CalmTuple, CalmIf
<1>4. /\ CalmSteps(<<Try("working directory")>>)
      /\ CalmSteps(<<Try("go mod graph"), Try("go list"), Try("module name")>>)
  BY CalmStep, CalmTuple
<1> QED BY <1>1, <1>2, <1>3, <1>4, CalmConcat DEF Golang

LEMMA CalmOthers ==
    ASSUME NEW o
    PROVE  /\ CalmSteps(Gem) /\ CalmSteps(Conan) /\ CalmSteps(Swift) /\ CalmSteps(Cocoapods(o))
           /\ CalmSteps(Docker) /\ CalmSteps(HuggingFace)
<1>1. CalmSteps(Gem)
  BY CalmStep, CalmTuple DEF Gem
<1>2. CalmSteps(Conan)
  BY CalmStep, CalmTuple DEF Conan
<1>3. CalmSteps(Swift)
  <2>1. Calm(Fallback(<<Try("package name")>>, <<>>))
    BY CalmStep, CalmTuple, CalmCompound, CalmNone
  <2> QED BY <2>1, CalmStep, CalmTuple DEF Swift
<1>4. CalmSteps(Cocoapods(o))
  <2> DEFINE install == IF o.skip THEN <<Raise("notInstalled")>>
                        ELSE <<Try("pod"), Run("target", "pod install")>>
  <2>1. CalmSteps(install)
    BY CalmStep, CalmTuple
  <2>2. Cocoapods(o) = <<Try("xray version"), Try("working directory"), Choice(<<>>, install),
                         Try("dependencies")>>
    BY DEF Cocoapods
  <2> HIDE DEF install
  <2> QED BY <2>1, <2>2, CalmStep, CalmTuple, CalmCompound, CalmNone
<1>5. CalmSteps(Docker)
  <2>1. CalmSteps(<<Try("docker pull"), Try("platform"), Try("digest")>>)
    BY CalmStep, CalmTuple
  <2>2. Calm(Choice(<<Try("docker pull"), Try("platform"), Try("digest")>>, <<>>))
    BY <2>1, CalmCompound, CalmNone
  <2> QED BY <2>2, CalmStep, CalmTuple DEF Docker
<1>6. CalmSteps(HuggingFace)
  BY CalmStep, CalmTuple, CalmCompound DEF HuggingFace
<1> QED BY <1>1, <1>2, <1>3, <1>4, <1>5, <1>6

-----------------------------------------------------------------------------
(* DepTreeBuilders: a failure reaches the caller.                          *)

\* A step that sets the error and goes on is the last one, or may be forgotten.
Orderly(todo, forgotten) ==
    \E S : /\ todo \in Seq(S)
           /\ \A k \in 1 .. Len(todo) :
                 \/ Calm(todo[k])
                 \/ todo[k].op = "assign" /\ (k = Len(todo) \/ todo[k].arg \in forgotten)

LEMMA OrderlyCalm ==
    ASSUME NEW steps, NEW forgotten, CalmSteps(steps)
    PROVE  Orderly(steps, forgotten)
BY CalmElements DEF Orderly

LEMMA OrderlyAfterCalm ==
    ASSUME NEW a, NEW b, NEW forgotten, CalmSteps(a), Orderly(b, forgotten)
    PROVE  Orderly(a \o b, forgotten)
<1>1. PICK S : a \in Seq(S) /\ \A i \in 1 .. Len(a) : Calm(a[i])
  BY CalmElements
<1>2. PICK T : /\ b \in Seq(T)
               /\ \A k \in 1 .. Len(b) :
                     \/ Calm(b[k])
                     \/ b[k].op = "assign" /\ (k = Len(b) \/ b[k].arg \in forgotten)
  BY DEF Orderly
<1>3. a \in Seq(S \cup T) /\ b \in Seq(S \cup T)
  BY <1>1, <1>2
<1> DEFINE c == a \o b
<1>4. /\ c \in Seq(S \cup T) /\ Len(c) = Len(a) + Len(b)
      /\ \A k \in 1 .. Len(a) + Len(b) : c[k] = IF k <= Len(a) THEN a[k] ELSE b[k - Len(a)]
      /\ Len(a) \in Nat /\ Len(b) \in Nat
  BY <1>3, ConcatProperties, LenProperties
<1> HIDE DEF c
<1>5. ASSUME NEW k \in 1 .. Len(c)
      PROVE  \/ Calm(c[k])
             \/ c[k].op = "assign" /\ (k = Len(c) \/ c[k].arg \in forgotten)
  <2>1. CASE k <= Len(a)
    BY <1>1, <1>4, <2>1
  <2>2. CASE k > Len(a)
    <3>1. k - Len(a) \in 1 .. Len(b) /\ c[k] = b[k - Len(a)] /\ (k - Len(a) = Len(b) => k = Len(c))
      BY <1>4, <2>2
    <3> QED BY <1>2, <3>1
  <2> QED BY <1>4, <2>1, <2>2
<1>6. Orderly(c, forgotten)
  BY <1>4, <1>5 DEF Orderly
<1> QED BY <1>6 DEF c

LEMMA OrderlyTail ==
    ASSUME NEW todo, NEW forgotten, Orderly(todo, forgotten), todo # <<>>
    PROVE  /\ Orderly(Tail(todo), forgotten)
           /\ \/ Calm(Head(todo))
              \/ Head(todo).op = "assign" /\ (Tail(todo) = <<>> \/ Head(todo).arg \in forgotten)
<1>1. PICK S : /\ todo \in Seq(S)
               /\ \A k \in 1 .. Len(todo) :
                     \/ Calm(todo[k])
                     \/ todo[k].op = "assign" /\ (k = Len(todo) \/ todo[k].arg \in forgotten)
  BY DEF Orderly
<1>2. /\ Tail(todo) \in Seq(S) /\ Len(Tail(todo)) = Len(todo) - 1 /\ Head(todo) = todo[1]
      /\ Len(todo) \in Nat /\ Len(todo) >= 1
      /\ \A k \in 1 .. Len(Tail(todo)) : Tail(todo)[k] = todo[k + 1]
      /\ Len(todo) = 1 => Tail(todo) = <<>>
  <2>1. Len(todo) \in Nat /\ Len(todo) # 0
    BY <1>1, EmptySeq
  <2>2. Tail(todo) \in Seq(S) /\ Len(Tail(todo)) = Len(todo) - 1 /\ Head(todo) = todo[1]
    BY <1>1, HeadTailProperties
  <2>3. \A k \in 1 .. Len(Tail(todo)) : Tail(todo)[k] = todo[k + 1]
    BY <1>1, HeadTailProperties
  <2> QED BY <2>1, <2>2, <2>3, EmptySeq
<1> DEFINE rest == Tail(todo)
<1>3. Orderly(rest, forgotten)
  <2> HIDE DEF rest
  <2>1. /\ rest \in Seq(S) /\ Len(rest) = Len(todo) - 1
        /\ \A k \in 1 .. Len(rest) : rest[k] = todo[k + 1]
    BY <1>2 DEF rest
  <2>2. ASSUME NEW k \in 1 .. Len(rest)
        PROVE  \/ Calm(rest[k])
               \/ rest[k].op = "assign" /\ (k = Len(rest) \/ rest[k].arg \in forgotten)
    <3>1. Len(todo) \in Nat /\ Len(rest) = Len(todo) - 1 /\ rest[k] = todo[k + 1]
      BY <1>2, <2>1
    <3>2. k + 1 \in 1 .. Len(todo) /\ (k + 1 = Len(todo) => k = Len(rest))
      BY <3>1
    <3> QED BY <1>1, <3>1, <3>2
  <2> QED BY <2>1, <2>2 DEF Orderly
<1>4. 1 \in 1 .. Len(todo)
  BY <1>2
<1> QED BY <1>1, <1>2, <1>3, <1>4

\* What a step holds, and where the branches and the call of one lead.
LEMMA CalmHead ==
    ASSUME NEW s, Calm(s)
    PROVE  /\ s.op # "assign"
           /\ s.op = "call" => s.arg \in {"raise", "else"}
           /\ s.op \in {"choice", "call"} => CalmSteps(s.body) /\ CalmSteps(s.alt)
BY DEF Calm, CalmSteps, Closed

LEMMA OrderlyEnds ==
    ASSUME NEW p, NEW a, NEW u, NEW forgotten, Calm(p), a.op = "assign", u.op = "assign"
    PROVE  /\ Orderly(<<p, a>>, forgotten)
           /\ a.arg \in forgotten => Orderly(<<p, a, u>>, forgotten)
<1>1. <<p, a>> \in Seq({p, a}) /\ Len(<<p, a>>) = 2 /\ <<p, a>>[1] = p /\ <<p, a>>[2] = a
  OBVIOUS
<1>2. /\ <<p, a, u>> \in Seq({p, a, u}) /\ Len(<<p, a, u>>) = 3
      /\ <<p, a, u>>[1] = p /\ <<p, a, u>>[2] = a /\ <<p, a, u>>[3] = u
  OBVIOUS
<1>3. \A k \in 1 .. 2 : k = 1 \/ k = 2
  OBVIOUS
<1>4. \A k \in 1 .. 3 : k = 1 \/ k = 2 \/ k = 3
  OBVIOUS
<1>5. Orderly(<<p, a>>, forgotten)
  <2> DEFINE s == <<p, a>>
  <2>1. s \in Seq({p, a}) /\ Len(s) = 2 /\ s[1] = p /\ s[2] = a
    BY <1>1
  <2> HIDE DEF s
  <2>2. ASSUME NEW k \in 1 .. Len(s)
        PROVE  Calm(s[k]) \/ (s[k].op = "assign" /\ (k = Len(s) \/ s[k].arg \in forgotten))
    <3>1. CASE k = 1
      BY <2>1, <3>1
    <3>2. CASE k = 2
      BY <2>1, <3>2
    <3> QED BY <1>3, <2>1, <3>1, <3>2
  <2>3. Orderly(s, forgotten)
    BY <2>1, <2>2 DEF Orderly
  <2> QED BY <2>3 DEF s
<1>6. a.arg \in forgotten => Orderly(<<p, a, u>>, forgotten)
  <2> SUFFICES ASSUME a.arg \in forgotten PROVE Orderly(<<p, a, u>>, forgotten)
    OBVIOUS
  <2> DEFINE s == <<p, a, u>>
  <2>1. s \in Seq({p, a, u}) /\ Len(s) = 3 /\ s[1] = p /\ s[2] = a /\ s[3] = u
    BY <1>2
  <2> HIDE DEF s
  <2>2. ASSUME NEW k \in 1 .. Len(s)
        PROVE  Calm(s[k]) \/ (s[k].op = "assign" /\ (k = Len(s) \/ s[k].arg \in forgotten))
    <3>1. CASE k = 1
      BY <2>1, <3>1
    <3>2. CASE k = 2
      BY <2>1, <3>2
    <3>3. CASE k = 3
      BY <2>1, <3>3
    <3> QED BY <1>4, <2>1, <3>1, <3>2, <3>3
  <2>3. Orderly(s, forgotten)
    BY <2>1, <2>2 DEF Orderly
  <2> QED BY <2>3 DEF s
<1> QED BY <1>5, <1>6

LEMMA PairAndOne == ASSUME NEW x, NEW y, NEW z PROVE <<x, y, z>> = <<x, y>> \o <<z>>
OBVIOUS

LEMMA OrderlyPython ==
    ASSUME NEW tool \in {"pip", "pipenv", "poetry"}, NEW o, NEW forgotten,
           o.curation => "dependencies" \in forgotten
    PROVE  Orderly(getDependencies(tool, o), forgotten)
<1> DEFINE first == <<Try("working directory"), MkTemp("work"), ChDir("work"),
                      OnExit(Rm("work")), OnExit(Back), Try("copy")>>
           install == If(~o.skip \/ (tool = "pipenv" /\ o.curation), runPythonInstall(tool, o))
           urls == If(o.curation, <<Assign("download URLs")>>)
<1>1. PICK p, a, u : p = Try("dependencies path") /\ a = Assign("dependencies") /\ u = Assign("download URLs")
  OBVIOUS
<1>2. Calm(p) /\ a.op = "assign" /\ a.arg = "dependencies" /\ u.op = "assign"
  BY <1>1, CalmStep DEF Assign, Step
<1>3. CalmSteps(first)
  BY CalmStep, CalmTuple
<1>4. CalmSteps(install)
  BY CalmPython, CalmIf
<1>5. getDependencies(tool, o) = ((first \o install) \o <<p, a>>) \o urls
  BY <1>1 DEF getDependencies
<1> HIDE DEF first, install
<1>6. PICK before : before = first \o install
  OBVIOUS
<1>7. CalmSteps(before)
  BY <1>3, <1>4, <1>6, CalmConcat
<1>8. CASE o.curation
  <2>1. urls = <<u>>
    BY <1>1, <1>8 DEF If
  <2>2. PICK S : before \in Seq(S)
    BY <1>7 DEF CalmSteps
  <2>3. <<p, a>> \o <<u>> = <<p, a, u>>
    BY PairAndOne
  <2>4. /\ before \in Seq(S \cup {p, a, u}) /\ <<p, a>> \in Seq(S \cup {p, a, u})
        /\ <<u>> \in Seq(S \cup {p, a, u})
    BY <2>2
  <2>5. (before \o <<p, a>>) \o <<u>> = before \o (<<p, a>> \o <<u>>)
    BY <2>4, ConcatAssociative
  <2>6. Orderly(<<p, a, u>>, forgotten)
    BY <1>2, <1>8, OrderlyEnds
  <2>7. getDependencies(tool, o) = before \o <<p, a, u>>
    BY <1>5, <1>6, <2>1, <2>3, <2>5
  <2> QED BY <1>7, <2>6, <2>7, OrderlyAfterCalm
<1>9. CASE ~o.curation
  <2>1. urls = <<>>
    BY <1>9 DEF If
  <2>2. Orderly(<<p, a>>, forgotten)
    BY <1>2, OrderlyEnds
  <2>3. Orderly(before \o <<p, a>>, forgotten)
    BY <1>7, <2>2, OrderlyAfterCalm
  <2>4. (before \o <<p, a>>) \o <<>> = before \o <<p, a>>
    <3>1. PICK U : (before \o <<p, a>>) \in Seq(U)
      BY <2>3 DEF Orderly
    <3> QED BY <3>1, ConcatEmptySeq
  <2> QED BY <1>5, <1>6, <2>1, <2>3, <2>4
<1> QED BY <1>8, <1>9

LEMMA OrderlyTree ==
    ASSUME NEW t, NEW o, NEW forgotten,
           o.curation /\ t \in {"pip", "pipenv", "poetry"} => "dependencies" \in forgotten
    PROVE  Orderly(GetTechDependencyTree(t, o), forgotten)
<1>1. Orderly(Builder(t, o), forgotten)
  <2>1. CASE t \in {"pip", "pipenv", "poetry"}
    <3>1. Builder(t, o) = getDependencies(t, o)
      BY <2>1, Zenon DEF Builder
    <3> QED BY <2>1, <3>1, OrderlyPython
  <2>2. CASE t \notin {"pip", "pipenv", "poetry"}
    <3>1. CalmSteps(Builder(t, o))
      <4>1. CASE t = "uv"
        BY <4>1, CalmUv DEF Builder
      <4>2. CASE t = "cargo"
        BY <4>2, CalmCargo DEF Builder
      <4>3. CASE t = "yarn"
        BY <4>3, CalmYarn DEF Builder
      <4>4. CASE t = "pnpm"
        BY <4>4, CalmPnpm DEF Builder
      <4>5. CASE t = "npm"
        BY <4>5, CalmNpm DEF Builder
      <4>6. CASE t = "nuget"
        BY <4>6, CalmNuget DEF Builder
      <4>7. CASE t = "maven"
        BY <4>7, CalmMaven DEF Builder
      <4>8. CASE t = "gradle"
        BY <4>8, CalmGradle DEF Builder
      <4>9. CASE t = "go"
        BY <4>9, CalmGo DEF Builder
      <4>10. CASE t \in {"gem", "conan", "swift", "cocoapods", "docker", "huggingface"}
        BY <4>10, CalmOthers DEF Builder
      <4>11. CASE t \notin {"uv", "cargo", "yarn", "pnpm", "npm", "nuget", "maven", "gradle", "go",
                            "gem", "conan", "swift", "cocoapods", "docker", "huggingface"}
        <5>1. Builder(t, o) = <<Raise("failed")>>
          BY <2>2, <4>11, Zenon DEF Builder
        <5> QED BY <5>1, CalmStep, CalmTuple
      <4> QED BY <4>1, <4>2, <4>3, <4>4, <4>5, <4>6, <4>7, <4>8, <4>9, <4>10, <4>11
    <3> QED BY <3>1, OrderlyCalm
  <2> QED BY <2>1, <2>2
<1>2. CalmSteps(If(o.curation /\ t \in {"maven", "go"}, <<Try("cache exists")>>))
  BY CalmStep, CalmTuple, CalmIf
<1> QED BY <1>1, <1>2, OrderlyAfterCalm DEF GetTechDependencyTree

\* The frames as records, with orderly steps and calm alternatives.
IsFrame(f) == f = [todo |-> f.todo, undo |-> f.undo, err |-> f.err, onErr |-> f.onErr,
                   alt |-> f.alt, before |-> f.before]
GoodFrame(f) == IsFrame(f) /\ Orderly(f.todo, Overwritten) /\ CalmSteps(f.alt)
StepsInv == \E F : frames \in Seq(F) /\ \A f \in F : GoodFrame(f)
TechsInv == options.techs \in Seq(STRING) /\ pending \in Seq(STRING)
ReturnInv == FailuresInv /\ StepsInv /\ TechsInv

LEMMA FramesChange ==
    ASSUME NEW F, NEW fs \in Seq(F), fs # <<>>, NEW f
    PROVE  /\ <<f>> \o Tail(fs) \in Seq(F \cup {f})
           /\ Len(<<f>> \o Tail(fs)) = Len(fs) /\ Len(fs) \in Nat \ {0}
           /\ (<<f>> \o Tail(fs))[1] = f
           /\ \A i \in 2 .. Len(fs) : (<<f>> \o Tail(fs))[i] = fs[i]
           /\ fs[1] \in F
<1>1. Len(fs) \in Nat \ {0} /\ fs[1] \in F
  BY EmptySeq, ElementOfSeq, LenProperties
<1>2. Tail(fs) \in Seq(F) /\ Len(Tail(fs)) = Len(fs) - 1
      /\ \A i \in 1 .. Len(Tail(fs)) : Tail(fs)[i] = fs[i + 1]
  BY HeadTailProperties
<1>3. <<f>> \in Seq(F \cup {f}) /\ Len(<<f>>) = 1 /\ <<f>>[1] = f
  OBVIOUS
<1>4. PICK t : t = Tail(fs)
  OBVIOUS
<1>5. t \in Seq(F \cup {f}) /\ Len(t) = Len(fs) - 1
  BY <1>2, <1>4
<1>6. PICK h : h = <<f>>
  OBVIOUS
<1>7. /\ h \o t \in Seq(F \cup {f}) /\ Len(h \o t) = Len(fs)
      /\ \A i \in 1 .. Len(fs) : (h \o t)[i] = IF i <= 1 THEN h[i] ELSE t[i - 1]
  BY <1>1, <1>3, <1>5, <1>6, ConcatProperties
<1>8. ASSUME NEW i \in 2 .. Len(fs)
      PROVE  (h \o t)[i] = fs[i]
  <2>1. i - 1 \in 1 .. Len(Tail(fs)) /\ i - 1 + 1 = i /\ ~(i <= 1) /\ i \in 1 .. Len(fs)
    BY <1>1, <1>2
  <2> QED BY <1>2, <1>4, <1>7, <2>1
<1>9. (h \o t)[1] = f
  BY <1>1, <1>3, <1>6, <1>7
<1> QED BY <1>1, <1>4, <1>6, <1>7, <1>8, <1>9

\* What the invariant says of the call that runs.
LEMMA TopFacts ==
    ASSUME ReturnInv, phase = "building"
    PROVE  /\ frames # <<>> /\ GoodFrame(Top) /\ Top.onErr \in {"raise", "else"}
           /\ Top.todo # <<>> \/ Top.err = {} => failures \subseteq Top.before \cup Overwritten
<1>1. frames # <<>>
  BY DEF ReturnInv, FailuresInv, FramesInv
<1>2. PICK F : frames \in Seq(F) /\ \A f \in F : GoodFrame(f)
  BY DEF ReturnInv, StepsInv
<1>3. frames[1] \in F /\ 1 \in DOMAIN frames
  BY <1>1, <1>2, FramesChange
<1> QED BY <1>1, <1>2, <1>3 DEF ReturnInv, FailuresInv, FramesInv, Seen, Top

\* A step that changes the call that runs, and no other one.
LEMMA TopStep ==
    ASSUME ReturnInv, phase = "building", NEW f, IsFrame(f),
           f.onErr = Top.onErr, f.before = Top.before, f.alt = Top.alt,
           Orderly(f.todo, Overwritten),
           f.todo # <<>> \/ f.err = {} => failures' \subseteq f.before \cup Overwritten,
           WithTop(f), UNCHANGED outerVars
    PROVE  ReturnInv'
<1>1. frames # <<>> /\ GoodFrame(Top) /\ Top.onErr \in {"raise", "else"}
  BY TopFacts
<1>2. PICK F : frames \in Seq(F) /\ \A g \in F : GoodFrame(g)
  BY DEF ReturnInv, StepsInv
<1>3. /\ frames' \in Seq(F \cup {f})
      /\ Len(frames') = Len(frames) /\ Len(frames) \in Nat \ {0}
      /\ frames'[1] = f /\ \A i \in 2 .. Len(frames) : frames'[i] = frames[i]
  BY <1>1, <1>2, FramesChange DEF WithTop
<1>4. DOMAIN frames' = 1 .. Len(frames) /\ DOMAIN frames = 1 .. Len(frames) /\ frames' # <<>>
  BY <1>2, <1>3, LenProperties, EmptySeq
<1>5. options' = options /\ pending' = pending /\ built' = built /\ empty' = empty
      /\ buildErr' = buildErr /\ sbom' = sbom /\ returned' = returned /\ phase' = phase
  BY DEF outerVars
<1>6. Overwritten' = Overwritten
  BY <1>5 DEF Overwritten, Ran
<1>7. GoodFrame(f)
  BY <1>1 DEF GoodFrame
<1>8. StepsInv'
  <2>1. \A g \in F \cup {f} : GoodFrame(g)
    BY <1>2, <1>7
  <2>2. \A g \in F \cup {f} : GoodFrame(g)'
    BY <1>6, <2>1 DEF GoodFrame
  <2> QED BY <1>3, <2>2 DEF StepsInv
<1>9. TechsInv'
  BY <1>5 DEF ReturnInv, TechsInv
<1>10. \A i \in 1 .. Len(frames) : frames'[i].before = frames[i].before /\ frames'[i].onErr = frames[i].onErr
  BY <1>3 DEF Top
<1>11. FramesInv'
  <2>1. \A i \in 1 .. Len(frames) :
          /\ frames[i].onErr \in {"raise", "else"}
          /\ i > 1 => frames[i - 1].before \subseteq frames[i].before \cup Overwritten
    BY <1>3, <1>4 DEF ReturnInv, FailuresInv, FramesInv, Seen
  <2>2. ASSUME NEW i \in 1 .. Len(frames)
        PROVE  /\ frames'[i].onErr \in {"raise", "else"}
               /\ i > 1 \/ frames'[i].todo # <<>> \/ frames'[i].err = {} =>
                    Seen(i)' \subseteq frames'[i].before \cup Overwritten
    <3>1. CASE i = 1
      BY <1>3, <1>10, <2>1, <3>1 DEF Seen
    <3>2. CASE i > 1
      <4>1. Seen(i)' = frames'[i - 1].before /\ i - 1 \in 1 .. Len(frames)
        BY <1>3, <3>2 DEF Seen
      <4> QED BY <1>10, <2>1, <3>2, <4>1
    <3> QED BY <1>3, <3>1, <3>2
  <2>3. buildErr = {} => frames[Len(frames)].before \subseteq Overwritten
    BY <1>1 DEF ReturnInv, FailuresInv, FramesInv
  <2>4. frames'[Len(frames')].before = frames[Len(frames)].before
    BY <1>3, <1>10
  <2>5. phase' = "building" /\ frames' # <<>>
    BY <1>4, <1>5
  <2> QED BY <1>4, <1>5, <1>6, <2>2, <2>3, <2>4, <2>5 DEF FramesInv
<1>12. PendingInv'
  BY <1>5 DEF ReturnInv, FailuresInv, PendingInv, Resolved
<1> QED BY <1>5, <1>8, <1>9, <1>11, <1>12 DEF ReturnInv, FailuresInv

\* The call returns an error.
LEMMA ReturnStep ==
    ASSUME ReturnInv, phase = "building", NEW kind, Return(kind), UNCHANGED outerVars
    PROVE  ReturnInv'
<1>1. frames # <<>> /\ IsFrame(Top)
  BY TopFacts DEF GoodFrame
<1>2. PICK f : f = [Top EXCEPT !.todo = <<>>, !.err = @ \cup {kind}]
  OBVIOUS
<1>3. /\ f.onErr = Top.onErr /\ f.before = Top.before /\ f.alt = Top.alt /\ f.todo = <<>>
      /\ IsFrame(f) /\ f.err # {}
  BY <1>1, <1>2 DEF IsFrame
<1>4. Orderly(f.todo, Overwritten)
  BY <1>3, CalmNone, OrderlyCalm
<1>5. WithTop(f)
  BY <1>2 DEF Return
<1> QED BY <1>3, <1>4, <1>5, TopStep

\* The call goes on with what is left of it.
LEMMA RestFacts ==
    ASSUME ReturnInv, phase = "building", Top.todo # <<>>
    PROVE  /\ IsFrame(Rest) /\ Rest.onErr = Top.onErr /\ Rest.before = Top.before
           /\ Rest.alt = Top.alt /\ Rest.todo = Tail(Top.todo) /\ Rest.undo = Top.undo
           /\ Rest.err = Top.err
           /\ Orderly(Rest.todo, Overwritten)
           /\ failures \subseteq Rest.before \cup Overwritten
           /\ \/ Calm(Now)
              \/ Now.op = "assign" /\ (Rest.todo = <<>> \/ Now.arg \in Overwritten)
<1>1. frames # <<>> /\ IsFrame(Top) /\ Orderly(Top.todo, Overwritten)
      /\ failures \subseteq Top.before \cup Overwritten
  BY TopFacts DEF GoodFrame
<1>2. /\ IsFrame(Rest) /\ Rest.onErr = Top.onErr /\ Rest.before = Top.before
      /\ Rest.alt = Top.alt /\ Rest.todo = Tail(Top.todo) /\ Rest.undo = Top.undo
      /\ Rest.err = Top.err
  <2>1. PICK t, r : t = Top /\ r = [t EXCEPT !.todo = Tail(@)]
    OBVIOUS
  <2>2. IsFrame(t) /\ Rest = r
    BY <1>1, <2>1 DEF Rest
  <2>3. /\ r.onErr = t.onErr /\ r.before = t.before /\ r.alt = t.alt /\ r.todo = Tail(t.todo)
        /\ r.undo = t.undo /\ r.err = t.err /\ IsFrame(r)
    BY <2>1, <2>2 DEF IsFrame
  <2> QED BY <2>1, <2>2, <2>3
<1> QED BY <1>1, <1>2, OrderlyTail DEF Now

LEMMA RestStep ==
    ASSUME ReturnInv, phase = "building", Top.todo # <<>>, WithTop(Rest),
           UNCHANGED failures, UNCHANGED outerVars
    PROVE  ReturnInv'
<1>1. PICK f : f = Rest
  OBVIOUS
<1>2. /\ IsFrame(f) /\ f.onErr = Top.onErr /\ f.before = Top.before /\ f.alt = Top.alt
      /\ Orderly(f.todo, Overwritten) /\ failures' \subseteq f.before \cup Overwritten
  BY <1>1, RestFacts
<1> QED BY <1>1, <1>2, TopStep

LEMMA ChooseKeeps == ASSUME ReturnInv, Choose PROVE ReturnInv'
<1>1. phase = "building" /\ Top.todo # <<>> /\ Now.op = "choice" /\ UNCHANGED failures /\ UNCHANGED outerVars
  BY DEF Choose, Doing
<1>2. PICK branch \in {Now.body, Now.alt} : WithTop([Rest EXCEPT !.todo = branch \o @])
  BY DEF Choose
<1>3. PICK f : f = [Rest EXCEPT !.todo = branch \o @]
  OBVIOUS
<1>4. IsFrame(Rest) /\ Orderly(Rest.todo, Overwritten) /\ failures \subseteq Rest.before \cup Overwritten
      /\ Rest.onErr = Top.onErr /\ Rest.before = Top.before /\ Rest.alt = Top.alt
      /\ Calm(Now)
  BY <1>1, RestFacts
<1>5. CalmSteps(branch)
  BY <1>1, <1>4, CalmHead
<1>6. /\ IsFrame(f) /\ f.onErr = Top.onErr /\ f.before = Top.before /\ f.alt = Top.alt
      /\ f.todo = branch \o Rest.todo
  BY <1>3, <1>4 DEF IsFrame
<1>7. Orderly(f.todo, Overwritten)
  BY <1>4, <1>5, <1>6, OrderlyAfterCalm
<1>8. failures' \subseteq f.before \cup Overwritten
  BY <1>1, <1>4, <1>6
<1> QED BY <1>1, <1>2, <1>3, <1>6, <1>7, <1>8, TopStep

LEMMA AssignKeeps == ASSUME ReturnInv, AssignError PROVE ReturnInv'
<1>1. phase = "building" /\ Top.todo # <<>> /\ Now.op = "assign" /\ UNCHANGED outerVars
  BY DEF AssignError, Doing
<1>2. /\ IsFrame(Rest) /\ Orderly(Rest.todo, Overwritten) /\ failures \subseteq Rest.before \cup Overwritten
      /\ Rest.onErr = Top.onErr /\ Rest.before = Top.before /\ Rest.alt = Top.alt
      /\ Rest.todo = <<>> \/ Now.arg \in Overwritten
  <2>1. ~Calm(Now)
    BY <1>1, CalmHead
  <2> QED BY <1>1, <2>1, RestFacts
<1>3. CASE WithTop([Rest EXCEPT !.err = {}]) /\ UNCHANGED failures
  <2>1. PICK f : f = [Rest EXCEPT !.err = {}]
    OBVIOUS
  <2>2. /\ IsFrame(f) /\ f.onErr = Top.onErr /\ f.before = Top.before /\ f.alt = Top.alt
        /\ f.todo = Rest.todo
    BY <1>2, <2>1 DEF IsFrame
  <2>3. failures' \subseteq f.before \cup Overwritten
    BY <1>2, <1>3, <2>2
  <2> QED BY <1>1, <1>2, <1>3, <2>1, <2>2, <2>3, TopStep
<1>4. CASE WithTop([Rest EXCEPT !.err = {"failed"}]) /\ failures' = failures \cup {Now.arg}
  <2>1. PICK f : f = [Rest EXCEPT !.err = {"failed"}]
    OBVIOUS
  <2>2. /\ IsFrame(f) /\ f.onErr = Top.onErr /\ f.before = Top.before /\ f.alt = Top.alt
        /\ f.todo = Rest.todo /\ f.err # {}
    BY <1>2, <2>1 DEF IsFrame
  <2>3. f.todo # <<>> => failures' \subseteq f.before \cup Overwritten
    BY <1>2, <1>4, <2>2
  <2> QED BY <1>1, <1>2, <1>4, <2>1, <2>2, <2>3, TopStep
<1> QED BY <1>3, <1>4 DEF AssignError

LEMMA DeferKeeps == ASSUME ReturnInv, Defer PROVE ReturnInv'
<1>1. phase = "building" /\ Top.todo # <<>> /\ UNCHANGED failures /\ UNCHANGED outerVars
      /\ WithTop([Rest EXCEPT !.undo = <<Now.arg>> \o @])
  BY DEF Defer, Doing
<1>2. /\ IsFrame(Rest) /\ Orderly(Rest.todo, Overwritten) /\ failures \subseteq Rest.before \cup Overwritten
      /\ Rest.onErr = Top.onErr /\ Rest.before = Top.before /\ Rest.alt = Top.alt
  BY <1>1, RestFacts
<1>3. PICK f : f = [Rest EXCEPT !.undo = <<Now.arg>> \o @]
  OBVIOUS
<1>4. /\ IsFrame(f) /\ f.onErr = Top.onErr /\ f.before = Top.before /\ f.alt = Top.alt
      /\ f.todo = Rest.todo
  BY <1>2, <1>3 DEF IsFrame
<1>5. failures' \subseteq f.before \cup Overwritten
  BY <1>1, <1>2, <1>4
<1> QED BY <1>1, <1>2, <1>3, <1>4, <1>5, TopStep

\* A deferred function that works, or whose failure is not joined.
LEMMA UndoneStep ==
    ASSUME ReturnInv, Undoing, WithTop(Undone), UNCHANGED failures, UNCHANGED outerVars
    PROVE  ReturnInv'
<1>1. phase = "building" /\ Top.todo = <<>>
  BY DEF Undoing
<1>2. /\ frames # <<>> /\ GoodFrame(Top) /\ IsFrame(Top)
      /\ Top.err = {} => failures \subseteq Top.before \cup Overwritten
  BY <1>1, TopFacts DEF GoodFrame
<1>3. PICK f : f = Undone
  OBVIOUS
<1>4. /\ IsFrame(f) /\ f.onErr = Top.onErr /\ f.before = Top.before /\ f.alt = Top.alt
      /\ f.todo = <<>> /\ f.err = Top.err
  BY <1>1, <1>2, <1>3 DEF IsFrame, Undone
<1>5. f.todo # <<>> \/ f.err = {} => failures' \subseteq f.before \cup Overwritten
  BY <1>2, <1>4
<1>6. Orderly(f.todo, Overwritten)
  BY <1>4, CalmNone, OrderlyCalm
<1> QED BY <1>1, <1>3, <1>4, <1>5, <1>6, TopStep

LEMMA UndoKeeps == ASSUME ReturnInv, UndoWorks \/ UndoFails PROVE ReturnInv'
<1>1. CASE UndoWorks
  BY <1>1, UndoneStep DEF UndoWorks
<1>2. CASE UndoFails
  <2>1. Undoing /\ UNCHANGED outerVars /\ phase = "building" /\ Top.todo = <<>>
    BY <1>2 DEF UndoFails, Undoing
  <2>2. CASE WithTop(Undone) /\ UNCHANGED failures
    BY <2>1, <2>2, UndoneStep
  <2>3. CASE WithTop([Undone EXCEPT !.err = @ \cup {"failed"}])
    <3>1. PICK f : f = [Undone EXCEPT !.err = @ \cup {"failed"}]
      OBVIOUS
    <3>2. IsFrame(Top)
      BY <2>1, TopFacts DEF GoodFrame
    <3>3. /\ IsFrame(f) /\ f.onErr = Top.onErr /\ f.before = Top.before /\ f.alt = Top.alt
          /\ f.todo = <<>> /\ f.err # {}
      BY <2>1, <3>1, <3>2 DEF IsFrame, Undone
    <3>4. Orderly(f.todo, Overwritten)
      BY <3>3, CalmNone, OrderlyCalm
    <3> QED BY <2>1, <2>3, <3>1, <3>3, <3>4, TopStep
  <2> QED BY <1>2, <2>2, <2>3 DEF UndoFails
<1> QED BY <1>1, <1>2

\* The steps that do not call or return from another function.
LEMMA StepsKeep ==
    ASSUME ReturnInv, StepWorks \/ StepFails \/ RaiseError \/ RunCommand
    PROVE  ReturnInv'
<1>1. CASE StepWorks
  BY <1>1, RestStep DEF StepWorks, Doing
<1>2. CASE StepFails
  BY <1>2, ReturnStep DEF StepFails, Doing
<1>3. CASE RaiseError
  BY <1>3, ReturnStep DEF RaiseError, Doing
<1>4. CASE RunCommand
  BY <1>4, RestStep, ReturnStep DEF RunCommand, Doing
<1> QED BY <1>1, <1>2, <1>3, <1>4

LEMMA OneElement ==
    ASSUME NEW F, NEW f \in F
    PROVE  <<f>> \in Seq(F) /\ Len(<<f>>) = 1 /\ <<f>>[1] = f
OBVIOUS

\* A call that fails is a failure of the caller, or the caller goes on as if
\* it had not been made.
LEMMA EnterCallKeeps == ASSUME ReturnInv, EnterCall PROVE ReturnInv'
<1>1. phase = "building" /\ Top.todo # <<>> /\ Now.op = "call" /\ UNCHANGED failures /\ UNCHANGED outerVars
      /\ frames' = <<Frame(Now.body, Now.arg, Now.alt), Rest>> \o Tail(frames)
  BY DEF EnterCall, Doing
<1>2. /\ IsFrame(Rest) /\ Orderly(Rest.todo, Overwritten) /\ failures \subseteq Rest.before \cup Overwritten
      /\ Rest.onErr = Top.onErr /\ Rest.before = Top.before /\ Rest.alt = Top.alt
      /\ Calm(Now)
  BY <1>1, RestFacts
<1>3. frames # <<>> /\ GoodFrame(Top) /\ Top.onErr \in {"raise", "else"}
  BY <1>1, TopFacts
<1>4. PICK r, n : r = Rest /\ n = Frame(Now.body, Now.arg, Now.alt)
  OBVIOUS
<1>5. Now.arg \in {"raise", "else"} /\ CalmSteps(Now.body) /\ CalmSteps(Now.alt)
  BY <1>1, <1>2, CalmHead
<1>6. GoodFrame(n) /\ n.before = failures /\ n.onErr \in {"raise", "else"}
  <2>1. n.todo = Now.body /\ n.alt = Now.alt /\ n.onErr = Now.arg /\ n.before = failures /\ IsFrame(n)
    BY <1>4 DEF Frame, IsFrame
  <2> QED BY <1>5, <2>1, OrderlyCalm DEF GoodFrame
<1>7. GoodFrame(r) /\ r.onErr \in {"raise", "else"} /\ failures \subseteq r.before \cup Overwritten
      /\ r.before = Top.before
  BY <1>2, <1>3, <1>4 DEF GoodFrame
<1>8. PICK F : frames \in Seq(F) /\ \A g \in F : GoodFrame(g)
  BY DEF ReturnInv, StepsInv
<1>9. PICK fs : fs = <<r>> \o Tail(frames)
  OBVIOUS
<1>10. /\ fs \in Seq(F \cup {r}) /\ Len(fs) = Len(frames) /\ Len(frames) \in Nat \ {0}
       /\ fs[1] = r /\ \A i \in 2 .. Len(frames) : fs[i] = frames[i]
  BY <1>3, <1>8, <1>9, FramesChange
<1>11. frames' = <<n>> \o fs
  <2>1. Tail(frames) \in Seq(F)
    BY <1>3, <1>8, HeadTailProperties
  <2>2. PICK G, t : G = F \cup {r, n} /\ t = Tail(frames)
    OBVIOUS
  <2>3. t \in Seq(G) /\ <<n>> \in Seq(G) /\ <<r>> \in Seq(G)
    BY <2>1, <2>2
  <2>4. <<n, r>> = <<n>> \o <<r>>
    OBVIOUS
  <2>5. (<<n>> \o <<r>>) \o t = <<n>> \o (<<r>> \o t)
    BY <2>3, ConcatAssociative
  <2> QED BY <1>1, <1>4, <1>9, <2>2, <2>4, <2>5
<1>12. /\ frames' \in Seq(F \cup {r, n}) /\ Len(frames') = Len(frames) + 1
       /\ frames'[1] = n /\ frames'[2] = r
       /\ \A i \in 3 .. Len(frames) + 1 : frames'[i] = frames[i - 1]
  <2>1. PICK h : h = <<n>> /\ h \in Seq(F \cup {r, n}) /\ Len(h) = 1 /\ h[1] = n
    <3>1. n \in F \cup {r, n}
      OBVIOUS
    <3> QED BY <3>1, OneElement
  <2>2. fs \in Seq(F \cup {r, n})
    BY <1>10
  <2>3. /\ h \o fs \in Seq(F \cup {r, n}) /\ Len(h \o fs) = Len(frames) + 1
        /\ \A i \in 1 .. Len(frames) + 1 : (h \o fs)[i] = IF i <= 1 THEN h[i] ELSE fs[i - 1]
    BY <1>10, <2>1, <2>2, ConcatProperties
  <2>4. (h \o fs)[1] = n /\ (h \o fs)[2] = r
    BY <1>10, <2>1, <2>3
  <2>5. ASSUME NEW i \in 3 .. Len(frames) + 1
        PROVE  (h \o fs)[i] = frames[i - 1]
    <3>1. i \in 1 .. Len(frames) + 1 /\ ~(i <= 1) /\ i - 1 \in 2 .. Len(frames)
      BY <1>10
    <3> QED BY <1>10, <2>3, <3>1
  <2> QED BY <1>11, <2>1, <2>3, <2>4, <2>5
<1>13. DOMAIN frames' = 1 .. Len(frames) + 1 /\ frames' # <<>> /\ DOMAIN frames = 1 .. Len(frames)
  BY <1>8, <1>10, <1>12, LenProperties, EmptySeq
<1>14. options' = options /\ pending' = pending /\ built' = built /\ empty' = empty
       /\ buildErr' = buildErr /\ sbom' = sbom /\ returned' = returned /\ phase' = phase
       /\ failures' = failures
  BY <1>1 DEF outerVars
<1>15. Overwritten' = Overwritten
  BY <1>14 DEF Overwritten, Ran
<1>16. StepsInv'
  <2>1. \A g \in F \cup {r, n} : GoodFrame(g)
    BY <1>6, <1>7, <1>8
  <2>2. \A g \in F \cup {r, n} : GoodFrame(g)'
    BY <1>15, <2>1 DEF GoodFrame
  <2> QED BY <1>12, <2>2 DEF StepsInv
<1>17. FramesInv'
  <2>1. \A i \in 1 .. Len(frames) :
          /\ frames[i].onErr \in {"raise", "else"}
          /\ i > 1 => frames[i - 1].before \subseteq frames[i].before \cup Overwritten
    BY <1>10, <1>13 DEF ReturnInv, FailuresInv, FramesInv, Seen
  <2>2. ASSUME NEW i \in 1 .. Len(frames) + 1
        PROVE  /\ frames'[i].onErr \in {"raise", "else"}
               /\ i > 1 \/ frames'[i].todo # <<>> \/ frames'[i].err = {} =>
                    Seen(i)' \subseteq frames'[i].before \cup Overwritten
    <3>1. CASE i = 1
      BY <1>6, <1>12, <1>14, <3>1 DEF Seen
    <3>2. CASE i = 2
      <4>1. Seen(i)' = failures
        BY <1>6, <1>12, <3>2 DEF Seen
      <4> QED BY <1>7, <1>12, <3>2, <4>1
    <3>3. CASE i = 3
      <4>1. Seen(i)' = Top.before /\ frames'[i] = frames[2] /\ 2 \in 1 .. Len(frames)
        BY <1>7, <1>10, <1>12, <3>3 DEF Seen
      <4> QED BY <2>1, <4>1 DEF Top
    <3>4. CASE i > 3
      <4>1. i - 1 \in 3 .. Len(frames) + 1 /\ i \in 3 .. Len(frames) + 1 /\ i - 1 \in 1 .. Len(frames)
            /\ (i - 1) - 1 = i - 2
        BY <1>10, <3>4
      <4>2. frames'[i - 1] = frames[i - 2] /\ frames'[i] = frames[i - 1]
        BY <1>12, <4>1
      <4>3. Seen(i)' = frames[i - 2].before
        BY <3>4, <4>2 DEF Seen
      <4> QED BY <1>10, <2>1, <3>4, <4>1, <4>2, <4>3
    <3> QED BY <1>10, <3>1, <3>2, <3>3, <3>4
  <2>3. buildErr = {} => frames[Len(frames)].before \subseteq Overwritten
    BY <1>3 DEF ReturnInv, FailuresInv, FramesInv
  <2>4. frames'[Len(frames')].before = frames[Len(frames)].before
    <3>1. CASE Len(frames) = 1
      BY <1>7, <1>12, <3>1 DEF Top
    <3>2. CASE Len(frames) > 1
      <4>1. Len(frames) + 1 \in 3 .. Len(frames) + 1 /\ Len(frames) + 1 - 1 = Len(frames)
        BY <1>10, <3>2
      <4> QED BY <1>12, <4>1
    <3> QED BY <1>10, <3>1, <3>2
  <2> QED BY <1>1, <1>12, <1>13, <1>14, <1>15, <2>2, <2>3, <2>4 DEF FramesInv
<1>18. PendingInv' /\ TechsInv'
  BY <1>14 DEF ReturnInv, FailuresInv, PendingInv, Resolved, TechsInv
<1> QED BY <1>1, <1>14, <1>16, <1>17, <1>18 DEF ReturnInv, FailuresInv

LEMMA EndCallKeeps == ASSUME ReturnInv, EndCall PROVE ReturnInv'
<1>1. /\ phase = "building" /\ Len(frames) > 1 /\ Top.todo = <<>> /\ UNCHANGED outerVars
      /\ failures' = IF Top.err # {} /\ Top.onErr = "else" THEN Top.before ELSE failures
  BY DEF EndCall
<1>2. PICK F : frames \in Seq(F) /\ \A g \in F : GoodFrame(g)
  BY DEF ReturnInv, StepsInv
<1>3. /\ GoodFrame(Top) /\ Top.onErr \in {"raise", "else"} /\ frames # <<>>
      /\ Top.err = {} => failures \subseteq Top.before \cup Overwritten
  BY <1>1, TopFacts
<1>4. PICK c : c = frames[2]
  OBVIOUS
<1>5. Len(frames) \in Nat /\ frames[2] \in F /\ GoodFrame(c) /\ DOMAIN frames = 1 .. Len(frames)
  BY <1>1, <1>2, <1>4, LenProperties, ElementOfSeq
<1>6. \A i \in 1 .. Len(frames) :
          /\ frames[i].onErr \in {"raise", "else"}
          /\ i > 1 => frames[i - 1].before \subseteq frames[i].before \cup Overwritten
  BY <1>5 DEF ReturnInv, FailuresInv, FramesInv, Seen
<1>7. c.onErr \in {"raise", "else"} /\ Top.before \subseteq c.before \cup Overwritten
  BY <1>1, <1>4, <1>5, <1>6 DEF Top
<1>8. PICK f : /\ GoodFrame(f) /\ f.onErr = c.onErr /\ f.before = c.before
               /\ f.todo # <<>> \/ f.err = {} => failures' \subseteq f.before \cup Overwritten
               /\ frames' = <<f>> \o SubSeq(frames, 3, Len(frames))
  <2>1. CASE Top.err = {}
    <3>1. frames' = <<c>> \o SubSeq(frames, 3, Len(frames))
      BY <1>4, <2>1, Zenon DEF EndCall
    <3>2. failures' \subseteq c.before \cup Overwritten
      BY <1>1, <1>3, <1>7, <2>1
    <3> QED BY <1>5, <3>1, <3>2
  <2>2. CASE Top.err # {} /\ Top.onErr = "raise"
    <3>1. frames' = <<[c EXCEPT !.todo = <<>>, !.err = @ \cup Top.err]>> \o SubSeq(frames, 3, Len(frames))
      BY <1>4, <2>2 DEF EndCall
    <3>2. PICK f : f = [c EXCEPT !.todo = <<>>, !.err = @ \cup Top.err]
      OBVIOUS
    <3>3. f.todo = <<>> /\ f.err # {} /\ f.onErr = c.onErr /\ f.before = c.before /\ f.alt = c.alt /\ IsFrame(f)
      BY <1>5, <2>2, <3>2 DEF GoodFrame, IsFrame
    <3>4. GoodFrame(f)
      BY <1>5, <3>3, CalmNone, OrderlyCalm DEF GoodFrame
    <3> QED BY <3>1, <3>2, <3>3, <3>4
  <2>3. CASE Top.err # {} /\ Top.onErr = "else"
    <3>1. frames' = <<[c EXCEPT !.todo = Top.alt \o @]>> \o SubSeq(frames, 3, Len(frames))
      BY <1>4, <2>3 DEF EndCall
    <3>2. PICK f : f = [c EXCEPT !.todo = Top.alt \o @]
      OBVIOUS
    <3>3. f.todo = Top.alt \o c.todo /\ f.onErr = c.onErr /\ f.before = c.before /\ f.alt = c.alt /\ IsFrame(f)
      BY <1>5, <3>2 DEF GoodFrame, IsFrame
    <3>4. GoodFrame(f)
      BY <1>3, <1>5, <3>3, OrderlyAfterCalm DEF GoodFrame
    <3>5. failures' \subseteq f.before \cup Overwritten
      BY <1>1, <1>7, <2>3, <3>3
    <3> QED BY <3>1, <3>2, <3>3, <3>4, <3>5
  <2> QED BY <1>3, <2>1, <2>2, <2>3
<1>9. PICK t : /\ t = SubSeq(frames, 3, Len(frames)) /\ t \in Seq(F) /\ Len(t) = Len(frames) - 2
               /\ \A i \in 1 .. Len(t) : t[i] = frames[i + 2]
  <2>1. /\ SubSeq(frames, 3, Len(frames)) \in Seq(F)
        /\ Len(SubSeq(frames, 3, Len(frames))) = Len(frames) - 2
        /\ \A i \in 1 .. Len(frames) - 2 : SubSeq(frames, 3, Len(frames))[i] = frames[i + 2]
    BY <1>1, <1>2, <1>5
  <2> QED BY <2>1
<1>10. /\ frames' \in Seq(F \cup {f}) /\ Len(frames') = Len(frames) - 1
       /\ frames'[1] = f /\ \A i \in 2 .. Len(frames) - 1 : frames'[i] = frames[i + 1]
  <2>1. PICK h : h = <<f>> /\ h \in Seq(F \cup {f}) /\ Len(h) = 1 /\ h[1] = f
    <3>1. f \in F \cup {f}
      OBVIOUS
    <3> QED BY <3>1, OneElement
  <2>2. t \in Seq(F \cup {f})
    BY <1>9
  <2>3. /\ h \o t \in Seq(F \cup {f}) /\ Len(h \o t) = Len(frames) - 1
        /\ \A i \in 1 .. Len(frames) - 1 : (h \o t)[i] = IF i <= 1 THEN h[i] ELSE t[i - 1]
    BY <1>1, <1>5, <1>9, <2>1, <2>2, ConcatProperties
  <2>4. (h \o t)[1] = f
    BY <1>1, <1>5, <2>1, <2>3
  <2>5. ASSUME NEW i \in 2 .. Len(frames) - 1
        PROVE  (h \o t)[i] = frames[i + 1]
    <3>1. i \in 1 .. Len(frames) - 1 /\ ~(i <= 1) /\ i - 1 \in 1 .. Len(t) /\ (i - 1) + 2 = i + 1
      BY <1>5, <1>9
    <3> QED BY <1>9, <2>3, <3>1
  <2> QED BY <1>8, <1>9, <2>1, <2>3, <2>4, <2>5
<1>11. DOMAIN frames' = 1 .. Len(frames) - 1 /\ frames' # <<>>
  BY <1>1, <1>5, <1>10, LenProperties, EmptySeq
<1>12. options' = options /\ pending' = pending /\ built' = built /\ empty' = empty
       /\ buildErr' = buildErr /\ sbom' = sbom /\ returned' = returned /\ phase' = phase
  BY <1>1 DEF outerVars
<1>13. Overwritten' = Overwritten
  BY <1>12 DEF Overwritten, Ran
<1>14. StepsInv'
  <2>1. \A g \in F \cup {f} : GoodFrame(g)
    BY <1>2, <1>8
  <2>2. \A g \in F \cup {f} : GoodFrame(g)'
    BY <1>13, <2>1 DEF GoodFrame
  <2> QED BY <1>10, <2>2 DEF StepsInv
<1>15. FramesInv'
  <2>1. \A i \in 1 .. Len(frames) - 1 :
          /\ frames'[i].before = frames[i + 1].before
          /\ frames'[i].onErr = frames[i + 1].onErr
    BY <1>4, <1>5, <1>8, <1>10
  <2>2. ASSUME NEW i \in 1 .. Len(frames) - 1
        PROVE  /\ frames'[i].onErr \in {"raise", "else"}
               /\ i > 1 \/ frames'[i].todo # <<>> \/ frames'[i].err = {} =>
                    Seen(i)' \subseteq frames'[i].before \cup Overwritten
    <3>0. i + 1 \in 1 .. Len(frames) /\ i + 1 - 1 = i
      BY <1>5
    <3>1. CASE i = 1
      BY <1>6, <1>8, <1>10, <2>1, <3>0, <3>1 DEF Seen
    <3>2. CASE i > 1
      <4>1. Seen(i)' = frames'[i - 1].before /\ i - 1 \in 1 .. Len(frames) - 1 /\ i - 1 + 1 = i
            /\ i + 1 > 1
        BY <1>5, <3>2 DEF Seen
      <4>2. Seen(i)' = frames[i].before
        BY <2>1, <4>1
      <4> QED BY <1>6, <2>1, <3>0, <4>1, <4>2
    <3> QED BY <1>5, <3>1, <3>2
  <2>3. buildErr = {} => frames[Len(frames)].before \subseteq Overwritten
    BY <1>3 DEF ReturnInv, FailuresInv, FramesInv
  <2>4. frames'[Len(frames')].before = frames[Len(frames)].before
    <3>1. Len(frames) - 1 \in 1 .. Len(frames) - 1 /\ Len(frames) - 1 + 1 = Len(frames)
      BY <1>1, <1>5
    <3> QED BY <1>10, <2>1, <3>1
  <2> QED BY <1>1, <1>10, <1>11, <1>12, <1>13, <2>2, <2>3, <2>4 DEF FramesInv
<1>16. PendingInv' /\ TechsInv'
  BY <1>12 DEF ReturnInv, FailuresInv, PendingInv, Resolved, TechsInv
<1> QED BY <1>1, <1>12, <1>14, <1>15, <1>16 DEF ReturnInv, FailuresInv

-----------------------------------------------------------------------------
(* The technologies of a target, one after another.                        *)

LEMMA ReturnInit == TreesInit => ReturnInv
<1> SUFFICES ASSUME TreesInit PROVE ReturnInv
  OBVIOUS
<1>1. options.techs = <<>> /\ pending = <<>> /\ frames = <<>> /\ failures = {} /\ buildErr = {}
      /\ phase = "idle"
  BY DEF TreesInit
<1>2. <<>> \in Seq(STRING) /\ <<>> \in Seq({}) /\ Len(<<>>) = 0 /\ DOMAIN <<>> = {}
  OBVIOUS
<1>3. StepsInv /\ TechsInv
  BY <1>1, <1>2 DEF StepsInv, TechsInv
<1>4. FramesInv
  BY <1>1, <1>2 DEF FramesInv
<1>5. PendingInv
  BY <1>1, <1>2 DEF PendingInv, Resolved
<1> QED BY <1>1, <1>3, <1>4, <1>5 DEF ReturnInv, FailuresInv

LEMMA BeginTargetKeeps ==
    ASSUME ReturnInv, NEW o \in TargetRequests, BeginTarget(o)
    PROVE  ReturnInv'
<1>1. /\ phase = "idle" /\ options' = o /\ pending' = o.techs /\ phase' \in {"techs", "done"}
      /\ phase' = "done" => returned' = {"failed"}
      /\ frames' = frames /\ built' = built /\ empty' = empty /\ buildErr' = buildErr
      /\ sbom' = sbom /\ failures' = failures
  BY DEF BeginTarget, innerVars
<1>2. failures = {} /\ buildErr = {} /\ frames = <<>>
  BY <1>1 DEF ReturnInv, FailuresInv, FramesInv
<1>3. o.techs \in Seq(STRING)
  BY TreesAssumption DEF TargetRequests
<1>4. TechsInv'
  BY <1>1, <1>3 DEF TechsInv
<1>5. <<>> \in Seq({}) /\ DOMAIN <<>> = {}
  OBVIOUS
<1>6. StepsInv'
  BY <1>1, <1>2, <1>5 DEF StepsInv
<1>7. FramesInv'
  BY <1>1, <1>2, <1>5 DEF FramesInv
<1>8. PendingInv'
  <2>1. PICK ts : ts = o.techs /\ ts \in Seq(STRING)
    BY <1>3
  <2>2. Len(ts) \in Nat /\ Resolved' = 0 /\ options'.techs = ts /\ pending' = ts
    BY <1>1, <2>1, LenProperties DEF Resolved
  <2>3. DOMAIN ts = 1 .. Len(ts) /\ \A i \in 1 .. Len(ts) : 0 + i = i
    BY <2>1, <2>2, LenProperties
  <2>4. Len(pending)' <= Len(options.techs)'
    BY <2>2
  <2>5. \A i \in DOMAIN pending' : pending'[i] = options'.techs[Resolved' + i]
    BY <2>2, <2>3
  <2>6. \A i \in 1 .. Resolved' : options'.techs[i] \in built' \cup empty'
    BY <2>2
  <2>7. phase' # "building" /\ ~(phase' \in {"leaving", "done"} /\ returned' = {})
    BY <1>1
  <2> QED BY <2>4, <2>5, <2>6, <2>7 DEF PendingInv
<1> QED BY <1>1, <1>2, <1>4, <1>6, <1>7, <1>8 DEF ReturnInv, FailuresInv

LEMMA BeginTechKeeps == ASSUME ReturnInv, BeginTech PROVE ReturnInv'
<1>1. /\ phase = "techs" /\ pending # <<>> /\ phase' = "building"
      /\ options' = options /\ pending' = pending /\ built' = built /\ empty' = empty
      /\ buildErr' = buildErr /\ sbom' = sbom /\ returned' = returned /\ failures' = failures
      /\ frames' = <<Frame(If(~options.curation, <<Try("resolution repository")>>)
                           \o GetTechDependencyTree(Head(pending), options), "raise", <<>>)>>
  BY DEF BeginTech, innerVars
<1>2. /\ options.techs \in Seq(STRING) /\ pending \in Seq(STRING)
      /\ buildErr = {} => failures \subseteq Overwritten
      /\ Len(pending) <= Len(options.techs)
      /\ \A i \in DOMAIN pending : pending[i] = options.techs[Resolved + i]
  BY <1>1 DEF ReturnInv, TechsInv, FailuresInv, PendingInv
<1>3. PICK t : t = Head(pending)
  OBVIOUS
<1>4. /\ Len(pending) \in Nat \ {0} /\ Len(options.techs) \in Nat /\ t = pending[1]
      /\ DOMAIN pending = 1 .. Len(pending) /\ DOMAIN options.techs = 1 .. Len(options.techs)
  <2>1. /\ Len(pending) \in Nat /\ DOMAIN pending = 1 .. Len(pending)
        /\ Len(options.techs) \in Nat /\ DOMAIN options.techs = 1 .. Len(options.techs)
    BY <1>2, LenProperties
  <2>2. Len(pending) # 0
    BY <1>1, <1>2, EmptySeq
  <2>3. Head(pending) = pending[1]
    OBVIOUS
  <2> QED BY <1>3, <2>1, <2>2, <2>3
<1>5. Resolved + 1 \in DOMAIN options.techs /\ options.techs[Resolved + 1] = t
  BY <1>2, <1>4 DEF Resolved
<1>6. Ran(t)
  BY <1>5 DEF Ran
<1>7. options.curation /\ t \in {"pip", "pipenv", "poetry"} => "dependencies" \in Overwritten
  BY <1>6 DEF Overwritten
<1> DEFINE program == If(~options.curation, <<Try("resolution repository")>>)
                      \o GetTechDependencyTree(t, options)
<1>8. Orderly(program, Overwritten)
  <2>1. Orderly(GetTechDependencyTree(t, options), Overwritten)
    BY <1>4, <1>7, OrderlyTree
  <2>2. CalmSteps(If(~options.curation, <<Try("resolution repository")>>))
    BY CalmStep, CalmTuple, CalmIf
  <2> QED BY <2>1, <2>2, OrderlyAfterCalm
<1>9. PICK f : f = Frame(program, "raise", <<>>)
  OBVIOUS
<1> HIDE DEF program
<1>10. /\ f.todo = program /\ f.onErr = "raise" /\ f.alt = <<>> /\ f.before = failures /\ IsFrame(f)
       /\ f.err = {}
  BY <1>9 DEF Frame, IsFrame
<1>11. GoodFrame(f)
  BY <1>8, <1>10, CalmNone DEF GoodFrame
<1>12. frames' = <<f>>
  BY <1>1, <1>3, <1>9 DEF program
<1>13. f \in {f}
  OBVIOUS
<1>14. frames' \in Seq({f}) /\ Len(frames') = 1 /\ frames'[1] = f
  BY <1>12, <1>13, OneElement
<1>15. DOMAIN frames' = {1} /\ frames' # <<>>
  BY <1>14, LenProperties, EmptySeq
<1>16. Overwritten' = Overwritten
  BY <1>1 DEF Overwritten, Ran
<1>17. StepsInv'
  <2>1. GoodFrame(f)'
    BY <1>11, <1>16 DEF GoodFrame
  <2> QED BY <1>14, <2>1 DEF StepsInv
<1>18. FramesInv'
  <2>1. Seen(1)' = failures
    BY <1>1 DEF Seen
  <2> QED BY <1>1, <1>2, <1>10, <1>14, <1>15, <1>16, <2>1 DEF FramesInv
<1>19. PendingInv' /\ TechsInv'
  BY <1>1 DEF ReturnInv, FailuresInv, PendingInv, Resolved, TechsInv
<1> QED BY <1>1, <1>17, <1>18, <1>19 DEF ReturnInv, FailuresInv

LEMMA EndTechKeeps == ASSUME ReturnInv, EndTech PROVE ReturnInv'
<1>1. /\ phase = "building" /\ Len(frames) = 1 /\ Top.todo = <<>> /\ phase' = "techs"
      /\ pending' = Tail(pending) /\ frames' = <<>> /\ options' = options
      /\ sbom' = sbom /\ returned' = returned /\ failures' = failures
      /\ built \subseteq built' /\ empty \subseteq empty'
      /\ IF Top.err # {} THEN buildErr' = buildErr \cup Top.err
         ELSE buildErr' = buildErr /\ Head(pending) \in built' \cup empty'
  BY DEF EndTech, innerVars
<1>2. /\ options.techs \in Seq(STRING) /\ pending \in Seq(STRING) /\ pending # <<>>
      /\ Len(pending) <= Len(options.techs)
      /\ \A i \in DOMAIN pending : pending[i] = options.techs[Resolved + i]
      /\ buildErr = {} => \A i \in 1 .. Resolved : options.techs[i] \in built \cup empty
  BY <1>1 DEF ReturnInv, TechsInv, FailuresInv, PendingInv
<1>3. /\ Len(pending) \in Nat \ {0} /\ Len(options.techs) \in Nat /\ Head(pending) = pending[1]
      /\ DOMAIN pending = 1 .. Len(pending)
      /\ Tail(pending) \in Seq(STRING) /\ Len(Tail(pending)) = Len(pending) - 1
      /\ \A i \in 1 .. Len(Tail(pending)) : Tail(pending)[i] = pending[i + 1]
  BY <1>2, EmptySeq, LenProperties, HeadTailProperties
<1>4. DOMAIN Tail(pending) = 1 .. Len(pending) - 1
  BY <1>3, LenProperties
<1>5. Overwritten' = Overwritten
  BY <1>1 DEF Overwritten, Ran
<1>6. buildErr' = {} => buildErr = {} /\ Top.err = {}
  BY <1>1
<1>7. buildErr' = {} => failures' \subseteq Overwritten'
  <2>1. buildErr = {} => Top.before \subseteq Overwritten
    BY <1>1 DEF ReturnInv, FailuresInv, FramesInv, Top
  <2>2. Top.err = {} => failures \subseteq Top.before \cup Overwritten
    BY <1>1, TopFacts
  <2> QED BY <1>1, <1>5, <1>6, <2>1, <2>2
<1>8. <<>> \in Seq({}) /\ DOMAIN <<>> = {}
  OBVIOUS
<1>9. StepsInv' /\ FramesInv'
  BY <1>1, <1>8 DEF StepsInv, FramesInv
<1>10. TechsInv'
  BY <1>1, <1>2, <1>3 DEF TechsInv
<1>11. PendingInv'
  <2>1. Resolved \in Nat /\ Resolved' = Resolved + 1
    BY <1>1, <1>2, <1>3 DEF Resolved
  <2>2. ASSUME NEW i \in 1 .. Len(pending) - 1
        PROVE  Tail(pending)[i] = options.techs[Resolved + 1 + i]
    <3>1. i + 1 \in 1 .. Len(pending) /\ Resolved + (i + 1) = Resolved + 1 + i
      BY <1>3, <2>1
    <3> QED BY <1>2, <1>3, <3>1
  <2>3. ASSUME buildErr' = {}, NEW i \in 1 .. Resolved + 1
        PROVE  options.techs[i] \in built' \cup empty'
    <3>1. CASE i = Resolved + 1
      BY <1>1, <1>2, <1>3, <1>6, <2>3, <3>1
    <3>2. CASE i \in 1 .. Resolved
      BY <1>1, <1>2, <1>6, <2>3, <3>2
    <3> QED BY <2>1, <3>1, <3>2
  <2> QED BY <1>1, <1>2, <1>3, <1>4, <2>1, <2>2, <2>3 DEF PendingInv
<1> QED BY <1>1, <1>7, <1>9, <1>10, <1>11 DEF ReturnInv, FailuresInv

\* The end of the trees.
LEMMA EndsKeep ==
    ASSUME ReturnInv, EndCurationTree \/ EndTrees \/ LeaveTarget
    PROVE  ReturnInv'
<1>1. /\ phase \in {"techs", "leaving"} /\ phase' \in {"leaving", "done"}
      /\ options' = options /\ pending' = pending /\ frames' = frames /\ built' = built
      /\ empty' = empty /\ buildErr' = buildErr /\ failures' = failures
      /\ phase = "techs" => pending = <<>>
      /\ phase = "leaving" => returned' = returned /\ sbom' = sbom
  BY DEF EndCurationTree, EndTrees, LeaveTarget, innerVars
<1>2. phase = "techs" /\ returned' = {} => "notInstalled" \in buildErr \/ (buildErr = {} /\ sbom' = built)
  <2>1. CASE EndCurationTree
    BY <2>1 DEF EndCurationTree
  <2>2. CASE EndTrees
    <3>1. PICK err : /\ err = IF built = {} /\ buildErr = {} THEN {"failed"} ELSE buildErr
                     /\ sbom' = IF err = {} THEN built ELSE {}
                     /\ returned' = IF err = {} \/ "notInstalled" \in err THEN {} ELSE {"failed"}
      BY <2>2 DEF EndTrees
    <3>2. "notInstalled" # "failed"
      OBVIOUS
    <3> QED BY <3>1, <3>2
  <2>3. CASE LeaveTarget
    BY <2>3 DEF LeaveTarget
  <2> QED BY <2>1, <2>2, <2>3
<1>3. Overwritten' = Overwritten /\ frames = <<>>
  BY <1>1 DEF Overwritten, Ran, ReturnInv, FailuresInv, FramesInv
<1>4. <<>> \in Seq({}) /\ DOMAIN <<>> = {}
  OBVIOUS
<1>5. StepsInv' /\ FramesInv'
  BY <1>1, <1>3, <1>4 DEF StepsInv, FramesInv
<1>6. TechsInv'
  BY <1>1 DEF ReturnInv, TechsInv
<1>7. PendingInv'
  BY <1>1 DEF ReturnInv, FailuresInv, PendingInv, Resolved
<1> QED BY <1>1, <1>2, <1>3, <1>5, <1>6, <1>7 DEF ReturnInv, FailuresInv

\* Invariant of the dependency trees: a call that goes on has no failure of its
\* own that it may not forget, an empty joined error means that every
\* technology so far has its tree, and the steps that are left assign an error
\* only where it is the last one.
THEOREM TreesReturn == TreesSpec => []ReturnInv
<1>1. TreesInit => ReturnInv
  BY ReturnInit
<1>2. ReturnInv /\ [TreesNext]_treeVars => ReturnInv'
  <2> SUFFICES ASSUME ReturnInv, [TreesNext]_treeVars
               PROVE  ReturnInv'
    OBVIOUS
  <2>1. ASSUME NEW o \in TargetRequests, BeginTarget(o) PROVE ReturnInv'
    BY <2>1, BeginTargetKeeps
  <2>2. CASE BeginTech \/ EndTech
    BY <2>2, BeginTechKeeps, EndTechKeeps
  <2>3. CASE EndCurationTree \/ EndTrees \/ LeaveTarget
    BY <2>3, EndsKeep
  <2>4. CASE StepWorks \/ StepFails \/ RaiseError \/ RunCommand
    BY <2>4, StepsKeep
  <2>5. CASE AssignError \/ Choose \/ Defer
    BY <2>5, AssignKeeps, ChooseKeeps, DeferKeeps
  <2>6. CASE EnterCall \/ EndCall
    BY <2>6, EnterCallKeeps, EndCallKeeps
  <2>7. CASE UndoWorks \/ UndoFails
    BY <2>7, UndoKeeps
  <2>8. CASE UNCHANGED treeVars
    <3>1. /\ options' = options /\ pending' = pending /\ frames' = frames /\ built' = built
          /\ empty' = empty /\ buildErr' = buildErr /\ failures' = failures /\ phase' = phase
          /\ returned' = returned /\ sbom' = sbom
      BY <2>8 DEF treeVars
    <3>2. Overwritten' = Overwritten
      BY <3>1 DEF Overwritten, Ran
    <3>3. StepsInv'
      BY <3>1, <3>2 DEF ReturnInv, StepsInv, GoodFrame
    <3>4. FramesInv'
      BY <3>1, <3>2 DEF ReturnInv, FailuresInv, FramesInv, Seen
    <3> QED BY <3>1, <3>2, <3>3, <3>4 DEF ReturnInv, FailuresInv, PendingInv, Resolved, TechsInv
  <2> QED BY <2>1, <2>2, <2>3, <2>4, <2>5, <2>6, <2>7, <2>8 DEF TreesNext
<1> QED BY <1>1, <1>2, PTL DEF TreesSpec

\* A failure of a builder reaches the caller, whatever the builder's steps and
\* calls are, and without an error every technology of the target has its tree
\* or is empty.
THEOREM FailuresReach == TreesSpec => []FailureReturned
<1>1. ReturnInv => FailureReturned
  <2> SUFFICES ASSUME ReturnInv, phase = "done", returned = {}, "notInstalled" \notin buildErr
               PROVE  /\ failures \subseteq Overwritten
                      /\ \A i \in DOMAIN options.techs : options.techs[i] \in sbom \cup empty
    BY DEF FailureReturned
  <2>1. /\ buildErr = {} /\ sbom = built /\ pending = <<>> /\ failures \subseteq Overwritten
        /\ \A i \in 1 .. Resolved : options.techs[i] \in built \cup empty
        /\ options.techs \in Seq(STRING)
    BY DEF ReturnInv, FailuresInv, PendingInv, TechsInv
  <2>2. Len(options.techs) \in Nat /\ DOMAIN options.techs = 1 .. Len(options.techs) /\ Len(<<>>) = 0
    BY <2>1, LenProperties, EmptySeq
  <2>3. Resolved = Len(options.techs)
    BY <2>1, <2>2 DEF Resolved
  <2> QED BY <2>1, <2>2, <2>3
<1> QED BY <1>1, TreesReturn, PTL

-----------------------------------------------------------------------------
(* DepTreeBuilders: steps that give back what they take.  A step that takes *)
(* something is followed by the one that registers the deferred function,   *)
(* with nothing between that may fail, but for the steps of which the model *)
(* says so.                                                                 *)

IsRow(s) == \E S : s \in Seq(S)

LEMMA RowFacts ==
    ASSUME NEW s, IsRow(s), s # <<>>
    PROVE  /\ Len(s) \in Nat \ {0} /\ Head(s) = s[1] /\ IsRow(Tail(s))
           /\ Len(Tail(s)) = Len(s) - 1
           /\ \A i \in 1 .. Len(s) - 1 : Tail(s)[i] = s[i + 1]
<1>1. PICK S : s \in Seq(S)
  BY DEF IsRow
<1>2. Len(s) \in Nat \ {0}
  BY <1>1, EmptySeq, LenProperties
<1>3. Head(s) = s[1] /\ Tail(s) \in Seq(S) /\ Len(Tail(s)) = Len(s) - 1
  BY <1>1, HeadTailProperties
<1>4. \A i \in 1 .. Len(Tail(s)) : Tail(s)[i] = s[i + 1]
  BY <1>1, HeadTailProperties
<1> QED BY <1>2, <1>3, <1>4 DEF IsRow

LEMMA TwoRows ==
    ASSUME NEW a, NEW b, IsRow(a), IsRow(b)
    PROVE  \E S : a \in Seq(S) /\ b \in Seq(S)
<1>1. PICK S, T : a \in Seq(S) /\ b \in Seq(T)
  BY DEF IsRow
<1>2. a \in Seq(S \cup T) /\ b \in Seq(S \cup T)
  BY <1>1
<1> QED BY <1>2

LEMMA ConcatFacts ==
    ASSUME NEW a, NEW b, IsRow(a), IsRow(b)
    PROVE  /\ IsRow(a \o b) /\ Len(a) \in Nat /\ Len(b) \in Nat /\ Len(a \o b) = Len(a) + Len(b)
           /\ \A i \in 1 .. Len(a) + Len(b) : (a \o b)[i] = IF i <= Len(a) THEN a[i] ELSE b[i - Len(a)]
           /\ a \o <<>> = a /\ <<>> \o b = b
<1>1. PICK S : a \in Seq(S) /\ b \in Seq(S)
  BY TwoRows
<1>2. a \o b \in Seq(S) /\ Len(a \o b) = Len(a) + Len(b)
  BY <1>1, ConcatProperties
<1>3. \A i \in 1 .. Len(a) + Len(b) : (a \o b)[i] = IF i <= Len(a) THEN a[i] ELSE b[i - Len(a)]
  BY <1>1, ConcatProperties
<1>4. a \o <<>> = a /\ <<>> \o b = b
  BY <1>1, ConcatEmptySeq
<1> QED BY <1>1, <1>2, <1>3, <1>4, LenProperties DEF IsRow

LEMMA ConcatRest ==
    ASSUME NEW a, NEW b, IsRow(a), IsRow(b), a # <<>>
    PROVE  a \o b # <<>> /\ Head(a \o b) = Head(a) /\ Tail(a \o b) = Tail(a) \o b
<1>1. PICK S : a \in Seq(S) /\ b \in Seq(S)
  BY TwoRows
<1>2. Len(a) \in Nat \ {0} /\ Head(a) = a[1] /\ Len(Tail(a)) = Len(a) - 1 /\ IsRow(Tail(a))
      /\ \A i \in 1 .. Len(a) - 1 : Tail(a)[i] = a[i + 1]
  BY RowFacts
<1>3. PICK c : c = a \o b
  OBVIOUS
<1>4. /\ IsRow(c) /\ Len(b) \in Nat /\ Len(c) = Len(a) + Len(b)
      /\ \A i \in 1 .. Len(a) + Len(b) : c[i] = IF i <= Len(a) THEN a[i] ELSE b[i - Len(a)]
  BY <1>3, ConcatFacts
<1>5. c # <<>>
  <2>1. Len(<<>>) = 0
    BY EmptySeq
  <2> QED BY <1>2, <1>4, <2>1
<1>6. Head(c) = c[1] /\ Len(Tail(c)) = Len(c) - 1 /\ IsRow(Tail(c))
      /\ \A i \in 1 .. Len(c) - 1 : Tail(c)[i] = c[i + 1]
  BY <1>4, <1>5, RowFacts
<1>7. Head(c) = Head(a)
  BY <1>2, <1>4, <1>6
<1>8. PICK t, d : t = Tail(a) /\ d = t \o b
  OBVIOUS
<1>9. /\ IsRow(d) /\ Len(d) = Len(a) - 1 + Len(b)
      /\ \A i \in 1 .. Len(a) - 1 + Len(b) : d[i] = IF i <= Len(a) - 1 THEN t[i] ELSE b[i - (Len(a) - 1)]
  BY <1>2, <1>8, ConcatFacts
<1>10. Tail(c) = d
  <2>1. PICK e : e = Tail(c)
    OBVIOUS
  <2>2. Len(e) = Len(d) /\ Len(d) \in Nat
    BY <1>2, <1>4, <1>6, <1>9, <2>1
  <2>3. ASSUME NEW i \in 1 .. Len(e) PROVE e[i] = d[i]
    <3>1. i \in 1 .. Len(c) - 1 /\ i + 1 \in 1 .. Len(a) + Len(b)
      BY <1>2, <1>4, <1>9, <2>2
    <3>2. e[i] = IF i + 1 <= Len(a) THEN a[i + 1] ELSE b[i + 1 - Len(a)]
      BY <1>4, <1>6, <2>1, <3>1
    <3>3. d[i] = IF i <= Len(a) - 1 THEN t[i] ELSE b[i - (Len(a) - 1)]
      BY <1>2, <1>4, <1>9, <2>2
    <3>4. CASE i <= Len(a) - 1
      <4>1. t[i] = a[i + 1] /\ i + 1 <= Len(a)
        BY <1>2, <1>8, <3>4
      <4> QED BY <3>2, <3>3, <3>4, <4>1
    <3>5. CASE ~(i <= Len(a) - 1)
      <4>1. ~(i + 1 <= Len(a)) /\ i + 1 - Len(a) = i - (Len(a) - 1)
        BY <1>2, <3>1, <3>5
      <4> QED BY <3>2, <3>3, <3>5, <4>1
    <3> QED BY <3>4, <3>5
  <2>4. e \in Seq(UNION {{e[i] : i \in 1 .. Len(e)}, {d[i] : i \in 1 .. Len(d)}})
        /\ d \in Seq(UNION {{e[i] : i \in 1 .. Len(e)}, {d[i] : i \in 1 .. Len(d)}})
    <3>1. IsRow(e)
      BY <1>6, <2>1
    <3>2. \A x : IsRow(x) => \A T : {x[i] : i \in 1 .. Len(x)} \subseteq T => x \in Seq(T)
      BY DEF IsRow
    <3> QED BY <1>9, <3>1, <3>2
  <2>5. e = d
    BY <2>2, <2>3, <2>4, SeqEqual
  <2> QED BY <2>1, <2>5
<1> QED BY <1>3, <1>5, <1>7, <1>8, <1>10

Defers(n, act, x) == n.op = "defer" /\ n.arg.act = act /\ x \in n.arg.arg
Passes(n, pardoned) ==
    n.op \in {"put", "edit", "defer"} \/ (n.op \in {"try", "chdir"} /\ n.arg \in pardoned)

\* The deferred function is registered before anything else may fail.
Soon(act, x, pardoned, r) ==
    \E k \in 1 .. Len(r) : Defers(r[k], act, x) /\ \A j \in 1 .. k - 1 : Passes(r[j], pardoned)

LEMMA SoonNext ==
    ASSUME NEW act, NEW x, NEW pardoned, NEW r, IsRow(r), Soon(act, x, pardoned, r)
    PROVE  /\ r # <<>>
           /\ \/ Defers(Head(r), act, x)
              \/ Passes(Head(r), pardoned) /\ Soon(act, x, pardoned, Tail(r))
<1>1. PICK k \in 1 .. Len(r) : Defers(r[k], act, x) /\ \A j \in 1 .. k - 1 : Passes(r[j], pardoned)
  BY DEF Soon
<1>2. r # <<>>
  BY <1>1, EmptySeq
<1>3. Len(r) \in Nat \ {0} /\ Head(r) = r[1] /\ Len(Tail(r)) = Len(r) - 1
      /\ \A i \in 1 .. Len(r) - 1 : Tail(r)[i] = r[i + 1]
  BY <1>2, RowFacts
<1>4. CASE k = 1
  BY <1>1, <1>2, <1>3, <1>4
<1>5. CASE k # 1
  <2>1. k - 1 \in 1 .. Len(Tail(r)) /\ Tail(r)[k - 1] = r[k] /\ 1 \in 1 .. k - 1
    BY <1>3, <1>5
  <2>2. \A j \in 1 .. k - 1 - 1 : Passes(Tail(r)[j], pardoned)
    <3> SUFFICES ASSUME NEW j \in 1 .. k - 1 - 1 PROVE Passes(Tail(r)[j], pardoned)
      OBVIOUS
    <3>1. j \in 1 .. Len(r) - 1 /\ j + 1 \in 1 .. k - 1
      BY <1>3
    <3> QED BY <1>1, <1>3, <3>1
  <2>3. Soon(act, x, pardoned, Tail(r))
    BY <1>1, <2>1, <2>2 DEF Soon
  <2> QED BY <1>1, <1>2, <1>3, <2>1, <2>3
<1> QED BY <1>4, <1>5

LEMMA SoonFirst ==
    ASSUME NEW act, NEW x, NEW pardoned, NEW r, IsRow(r), r # <<>>, Defers(Head(r), act, x)
    PROVE  Soon(act, x, pardoned, r)
BY RowFacts DEF Soon

LEMMA SoonLater ==
    ASSUME NEW act, NEW x, NEW pardoned, NEW r, IsRow(r), r # <<>>,
           Passes(Head(r), pardoned), Soon(act, x, pardoned, Tail(r))
    PROVE  Soon(act, x, pardoned, r)
<1>1. Len(r) \in Nat \ {0} /\ Head(r) = r[1] /\ Len(Tail(r)) = Len(r) - 1
      /\ \A i \in 1 .. Len(r) - 1 : Tail(r)[i] = r[i + 1]
  BY RowFacts
<1>2. PICK k \in 1 .. Len(Tail(r)) : /\ Defers(Tail(r)[k], act, x)
                                     /\ \A j \in 1 .. k - 1 : Passes(Tail(r)[j], pardoned)
  BY DEF Soon
<1>3. k + 1 \in 1 .. Len(r) /\ Defers(r[k + 1], act, x)
  BY <1>1, <1>2
<1>4. \A j \in 1 .. k + 1 - 1 : Passes(r[j], pardoned)
  <2> SUFFICES ASSUME NEW j \in 1 .. k + 1 - 1 PROVE Passes(r[j], pardoned)
    OBVIOUS
  <2>1. CASE j = 1
    BY <1>1, <2>1
  <2>2. CASE j # 1
    <3>1. j - 1 \in 1 .. k - 1 /\ j - 1 \in 1 .. Len(r) - 1 /\ j - 1 + 1 = j
      BY <1>1, <1>2, <2>2
    <3> QED BY <1>1, <1>2, <3>1
  <2> QED BY <2>1, <2>2
<1> QED BY <1>3, <1>4 DEF Soon

LEMMA SoonConcat ==
    ASSUME NEW act, NEW x, NEW pardoned, NEW a, NEW b, IsRow(a), IsRow(b), Soon(act, x, pardoned, a)
    PROVE  Soon(act, x, pardoned, a \o b)
<1>1. PICK c : c = a \o b
  OBVIOUS
<1>2. /\ Len(a) \in Nat /\ Len(b) \in Nat /\ Len(c) = Len(a) + Len(b)
      /\ \A i \in 1 .. Len(a) + Len(b) : c[i] = IF i <= Len(a) THEN a[i] ELSE b[i - Len(a)]
  BY <1>1, ConcatFacts
<1>3. PICK k \in 1 .. Len(a) : Defers(a[k], act, x) /\ \A j \in 1 .. k - 1 : Passes(a[j], pardoned)
  BY DEF Soon
<1>4. k \in 1 .. Len(c) /\ \A j \in 1 .. k : c[j] = a[j]
  BY <1>2
<1>5. Defers(c[k], act, x) /\ \A j \in 1 .. k - 1 : Passes(c[j], pardoned)
  BY <1>3, <1>4
<1>6. Soon(act, x, pardoned, c)
  BY <1>4, <1>5 DEF Soon
<1> QED BY <1>1, <1>6


\* Failures that excuse what is left behind, where the code does not guard it.
Excuses == UnguardedSteps \cup {"remove maven.config"}
Pardoned(file) == IF file = "maven.config.bkp" THEN {"remove maven.config"} ELSE {}

\* What is known of a call while it runs: k.h, the temporary directories that
\* its caller removes when it ends well; k.builder, it is the builder itself;
\* k.safe, it or one of its callers may be forgotten; k.cur, the options'
\* curation; k.kept, the variables that may stay.  And what it has done so far:
\* "moved" to the temporary directory, or a file that it will restore.
InPlace(k) == InstallsInPlace \cup (IF k.cur THEN {} ELSE {"yarn install"})

DeferSound(u, k) ==
    IF k.h # {} THEN u.act = "rmFailed" /\ u.arg \subseteq k.h
    ELSE u.act \in {"rm", "env", "file"} \/ (u.act = "chdir" /\ k.builder /\ u.arg = {"cwd"})

\* A step n with the steps r after it.
Sound(n, r, k, p) ==
    /\ n.op \in {"try", "assign", "raise", "run", "mktemp", "chdir", "put", "edit", "choice", "call", "defer"}
    /\ n.op = "mktemp" =>
          \/ Soon("rm", n.arg, UnguardedSteps, r)
          \/ /\ n.arg \in k.h /\ r # <<>> /\ Head(r).op = "defer"
             /\ Head(r).arg.act = "rmFailed" /\ Head(r).arg.arg = {n.arg}
    /\ n.op = "chdir" => k.builder /\ n.arg = "work" /\ Soon("chdir", "cwd", {}, r)
    /\ n.op = "put" => n.arg \in k.kept \/ Soon("env", n.arg, {}, r)
    /\ n.op = "edit" => n.arg \in UserFiles /\ Soon("file", n.arg, Pardoned(n.arg), r)
    /\ n.op = "run" => /\ n.arg[1] = "target" => n.arg[2] \in InPlace(k) \cup (p \cap UserFiles)
                       /\ n.arg[1] = "cwd" => "moved" \in p
    /\ n.op = "defer" => DeferSound(n.arg, k)
    /\ k.safe => /\ n.op \notin {"mktemp", "chdir", "edit", "assign"}
                 /\ n.op = "try" => n.arg \notin Excuses
                 /\ n.op = "run" => n.arg[2] \notin Excuses

After(n, p) == IF n.op = "chdir" THEN p \cup {"moved"}
               ELSE IF n.op = "defer" /\ n.arg.act = "file" THEN p \cup (n.arg.arg \cap UserFiles)
               ELSE p

\* What is known of the call that a step makes.
Callee(n, r, k, p, c, q) ==
    /\ q \subseteq p \cap {"moved"}
    /\ c.builder = FALSE /\ c.cur = k.cur /\ c.kept = k.kept
    /\ \A d \in c.h : n.arg = "raise" /\ Soon("rm", d, UnguardedSteps, r)
    /\ n.arg = "else" \/ k.safe => c.safe

\* C leads from the steps to what is left of them, and into their calls.
Within(C, s, k, p) == \E q \in SUBSET p : <<s, k, q>> \in C
Leads(C, s, k, p) ==
    LET n == Head(s)
        r == Tail(s)
    IN  /\ Sound(n, r, k, p)
        /\ Within(C, r, k, After(n, p))
        /\ n.op = "choice" => /\ IsRow(n.body) /\ IsRow(n.alt)
                              /\ Within(C, n.body \o r, k, p) /\ Within(C, n.alt \o r, k, p)
        /\ n.op = "call" => /\ \E c, q : Callee(n, r, k, p, c, q) /\ Within(C, n.body, c, q)
                            /\ n.arg = "else" => IsRow(n.alt) /\ Within(C, n.alt \o r, k, p)
Tidy(C) == \A s, k, p : <<s, k, p>> \in C => IsRow(s) /\ (s # <<>> => Leads(C, s, k, p))
Fine(s, k, p) == \E C : Tidy(C) /\ Within(C, s, k, p)

LEMMA WithinMore ==
    ASSUME NEW C, NEW D, NEW s, NEW k, NEW p, NEW q, C \subseteq D, p \subseteq q, Within(C, s, k, p)
    PROVE  Within(D, s, k, q)
BY DEF Within

LEMMA SoundMore ==
    ASSUME NEW n, NEW r, NEW k, NEW p, NEW q, p \subseteq q, Sound(n, r, k, p)
    PROVE  Sound(n, r, k, q)
BY DEF Sound

LEMMA LeadsMore ==
    ASSUME NEW C, NEW D, NEW s, NEW k, NEW p, NEW q, C \subseteq D, p \subseteq q, Leads(C, s, k, p)
    PROVE  Leads(D, s, k, q)
<1> DEFINE n == Head(s)
           r == Tail(s)
<1>1. Sound(n, r, k, p) /\ Within(C, r, k, After(n, p))
  BY DEF Leads
<1>2. After(n, p) \subseteq After(n, q)
  BY DEF After
<1>3. Sound(n, r, k, q) /\ Within(D, r, k, After(n, q))
  BY <1>1, <1>2, SoundMore, WithinMore
<1>4. n.op = "choice" => /\ IsRow(n.body) /\ IsRow(n.alt)
                         /\ Within(D, n.body \o r, k, q) /\ Within(D, n.alt \o r, k, q)
  BY WithinMore DEF Leads
<1>5. ASSUME n.op = "call"
      PROVE  /\ \E c, z : Callee(n, r, k, q, c, z) /\ Within(D, n.body, c, z)
             /\ n.arg = "else" => IsRow(n.alt) /\ Within(D, n.alt \o r, k, q)
  <2>1. PICK c, z : Callee(n, r, k, p, c, z) /\ Within(C, n.body, c, z)
    BY <1>5 DEF Leads
  <2>2. Callee(n, r, k, q, c, z) /\ Within(D, n.body, c, z)
    BY <2>1, WithinMore DEF Callee
  <2>3. n.arg = "else" => IsRow(n.alt) /\ Within(D, n.alt \o r, k, q)
    BY <1>5, WithinMore DEF Leads
  <2> QED BY <2>2, <2>3
<1> QED BY <1>3, <1>4, <1>5 DEF Leads

LEMMA TidyPair ==
    ASSUME NEW C, NEW D, Tidy(C), Tidy(D)
    PROVE  Tidy(C \cup D)
<1> SUFFICES ASSUME NEW s, NEW k, NEW p, <<s, k, p>> \in C \cup D
             PROVE  IsRow(s) /\ (s # <<>> => Leads(C \cup D, s, k, p))
  BY DEF Tidy
<1>1. CASE <<s, k, p>> \in C
  <2>1. IsRow(s) /\ (s # <<>> => Leads(C, s, k, p))
    BY <1>1 DEF Tidy
  <2> QED BY <2>1, LeadsMore
<1>2. CASE <<s, k, p>> \in D
  <2>1. IsRow(s) /\ (s # <<>> => Leads(D, s, k, p))
    BY <1>2 DEF Tidy
  <2> QED BY <2>1, LeadsMore
<1> QED BY <1>1, <1>2

LEMMA FineMore ==
    ASSUME NEW s, NEW k, NEW p, NEW q, p \subseteq q, Fine(s, k, p)
    PROVE  Fine(s, k, q) /\ IsRow(s)
<1>1. PICK C : Tidy(C) /\ Within(C, s, k, p)
  BY DEF Fine
<1>2. Within(C, s, k, q)
  BY <1>1, WithinMore
<1>3. IsRow(s)
  BY <1>1 DEF Tidy, Within
<1> QED BY <1>1, <1>2, <1>3 DEF Fine

LEMMA FineRow == ASSUME NEW s, NEW k, NEW p, Fine(s, k, p) PROVE IsRow(s)
BY FineMore

LEMMA FineNone == ASSUME NEW k, NEW p PROVE Fine(<<>>, k, p)
<1> DEFINE C == {<<<<>>, k, p>>}
<1>1. IsRow(<<>>)
  BY EmptySeq DEF IsRow
<1>2. Tidy(C)
  BY <1>1 DEF Tidy
<1>3. Within(C, <<>>, k, p)
  BY DEF Within
<1> QED BY <1>2, <1>3 DEF Fine

\* What a fine row of steps does, and where it leads.
LEMMA FineUse ==
    ASSUME NEW s, NEW k, NEW p, Fine(s, k, p), s # <<>>
    PROVE  /\ Sound(Head(s), Tail(s), k, p)
           /\ Fine(Tail(s), k, After(Head(s), p))
           /\ Head(s).op = "choice" => /\ IsRow(Head(s).body) /\ IsRow(Head(s).alt)
                                       /\ Fine(Head(s).body \o Tail(s), k, p)
                                       /\ Fine(Head(s).alt \o Tail(s), k, p)
           /\ Head(s).op = "call" =>
                 /\ \E c, q : Callee(Head(s), Tail(s), k, p, c, q) /\ Fine(Head(s).body, c, q)
                 /\ Head(s).arg = "else" => IsRow(Head(s).alt) /\ Fine(Head(s).alt \o Tail(s), k, p)
<1>1. PICK C : Tidy(C) /\ Within(C, s, k, p)
  BY DEF Fine
<1>2. Leads(C, s, k, p)
  <2>1. PICK q \in SUBSET p : <<s, k, q>> \in C
    BY <1>1 DEF Within
  <2>2. Leads(C, s, k, q)
    BY <1>1, <2>1 DEF Tidy
  <2> QED BY <2>1, <2>2, LeadsMore
<1> QED BY <1>1, <1>2 DEF Leads, Fine

\* Steps are fine if the first is sound and what it leads to is fine.
LEMMA FineBy ==
    ASSUME NEW s, NEW k, NEW p, IsRow(s), s # <<>>, Sound(Head(s), Tail(s), k, p),
           Fine(Tail(s), k, After(Head(s), p)),
           Head(s).op = "choice" => /\ IsRow(Head(s).body) /\ IsRow(Head(s).alt)
                                    /\ Fine(Head(s).body \o Tail(s), k, p)
                                    /\ Fine(Head(s).alt \o Tail(s), k, p),
           Head(s).op = "call" =>
                 /\ \E c, q : Callee(Head(s), Tail(s), k, p, c, q) /\ Fine(Head(s).body, c, q)
                 /\ Head(s).arg = "else" => IsRow(Head(s).alt) /\ Fine(Head(s).alt \o Tail(s), k, p)
    PROVE  Fine(s, k, p)
<1>1. PICK n, r : n = Head(s) /\ r = Tail(s)
  OBVIOUS
<1>2. PICK A : Tidy(A) /\ Within(A, r, k, After(n, p))
  BY <1>1 DEF Fine
<1>3. \E D : /\ Tidy(D)
             /\ n.op = "choice" => Within(D, n.body \o r, k, p) /\ Within(D, n.alt \o r, k, p)
             /\ n.op = "call" =>
                  /\ \E c, q : Callee(n, r, k, p, c, q) /\ Within(D, n.body, c, q)
                  /\ n.arg = "else" => Within(D, n.alt \o r, k, p)
  <2>1. CASE n.op = "choice"
    <3>1. PICK D, E : Tidy(D) /\ Within(D, n.body \o r, k, p) /\ Tidy(E) /\ Within(E, n.alt \o r, k, p)
      BY <1>1, <2>1 DEF Fine
    <3>2. /\ Tidy(D \cup E) /\ D \subseteq D \cup E /\ E \subseteq D \cup E /\ p \subseteq p
      BY <3>1, TidyPair
    <3>3. Within(D \cup E, n.body \o r, k, p) /\ Within(D \cup E, n.alt \o r, k, p)
      BY <3>1, <3>2, WithinMore
    <3> QED BY <2>1, <3>2, <3>3
  <2>2. CASE n.op = "call"
    <3>1. PICK c, q, D : Callee(n, r, k, p, c, q) /\ Tidy(D) /\ Within(D, n.body, c, q)
      BY <1>1, <2>2 DEF Fine
    <3>2. CASE n.arg = "else"
      <4>1. PICK E : Tidy(E) /\ Within(E, n.alt \o r, k, p)
        BY <1>1, <2>2, <3>2 DEF Fine
      <4>2. /\ Tidy(D \cup E) /\ D \subseteq D \cup E /\ E \subseteq D \cup E /\ p \subseteq p /\ q \subseteq q
        BY <3>1, <4>1, TidyPair
      <4>3. Within(D \cup E, n.body, c, q) /\ Within(D \cup E, n.alt \o r, k, p)
        BY <3>1, <4>1, <4>2, WithinMore
      <4> QED BY <2>2, <3>1, <4>2, <4>3
    <3>3. CASE n.arg # "else"
      BY <2>2, <3>1, <3>3
    <3> QED BY <3>2, <3>3
  <2>3. CASE n.op # "choice" /\ n.op # "call"
    BY <1>2, <2>3
  <2> QED BY <2>1, <2>2, <2>3
<1>4. PICK D : /\ Tidy(D)
               /\ n.op = "choice" => Within(D, n.body \o r, k, p) /\ Within(D, n.alt \o r, k, p)
               /\ n.op = "call" =>
                    /\ \E c, q : Callee(n, r, k, p, c, q) /\ Within(D, n.body, c, q)
                    /\ n.arg = "else" => Within(D, n.alt \o r, k, p)
  BY <1>3
<1> DEFINE B == A \cup D
           C == B \cup {<<s, k, p>>}
<1>5. Tidy(B) /\ A \subseteq C /\ D \subseteq C /\ B \subseteq C
  BY <1>2, <1>4, TidyPair
<1>6. Leads(C, s, k, p)
  <2>1. Within(C, r, k, After(n, p))
    BY <1>2, <1>5, WithinMore
  <2>2. n.op = "choice" => Within(C, n.body \o r, k, p) /\ Within(C, n.alt \o r, k, p)
    BY <1>4, <1>5, WithinMore
  <2>3. ASSUME n.op = "call"
        PROVE  /\ \E c, q : Callee(n, r, k, p, c, q) /\ Within(C, n.body, c, q)
               /\ n.arg = "else" => Within(C, n.alt \o r, k, p)
    BY <1>4, <1>5, <2>3, WithinMore
  <2> HIDE DEF C
  <2> QED BY <1>1, <2>1, <2>2, <2>3 DEF Leads
<1>7. Tidy(C)
  <2> SUFFICES ASSUME NEW x, NEW y, NEW z, <<x, y, z>> \in C
               PROVE  IsRow(x) /\ (x # <<>> => Leads(C, x, y, z))
    BY DEF Tidy
  <2>1. CASE <<x, y, z>> \in B
    <3>1. IsRow(x) /\ (x # <<>> => Leads(B, x, y, z))
      BY <1>5, <2>1 DEF Tidy
    <3> HIDE DEF B, C
    <3> QED BY <1>5, <3>1, LeadsMore
  <2>2. CASE x = s /\ y = k /\ z = p
    BY <1>6, <2>2
  <2> QED BY <2>1, <2>2
<1>8. Within(C, s, k, p)
  BY DEF Within
<1> QED BY <1>7, <1>8 DEF Fine


LEMMA RowAssociative ==
    ASSUME NEW a, NEW b, NEW c, IsRow(a), IsRow(b), IsRow(c)
    PROVE  (a \o b) \o c = a \o (b \o c)
<1>1. PICK S, T : a \in Seq(S) /\ b \in Seq(S) /\ c \in Seq(T)
  BY TwoRows DEF IsRow
<1>2. a \in Seq(S \cup T) /\ b \in Seq(S \cup T) /\ c \in Seq(S \cup T)
  BY <1>1
<1> QED BY <1>2, ConcatAssociative

LEMMA OneRow ==
    ASSUME NEW n
    PROVE  IsRow(<<n>>) /\ <<n>> # <<>> /\ Head(<<n>>) = n /\ Tail(<<n>>) = <<>> /\ IsRow(<<>>)
<1>1. <<n>> \in Seq({n}) /\ Head(<<n>>) = n /\ Tail(<<n>>) = <<>> /\ <<>> \in Seq({}) /\ <<n>> # <<>>
  OBVIOUS
<1> QED BY <1>1 DEF IsRow

LEMMA PairRow == ASSUME NEW a, NEW b PROVE <<a>> \o <<b>> = <<a, b>>
<1>1. PICK s, t, u : s = <<a>> /\ t = <<b>> /\ u = <<a, b>>
  OBVIOUS
<1>2. /\ s \in Seq({a, b}) /\ Len(s) = 1 /\ s[1] = a
      /\ t \in Seq({a, b}) /\ Len(t) = 1 /\ t[1] = b
      /\ u \in Seq({a, b}) /\ Len(u) = 2 /\ u[1] = a /\ u[2] = b
  BY <1>1
<1>3. /\ s \o t \in Seq({a, b}) /\ Len(s \o t) = 2
      /\ \A i \in 1 .. 2 : (s \o t)[i] = IF i <= 1 THEN s[i] ELSE t[i - 1]
  BY <1>2, ConcatProperties
<1>4. (s \o t)[1] = a /\ (s \o t)[2] = b
  BY <1>2, <1>3
<1>5. \A i \in 1 .. Len(u) : u[i] = (s \o t)[i]
  <2>1. \A i \in 1 .. Len(u) : i = 1 \/ i = 2
    BY <1>2
  <2> QED BY <1>2, <1>4, <2>1
<1>6. u = s \o t
  BY <1>2, <1>3, <1>5, SeqEqual
<1> QED BY <1>1, <1>6

LEMMA ConsRow ==
    ASSUME NEW n, NEW r, IsRow(r)
    PROVE  IsRow(<<n>> \o r) /\ <<n>> \o r # <<>> /\ Head(<<n>> \o r) = n /\ Tail(<<n>> \o r) = r
<1>1. PICK m : m = <<n>>
  OBVIOUS
<1>2. IsRow(m) /\ m # <<>> /\ Head(m) = n /\ Tail(m) = <<>>
  BY <1>1, OneRow
<1>3. IsRow(m \o r) /\ m \o r # <<>> /\ Head(m \o r) = Head(m) /\ Tail(m \o r) = Tail(m) \o r
  BY <1>2, ConcatRest, ConcatFacts
<1>4. <<>> \o r = r
  BY OneRow, ConcatFacts
<1> QED BY <1>1, <1>2, <1>3, <1>4

\* A sound step stays sound with more steps after those that follow it.
LEMMA SoundConcat ==
    ASSUME NEW n, NEW r, NEW b, NEW k, NEW p, IsRow(r), IsRow(b), Sound(n, r, k, p)
    PROVE  Sound(n, r \o b, k, p)
<1>1. \A act, x, pardoned : Soon(act, x, pardoned, r) => Soon(act, x, pardoned, r \o b)
  BY SoonConcat
<1>2. r # <<>> => r \o b # <<>> /\ Head(r \o b) = Head(r)
  BY ConcatRest
<1> QED BY <1>1, <1>2 DEF Sound

LEMMA FineConcat ==
    ASSUME NEW a, NEW b, NEW k, NEW p, Fine(a, k, p), Fine(b, k, p)
    PROVE  Fine(a \o b, k, p)
<1>1. PICK A : Tidy(A) /\ Within(A, a, k, p)
  BY DEF Fine
<1>2. PICK B : Tidy(B) /\ Within(B, b, k, p)
  BY DEF Fine
<1>3. IsRow(a) /\ IsRow(b)
  BY FineRow
<1> DEFINE N == {<<t[1] \o b, k, t[3] \cup p>> : t \in {t \in A : t = <<t[1], k, t[3]>>}}
           C == (A \cup B) \cup N
<1>4. ASSUME NEW x, NEW q, <<x, k, q>> \in A PROVE <<x \o b, k, q \cup p>> \in N
  <2>1. PICK t : t = <<x, k, q>>
    OBVIOUS
  <2>2. t[1] = x /\ t[3] = q
    BY <2>1
  <2> QED BY <1>4, <2>1, <2>2
<1>5. ASSUME NEW e \in N
      PROVE  \E x, q : <<x, k, q>> \in A /\ e = <<x \o b, k, q \cup p>>
  <2>1. PICK t \in A : t = <<t[1], k, t[3]>> /\ e = <<t[1] \o b, k, t[3] \cup p>>
    BY <1>5
  <2>2. PICK x, q : x = t[1] /\ q = t[3]
    OBVIOUS
  <2>3. <<x, k, q>> \in A /\ e = <<x \o b, k, q \cup p>>
    BY <2>1, <2>2
  <2> QED BY <2>3
<1> HIDE DEF N
<1>6. Tidy(A \cup B) /\ A \subseteq C /\ B \subseteq C /\ A \cup B \subseteq C /\ N \subseteq C
      /\ \A t \in C : t \in A \cup B \/ t \in N
  BY <1>1, <1>2, TidyPair
<1> HIDE DEF C
<1>7. ASSUME NEW x, NEW q, Within(A, x, k, q) PROVE Within(C, x \o b, k, q \cup p)
  <2>1. PICK z \in SUBSET q : <<x, k, z>> \in A
    BY <1>7 DEF Within
  <2>2. <<x \o b, k, z \cup p>> \in C /\ z \cup p \subseteq q \cup p
    BY <1>4, <1>6, <2>1
  <2> QED BY <2>2 DEF Within
<1>8. ASSUME NEW x, NEW q, <<x, k, q>> \in A, x \o b # <<>>
      PROVE  Leads(C, x \o b, k, q \cup p)
  <2>1. IsRow(x)
    BY <1>1, <1>8 DEF Tidy
  <2>2. CASE x = <<>>
    <3>1. x \o b = b /\ b # <<>>
      BY <1>3, <1>8, <2>2, ConcatFacts
    <3>2. PICK z \in SUBSET p : <<b, k, z>> \in B
      BY <1>2 DEF Within
    <3>3. Leads(B, b, k, z)
      BY <1>2, <3>1, <3>2 DEF Tidy
    <3>4. z \subseteq q \cup p
      BY <3>2
    <3>5. Leads(C, b, k, q \cup p)
      BY <1>6, <3>3, <3>4, LeadsMore
    <3> QED BY <3>1, <3>5
  <2>3. CASE x # <<>>
    <3>1. PICK n, r, s : n = Head(x) /\ r = Tail(x) /\ s = x \o b
      OBVIOUS
    <3>2. Head(s) = n /\ Tail(s) = r \o b /\ IsRow(r)
      BY <1>3, <2>1, <2>3, <3>1, ConcatRest, RowFacts
    <3>3. Leads(A, x, k, q)
      BY <1>1, <1>8, <2>3 DEF Tidy
    <3>4. Sound(n, r \o b, k, q \cup p)
      <4>1. Sound(n, r, k, q) /\ q \subseteq q \cup p
        BY <3>1, <3>3 DEF Leads
      <4> QED BY <1>3, <3>2, <4>1, SoundMore, SoundConcat
    <3>5. Within(C, r \o b, k, After(n, q \cup p))
      <4>1. Within(A, r, k, After(n, q))
        BY <3>1, <3>3 DEF Leads
      <4>2. Within(C, r \o b, k, After(n, q) \cup p)
        BY <1>7, <4>1
      <4>3. After(n, q) \cup p = After(n, q \cup p)
        BY Zenon DEF After
      <4> QED BY <4>2, <4>3
    <3>6. ASSUME NEW y, IsRow(y), Within(A, y \o r, k, q)
          PROVE  Within(C, y \o (r \o b), k, q \cup p)
      <4>1. (y \o r) \o b = y \o (r \o b)
        BY <1>3, <3>2, <3>6, RowAssociative
      <4>2. Within(C, (y \o r) \o b, k, q \cup p)
        BY <1>7, <3>6
      <4> QED BY <4>1, <4>2
    <3>7. n.op = "choice" => /\ IsRow(n.body) /\ IsRow(n.alt)
                             /\ Within(C, n.body \o (r \o b), k, q \cup p)
                             /\ Within(C, n.alt \o (r \o b), k, q \cup p)
      <4>1. n.op = "choice" => /\ IsRow(n.body) /\ IsRow(n.alt)
                               /\ Within(A, n.body \o r, k, q) /\ Within(A, n.alt \o r, k, q)
        BY <3>1, <3>3 DEF Leads
      <4> QED BY <3>6, <4>1
    <3>8. ASSUME n.op = "call"
          PROVE  /\ \E c, z : Callee(n, r \o b, k, q \cup p, c, z) /\ Within(C, n.body, c, z)
                 /\ n.arg = "else" => IsRow(n.alt) /\ Within(C, n.alt \o (r \o b), k, q \cup p)
      <4>1. PICK c, z : Callee(n, r, k, q, c, z) /\ Within(A, n.body, c, z)
        BY <3>1, <3>3, <3>8 DEF Leads
      <4>2. \A d \in c.h : Soon("rm", d, UnguardedSteps, r \o b)
        BY <1>3, <3>2, <4>1, SoonConcat DEF Callee
      <4>3. Callee(n, r \o b, k, q \cup p, c, z)
        BY <4>1, <4>2 DEF Callee
      <4>4. Within(C, n.body, c, z)
        <5> QED BY <1>6, <4>1, WithinMore
      <4>5. n.arg = "else" => IsRow(n.alt) /\ Within(C, n.alt \o (r \o b), k, q \cup p)
        <5>1. n.arg = "else" => IsRow(n.alt) /\ Within(A, n.alt \o r, k, q)
          BY <3>1, <3>3, <3>8 DEF Leads
        <5> QED BY <3>6, <5>1
      <4> QED BY <4>3, <4>4, <4>5
    <3>9. Leads(C, s, k, q \cup p)
      BY <3>2, <3>4, <3>5, <3>7, <3>8 DEF Leads
    <3> QED BY <3>1, <3>9
  <2> QED BY <2>2, <2>3
<1>9. Tidy(C)
  <2> SUFFICES ASSUME NEW s, NEW l, NEW z, <<s, l, z>> \in C
               PROVE  IsRow(s) /\ (s # <<>> => Leads(C, s, l, z))
    BY DEF Tidy
  <2>1. CASE <<s, l, z>> \in A \cup B
    <3>1. IsRow(s) /\ (s # <<>> => Leads(A \cup B, s, l, z))
      BY <1>6, <2>1 DEF Tidy
    <3>2. z \subseteq z
      OBVIOUS
    <3> QED BY <1>6, <3>1, <3>2, LeadsMore
  <2>2. CASE <<s, l, z>> \in N
    <3>0. PICK x, q : <<x, k, q>> \in A /\ <<s, l, z>> = <<x \o b, k, q \cup p>>
      BY <1>5, <2>2
    <3>1. <<x, k, q>> \in A /\ s = x \o b /\ l = k /\ z = q \cup p
      BY <3>0
    <3>2. IsRow(x)
      BY <1>1, <3>1 DEF Tidy
    <3>3. IsRow(s)
      BY <1>3, <3>1, <3>2, ConcatFacts
    <3>4. ASSUME s # <<>> PROVE Leads(C, s, l, z)
      <4>1. Leads(C, x \o b, k, q \cup p)
        BY <1>8, <3>1, <3>4
      <4> QED BY <3>1, <4>1
    <3> QED BY <3>1, <3>3, <3>4
  <2> QED BY <1>6, <2>1, <2>2
<1>10. Within(C, a \o b, k, p)
  <2>1. p \cup p = p
    OBVIOUS
  <2> QED BY <1>1, <1>7, <2>1
<1> QED BY <1>9, <1>10 DEF Fine

\* A step that neither branches nor calls, and what follows it.
LEMMA FineCons ==
    ASSUME NEW n, NEW r, NEW k, NEW p, n.op \notin {"choice", "call"},
           Sound(n, r, k, p), Fine(r, k, After(n, p))
    PROVE  Fine(<<n>> \o r, k, p)
<1>1. IsRow(r)
  BY FineRow
<1>2. PICK s : s = <<n>> \o r
  OBVIOUS
<1>3. IsRow(s) /\ s # <<>> /\ Head(s) = n /\ Tail(s) = r
  BY <1>1, <1>2, ConsRow
<1>4. Fine(s, k, p)
  BY <1>3, FineBy
<1> QED BY <1>2, <1>4

LEMMA FineAlone ==
    ASSUME NEW n, NEW k, NEW p, n.op \notin {"choice", "call"}, Sound(n, <<>>, k, p)
    PROVE  Fine(<<n>>, k, p)
<1>1. Fine(<<n>> \o <<>>, k, p)
  BY FineCons, FineNone
<1>2. <<n>> \o <<>> = <<n>>
  BY OneRow, ConcatFacts
<1> QED BY <1>1, <1>2

LEMMA FineChoice ==
    ASSUME NEW a, NEW b, NEW k, NEW p, Fine(a, k, p), Fine(b, k, p)
    PROVE  Fine(<<Choice(a, b)>>, k, p)
<1>1. PICK n, s : n = Choice(a, b) /\ s = <<n>>
  OBVIOUS
<1>2. n.op = "choice" /\ n.body = a /\ n.alt = b
  BY <1>1 DEF Choice, Step
<1>3. IsRow(s) /\ s # <<>> /\ Head(s) = n /\ Tail(s) = <<>>
  BY <1>1, OneRow
<1>4. IsRow(a) /\ IsRow(b) /\ a \o <<>> = a /\ b \o <<>> = b
  BY FineRow, ConcatFacts, OneRow
<1>5. Sound(n, <<>>, k, p) /\ Fine(<<>>, k, After(n, p))
  BY <1>2, FineNone DEF Sound
<1>6. Fine(s, k, p)
  BY <1>2, <1>3, <1>4, <1>5, FineBy
<1> QED BY <1>1, <1>6

\* What is known in a call: the directories that the caller removes, and
\* whether the call may be forgotten.
Inner(k, dirs, safe) == [h |-> dirs, builder |-> FALSE, safe |-> safe, cur |-> k.cur, kept |-> k.kept]

LEMMA FineFallback ==
    ASSUME NEW a, NEW b, NEW k, NEW p, Fine(a, Inner(k, {}, TRUE), p \cap {"moved"}), Fine(b, k, p)
    PROVE  Fine(<<Fallback(a, b)>>, k, p)
<1>1. PICK n, s, c, q : n = Fallback(a, b) /\ s = <<n>> /\ c = Inner(k, {}, TRUE) /\ q = p \cap {"moved"}
  OBVIOUS
<1>2. n.op = "call" /\ n.arg = "else" /\ n.body = a /\ n.alt = b
  BY <1>1 DEF Fallback, Step
<1>3. IsRow(s) /\ s # <<>> /\ Head(s) = n /\ Tail(s) = <<>>
  BY <1>1, OneRow
<1>4. IsRow(b) /\ b \o <<>> = b
  BY FineRow, ConcatFacts, OneRow
<1>5. Sound(n, <<>>, k, p) /\ Fine(<<>>, k, After(n, p))
  BY <1>2, FineNone DEF Sound
<1>6. Callee(n, <<>>, k, p, c, q)
  BY <1>1, <1>2 DEF Callee, Inner
<1>7. /\ \E d, z : Callee(n, <<>>, k, p, d, z) /\ Fine(n.body, d, z)
      /\ IsRow(n.alt) /\ Fine(n.alt \o <<>>, k, p)
  BY <1>1, <1>2, <1>4, <1>6
<1>8. Fine(s, k, p)
  BY <1>2, <1>3, <1>5, <1>7, FineBy
<1> QED BY <1>1, <1>8

\* The caller removes the directories when the call ends well.
LEMMA FineInvoke ==
    ASSUME NEW a, NEW r, NEW k, NEW p, NEW dirs,
           Fine(a, Inner(k, dirs, k.safe), p \cap {"moved"}), Fine(r, k, p),
           \A d \in dirs : Soon("rm", d, UnguardedSteps, r)
    PROVE  Fine(<<Invoke(a)>> \o r, k, p)
<1>1. PICK n, s, c, q : /\ n = Invoke(a) /\ s = <<n>> \o r
                        /\ c = Inner(k, dirs, k.safe) /\ q = p \cap {"moved"}
  OBVIOUS
<1>2. n.op = "call" /\ n.arg = "raise" /\ n.body = a
  BY <1>1 DEF Invoke, Step
<1>3. IsRow(s) /\ s # <<>> /\ Head(s) = n /\ Tail(s) = r
  BY <1>1, FineRow, ConsRow
<1>4. Sound(n, r, k, p) /\ Fine(r, k, After(n, p))
  BY <1>2 DEF Sound, After
<1>5. Callee(n, r, k, p, c, q)
  BY <1>1, <1>2 DEF Callee, Inner
<1>6. Fine(s, k, p)
  BY <1>1, <1>2, <1>3, <1>4, <1>5, FineBy
<1> QED BY <1>1, <1>6

LEMMA FineCall ==
    ASSUME NEW a, NEW k, NEW p, Fine(a, Inner(k, {}, k.safe), p \cap {"moved"})
    PROVE  Fine(<<Invoke(a)>>, k, p)
<1>1. Fine(<<Invoke(a)>> \o <<>>, k, p)
  <2>1. PICK r, dirs : r = <<>> /\ dirs = {}
    OBVIOUS
  <2>2. Fine(r, k, p) /\ \A d \in dirs : Soon("rm", d, UnguardedSteps, r)
    BY <2>1, FineNone
  <2>3. Fine(a, Inner(k, dirs, k.safe), p \cap {"moved"})
    BY <2>1
  <2>4. Fine(<<Invoke(a)>> \o r, k, p)
    BY <2>2, <2>3, FineInvoke
  <2> QED BY <2>1, <2>4
<1>2. <<Invoke(a)>> \o <<>> = <<Invoke(a)>>
  BY OneRow, ConcatFacts
<1> QED BY <1>1, <1>2

LEMMA FineIf ==
    ASSUME NEW c, NEW a, NEW k, NEW p, c => Fine(a, k, p)
    PROVE  Fine(If(c, a), k, p)
BY FineNone DEF If

\* The steps without a branch as the builders write them.
LEMMA FineStep ==
    ASSUME NEW k, NEW p
    PROVE  /\ \A x : ~k.safe \/ x \notin Excuses => Fine(<<Try(x)>>, k, p)
           /\ \A x : ~k.safe => Fine(<<Assign(x)>>, k, p)
           /\ \A x : Fine(<<Raise(x)>>, k, p)
           /\ \A v \in k.kept : Fine(<<SetEnv(v)>>, k, p)
           /\ \A u : DeferSound(u, k) => Fine(<<OnExit(u)>>, k, p)
<1>1. ASSUME NEW x, ~k.safe \/ x \notin Excuses PROVE Fine(<<Try(x)>>, k, p)
  <2>1. Try(x).op = "try" /\ Try(x).arg = x
    BY DEF Try, Step
  <2>2. Sound(Try(x), <<>>, k, p)
    BY <1>1, <2>1 DEF Sound
  <2> QED BY <2>1, <2>2, FineAlone
<1>2. ASSUME NEW x, ~k.safe PROVE Fine(<<Assign(x)>>, k, p)
  <2>1. Assign(x).op = "assign" /\ Assign(x).arg = x
    BY DEF Assign, Step
  <2>2. Sound(Assign(x), <<>>, k, p)
    BY <1>2, <2>1 DEF Sound
  <2> QED BY <2>1, <2>2, FineAlone
<1>3. ASSUME NEW x PROVE Fine(<<Raise(x)>>, k, p)
  <2>1. Raise(x).op = "raise"
    BY DEF Raise, Step
  <2>2. Sound(Raise(x), <<>>, k, p)
    BY <2>1 DEF Sound
  <2> QED BY <2>1, <2>2, FineAlone
<1>4. ASSUME NEW v \in k.kept PROVE Fine(<<SetEnv(v)>>, k, p)
  <2>1. SetEnv(v).op = "put" /\ SetEnv(v).arg = v
    BY DEF SetEnv, Step
  <2>2. Sound(SetEnv(v), <<>>, k, p)
    BY <2>1 DEF Sound
  <2> QED BY <2>1, <2>2, FineAlone
<1>5. ASSUME NEW u, DeferSound(u, k) PROVE Fine(<<OnExit(u)>>, k, p)
  <2>1. OnExit(u).op = "defer" /\ OnExit(u).arg = u
    BY DEF OnExit, Step
  <2>2. Sound(OnExit(u), <<>>, k, p)
    BY <1>5, <2>1 DEF Sound
  <2> QED BY <2>1, <2>2, FineAlone
<1> QED BY <1>1, <1>2, <1>3, <1>4, <1>5

LEMMA FineRun ==
    ASSUME NEW k, NEW p, NEW dir, NEW x, ~k.safe \/ x \notin Excuses,
           dir = "target" => x \in InPlace(k) \cup (p \cap UserFiles),
           dir = "cwd" => "moved" \in p
    PROVE  Fine(<<Run(dir, x)>>, k, p)
<1>1. PICK n : n = Run(dir, x)
  OBVIOUS
<1>2. n.op = "run" /\ n.arg = <<dir, x>> /\ n.arg[1] = dir /\ n.arg[2] = x
  BY <1>1 DEF Run, Step
<1>3. Sound(n, <<>>, k, p)
  BY <1>2 DEF Sound
<1>4. Fine(<<n>>, k, p)
  BY <1>2, <1>3, FineAlone
<1> QED BY <1>1, <1>4

\* A step and the one that registers what undoes it.
LEMMA FineHeld ==
    ASSUME NEW n, NEW u, NEW k, NEW p, Sound(n, <<OnExit(u)>>, k, p), DeferSound(u, k),
           n.op \notin {"choice", "call"}
    PROVE  Fine(<<n, OnExit(u)>>, k, p)
<1>1. Fine(<<OnExit(u)>>, k, After(n, p))
  BY FineStep
<1>2. Fine(<<n>> \o <<OnExit(u)>>, k, p)
  BY <1>1, FineCons
<1>3. <<n>> \o <<OnExit(u)>> = <<n, OnExit(u)>>
  BY PairRow
<1> QED BY <1>2, <1>3

LEMMA SoonHeld ==
    ASSUME NEW u, NEW x \in u.arg, NEW pardoned, NEW r, IsRow(r)
    PROVE  Soon(u.act, x, pardoned, <<OnExit(u)>> \o r) /\ Soon(u.act, x, pardoned, <<OnExit(u)>>)
<1>1. PICK n, s : n = OnExit(u) /\ s = <<n>>
  OBVIOUS
<1>2. IsRow(s) /\ s # <<>> /\ Head(s) = n
  BY <1>1, OneRow
<1>3. Defers(n, u.act, x)
  BY <1>1 DEF Defers, OnExit, Step
<1>4. Soon(u.act, x, pardoned, s)
  BY <1>2, <1>3, SoonFirst
<1>5. Soon(u.act, x, pardoned, s \o r)
  BY <1>2, <1>4, SoonConcat
<1> QED BY <1>1, <1>4, <1>5

LEMMA FineVariable ==
    ASSUME NEW v, NEW u, NEW k, NEW p, k.h = {}, u.act = "env", v \in u.arg
    PROVE  Fine(<<SetEnv(v), OnExit(u)>>, k, p)
<1>1. SetEnv(v).op = "put" /\ SetEnv(v).arg = v
  BY DEF SetEnv, Step
<1>2. Soon("env", v, {}, <<OnExit(u)>>)
  BY SoonHeld, OneRow
<1>3. Sound(SetEnv(v), <<OnExit(u)>>, k, p) /\ DeferSound(u, k)
  BY <1>1, <1>2 DEF Sound, DeferSound
<1> QED BY <1>1, <1>3, FineHeld

LEMMA FineTemp ==
    ASSUME NEW d, NEW u, NEW k, NEW p, k.h = {}, ~k.safe, u.act = "rm", d \in u.arg
    PROVE  Fine(<<MkTemp(d), OnExit(u)>>, k, p)
<1>1. MkTemp(d).op = "mktemp" /\ MkTemp(d).arg = d
  BY DEF MkTemp, Step
<1>2. Soon("rm", d, UnguardedSteps, <<OnExit(u)>>)
  BY SoonHeld, OneRow
<1>3. Sound(MkTemp(d), <<OnExit(u)>>, k, p) /\ DeferSound(u, k)
  BY <1>1, <1>2 DEF Sound, DeferSound
<1> QED BY <1>1, <1>3, FineHeld

LEMMA FineHanded ==
    ASSUME NEW d, NEW k, NEW p, d \in k.h, ~k.safe
    PROVE  Fine(<<MkTemp(d), OnExit(RmFailed(d))>>, k, p)
<1>1. MkTemp(d).op = "mktemp" /\ MkTemp(d).arg = d
  BY DEF MkTemp, Step
<1>2. PICK u, n, r : u = RmFailed(d) /\ n = OnExit(u) /\ r = <<n>>
  OBVIOUS
<1>3. u.act = "rmFailed" /\ u.arg = {d} /\ n.op = "defer" /\ n.arg = u
  BY <1>2 DEF RmFailed, CleanUp, OnExit, Step
<1>4. r # <<>> /\ Head(r) = n
  BY <1>2, OneRow
<1>5. Sound(MkTemp(d), r, k, p) /\ DeferSound(u, k)
  BY <1>1, <1>3, <1>4 DEF Sound, DeferSound
<1> QED BY <1>1, <1>2, <1>5, FineHeld

\* Rows that are written out.
LEMMA FineTuple ==
    ASSUME NEW k, NEW p
    PROVE  /\ \A a, b : Fine(<<a>>, k, p) /\ Fine(<<b>>, k, p) => Fine(<<a, b>>, k, p)
           /\ \A a, b, c : Fine(<<a, b>>, k, p) /\ Fine(<<c>>, k, p) => Fine(<<a, b, c>>, k, p)
           /\ \A a, b, c : Fine(<<a>>, k, p) /\ Fine(<<b, c>>, k, p) => Fine(<<a, b, c>>, k, p)
           /\ \A a, b, c, d : Fine(<<a, b>>, k, p) /\ Fine(<<c, d>>, k, p) => Fine(<<a, b, c, d>>, k, p)
           /\ \A a, b, c, d, e :
                 Fine(<<a, b, c>>, k, p) /\ Fine(<<d, e>>, k, p) => Fine(<<a, b, c, d, e>>, k, p)
<1>1. ASSUME NEW a, NEW b, Fine(<<a>>, k, p), Fine(<<b>>, k, p) PROVE Fine(<<a, b>>, k, p)
  <2>1. <<a>> \o <<b>> = <<a, b>>
    BY PairRow
  <2> QED BY <1>1, <2>1, FineConcat
<1>2. ASSUME NEW a, NEW b, NEW c, Fine(<<a, b>>, k, p), Fine(<<c>>, k, p) PROVE Fine(<<a, b, c>>, k, p)
  <2>1. <<a, b, c>> = <<a, b>> \o <<c>>
    OBVIOUS
  <2> QED BY <1>2, <2>1, FineConcat
<1>3. ASSUME NEW a, NEW b, NEW c, Fine(<<a>>, k, p), Fine(<<b, c>>, k, p) PROVE Fine(<<a, b, c>>, k, p)
  <2>1. <<a, b, c>> = <<a>> \o <<b, c>>
    OBVIOUS
  <2> QED BY <1>3, <2>1, FineConcat
<1>4. ASSUME NEW a, NEW b, NEW c, NEW d, Fine(<<a, b>>, k, p), Fine(<<c, d>>, k, p)
      PROVE  Fine(<<a, b, c, d>>, k, p)
  <2>1. <<a, b, c, d>> = <<a, b>> \o <<c, d>>
    OBVIOUS
  <2> QED BY <1>4, <2>1, FineConcat
<1>5. ASSUME NEW a, NEW b, NEW c, NEW d, NEW e, Fine(<<a, b, c>>, k, p), Fine(<<d, e>>, k, p)
      PROVE  Fine(<<a, b, c, d, e>>, k, p)
  <2>1. <<a, b, c, d, e>> = <<a, b, c>> \o <<d, e>>
    OBVIOUS
  <2> QED BY <1>5, <2>1, FineConcat
<1> QED BY <1>1, <1>2, <1>3, <1>4, <1>5


LEMMA FineEach ==
    ASSUME NEW k, NEW p
    PROVE  /\ \A a, b : Fine(<<a>>, k, p) /\ Fine(<<b>>, k, p) => Fine(<<a, b>>, k, p)
           /\ \A a, b, c : Fine(<<a>>, k, p) /\ Fine(<<b>>, k, p) /\ Fine(<<c>>, k, p) =>
                             Fine(<<a, b, c>>, k, p)
           /\ \A a, b, c, d :
                 Fine(<<a>>, k, p) /\ Fine(<<b>>, k, p) /\ Fine(<<c>>, k, p) /\ Fine(<<d>>, k, p) =>
                   Fine(<<a, b, c, d>>, k, p)
           /\ \A a, b, c, d, e :
                 Fine(<<a>>, k, p) /\ Fine(<<b>>, k, p) /\ Fine(<<c>>, k, p) /\ Fine(<<d>>, k, p)
                 /\ Fine(<<e>>, k, p) => Fine(<<a, b, c, d, e>>, k, p)
<1>1. ASSUME NEW a, NEW b, NEW c, Fine(<<a>>, k, p), Fine(<<b>>, k, p), Fine(<<c>>, k, p)
      PROVE  Fine(<<a, b, c>>, k, p)
  <2>1. Fine(<<a, b>>, k, p)
    BY <1>1, FineTuple
  <2> QED BY <1>1, <2>1, FineTuple
<1>2. ASSUME NEW a, NEW b, NEW c, NEW d,
             Fine(<<a>>, k, p), Fine(<<b>>, k, p), Fine(<<c>>, k, p), Fine(<<d>>, k, p)
      PROVE  Fine(<<a, b, c, d>>, k, p)
  <2>1. Fine(<<a, b>>, k, p) /\ Fine(<<c, d>>, k, p)
    BY <1>2, FineTuple
  <2> QED BY <2>1, FineTuple
<1>3. ASSUME NEW a, NEW b, NEW c, NEW d, NEW e, Fine(<<a>>, k, p), Fine(<<b>>, k, p),
             Fine(<<c>>, k, p), Fine(<<d>>, k, p), Fine(<<e>>, k, p)
      PROVE  Fine(<<a, b, c, d, e>>, k, p)
  <2>1. Fine(<<a, b, c>>, k, p) /\ Fine(<<d, e>>, k, p)
    BY <1>1, <1>3, FineTuple
  <2> QED BY <2>1, FineTuple
<1> QED BY FineTuple, <1>1, <1>2, <1>3

LEMMA CleanUps ==
    /\ \A d : /\ Rm(d).act = "rm" /\ Rm(d).arg = {d}
              /\ Quietly(Rm(d)).act = "rm" /\ Quietly(Rm(d)).arg = {d}
              /\ Lost(Rm(d)).act = "rm" /\ Lost(Rm(d)).arg = {d}
              /\ RmFailed(d).act = "rmFailed" /\ RmFailed(d).arg = {d}
    /\ \A v : /\ UnsetEnv(v).act = "env" /\ UnsetEnv(v).arg = {v}
              /\ Quietly(UnsetEnv(v)).act = "env" /\ Quietly(UnsetEnv(v)).arg = {v}
    /\ \A fs : Restore(fs).act = "file" /\ Restore(fs).arg = fs
    /\ Back.act = "chdir" /\ Back.arg = {"cwd"}
BY DEF Rm, RmFailed, UnsetEnv, Restore, Back, Quietly, Lost, CleanUp

LEMMA InnerFacts ==
    ASSUME NEW k, NEW dirs, NEW safe
    PROVE  /\ Inner(k, dirs, safe).h = dirs /\ Inner(k, dirs, safe).builder = FALSE
           /\ Inner(k, dirs, safe).safe = safe /\ Inner(k, dirs, safe).cur = k.cur
           /\ Inner(k, dirs, safe).kept = k.kept
BY DEF Inner

\* Steps of a call that its callers do not forget, and that has no directory to
\* hand over.
Plain(k) == k.h = {} /\ k.safe = FALSE

LEMMA PlainStep ==
    ASSUME NEW k, NEW p, Plain(k)
    PROVE  /\ \A x : Fine(<<Try(x)>>, k, p) /\ Fine(<<Assign(x)>>, k, p) /\ Fine(<<Raise(x)>>, k, p)
           /\ \A d, x : d \notin {"target", "cwd"} => Fine(<<Run(d, x)>>, k, p)
           /\ "moved" \in p => \A x : Fine(<<Run("cwd", x)>>, k, p)
           /\ \A v : Fine(<<SetEnv(v), OnExit(UnsetEnv(v))>>, k, p)
           /\ \A d : /\ Fine(<<MkTemp(d), OnExit(Rm(d))>>, k, p)
                     /\ Fine(<<MkTemp(d), OnExit(Quietly(Rm(d)))>>, k, p)
           /\ \A d : Fine(<<OnExit(Rm(d))>>, k, p) /\ Fine(<<OnExit(Quietly(Rm(d)))>>, k, p)
                     /\ Fine(<<OnExit(Lost(Rm(d)))>>, k, p)
           /\ \A fs : Fine(<<OnExit(Restore(fs))>>, k, p)
<1>1. \A x : Fine(<<Try(x)>>, k, p) /\ Fine(<<Assign(x)>>, k, p) /\ Fine(<<Raise(x)>>, k, p)
  BY FineStep DEF Plain
<1>2. \A d, x : d \notin {"target", "cwd"} => Fine(<<Run(d, x)>>, k, p)
  BY FineRun DEF Plain
<1>3. "moved" \in p => \A x : Fine(<<Run("cwd", x)>>, k, p)
  BY FineRun DEF Plain
<1>4. \A v : Fine(<<SetEnv(v), OnExit(UnsetEnv(v))>>, k, p)
  BY CleanUps, FineVariable DEF Plain
<1>5. \A d : /\ Fine(<<MkTemp(d), OnExit(Rm(d))>>, k, p)
             /\ Fine(<<MkTemp(d), OnExit(Quietly(Rm(d)))>>, k, p)
  BY CleanUps, FineTemp DEF Plain
<1>6. \A u : u.act \in {"rm", "env", "file"} => Fine(<<OnExit(u)>>, k, p)
  BY FineStep DEF Plain, DeferSound
<1>7. \A d : Fine(<<OnExit(Rm(d))>>, k, p) /\ Fine(<<OnExit(Quietly(Rm(d)))>>, k, p)
             /\ Fine(<<OnExit(Lost(Rm(d)))>>, k, p)
  BY CleanUps, <1>6
<1>8. \A fs : Fine(<<OnExit(Restore(fs))>>, k, p)
  BY CleanUps, <1>6
<1> QED BY <1>1, <1>2, <1>3, <1>4, <1>5, <1>7, <1>8

\* A call whose failures are forgotten.
LEMMA SafeStep ==
    ASSUME NEW k, NEW p, NEW q, NEW c, c = Inner(k, {}, TRUE), q = p \cap {"moved"}
    PROVE  /\ \A x : x \notin Excuses => Fine(<<Try(x)>>, c, q)
           /\ "moved" \in p => \A x : x \notin Excuses => Fine(<<Run("cwd", x)>>, c, q)
<1>1. \A x : x \notin Excuses => Fine(<<Try(x)>>, c, q)
  BY FineStep
<1>2. "moved" \in p => \A x : x \notin Excuses => Fine(<<Run("cwd", x)>>, c, q)
  BY FineRun
<1> QED BY <1>1, <1>2

-----------------------------------------------------------------------------
(* DepTreeBuilders: the steps of every builder are fine.                    *)

LEMMA FinePip ==
    ASSUME NEW o, NEW k, NEW p, Plain(k), "moved" \in p
    PROVE  Fine(installPipDeps(o), k, p)
<1>0. \A x, y : x \notin Excuses => Fine(<<Fallback(<<Run("cwd", x)>>, <<Run("cwd", y)>>)>>, k, p)
  BY FineFallback, SafeStep, PlainStep
<1>1. Fine(SetPipVirtualEnvPath, k, p)
  <2>1. Fine(<<Fallback(<<Run("cwd", "venv")>>, <<Run("cwd", "virtualenv")>>)>>, k, p)
    BY <1>0 DEF Excuses, UnguardedSteps
  <2>2. Fine(<<Fallback(<<Run("cwd", "venv")>>, <<Run("cwd", "virtualenv")>>), Try("venv path")>>, k, p)
    BY <2>1, PlainStep, FineTuple
  <2> QED BY <2>2, PlainStep, FineTuple DEF SetPipVirtualEnvPath
<1>2. Fine(If(o.curation, <<Fallback(<<Try("upgrade pip")>>, <<>>), Try("cache folder")>>), k, p)
  <2>1. Fine(<<Try("upgrade pip")>>, Inner(k, {}, TRUE), p \cap {"moved"})
    BY SafeStep DEF Excuses, UnguardedSteps
  <2>2. Fine(<<Fallback(<<Try("upgrade pip")>>, <<>>)>>, k, p)
    BY <2>1, FineNone, FineFallback
  <2> QED BY <2>2, PlainStep, FineTuple, FineIf
<1>3. Fine(If(o.repo, <<Try("repository URL")>>), k, p)
  BY PlainStep, FineIf
<1>4. Fine(<<Choice(<<Run("cwd", "pip install -r")>>,
                    <<Fallback(<<Run("cwd", "pip install .")>>, <<Run("cwd", "pip install -r")>>)>>)>>, k, p)
  <2>1. Fine(<<Fallback(<<Run("cwd", "pip install .")>>, <<Run("cwd", "pip install -r")>>)>>, k, p)
    BY <1>0 DEF Excuses, UnguardedSteps
  <2> QED BY <2>1, PlainStep, FineChoice
<1> QED BY <1>1, <1>2, <1>3, <1>4, FineConcat DEF installPipDeps

LEMMA FinePipenv ==
    ASSUME NEW o, NEW k, NEW p, Plain(k), "moved" \in p
    PROVE  Fine(installPipenvDeps(o), k, p)
<1>1. Fine(runPipenvInstallFromRemoteRegistry(o), k, p)
  <2>1. CASE o.curation
    BY <2>1, PlainStep, FineEach DEF runPipenvInstallFromRemoteRegistry
  <2>2. CASE ~o.curation
    BY <2>2, PlainStep, FineEach DEF runPipenvInstallFromRemoteRegistry
  <2> QED BY <2>1, <2>2
<1>2. Fine(If(o.curation, protectPipenvCurationEnvironment), k, p)
  BY PlainStep, FineTuple, FineIf DEF protectPipenvCurationEnvironment
<1>3. Fine(<<SetEnv("WORKON_HOME"), OnExit(UnsetEnv("WORKON_HOME"))>>, k, p)
  BY PlainStep
<1>4. Fine(<<Try("pip.conf"), Try("Pipfile source"),
             Choice(runPipenvInstallFromRemoteRegistry(o), <<Raise("failed")>>)>>, k, p)
  <2>1. Fine(<<Choice(runPipenvInstallFromRemoteRegistry(o), <<Raise("failed")>>)>>, k, p)
    BY <1>1, PlainStep, FineChoice
  <2> QED BY <2>1, PlainStep, FineEach
<1>5. Fine(<<Run("cwd", "pipenv install")>>, k, p)
  BY PlainStep
<1>6. CASE o.repo
  BY <1>1, <1>2, <1>3, <1>6, FineConcat DEF installPipenvDeps
<1>7. CASE ~o.repo /\ o.curation
  BY <1>2, <1>3, <1>4, <1>7, FineConcat DEF installPipenvDeps
<1>8. CASE ~o.repo /\ ~o.curation
  BY <1>2, <1>3, <1>5, <1>8, FineConcat DEF installPipenvDeps
<1> QED BY <1>6, <1>7, <1>8

LEMMA FinePoetry ==
    ASSUME NEW o, NEW k, NEW p, Plain(k), "moved" \in p
    PROVE  Fine(installPoetryDeps(o), k, p)
<1> DEFINE update == Fallback(<<Run("cwd", "poetry lock --no-update")>>, <<Run("cwd", "poetry lock")>>)
           lock == Choice(<<Run("cwd", "poetry lock")>>, <<update>>)
           ends == IF o.curation THEN <<Choice(<<lock>>, <<>>)>> ELSE <<Run("cwd", "poetry install")>>
<1>1. Fine(<<update>>, k, p)
  <2>1. Fine(<<Run("cwd", "poetry lock --no-update")>>, Inner(k, {}, TRUE), p \cap {"moved"})
    BY SafeStep DEF Excuses, UnguardedSteps
  <2> QED BY <2>1, PlainStep, FineFallback
<1>2. Fine(<<lock>>, k, p)
  BY <1>1, PlainStep, FineChoice
<1>3. Fine(ends, k, p)
  <2>1. CASE o.curation
    BY <1>2, <2>1, FineChoice, FineNone
  <2>2. CASE ~o.curation
    BY <2>2, PlainStep
  <2> QED BY <2>1, <2>2
<1>4. Fine(If(o.curation, <<Try("poetry version"), Try("poetry.lock exists")>>), k, p)
  BY PlainStep, FineTuple, FineIf
<1>5. Fine(If(o.repo, <<Try("repository URL")>>), k, p)
  BY PlainStep, FineIf
<1>6. Fine(If(o.repo /\ o.curation, <<Try("read pyproject"), Run("cwd", "pyproject")>>), k, p)
  BY PlainStep, FineTuple, FineIf
<1>7. Fine(If(o.repo, <<Choice(<<Try("poetry config")>>, <<>>)>>), k, p)
  <2>1. Fine(<<Choice(<<Try("poetry config")>>, <<>>)>>, k, p)
    BY PlainStep, FineChoice, FineNone
  <2> QED BY <2>1, FineIf
<1>8. installPoetryDeps(o) =
        If(o.curation, <<Try("poetry version"), Try("poetry.lock exists")>>)
        \o If(o.repo, <<Try("repository URL")>>)
        \o If(o.repo /\ o.curation, <<Try("read pyproject"), Run("cwd", "pyproject")>>)
        \o If(o.repo, <<Choice(<<Try("poetry config")>>, <<>>)>>)
        \o ends
  BY DEF installPoetryDeps
<1> HIDE DEF ends
<1> QED BY <1>3, <1>4, <1>5, <1>6, <1>7, <1>8, FineConcat

\* The first of several steps that are written out, and what follows them.
LEMMA FineBefore ==
    ASSUME NEW s, NEW n, NEW r, NEW w, NEW k, NEW p, IsRow(s), s # <<>>, n = Head(s), r = Tail(s),
           n.op \notin {"choice", "call"}, Sound(n, r, k, p), IsRow(w), Fine(r \o w, k, After(n, p))
    PROVE  Fine(s \o w, k, p)
<1>1. PICK t : t = s \o w
  OBVIOUS
<1>2. IsRow(t) /\ t # <<>> /\ Head(t) = n /\ Tail(t) = r \o w /\ IsRow(r)
  BY <1>1, ConcatRest, ConcatFacts, RowFacts
<1>3. Sound(n, r \o w, k, p)
  BY <1>2, SoundConcat
<1>4. Fine(t, k, p)
  BY <1>2, <1>3, FineBy
<1> QED BY <1>1, <1>4

LEMMA FinePython ==
    ASSUME NEW tool \in {"pip", "pipenv", "poetry"}, NEW o, NEW k, Plain(k), k.builder = TRUE
    PROVE  Fine(getDependencies(tool, o), k, {})
<1> DEFINE p == {"moved"}
           install == If(~o.skip \/ (tool = "pipenv" /\ o.curation), runPythonInstall(tool, o))
           ends == <<Try("dependencies path"), Assign("dependencies")>>
           urls == If(o.curation, <<Assign("download URLs")>>)
           w == install \o ends \o urls
<1>1. Fine(install, k, p)
  <2>1. CASE tool = "pip"
    BY <2>1, FinePip, FineIf DEF runPythonInstall
  <2>2. CASE tool = "pipenv"
    BY <2>2, FinePipenv, FineIf DEF runPythonInstall
  <2>3. CASE tool = "poetry"
    BY <2>3, FinePoetry, FineIf DEF runPythonInstall
  <2> QED BY <2>1, <2>2, <2>3
<1>2. Fine(ends, k, p)
  BY PlainStep, FineTuple
<1>3. Fine(urls, k, p)
  BY PlainStep, FineIf
<1>4. getDependencies(tool, o) =
        <<Try("working directory"), MkTemp("work"), ChDir("work"), OnExit(Rm("work")), OnExit(Back),
          Try("copy")>> \o install \o ends \o urls
  BY DEF getDependencies
<1> HIDE DEF install, ends, urls
<1>5. Fine(w, k, p) /\ IsRow(w)
  <2>1. Fine(w, k, p)
    BY <1>1, <1>2, <1>3, FineConcat
  <2> QED BY <2>1, FineRow
<1> HIDE DEF w
<1>6. PICK a, b, c, d, e, f :
        /\ a = Try("working directory") /\ b = MkTemp("work") /\ c = ChDir("work")
        /\ d = OnExit(Rm("work")) /\ e = OnExit(Back) /\ f = Try("copy")
  OBVIOUS
<1>7. /\ a.op = "try" /\ b.op = "mktemp" /\ b.arg = "work" /\ c.op = "chdir" /\ c.arg = "work"
      /\ d.op = "defer" /\ Defers(d, "rm", "work") /\ e.op = "defer" /\ Defers(e, "chdir", "cwd")
  BY <1>6, CleanUps DEF Try, MkTemp, ChDir, OnExit, Step, Defers
<1>8. PICK s6, s5, s4, s3 :
        s6 = <<a, b, c, d, e, f>> /\ s5 = <<b, c, d, e, f>> /\ s4 = <<c, d, e, f>> /\ s3 = <<d, e, f>>
  OBVIOUS
<1>9. /\ IsRow(s6) /\ s6 # <<>> /\ Head(s6) = a /\ Tail(s6) = s5
      /\ IsRow(s5) /\ s5 # <<>> /\ Head(s5) = b /\ Tail(s5) = s4
      /\ IsRow(s4) /\ s4 # <<>> /\ Head(s4) = c /\ Tail(s4) = s3 /\ IsRow(s3)
  <2>1. /\ Head(s6) = a /\ Tail(s6) = s5 /\ Head(s5) = b /\ Tail(s5) = s4
        /\ Head(s4) = c /\ Tail(s4) = s3
    BY <1>8
  <2>2. s6 # <<>> /\ s5 # <<>> /\ s4 # <<>>
    BY <1>8
  <2>3. /\ s6 \in Seq({a, b, c, d, e, f}) /\ s5 \in Seq({a, b, c, d, e, f})
        /\ s4 \in Seq({a, b, c, d, e, f}) /\ s3 \in Seq({a, b, c, d, e, f})
    BY <1>8
  <2> QED BY <2>1, <2>2, <2>3 DEF IsRow
<1>10. Fine(s3 \o w, k, p)
  <2>1. Fine(<<d>>, k, p) /\ Fine(<<f>>, k, p)
    BY <1>6, PlainStep
  <2>2. Fine(<<e>>, k, p)
    <3>1. DeferSound(Back, k)
      BY CleanUps DEF DeferSound, Plain
    <3> QED BY <1>6, <3>1, FineStep
  <2>3. Fine(s3, k, p)
    BY <1>8, <2>1, <2>2, FineEach
  <2> QED BY <1>5, <2>3, FineConcat
<1>11. Fine(s4 \o w, k, {})
  <2>1. Soon("chdir", "cwd", {}, s3)
    <3>1. Len(s3) = 3 /\ s3[1] = d /\ s3[2] = e
      BY <1>8
    <3>2. Passes(d, {})
      BY <1>7 DEF Passes
    <3> QED BY <1>7, <3>1, <3>2 DEF Soon
  <2>2. Sound(c, s3, k, {})
    BY <1>7, <2>1 DEF Sound, Plain
  <2>3. After(c, {}) = p
    BY <1>7 DEF After
  <2> QED BY <1>5, <1>7, <1>9, <1>10, <2>2, <2>3, FineBefore
<1>12. Fine(s5 \o w, k, {})
  <2>1. Soon("rm", "work", UnguardedSteps, s4)
    <3>1. Len(s4) = 4 /\ s4[1] = c /\ s4[2] = d
      BY <1>8
    <3>2. Passes(c, UnguardedSteps)
      BY <1>7 DEF Passes, UnguardedSteps
    <3> QED BY <1>7, <3>1, <3>2 DEF Soon
  <2>2. Sound(b, s4, k, {})
    BY <1>7, <2>1 DEF Sound, Plain
  <2>3. After(b, {}) = {}
    BY <1>7 DEF After
  <2> QED BY <1>5, <1>7, <1>9, <1>11, <2>2, <2>3, FineBefore
<1>13. Fine(s6 \o w, k, {})
  <2>1. Sound(a, s5, k, {}) /\ After(a, {}) = {}
    BY <1>7 DEF Sound, After, Plain
  <2> QED BY <1>5, <1>7, <1>9, <1>12, <2>1, FineBefore
<1>14. s6 \o w = s6 \o install \o ends \o urls
  BY DEF w
<1>15. getDependencies(tool, o) = s6 \o install \o ends \o urls
  BY <1>4, <1>6, <1>8
<1> QED BY <1>13, <1>14, <1>15


LEMMA PlainInner ==
    ASSUME NEW k, Plain(k)
    PROVE  Plain(Inner(k, {}, k.safe))
BY DEF Inner, Plain

\* In a call that makes a directory and hands it over.
LEMMA HandedStep ==
    ASSUME NEW k, NEW p, NEW d, NEW c, Plain(k), c = Inner(k, {d}, k.safe)
    PROVE  /\ Fine(<<MkTemp(d), OnExit(RmFailed(d))>>, c, p)
           /\ \A x : Fine(<<Try(x)>>, c, p)
           /\ \A dir, x : dir \notin {"target", "cwd"} => Fine(<<Run(dir, x)>>, c, p)
<1>1. c.h = {d} /\ c.safe = FALSE
  BY DEF Inner, Plain
<1>2. Fine(<<MkTemp(d), OnExit(RmFailed(d))>>, c, p)
  BY <1>1, FineHanded
<1>3. \A x : Fine(<<Try(x)>>, c, p)
  BY <1>1, FineStep
<1>4. \A dir, x : dir \notin {"target", "cwd"} => Fine(<<Run(dir, x)>>, c, p)
  BY <1>1, FineRun
<1> QED BY <1>2, <1>3, <1>4

\* The function that makes the directory, and the steps that begin with its
\* removal.
LEMMA FineHandover ==
    ASSUME NEW body, NEW r, NEW d, NEW k, NEW p, Plain(k),
           Fine(body, Inner(k, {d}, k.safe), p \cap {"moved"}), Fine(r, k, p),
           r # <<>>, Head(r) = OnExit(Rm(d))
    PROVE  Fine(<<Invoke(body)>> \o r, k, p)
<1>1. IsRow(r)
  BY FineRow
<1>2. Defers(Head(r), "rm", d)
  BY CleanUps DEF Defers, OnExit, Step
<1>3. Soon("rm", d, UnguardedSteps, r)
  BY <1>1, <1>2, SoonFirst
<1>4. PICK dirs : dirs = {d}
  OBVIOUS
<1>5. \A x \in dirs : Soon("rm", x, UnguardedSteps, r)
  BY <1>3, <1>4
<1>6. Fine(body, Inner(k, dirs, k.safe), p \cap {"moved"})
  BY <1>4
<1> QED BY <1>5, <1>6, FineInvoke

LEMMA FineCopy ==
    ASSUME NEW steps, NEW k, NEW p, Plain(k), Fine(steps, Inner(k, {}, k.safe), p \cap {"moved"})
    PROVE  Fine(InTempCopy(steps), k, p)
<1>1. PICK c, q : c = Inner(k, {}, k.safe) /\ q = p \cap {"moved"}
  OBVIOUS
<1>2. Plain(c)
  BY <1>1, PlainInner
<1>3. Fine(<<MkTemp("work"), OnExit(Quietly(Rm("work"))), Try("copy")>>, c, q)
  BY <1>2, PlainStep, FineTuple
<1>4. Fine(<<MkTemp("work"), OnExit(Quietly(Rm("work"))), Try("copy")>> \o steps, c, q)
  BY <1>1, <1>3, FineConcat
<1> QED BY <1>1, <1>4, FineCall DEF InTempCopy

LEMMA FineUvLock ==
    ASSUME NEW o, NEW k, NEW p, Plain(k)
    PROVE  Fine(generateUvLock(o), k, p)
<1>1. PICK c, q : c = Inner(k, {}, k.safe) /\ q = p \cap {"moved"}
  OBVIOUS
<1>2. Plain(c)
  BY <1>1, PlainInner
<1>3. Fine(If(o.repo, <<MkTemp("config"), OnExit(Quietly(Rm("config")))>>), c, q)
  BY <1>2, PlainStep, FineIf
<1>4. Fine(<<Try("cache folder")>>, c, q) /\ Fine(<<Run("work", "uv lock")>>, c, q)
  BY <1>2, PlainStep
<1>5. Fine(<<Try("cache folder")>> \o If(o.repo, <<MkTemp("config"), OnExit(Quietly(Rm("config")))>>)
           \o <<Run("work", "uv lock")>>, c, q)
  BY <1>3, <1>4, FineConcat
<1> QED BY <1>1, <1>5, FineCall DEF generateUvLock

LEMMA FineUv ==
    ASSUME NEW o, NEW k, NEW p, Plain(k)
    PROVE  Fine(Uv(o), k, p)
<1>1. PICK c, q : c = Inner(k, {}, k.safe) /\ q = p \cap {"moved"}
  OBVIOUS
<1>2. Plain(c)
  BY <1>1, PlainInner
<1>3. Fine(generateUvLockInTempDir(o), k, p)
  <2> DEFINE check == <<Try("verify lock"), Try("read lock")>>
             make == generateUvLock(o) \o If(o.repo, <<Try("verify lock")>>) \o <<Try("read lock")>>
  <2>1. Fine(check, c, q)
    BY <1>2, PlainStep, FineTuple
  <2>2. Fine(make, c, q)
    <3>1. Fine(If(o.repo, <<Try("verify lock")>>), c, q) /\ Fine(<<Try("read lock")>>, c, q)
      BY <1>2, PlainStep, FineIf
    <3>2. Fine(generateUvLock(o), c, q)
      BY <1>2, FineUvLock
    <3> QED BY <3>1, <3>2, FineConcat
  <2>3. Fine(<<Choice(check, make)>>, c, q)
    BY <2>1, <2>2, FineChoice
  <2> HIDE DEF check, make
  <2>4. Fine(<<Try("neutralize indexes"), Try("lock state"), Choice(check, make)>>, c, q)
    BY <1>2, <2>3, PlainStep, FineEach
  <2>5. Fine(InTempCopy(<<Try("neutralize indexes"), Try("lock state"), Choice(check, make)>>), k, p)
    BY <1>1, <2>4, FineCopy
  <2> QED BY <2>5 DEF generateUvLockInTempDir, check, make
<1>4. Fine(generateUvScriptLockForCuration(o), k, p)
  <2>1. Fine(generateUvLock(o), c, q) /\ Fine(<<Try("read lock")>>, c, q)
    BY <1>2, PlainStep, FineUvLock
  <2>2. Fine(generateUvLock(o) \o <<Try("read lock")>>, c, q)
    BY <2>1, FineConcat
  <2> QED BY <1>1, <2>2, FineCopy DEF generateUvScriptLockForCuration
<1> DEFINE script == <<Try("script")>> \o If(o.repo, <<Try("index URL")>>)
                     \o generateUvScriptLockForCuration(o)
           project == If(o.repo, <<Try("index URL")>>) \o <<Try("working directory")>>
                      \o generateUvLockInTempDir(o)
<1>5. Fine(script, k, p) /\ Fine(project, k, p)
  <2>1. Fine(If(o.repo, <<Try("index URL")>>), k, p)
    BY PlainStep, FineIf
  <2>2. Fine(<<Try("script")>>, k, p) /\ Fine(<<Try("working directory")>>, k, p)
    BY PlainStep
  <2> QED BY <1>3, <1>4, <2>1, <2>2, FineConcat
<1>6. Fine(<<Choice(script, project), Try("packages of the lock")>>, k, p)
  BY <1>5, FineChoice, PlainStep, FineTuple
<1>7. CASE o.curation
  <2>1. Uv(o) = <<Try("uv version")>> \o <<Choice(script, project), Try("packages of the lock")>>
    BY <1>7 DEF Uv
  <2>2. Fine(<<Try("uv version")>>, k, p)
    BY PlainStep
  <2> HIDE DEF script, project
  <2> QED BY <1>6, <2>1, <2>2, FineConcat
<1>8. CASE ~o.curation
  BY <1>8, PlainStep DEF Uv
<1> QED BY <1>7, <1>8

LEMMA FineCargo ==
    ASSUME NEW o, NEW k, NEW p, Plain(k)
    PROVE  Fine(Cargo(o), k, p)
<1>1. Fine(protectCargoCurationEnvironment, k, p)
  <2>1. PICK c, q : c = Inner(k, {"cargoHome"}, k.safe) /\ q = p \cap {"moved"}
    OBVIOUS
  <2> DEFINE body == <<MkTemp("cargoHome"), OnExit(RmFailed("cargoHome")), Try("config.toml"),
                       Try("credentials.toml")>>
  <2>2. Fine(body, c, q)
    <3>1. Fine(<<Try("config.toml"), Try("credentials.toml")>>, c, q)
      BY <2>1, HandedStep, FineTuple
    <3> QED BY <2>1, <3>1, HandedStep, FineTuple
  <2> HIDE DEF body
  <2>3. PICK a, b, d, r, t : /\ a = SetEnv("CARGO_HOME") /\ b = OnExit(Quietly(Rm("cargoHome")))
                             /\ d = OnExit(Quietly(UnsetEnv("CARGO_HOME")))
                             /\ r = <<a, b, d>> /\ t = <<b, d>>
    OBVIOUS
  <2>4. /\ a.op = "put" /\ a.arg = "CARGO_HOME" /\ b.op = "defer" /\ Defers(b, "rm", "cargoHome")
        /\ Defers(d, "env", "CARGO_HOME")
    BY <2>3, CleanUps DEF SetEnv, OnExit, Step, Defers
  <2>5. /\ IsRow(r) /\ r # <<>> /\ Head(r) = a /\ Tail(r) = t
        /\ Len(r) = 3 /\ r[1] = a /\ r[2] = b /\ Len(t) = 2 /\ t[1] = b /\ t[2] = d
    <3>1. r \in Seq({a, b, d}) /\ r # <<>> /\ Head(r) = a /\ Tail(r) = t
      BY <2>3
    <3>2. Len(r) = 3 /\ r[1] = a /\ r[2] = b /\ Len(t) = 2 /\ t[1] = b /\ t[2] = d
      BY <2>3
    <3> QED BY <3>1, <3>2 DEF IsRow
  <2>6. Fine(t, k, p)
    <3>1. DeferSound(Quietly(UnsetEnv("CARGO_HOME")), k)
      BY CleanUps DEF DeferSound, Plain
    <3> QED BY <2>3, <3>1, FineStep, PlainStep, FineTuple
  <2>7. Fine(r, k, p)
    <3>1. Passes(b, {})
      BY <2>4 DEF Passes
    <3>2. Soon("env", "CARGO_HOME", {}, t)
      BY <2>4, <2>5, <3>1 DEF Soon
    <3>3. Sound(a, t, k, p) /\ After(a, p) = p
      BY <2>4, <3>2 DEF Sound, After, Plain
    <3> QED BY <2>4, <2>5, <2>6, <3>3, FineBy
  <2>8. Soon("rm", "cargoHome", UnguardedSteps, r)
    <3>1. Passes(a, UnguardedSteps)
      BY <2>4 DEF Passes
    <3> QED BY <2>4, <2>5, <3>1 DEF Soon
  <2>9. Fine(<<Invoke(body)>> \o r, k, p)
    <3>1. PICK dirs : dirs = {"cargoHome"}
      OBVIOUS
    <3>2. Fine(body, Inner(k, dirs, k.safe), p \cap {"moved"})
      BY <2>1, <2>2, <3>1
    <3>3. \A x \in dirs : Soon("rm", x, UnguardedSteps, r)
      BY <2>8, <3>1
    <3> QED BY <2>7, <3>2, <3>3, FineInvoke
  <2>10. protectCargoCurationEnvironment = <<Invoke(body), a, b, d>>
    BY <2>3 DEF protectCargoCurationEnvironment, body
  <2>11. <<Invoke(body), a, b, d>> = <<Invoke(body)>> \o <<a, b, d>>
    OBVIOUS
  <2> QED BY <2>3, <2>9, <2>10, <2>11
<1>2. Fine(If(o.repo, protectCargoCurationEnvironment), k, p)
  BY <1>1, FineIf
<1>3. Fine(<<Try("working directory"), Try("not audited before"), Try("cargo")>>, k, p)
  BY PlainStep, FineEach
<1> DEFINE lock == Choice(<<Run("work", "cargo generate-lockfile")>>, <<>>)
           temp == <<MkTemp("work"), OnExit(Quietly(Rm("work"))), Try("copy")>>
           read == <<lock, Try("read lock"), Try("packages of the lock"), Try("tree")>>
<1>4. Fine(temp, k, p) /\ Fine(read, k, p)
  <2>1. Fine(<<lock>>, k, p)
    BY PlainStep, FineChoice, FineNone
  <2> HIDE DEF lock
  <2>2. Fine(temp, k, p)
    BY PlainStep, FineTuple
  <2> QED BY <2>1, <2>2, PlainStep, FineEach
<1>5. CASE o.curation
  <2>1. PICK a, b, c, d, e, f, g :
          /\ a = MkTemp("work") /\ b = OnExit(Quietly(Rm("work"))) /\ c = Try("copy") /\ d = lock
          /\ e = Try("read lock") /\ f = Try("packages of the lock") /\ g = Try("tree")
    OBVIOUS
  <2>2. Cargo(o) = <<Try("working directory"), Try("not audited before"), Try("cargo")>>
                   \o If(o.repo, protectCargoCurationEnvironment)
                   \o <<a, b, c, d, e, f, g>>
    BY <1>5, <2>1 DEF Cargo
  <2>3. temp = <<a, b, c>> /\ read = <<d, e, f, g>>
    BY <2>1
  <2> HIDE DEF lock, temp, read
  <2>4. <<a, b, c, d, e, f, g>> = <<a, b, c>> \o <<d, e, f, g>>
    OBVIOUS
  <2>5. Fine(<<a, b, c, d, e, f, g>>, k, p)
    BY <1>4, <2>3, <2>4, FineConcat
  <2> QED BY <1>2, <1>3, <2>2, <2>5, FineConcat
<1>6. CASE ~o.curation
  BY <1>6, PlainStep DEF Cargo
<1> QED BY <1>5, <1>6


\* The steps of yarn's install, which a curation audit runs in a copy and may
\* forget.
YarnStep(k, dir) == k.h = {} /\ k.safe \in BOOLEAN /\ (dir = "lock" \/ (dir = "target" /\ ~k.cur))

LEMMA YarnSteps ==
    ASSUME NEW k, NEW p, NEW dir, YarnStep(k, dir)
    PROVE  /\ \A x : x \notin Excuses => Fine(<<Try(x)>>, k, p)
           /\ Fine(<<Run(dir, "yarn install")>>, k, p)
           /\ \A x : x \in p \cap UserFiles /\ x \notin Excuses => Fine(<<Run(dir, x)>>, k, p)
           /\ \A v : Fine(<<SetEnv(v), OnExit(UnsetEnv(v))>>, k, p)
           /\ \A fs : DeferSound(Restore(fs), k)
<1>1. \A x : x \notin Excuses => Fine(<<Try(x)>>, k, p)
  BY FineStep
<1>2. Fine(<<Run(dir, "yarn install")>>, k, p)
  BY FineRun DEF YarnStep, InPlace, Excuses, UnguardedSteps
<1>3. \A x : x \in p \cap UserFiles /\ x \notin Excuses => Fine(<<Run(dir, x)>>, k, p)
  BY FineRun DEF YarnStep
<1>4. \A v : Fine(<<SetEnv(v), OnExit(UnsetEnv(v))>>, k, p)
  BY CleanUps, FineVariable DEF YarnStep
<1>5. \A fs : DeferSound(Restore(fs), k)
  BY CleanUps DEF DeferSound, YarnStep
<1> QED BY <1>1, <1>2, <1>3, <1>4, <1>5

\* Files that a call restores, and the steps that may change them.
LEMMA FineRestored ==
    ASSUME NEW fs \in SUBSET UserFiles, NEW r, NEW k, NEW p, DeferSound(Restore(fs), k), Fine(r, k, p \cup fs)
    PROVE  Fine(<<OnExit(Restore(fs))>> \o r, k, p)
<1>1. PICK n : n = OnExit(Restore(fs))
  OBVIOUS
<1>2. n.op = "defer" /\ n.arg = Restore(fs) /\ n.arg.act = "file" /\ n.arg.arg = fs
  BY <1>1, CleanUps DEF OnExit, Step
<1>3. Sound(n, r, k, p) /\ After(n, p) = p \cup fs
  BY <1>2 DEF Sound, After
<1>4. Fine(<<n>> \o r, k, p)
  BY <1>2, <1>3, FineCons
<1> QED BY <1>1, <1>4

LEMMA YarnInner ==
    ASSUME NEW k, NEW dir, YarnStep(k, dir)
    PROVE  YarnStep(Inner(k, {}, k.safe), dir)
BY DEF YarnStep, Inner

LEMMA FineYarnInstall ==
    ASSUME NEW dir, NEW k, NEW p, YarnStep(k, dir)
    PROVE  Fine(runYarnInstallAccordingToVersion(dir), k, p)
<1> DEFINE guarded == <<OnExit(Restore({"node_modules"})), Run(dir, "node_modules")>>
           old == <<Try("node_modules exists"), Invoke(guarded)>>
           byVersion == <<Try("yarn version"), Choice(<<Run(dir, "yarn install")>>, old)>>
<1>1. PICK c, q : c = Inner(k, {}, k.safe) /\ q = p \cap {"moved"}
  OBVIOUS
<1>2. YarnStep(c, dir)
  BY <1>1, YarnInner
<1>3. Fine(guarded, c, q)
  <2>1. Fine(<<Run(dir, "node_modules")>>, c, q \cup {"node_modules"})
    BY <1>2, YarnSteps DEF UserFiles, Excuses, UnguardedSteps
  <2>2. Fine(<<OnExit(Restore({"node_modules"}))>> \o <<Run(dir, "node_modules")>>, c, q)
    BY <1>2, <2>1, YarnSteps, FineRestored DEF UserFiles
  <2> QED BY <2>2, PairRow
<1> HIDE DEF guarded
<1>4. Fine(<<Invoke(guarded)>>, k, p)
  BY <1>1, <1>3, FineCall
<1>5. Fine(old, k, p)
  <2>1. Fine(<<Try("node_modules exists")>>, k, p)
    BY YarnSteps DEF Excuses, UnguardedSteps
  <2> QED BY <1>4, <2>1, FineTuple
<1> HIDE DEF old
<1>6. Fine(byVersion, k, p)
  <2>1. Fine(<<Try("yarn version")>>, k, p)
    BY YarnSteps DEF Excuses, UnguardedSteps
  <2>2. Fine(<<Choice(<<Run(dir, "yarn install")>>, old)>>, k, p)
    BY <1>5, YarnSteps, FineChoice
  <2> QED BY <2>1, <2>2, FineTuple
<1>7. runYarnInstallAccordingToVersion(dir) = <<Choice(<<Run(dir, "yarn install")>>, byVersion)>>
  BY DEF runYarnInstallAccordingToVersion, old, guarded
<1> HIDE DEF byVersion
<1> QED BY <1>6, <1>7, YarnSteps, FineChoice

LEMMA FineYarnConfigure ==
    ASSUME NEW dir, NEW o, NEW k, NEW p, YarnStep(k, dir)
    PROVE  Fine(configureYarnResolutionServerAndRunInstall(dir, o), k, p)
<1>1. PICK c, q, z, w : /\ c = Inner(k, {}, k.safe) /\ q = p \cap {"moved"} /\ z = q \cup {".yarnrc.yml"}
                        /\ w = runYarnInstallAccordingToVersion(dir)
  OBVIOUS
<1>2. YarnStep(c, dir)
  BY <1>1, YarnInner
<1>3. PICK a, b, d, e, f, g :
        /\ a = Try("backup .yarnrc.yml") /\ b = OnExit(Restore({".yarnrc.yml"})) /\ d = Try("credentials")
        /\ e = SetEnv("YARN") /\ f = OnExit(UnsetEnv("YARN")) /\ g = Run(dir, ".yarnrc.yml")
  OBVIOUS
<1>4. PICK s6, s5, s4 : s6 = <<a, b, d, e, f, g>> /\ s5 = <<b, d, e, f, g>> /\ s4 = <<d, e, f, g>>
  OBVIOUS
<1>5. /\ IsRow(s6) /\ s6 # <<>> /\ Head(s6) = a /\ Tail(s6) = s5
      /\ IsRow(s5) /\ s5 # <<>> /\ Head(s5) = b /\ Tail(s5) = s4
  <2>1. Head(s6) = a /\ Tail(s6) = s5 /\ Head(s5) = b /\ Tail(s5) = s4 /\ s6 # <<>> /\ s5 # <<>>
    BY <1>4
  <2>2. s6 \in Seq({a, b, d, e, f, g}) /\ s5 \in Seq({a, b, d, e, f, g})
    BY <1>4
  <2> QED BY <2>1, <2>2 DEF IsRow
<1>6. Fine(w, c, z) /\ IsRow(w)
  <2>1. Fine(w, c, z)
    BY <1>1, <1>2, FineYarnInstall
  <2> QED BY <2>1, FineRow
<1>7. Fine(s4 \o w, c, z)
  <2>1. Fine(<<d>>, c, z) /\ Fine(<<g>>, c, z)
    BY <1>1, <1>2, <1>3, YarnSteps DEF UserFiles, Excuses, UnguardedSteps
  <2>2. Fine(<<e, f>>, c, z)
    BY <1>2, <1>3, YarnSteps
  <2>3. Fine(<<d, e, f>>, c, z)
    BY <2>1, <2>2, FineTuple
  <2>4. s4 = <<d, e, f>> \o <<g>>
    BY <1>4
  <2>5. Fine(s4, c, z)
    BY <2>1, <2>3, <2>4, FineConcat
  <2> QED BY <1>6, <2>5, FineConcat
<1>8. Fine(s5 \o w, c, q)
  <2>1. b.op = "defer" /\ b.arg = Restore({".yarnrc.yml"}) /\ b.arg.act = "file" /\ b.arg.arg = {".yarnrc.yml"}
    BY <1>3, CleanUps DEF OnExit, Step
  <2>2. DeferSound(b.arg, c)
    BY <1>2, <2>1, YarnSteps
  <2>3. Sound(b, s4, c, q) /\ After(b, q) = z
    BY <1>1, <2>1, <2>2 DEF Sound, After, UserFiles
  <2> QED BY <1>5, <1>6, <1>7, <2>1, <2>3, FineBefore
<1>9. Fine(s6 \o w, c, q)
  <2>1. a.op = "try" /\ a.arg = "backup .yarnrc.yml"
    BY <1>3 DEF Try, Step
  <2>2. Sound(a, s5, c, q) /\ After(a, q) = q
    BY <2>1 DEF Sound, After, Excuses, UnguardedSteps
  <2> QED BY <1>5, <1>6, <1>8, <2>1, <2>2, FineBefore
<1>10. CASE o.repo
  <2>1. PICK body : body = s6 \o w
    OBVIOUS
  <2>2. configureYarnResolutionServerAndRunInstall(dir, o) = <<Try("yarn version"), Choice(w, <<Invoke(body)>>)>>
    BY <1>1, <1>3, <1>4, <1>10, <2>1 DEF configureYarnResolutionServerAndRunInstall
  <2>3. Fine(<<Invoke(body)>>, k, p)
    BY <1>1, <1>9, <2>1, FineCall
  <2>4. Fine(w, k, p)
    BY <1>1, FineYarnInstall
  <2>5. Fine(<<Choice(w, <<Invoke(body)>>)>>, k, p)
    BY <2>3, <2>4, FineChoice
  <2>6. Fine(<<Try("yarn version")>>, k, p)
    BY YarnSteps DEF Excuses, UnguardedSteps
  <2> QED BY <2>2, <2>5, <2>6, FineTuple
<1>11. CASE ~o.repo
  BY <1>11, FineYarnInstall DEF configureYarnResolutionServerAndRunInstall
<1> QED BY <1>10, <1>11

LEMMA FineNotInstalled ==
    ASSUME NEW o, NEW k, NEW p, \A x : Fine(<<Try(x)>>, k, p)
    PROVE  Fine(NotInstalled(o), k, p) /\ Fine(isInstallRequired(o), k, p)
<1>1. Fine(<<Raise("notInstalled")>>, k, p)
  BY FineStep
<1>2. Fine(NotInstalled(o), k, p)
  BY <1>1, FineNone, FineChoice, FineIf DEF NotInstalled
<1> QED BY <1>2, FineConcat DEF isInstallRequired

LEMMA FineYarn ==
    ASSUME NEW o, NEW k, NEW p, Plain(k), k.cur = o.curation, o.curation \in BOOLEAN
    PROVE  Fine(Yarn(o), k, p)
<1> DEFINE ends == <<OnExit(Rm("lock")), Try("yarn info"), Try("member"), Try("tree")>>
           curated == resolveCurationLockfileDir(o) \o ends
           audited == isInstallRequired(o)
                      \o <<Choice(configureYarnResolutionServerAndRunInstall("target", o), <<>>)>>
                      \o <<Try("yarn info"), Try("tree")>>
           last == IF o.curation THEN curated ELSE audited
<1>1. Fine(curated, k, p)
  <2>1. PICK c, q : c = Inner(k, {"lock"}, k.safe) /\ q = p \cap {"moved"}
    OBVIOUS
  <2> DEFINE install == Fallback(configureYarnResolutionServerAndRunInstall("lock", o),
                                 <<Try("handle the install error")>>)
             copy == <<MkTemp("lock"), OnExit(RmFailed("lock")), Try("copy"), install>>
             choose == <<Choice(<<>>, copy)>>
             body == isInstallRequired(o) \o choose
  <2>2. Fine(<<install>>, c, q)
    <3>1. YarnStep(Inner(c, {}, TRUE), "lock")
      BY DEF YarnStep, Inner
    <3>2. Fine(configureYarnResolutionServerAndRunInstall("lock", o), Inner(c, {}, TRUE), q \cap {"moved"})
      BY <3>1, FineYarnConfigure
    <3>3. Fine(<<Try("handle the install error")>>, c, q)
      BY <2>1, HandedStep
    <3> QED BY <3>2, <3>3, FineFallback
  <2> HIDE DEF install
  <2>3. Fine(copy, c, q)
    <3>1. Fine(<<Try("copy"), install>>, c, q)
      BY <2>1, <2>2, HandedStep, FineTuple
    <3> QED BY <2>1, <3>1, HandedStep, FineTuple
  <2> HIDE DEF copy
  <2>4. Fine(body, c, q)
    <3>1. Fine(choose, c, q)
      BY <2>3, FineChoice, FineNone
    <3>2. Fine(isInstallRequired(o), c, q)
      BY <2>1, HandedStep, FineNotInstalled
    <3> HIDE DEF choose
    <3> QED BY <3>1, <3>2, FineConcat
  <2>5. resolveCurationLockfileDir(o) = <<Invoke(body)>>
    BY DEF resolveCurationLockfileDir, copy, install
  <2> HIDE DEF body
  <2>6. Fine(ends, k, p)
    BY PlainStep, FineEach
  <2>7. ends # <<>> /\ Head(ends) = OnExit(Rm("lock"))
    OBVIOUS
  <2> HIDE DEF ends
  <2> QED BY <2>1, <2>4, <2>5, <2>6, <2>7, FineHandover
<1>2. ASSUME ~o.curation PROVE Fine(audited, k, p)
  <2>1. YarnStep(k, "target")
    BY <1>2 DEF YarnStep, Plain
  <2>2. Fine(<<Choice(configureYarnResolutionServerAndRunInstall("target", o), <<>>)>>, k, p)
    BY <2>1, FineYarnConfigure, FineNone, FineChoice
  <2>3. Fine(isInstallRequired(o), k, p) /\ Fine(<<Try("yarn info"), Try("tree")>>, k, p)
    BY PlainStep, FineNotInstalled, FineTuple
  <2> QED BY <2>2, <2>3, FineConcat
<1> HIDE DEF curated, audited
<1>3. Fine(last, k, p)
  BY <1>1, <1>2
<1>4. Yarn(o) = <<Try("working directory"), Try("yarn")>> \o If(o.curation, <<Try("yarn version")>>)
                \o <<Try("package.json")>> \o last
  BY DEF Yarn, curated, audited, ends
<1> HIDE DEF last
<1>5. /\ Fine(<<Try("working directory"), Try("yarn")>>, k, p)
      /\ Fine(If(o.curation, <<Try("yarn version")>>), k, p)
      /\ Fine(<<Try("package.json")>>, k, p)
  BY PlainStep, FineTuple, FineIf
<1> QED BY <1>3, <1>4, <1>5, FineConcat


\* A lock file that is made in a copy, which the caller removes.
LEMMA FineResolve ==
    ASSUME NEW checks, NEW install, NEW k, NEW p, Plain(k),
           Fine(checks, Inner(k, {"lock"}, k.safe), p \cap {"moved"}),
           Fine(install, Inner(k, {"lock"}, k.safe), p \cap {"moved"}),
           NEW r, Fine(r, k, p), r # <<>>, Head(r) = OnExit(Rm("lock"))
    PROVE  Fine(ResolveInCopy(checks, install) \o r, k, p)
<1>1. PICK c, q : c = Inner(k, {"lock"}, k.safe) /\ q = p \cap {"moved"}
  OBVIOUS
<1> DEFINE copy == <<MkTemp("lock"), OnExit(RmFailed("lock")), Try("copy")>> \o install
           body == checks \o <<Choice(<<>>, copy)>>
<1>2. Fine(copy, c, q)
  <2>1. Fine(<<MkTemp("lock"), OnExit(RmFailed("lock")), Try("copy")>>, c, q)
    BY <1>1, HandedStep, FineTuple
  <2> QED BY <1>1, <2>1, FineConcat
<1>3. ResolveInCopy(checks, install) = <<Invoke(body)>>
  BY DEF ResolveInCopy
<1> HIDE DEF copy
<1>4. Fine(<<Choice(<<>>, copy)>>, c, q)
  BY <1>2, FineNone, FineChoice
<1>5. Fine(body, c, q)
  BY <1>1, <1>4, FineConcat
<1> HIDE DEF body
<1> QED BY <1>1, <1>3, <1>5, FineHandover

LEMMA FinePnpm ==
    ASSUME NEW o, NEW k, NEW p, Plain(k)
    PROVE  Fine(Pnpm(o), k, p)
<1>1. PICK c, q : c = Inner(k, {"lock"}, k.safe) /\ q = p \cap {"moved"}
  OBVIOUS
<1> DEFINE parse == <<OnExit(Rm("lock")), Try("parse lock")>>
           list == <<OnExit(Rm("lock")), Try("pnpm ls")>>
           version == <<Try("pnpm version")>>
           curated == version \o resolveLockfileDir \o parse
           audited == installProjectIfNeeded \o list
<1>2. Fine(parse, k, p) /\ Fine(list, k, p)
  BY PlainStep, FineTuple
<1>3. parse # <<>> /\ Head(parse) = OnExit(Rm("lock")) /\ list # <<>> /\ Head(list) = OnExit(Rm("lock"))
  OBVIOUS
<1> HIDE DEF parse, list
<1>4. /\ Fine(<<Try("lock exists")>>, c, q) /\ Fine(<<Try("lock exists"), Try("node_modules exists")>>, c, q)
      /\ Fine(<<Run("lock", "pnpm install")>>, c, q)
      /\ Fine(<<Run("lock", "pnpm install"), Try("lock exists")>>, c, q)
  BY <1>1, HandedStep, FineTuple
<1>5. Fine(curated, k, p)
  <2>1. Fine(resolveLockfileDir \o parse, k, p)
    BY <1>1, <1>2, <1>3, <1>4, FineResolve DEF resolveLockfileDir
  <2>2. Fine(version, k, p)
    BY PlainStep
  <2> HIDE DEF version
  <2>3. Fine(version \o (resolveLockfileDir \o parse), k, p)
    BY <2>1, <2>2, FineConcat
  <2>4. version \o (resolveLockfileDir \o parse) = curated
    OBVIOUS
  <2> HIDE DEF curated
  <2> QED BY <2>3, <2>4
<1>6. Fine(audited, k, p)
  BY <1>1, <1>2, <1>3, <1>4, FineResolve DEF installProjectIfNeeded
<1>7. Fine(<<Try("working directory"), Try("pnpm")>>, k, p)
  BY PlainStep, FineTuple
<1>8. CASE o.curation
  <2>1. Pnpm(o) = <<Try("working directory"), Try("pnpm")>> \o curated
    BY <1>8 DEF Pnpm, parse
  <2> HIDE DEF curated
  <2> QED BY <1>5, <1>7, <2>1, FineConcat
<1>9. CASE ~o.curation
  <2>1. Pnpm(o) = <<Try("working directory"), Try("pnpm")>> \o audited
    BY <1>9 DEF Pnpm, list
  <2> HIDE DEF audited
  <2> QED BY <1>6, <1>7, <2>1, FineConcat
<1> QED BY <1>8, <1>9

\* A file that is changed and then restored on exit.
LEMMA FineEdited ==
    ASSUME NEW f \in UserFiles, NEW u, NEW k, NEW p, k.h = {}, ~k.safe, u.act = "file", f \in u.arg
    PROVE  Fine(<<Edit(f), OnExit(u)>>, k, p)
<1>1. Edit(f).op = "edit" /\ Edit(f).arg = f
  BY DEF Edit, Step
<1>2. Soon("file", f, Pardoned(f), <<OnExit(u)>>)
  BY SoonHeld, OneRow
<1>3. Sound(Edit(f), <<OnExit(u)>>, k, p) /\ DeferSound(u, k)
  BY <1>1, <1>2 DEF Sound, DeferSound
<1> QED BY <1>1, <1>3, FineHeld

LEMMA FineNpm ==
    ASSUME NEW o, NEW k, NEW p, Plain(k)
    PROVE  Fine(Npm(o), k, p)
<1> DEFINE configure == <<Try("configure .npmrc"), Edit(".npmrc"), OnExit(Restore({".npmrc"}))>>
           choose == <<Choice(<<>>, configure)>>
<1>1. Fine(configure, k, p)
  <2>1. Fine(<<Edit(".npmrc"), OnExit(Restore({".npmrc"}))>>, k, p)
    BY CleanUps, FineEdited DEF Plain, UserFiles
  <2> QED BY <2>1, PlainStep, FineTuple
<1> HIDE DEF configure
<1>2. Fine(choose, k, p)
  BY <1>1, FineNone, FineChoice
<1>3. Npm(o) = <<Try("working directory"), Try("npm version"), Try("package.json")>>
               \o If(o.repo, choose) \o NotInstalled(o) \o <<Try("dependencies map")>>
  BY DEF Npm, configure
<1> HIDE DEF choose
<1>4. Fine(If(o.repo, choose), k, p)
  BY <1>2, FineIf
<1>5. /\ Fine(<<Try("working directory"), Try("npm version"), Try("package.json")>>, k, p)
      /\ Fine(NotInstalled(o), k, p) /\ Fine(<<Try("dependencies map")>>, k, p)
  BY PlainStep, FineEach, FineNotInstalled
<1> QED BY <1>3, <1>4, <1>5, FineConcat

LEMMA FineNuget ==
    ASSUME NEW o, NEW k, NEW p, Plain(k), {"NUGET_PACKAGES", "ArtifactoryUrl"} \subseteq k.kept
    PROVE  Fine(Nuget(o), k, p)
<1>1. PICK c, q : c = Inner(k, {}, k.safe) /\ q = p \cap {"moved"}
  OBVIOUS
<1>2. Plain(c) /\ {"NUGET_PACKAGES", "ArtifactoryUrl"} \subseteq c.kept
  <2>1. c.kept = k.kept
    BY <1>1 DEF Inner
  <2> QED BY <1>1, <2>1, PlainInner
<1>3. Fine(runDotnetRestoreAndLoadSolution(o), c, q)
  <2>1. /\ Fine(<<Try("tool name")>>, c, q) /\ Fine(<<Try("command")>>, c, q)
        /\ Fine(<<Run("work", "restore"), Try("load solution")>>, c, q)
    BY <1>2, PlainStep, FineTuple
  <2>2. Fine(If(o.repo /\ o.curation, <<SetEnv("ArtifactoryUrl")>>), c, q)
    BY <1>2, FineStep, FineIf
  <2>3. Fine(If(o.repo, <<Try("configuration file")>>), c, q)
    BY <1>2, PlainStep, FineIf
  <2>4. Fine(If(o.curation, getEnvVariablesForCurationAudit), c, q)
    <3>1. Fine(<<SetEnv("NUGET_PACKAGES")>>, c, q)
      BY <1>2, FineStep
    <3> QED BY <1>2, <3>1, PlainStep, FineTuple, FineIf DEF getEnvVariablesForCurationAudit
  <2> QED BY <2>1, <2>2, <2>3, <2>4, FineConcat DEF runDotnetRestoreAndLoadSolution
<1>4. Fine(restoreInTempDirAndGetBuildInfo(o), k, p)
  <2>1. /\ Fine(<<MkTemp("work"), OnExit(Rm("work")), Try("copy")>>, c, q)
        /\ Fine(<<Try("build info")>>, c, q)
    BY <1>2, PlainStep, FineTuple
  <2>2. Fine(<<MkTemp("work"), OnExit(Rm("work")), Try("copy")>>
             \o runDotnetRestoreAndLoadSolution(o) \o <<Try("build info")>>, c, q)
    BY <1>3, <2>1, FineConcat
  <2> QED BY <1>1, <2>2, FineCall DEF restoreInTempDirAndGetBuildInfo
<1> DEFINE choose == <<Choice(restoreInTempDirAndGetBuildInfo(o), <<Try("build info")>>)>>
<1>5. Fine(choose, k, p)
  BY <1>4, PlainStep, FineChoice
<1>6. Nuget(o) = <<Try("working directory"), Try("solution")>> \o NotInstalled(o) \o choose
  BY DEF Nuget
<1> HIDE DEF choose
<1>7. Fine(NotInstalled(o), k, p) /\ Fine(<<Try("working directory"), Try("solution")>>, k, p)
  BY PlainStep, FineNotInstalled, FineTuple
<1> QED BY <1>5, <1>6, <1>7, FineConcat


LEMMA FourAndTwo ==
    ASSUME NEW a, NEW b, NEW c, NEW d, NEW e, NEW f
    PROVE  <<a, b, c, d>> \o <<e, f>> = <<a, b, c, d, e, f>>
<1> DEFINE S == {a, b, c, d, e, f}
<1>1. PICK s, t, u : s = <<a, b, c, d>> /\ t = <<e, f>> /\ u = <<a, b, c, d, e, f>>
  OBVIOUS
<1>2. /\ s \in Seq(S) /\ Len(s) = 4 /\ s[1] = a /\ s[2] = b /\ s[3] = c /\ s[4] = d
      /\ t \in Seq(S) /\ Len(t) = 2 /\ t[1] = e /\ t[2] = f
      /\ u \in Seq(S) /\ Len(u) = 6 /\ u[1] = a /\ u[2] = b /\ u[3] = c /\ u[4] = d /\ u[5] = e /\ u[6] = f
  BY <1>1
<1> HIDE DEF S
<1>3. /\ s \o t \in Seq(S) /\ Len(s \o t) = Len(s) + Len(t)
      /\ \A i \in 1 .. Len(s) + Len(t) : (s \o t)[i] = IF i <= Len(s) THEN s[i] ELSE t[i - Len(s)]
  BY <1>2, ConcatProperties
<1>4. PICK v : /\ v = s \o t /\ v \in Seq(S) /\ Len(v) = 6
               /\ \A i \in 1 .. 6 : v[i] = IF i <= 4 THEN s[i] ELSE t[i - 4]
  <2>1. Len(s) + Len(t) = 6 /\ Len(s) = 4
    BY <1>2
  <2> QED BY <1>3, <2>1
<1>5. v[1] = a /\ v[2] = b /\ v[3] = c /\ v[4] = d /\ v[5] = e /\ v[6] = f
  BY <1>2, <1>4
<1>6. \A i \in 1 .. Len(u) : u[i] = v[i]
  <2>1. \A i \in 1 .. Len(u) : i \in {1, 2, 3, 4, 5, 6}
    BY <1>2
  <2> QED BY <1>2, <1>5, <2>1
<1>7. u = v
  BY <1>2, <1>4, <1>6, SeqEqual
<1> QED BY <1>1, <1>4, <1>7

LEMMA FineMvn ==
    ASSUME NEW k, NEW p, Plain(k)
    PROVE  Fine(RunMvnCmd, k, p)
<1>1. PICK c, q : c = Inner(k, {}, k.safe) /\ q = p \cap {"moved"}
  OBVIOUS
<1>2. Plain(c)
  BY <1>1, PlainInner
<1>3. PICK a, b, d, e, f, g :
        /\ a = Try("backup") /\ b = Edit("maven.config.bkp") /\ d = Try("remove maven.config")
        /\ e = Edit("maven.config") /\ f = OnExit(Restore({"maven.config", "maven.config.bkp"})) /\ g = Try("mvn")
  OBVIOUS
<1>4. /\ a.op = "try" /\ a.arg = "backup" /\ b.op = "edit" /\ b.arg = "maven.config.bkp"
      /\ d.op = "try" /\ d.arg = "remove maven.config" /\ e.op = "edit" /\ e.arg = "maven.config"
  BY <1>3 DEF Try, Edit, Step
<1>5. f.op = "defer" /\ f.arg.act = "file" /\ f.arg.arg = {"maven.config", "maven.config.bkp"}
  BY <1>3, CleanUps DEF OnExit, Step
<1>6. PICK s6, s5, s4, s3, s2 : /\ s6 = <<a, b, d, e, f, g>> /\ s5 = <<b, d, e, f, g>>
                                /\ s4 = <<d, e, f, g>> /\ s3 = <<e, f, g>> /\ s2 = <<f, g>>
  OBVIOUS
<1>7. /\ IsRow(s6) /\ s6 # <<>> /\ Head(s6) = a /\ Tail(s6) = s5
      /\ IsRow(s5) /\ s5 # <<>> /\ Head(s5) = b /\ Tail(s5) = s4
      /\ IsRow(s4) /\ s4 # <<>> /\ Head(s4) = d /\ Tail(s4) = s3
      /\ IsRow(s3) /\ s3 # <<>> /\ Head(s3) = e /\ Tail(s3) = s2 /\ IsRow(s2) /\ s2 # <<>> /\ Head(s2) = f
  <2>1. /\ Head(s6) = a /\ Tail(s6) = s5 /\ Head(s5) = b /\ Tail(s5) = s4 /\ Head(s4) = d /\ Tail(s4) = s3
        /\ Head(s3) = e /\ Tail(s3) = s2 /\ Head(s2) = f
    BY <1>6
  <2>2. s6 # <<>> /\ s5 # <<>> /\ s4 # <<>> /\ s3 # <<>> /\ s2 # <<>>
    BY <1>6
  <2>3. /\ s6 \in Seq({a, b, d, e, f, g}) /\ s5 \in Seq({a, b, d, e, f, g}) /\ s4 \in Seq({a, b, d, e, f, g})
        /\ s3 \in Seq({a, b, d, e, f, g}) /\ s2 \in Seq({a, b, d, e, f, g})
    BY <1>6
  <2> QED BY <2>1, <2>2, <2>3 DEF IsRow
<1>8. Fine(s2, c, q)
  <2>1. Fine(<<f>>, c, q) /\ Fine(<<g>>, c, q)
    BY <1>2, <1>3, PlainStep
  <2> QED BY <1>6, <2>1, FineTuple
<1>9. Fine(s3, c, q)
  <2>1. Soon("file", "maven.config", Pardoned("maven.config"), s2)
    BY <1>5, <1>7, SoonFirst DEF Defers
  <2>2. Sound(e, s2, c, q) /\ After(e, q) = q
    BY <1>2, <1>4, <2>1 DEF Sound, After, Plain, UserFiles
  <2> QED BY <1>4, <1>7, <1>8, <2>2, FineBy
<1>10. Fine(s4, c, q)
  <2>1. Sound(d, s3, c, q) /\ After(d, q) = q
    BY <1>2, <1>4 DEF Sound, After, Plain
  <2> QED BY <1>4, <1>7, <1>9, <2>1, FineBy
<1>11. Fine(s5, c, q)
  <2>1. PICK pardoned : pardoned = Pardoned("maven.config.bkp")
    OBVIOUS
  <2>2. pardoned = {"remove maven.config"}
    BY <2>1 DEF Pardoned
  <2>3. Passes(d, pardoned) /\ Passes(e, pardoned) /\ Defers(f, "file", "maven.config.bkp")
    BY <1>4, <1>5, <2>2 DEF Passes, Defers
  <2>4. Len(s4) = 4 /\ s4[1] = d /\ s4[2] = e /\ s4[3] = f
    BY <1>6
  <2>5. Soon("file", "maven.config.bkp", pardoned, s4)
    BY <2>3, <2>4 DEF Soon
  <2>6. Sound(b, s4, c, q) /\ After(b, q) = q
    BY <1>2, <1>4, <2>1, <2>5 DEF Sound, After, Plain, UserFiles
  <2> QED BY <1>4, <1>7, <1>10, <2>6, FineBy
<1>12. Fine(s6, c, q)
  <2>1. Sound(a, s5, c, q) /\ After(a, q) = q
    BY <1>2, <1>4 DEF Sound, After, Plain
  <2> QED BY <1>4, <1>7, <1>11, <2>1, FineBy
<1>13. PICK w, z, n : w = <<a, b, d, e>> /\ z = <<>> /\ n = Choice(z, w)
  OBVIOUS
<1>14. n.op = "choice" /\ n.body = z /\ n.alt = w /\ IsRow(z) /\ IsRow(w)
  <2>1. w \in Seq({a, b, d, e}) /\ z \in Seq({})
    BY <1>13
  <2> QED BY <1>13, <2>1 DEF Choice, Step, IsRow
<1>15. w \o s2 = s6 /\ z \o s2 = s2
  <2>1. w \o s2 = s6
    <3>1. <<a, b, d, e>> \o <<f, g>> = <<a, b, d, e, f, g>>
      BY FourAndTwo
    <3> QED BY <1>6, <1>13, <3>1
  <2>2. z \o s2 = s2
    BY <1>7, <1>13, ConcatFacts, OneRow
  <2> QED BY <2>1, <2>2
<1>16. PICK t : t = <<n>> \o s2
  OBVIOUS
<1>17. Fine(t, c, q)
  <2>1. IsRow(t) /\ t # <<>> /\ Head(t) = n /\ Tail(t) = s2
    BY <1>7, <1>16, ConsRow
  <2>2. Sound(n, s2, c, q) /\ After(n, q) = q
    BY <1>2, <1>14 DEF Sound, After, Plain
  <2> QED BY <1>8, <1>12, <1>14, <1>15, <2>1, <2>2, FineBy
<1>18. PICK x : x = Try("maven.config exists")
  OBVIOUS
<1>19. Fine(<<x>> \o t, c, q)
  BY <1>2, <1>17, <1>18, PlainStep, FineConcat
<1>20. PICK body : body = <<x>> \o t
  OBVIOUS
<1>21. RunMvnCmd = <<Invoke(body)>>
  <2>1. <<x>> \o (<<n>> \o <<f, g>>) = <<x, n>> \o <<f, g>>
    OBVIOUS
  <2>2. removeMavenConfig = <<x, n>>
    BY <1>3, <1>13, <1>18 DEF removeMavenConfig
  <2>3. RunMvnCmd = <<Invoke(removeMavenConfig \o <<f, g>>)>>
    BY <1>3 DEF RunMvnCmd
  <2> QED BY <1>6, <1>16, <1>20, <2>1, <2>2, <2>3
<1> QED BY <1>1, <1>19, <1>20, <1>21, FineCall

LEMMA FineMaven ==
    ASSUME NEW o, NEW k, NEW p, Plain(k)
    PROVE  Fine(Maven(o), k, p)
<1>1. PICK c, q : c = Inner(k, {"work"}, k.safe) /\ q = p \cap {"moved"}
  OBVIOUS
<1>2. PICK body : body = <<MkTemp("work"), OnExit(RmFailed("work"))>> \o If(o.repo, <<Try("settings.xml")>>)
  OBVIOUS
<1>3. Fine(body, c, q)
  <2>1. Fine(<<MkTemp("work"), OnExit(RmFailed("work"))>>, c, q)
    BY <1>1, HandedStep
  <2>2. Fine(If(o.repo, <<Try("settings.xml")>>), c, q)
    BY <1>1, HandedStep, FineIf
  <2> QED BY <1>2, <2>1, <2>2, FineConcat
<1> DEFINE start == <<OnExit(Rm("work")), Choice(<<>>, RunMvnCmd)>>
           ends == <<Try("read output"), Try("parse output")>>
<1>4. Fine(start, k, p) /\ Fine(ends, k, p)
  <2>1. Fine(<<Choice(<<>>, RunMvnCmd)>>, k, p)
    BY FineMvn, FineNone, FineChoice
  <2> QED BY <2>1, PlainStep, FineTuple
<1>5. start # <<>> /\ Head(start) = OnExit(Rm("work"))
  OBVIOUS
<1>6. Maven(o) = <<Try("maven wrapper")>> \o CreateTempDirWithSettingsXmlIfNeeded(o)
                 \o start \o RunMvnCmd \o ends
  BY DEF Maven
<1> HIDE DEF start, ends
<1>7. PICK r, w, h : r = RunMvnCmd \o ends /\ w = start \o r /\ h = <<Try("maven wrapper")>>
  OBVIOUS
<1>8. Fine(r, k, p)
  BY <1>4, <1>7, FineMvn, FineConcat
<1>9. Fine(w, k, p) /\ w # <<>> /\ Head(w) = OnExit(Rm("work"))
  <2>1. IsRow(start) /\ IsRow(r)
    BY <1>4, <1>8, FineRow
  <2> QED BY <1>4, <1>5, <1>7, <1>8, <2>1, ConcatRest, FineConcat
<1>10. PICK v, m : m = <<Invoke(body)>> /\ v = m \o w
  OBVIOUS
<1>11. Fine(v, k, p)
  BY <1>1, <1>3, <1>9, <1>10, FineHandover
<1>12. Fine(h \o v, k, p)
  BY <1>7, <1>11, PlainStep, FineConcat
<1>13. CreateTempDirWithSettingsXmlIfNeeded(o) = m
  BY <1>2, <1>10 DEF CreateTempDirWithSettingsXmlIfNeeded
<1>14. h \o (m \o (start \o (RunMvnCmd \o ends))) = h \o m \o start \o RunMvnCmd \o ends
  OBVIOUS
<1> QED BY <1>6, <1>7, <1>10, <1>12, <1>13, <1>14


LEMMA FineGradle ==
    ASSUME NEW k, NEW p, Plain(k)
    PROVE  Fine(Gradle, k, p)
<1>1. PICK c, q : c = Inner(k, {}, k.safe) /\ q = p \cap {"moved"}
  OBVIOUS
<1>2. Plain(c)
  BY <1>1, PlainInner
<1>3. Fine(execGradleDepTree, k, p)
  <2>1. Fine(<<Run("target", "gradle clean")>>, c, q)
    BY <1>2, FineRun DEF Plain, InPlace, InstallsInPlace
  <2>2. Fine(<<Try("gradle"), Run("target", "gradle clean"), OnExit(Restore({"output"})), Try("read output")>>, c, q)
    BY <1>2, <2>1, PlainStep, FineEach
  <2> QED BY <1>1, <2>2, FineCall DEF execGradleDepTree
<1>4. PICK w : w = execGradleDepTree \o <<Try("parse output")>>
  OBVIOUS
<1>5. Fine(w, k, p) /\ IsRow(w)
  <2>1. Fine(w, k, p)
    BY <1>3, <1>4, PlainStep, FineConcat
  <2> QED BY <2>1, FineRow
<1>6. PICK a, b, d, e, f :
        /\ a = MkTemp("work") /\ b = Try("remote repositories") /\ d = Try("write script")
        /\ e = OnExit(Lost(Rm("work"))) /\ f = Try("gradle wrapper")
  OBVIOUS
<1>7. /\ a.op = "mktemp" /\ a.arg = "work" /\ b.op = "try" /\ b.arg = "remote repositories"
      /\ d.op = "try" /\ d.arg = "write script" /\ Defers(e, "rm", "work")
  BY <1>6, CleanUps DEF MkTemp, Try, OnExit, Step, Defers
<1>8. PICK s5, s4 : s5 = <<a, b, d, e, f>> /\ s4 = <<b, d, e, f>>
  OBVIOUS
<1>9. /\ IsRow(s5) /\ s5 # <<>> /\ Head(s5) = a /\ Tail(s5) = s4
      /\ Len(s4) = 4 /\ s4[1] = b /\ s4[2] = d /\ s4[3] = e
  <2>1. Head(s5) = a /\ Tail(s5) = s4 /\ s5 # <<>> /\ s5 \in Seq({a, b, d, e, f})
    BY <1>8
  <2>2. Len(s4) = 4 /\ s4[1] = b /\ s4[2] = d /\ s4[3] = e
    BY <1>8
  <2> QED BY <2>1, <2>2 DEF IsRow
<1>10. Fine(s4 \o w, k, p)
  <2>1. Fine(<<b>>, k, p) /\ Fine(<<d>>, k, p) /\ Fine(<<e>>, k, p) /\ Fine(<<f>>, k, p)
    BY <1>6, PlainStep
  <2>2. Fine(s4, k, p)
    BY <1>8, <2>1, FineEach
  <2> QED BY <1>5, <2>2, FineConcat
<1>11. Fine(s5 \o w, k, p)
  <2>1. Passes(b, UnguardedSteps) /\ Passes(d, UnguardedSteps)
    BY <1>7 DEF Passes, UnguardedSteps
  <2>2. Soon("rm", "work", UnguardedSteps, s4)
    <3>1. \A j \in 1 .. 3 - 1 : Passes(s4[j], UnguardedSteps)
      BY <1>9, <2>1
    <3>2. Defers(s4[3], "rm", "work")
      BY <1>7, <1>9
    <3>3. 3 \in 1 .. Len(s4)
      BY <1>9
    <3> QED BY <3>1, <3>2, <3>3 DEF Soon
  <2>3. Sound(a, s4, k, p) /\ After(a, p) = p
    BY <1>7, <2>2 DEF Sound, After, Plain
  <2> QED BY <1>5, <1>7, <1>9, <1>10, <2>3, FineBefore
<1>12. Gradle = s5 \o w
  <2>1. <<a, b, d, e, f>> = <<a, b, d>> \o <<e, f>>
    OBVIOUS
  <2>2. createDepTreeScriptAndGetDir = <<a, b, d>>
    BY <1>6 DEF createDepTreeScriptAndGetDir
  <2>3. Gradle = <<a, b, d>> \o <<e, f>> \o execGradleDepTree \o <<Try("parse output")>>
    BY <1>6, <2>2 DEF Gradle
  <2>4. PICK y : y = <<Try("parse output")>>
    OBVIOUS
  <2>5. w = execGradleDepTree \o y /\ Gradle = <<a, b, d>> \o <<e, f>> \o execGradleDepTree \o y
    BY <1>4, <2>3, <2>4
  <2>6. (<<a, b, d>> \o <<e, f>>) \o (execGradleDepTree \o y)
        = <<a, b, d>> \o <<e, f>> \o execGradleDepTree \o y
    OBVIOUS
  <2> QED BY <1>8, <2>1, <2>5, <2>6
<1> QED BY <1>11, <1>12

LEMMA FineGolang ==
    ASSUME NEW o, NEW k, NEW p, Plain(k), {"GOMODCACHE", "GOPROXY"} \subseteq k.kept
    PROVE  Fine(Golang(o), k, p)
<1>1. Fine(<<SetEnv("GOMODCACHE")>>, k, p) /\ Fine(<<SetEnv("GOPROXY")>>, k, p)
  BY FineStep
<1>2. /\ Fine(If(o.curation, <<Try("cache folder"), SetEnv("GOMODCACHE")>>), k, p)
      /\ Fine(If(o.repo, <<Try("repository"), SetEnv("GOPROXY")>>), k, p)
  BY <1>1, PlainStep, FineTuple, FineIf
<1>3. Fine(If(~o.curation, <<Try("go version")>>), k, p) /\ Fine(<<Try("working directory")>>, k, p)
  BY PlainStep, FineIf
<1>4. Fine(<<Try("go mod graph"), Try("go list"), Try("module name")>>, k, p)
  BY PlainStep, FineEach
<1> QED BY <1>2, <1>3, <1>4, FineConcat DEF Golang

\* The builders that change nothing but what they install in place.
LEMMA FineOthers ==
    ASSUME NEW o, NEW k, NEW p, Plain(k)
    PROVE  /\ Fine(Gem, k, p) /\ Fine(Conan, k, p) /\ Fine(Swift, k, p) /\ Fine(Cocoapods(o), k, p)
           /\ Fine(Docker, k, p) /\ Fine(HuggingFace, k, p)
<1>1. \A x \in InstallsInPlace : Fine(<<Run("target", x)>>, k, p)
  BY FineRun DEF Plain, InPlace
<1>2. Fine(Gem, k, p)
  <2>1. Fine(<<Run("target", "bundle lock")>>, k, p)
    BY <1>1 DEF InstallsInPlace
  <2> QED BY <2>1, PlainStep, FineEach DEF Gem
<1>3. Fine(Conan, k, p)
  BY PlainStep, FineEach DEF Conan
<1>4. Fine(Swift, k, p)
  <2>1. Fine(<<Try("package name")>>, Inner(k, {}, TRUE), p \cap {"moved"})
    BY SafeStep DEF Excuses, UnguardedSteps
  <2>2. Fine(<<Fallback(<<Try("package name")>>, <<>>)>>, k, p)
    BY <2>1, FineNone, FineFallback
  <2> QED BY <2>2, PlainStep, FineEach DEF Swift
<1>5. Fine(Cocoapods(o), k, p)
  <2> DEFINE install == IF o.skip THEN <<Raise("notInstalled")>> ELSE <<Try("pod"), Run("target", "pod install")>>
  <2>1. Fine(install, k, p)
    <3>1. Fine(<<Run("target", "pod install")>>, k, p)
      BY <1>1 DEF InstallsInPlace
    <3> QED BY <3>1, PlainStep, FineTuple
  <2> HIDE DEF install
  <2>2. Fine(<<Choice(<<>>, install)>>, k, p)
    BY <2>1, FineNone, FineChoice
  <2>3. Fine(<<Try("xray version"), Try("working directory"), Choice(<<>>, install), Try("dependencies")>>, k, p)
    BY <2>2, PlainStep, FineEach
  <2> QED BY <2>3 DEF Cocoapods, install
<1>6. Fine(Docker, k, p)
  <2>1. Fine(<<Try("docker pull"), Try("platform"), Try("digest")>>, k, p)
    BY PlainStep, FineEach
  <2>2. Fine(<<Choice(<<Try("docker pull"), Try("platform"), Try("digest")>>, <<>>)>>, k, p)
    BY <2>1, FineNone, FineChoice
  <2> QED BY <2>2, PlainStep, FineEach DEF Docker
<1>7. Fine(HuggingFace, k, p)
  BY PlainStep, FineChoice DEF HuggingFace
<1> QED BY <1>2, <1>3, <1>4, <1>5, <1>6, <1>7

\* What is known of the builder of a technology.
Outer(o) == [h |-> {}, builder |-> TRUE, safe |-> FALSE, cur |-> o.curation, kept |-> KeptVariables]

\* The options say whether the command is a curation audit.
Asked(o) == o.curation \in BOOLEAN

\* Whatever the technology and the options, the steps of its builder are fine.
LEMMA FineTree ==
    ASSUME NEW t, NEW o, Asked(o), NEW k, k = Outer(o),
           t = "nuget" => {"NUGET_PACKAGES", "ArtifactoryUrl"} \subseteq KeptVariables,
           t = "go" => {"GOMODCACHE", "GOPROXY"} \subseteq KeptVariables
    PROVE  /\ Fine(GetTechDependencyTree(t, o), k, {})
           /\ \A c : Fine(If(c, <<Try("resolution repository")>>), k, {})
<1>0. /\ k.h = {} /\ k.builder = TRUE /\ k.safe = FALSE /\ k.cur = o.curation
      /\ o.curation \in BOOLEAN
      /\ t = "nuget" => {"NUGET_PACKAGES", "ArtifactoryUrl"} \subseteq k.kept
      /\ t = "go" => {"GOMODCACHE", "GOPROXY"} \subseteq k.kept
  BY DEF Outer, Asked
<1> USE <1>0
<1>1. Plain(k)
  BY DEF Plain
<1>2. Fine(Builder(t, o), k, {})
  <2>1. CASE t \in {"pip", "pipenv", "poetry"}
    <3>1. Builder(t, o) = getDependencies(t, o)
      BY <2>1, Zenon DEF Builder
    <3> QED BY <1>1, <2>1, <3>1, FinePython
  <2>2. CASE t \in {"uv", "cargo", "yarn", "pnpm", "npm"}
    <3>1. /\ Fine(Uv(o), k, {}) /\ Fine(Cargo(o), k, {}) /\ Fine(Yarn(o), k, {})
          /\ Fine(Pnpm(o), k, {}) /\ Fine(Npm(o), k, {})
      BY <1>1, FineUv, FineCargo, FineYarn, FinePnpm, FineNpm
    <3>2. Builder(t, o) \in {Uv(o), Cargo(o), Yarn(o), Pnpm(o), Npm(o)}
      BY <2>2 DEF Builder
    <3> QED BY <3>1, <3>2
  <2>3. CASE t = "nuget"
    <3>1. Builder(t, o) = Nuget(o)
      BY <2>3 DEF Builder
    <3> QED BY <1>1, <2>3, <3>1, FineNuget
  <2>4. CASE t = "go"
    <3>1. Builder(t, o) = Golang(o)
      BY <2>4 DEF Builder
    <3> QED BY <1>1, <2>4, <3>1, FineGolang
  <2>5. CASE t \in {"maven", "gradle"}
    <3>1. Builder(t, o) \in {Maven(o), Gradle}
      BY <2>5 DEF Builder
    <3> QED BY <1>1, <3>1, FineMaven, FineGradle
  <2>6. CASE t \in {"gem", "conan", "swift", "cocoapods", "docker", "huggingface"}
    <3>1. Builder(t, o) \in {Gem, Conan, Swift, Cocoapods(o), Docker, HuggingFace}
      BY <2>6 DEF Builder
    <3> QED BY <1>1, <3>1, FineOthers
  <2>7. CASE t \notin {"pip", "pipenv", "poetry", "uv", "cargo", "yarn", "pnpm", "npm", "nuget", "go", "maven",
                       "gradle", "gem", "conan", "swift", "cocoapods", "docker", "huggingface"}
    <3>1. Builder(t, o) = <<Raise("failed")>>
      BY <2>7 DEF Builder
    <3> QED BY <1>1, <3>1, PlainStep
  <2> QED BY <2>1, <2>2, <2>3, <2>4, <2>5, <2>6, <2>7
<1>3. Fine(GetTechDependencyTree(t, o), k, {})
  <2>1. Fine(If(o.curation /\ t \in {"maven", "go"}, <<Try("cache exists")>>), k, {})
    BY <1>1, PlainStep, FineIf
  <2> QED BY <1>2, <2>1, FineConcat DEF GetTechDependencyTree
<1>4. \A c : Fine(If(c, <<Try("resolution repository")>>), k, {})
  BY <1>1, PlainStep, FineIf
<1> QED BY <1>3, <1>4


-----------------------------------------------------------------------------
(* DepTreeBuilders: whatever fails, what a builder takes is given back.      *)

Undoes(u, act, x) == u.act = act /\ x \in u.arg
\* A deferred function of a call that runs, or is about to be registered.
Registered(act, x) ==
    \E i \in 1 .. Len(frames) : \E j \in 1 .. Len(frames[i].undo) : Undoes(frames[i].undo[j], act, x)
Coming(act, x, pardoned) == frames # <<>> /\ Soon(act, x, pardoned, Top.todo)
Guarded(act, x, pardoned) == Registered(act, x) \/ Coming(act, x, pardoned)

\* A temporary directory that is removed when an error is returned, and by the
\* caller when there is none.
HandOver(d) ==
    /\ frames # <<>> /\ Top.todo # <<>> /\ Now.op = "defer"
    /\ Now.arg.act = "rmFailed" /\ Now.arg.arg = {d}
HandedOver(d) ==
    /\ Len(frames) > 1 /\ Top.todo = <<>> /\ Top.err = {} /\ Top.onErr = "raise"
    /\ \A j \in 1 .. Len(Top.undo) : Top.undo[j].act = "rmFailed"
    /\ Soon("rm", d, UnguardedSteps, frames[2].todo)
Removed(d) ==
    Guarded("rm", d, UnguardedSteps) \/ Registered("rmFailed", d) \/ HandOver(d) \/ HandedOver(d)

\* Call i of the calls fs: its steps are fine, and what is known of it is so.
Running(fs, i, k, p) ==
    /\ Fine(fs[i].todo, k, p)
    /\ i > 1 /\ fs[i - 1].onErr = "else" => Fine(fs[i - 1].alt \o fs[i].todo, k, p)
    /\ k.builder => i = Len(fs)
    /\ \A d \in k.h : /\ i < Len(fs) /\ fs[i].onErr = "raise"
                      /\ Soon("rm", d, UnguardedSteps, fs[i + 1].todo)
    /\ (\E j \in i .. Len(fs) : fs[j].onErr = "else") => k.safe
    /\ IsRow(fs[i].undo)
    /\ \A j \in 1 .. Len(fs[i].undo) : DeferSound(fs[i].undo[j], k)
    /\ i > 1 \/ fs[i].todo # <<>> =>
          \A f \in p \cap UserFiles : \E j \in 1 .. Len(fs[i].undo) : Undoes(fs[i].undo[j], "file", f)
Placed(i, k, p) ==
    /\ k.cur = options.curation /\ k.kept \subseteq KeptVariables
    /\ "moved" \in p /\ (i > 1 \/ frames[i].todo # <<>>) => workDir = "work"
CallsInv == \A i \in 1 .. Len(frames) : \E k, p : Running(frames, i, k, p) /\ Placed(i, k, p)

\* A call that may be forgotten has no failure that excuses anything.
ExcusesInv ==
    \A j \in 1 .. Len(frames) : frames[j].onErr = "else" =>
        /\ Excuses \cap failures \subseteq frames[j].before
        /\ \A i \in 1 .. j - 1 : Excuses \cap frames[i].before \subseteq frames[j].before
TempsInv == UnguardedSteps \cap failures # {} \/ \A d \in temps : d \in stuck \/ Removed(d)
EnvInv == \A v \in env : v \in KeptVariables \/ Guarded("env", v, {})
FilesInv ==
    \A f \in touched \cap UserFiles :
        f \in stuck \/ Pardoned(f) \cap failures # {} \/ Guarded("file", f, Pardoned(f))
DirInv ==
    phase = "building" =>
        \/ workDir = home \/ "cwd" \in stuck
        \/ (workDir = "work" /\ Guarded("chdir", "cwd", {}))
PhaseInv ==
    /\ phase = "idle" => (workDir = "start" /\ env = {} /\ touched = {})
    /\ phase = "techs" => (workDir = "target" \/ "cwd" \in stuck)
    /\ phase = "done" => \/ workDir \in {"start", IF options.curation THEN "target" ELSE "start"}
                         \/ stuck \cap {"cwd", "start"} # {}
    /\ options.curation \in BOOLEAN
    /\ InstalledInCopy /\ StartsInTarget
FoundInv == CallsInv /\ ExcusesInv /\ TempsInv /\ EnvInv /\ FilesInv /\ DirInv /\ PhaseInv

\* The calls but the innermost run on.
LEMMA OthersRun ==
    ASSUME NEW fs, NEW gs, Len(fs) \in Nat, Len(gs) = Len(fs),
           \A i \in 2 .. Len(fs) : gs[i] = fs[i],
           gs[1].onErr = fs[1].onErr, gs[1].alt = fs[1].alt,
           NEW i \in 2 .. Len(fs), NEW k, NEW p, Running(fs, i, k, p)
    PROVE  Running(gs, i, k, p)
<1>1. gs[i] = fs[i] /\ i > 1 /\ i \in Nat
  OBVIOUS
<1>2. gs[i - 1].onErr = fs[i - 1].onErr /\ gs[i - 1].alt = fs[i - 1].alt
  <2>1. i - 1 = 1 \/ i - 1 \in 2 .. Len(fs)
    OBVIOUS
  <2> QED BY <2>1
<1>3. i < Len(fs) => gs[i + 1] = fs[i + 1]
  <2>1. i < Len(fs) => i + 1 \in 2 .. Len(fs)
    OBVIOUS
  <2> QED BY <2>1
<1>4. \A j \in i .. Len(fs) : gs[j] = fs[j]
  OBVIOUS
<1>5. Fine(gs[i].todo, k, p) /\ IsRow(gs[i].undo)
      /\ \A j \in 1 .. Len(gs[i].undo) : DeferSound(gs[i].undo[j], k)
  BY <1>1 DEF Running
<1>6. gs[i - 1].onErr = "else" => Fine(gs[i - 1].alt \o gs[i].todo, k, p)
  BY <1>1, <1>2 DEF Running
<1>7. k.builder => i = Len(gs)
  BY DEF Running
<1>8. \A d \in k.h : /\ i < Len(gs) /\ gs[i].onErr = "raise"
                     /\ Soon("rm", d, UnguardedSteps, gs[i + 1].todo)
  BY <1>1, <1>3 DEF Running
<1>9. (\E j \in i .. Len(gs) : gs[j].onErr = "else") => k.safe
  BY <1>4 DEF Running
<1>10. \A f \in p \cap UserFiles : \E j \in 1 .. Len(gs[i].undo) : Undoes(gs[i].undo[j], "file", f)
  BY <1>1 DEF Running
<1> QED BY <1>5, <1>6, <1>7, <1>8, <1>9, <1>10 DEF Running

\* What the invariant says of the innermost call.
LEMMA TopRuns ==
    ASSUME ReturnInv, CallsInv, phase = "building"
    PROVE  /\ Len(frames) \in Nat \ {0} /\ frames # <<>> /\ IsRow(Top.todo) /\ IsRow(Top.undo)
           /\ \E k, p : Running(frames, 1, k, p) /\ Placed(1, k, p)
<1>1. frames # <<>>
  BY TopFacts
<1>2. PICK F : frames \in Seq(F)
  BY DEF ReturnInv, StepsInv
<1>3. Len(frames) \in Nat \ {0}
  BY <1>1, <1>2, EmptySeq, LenProperties
<1>4. PICK k, p : Running(frames, 1, k, p) /\ Placed(1, k, p)
  BY <1>3 DEF CallsInv
<1>5. IsRow(Top.todo) /\ IsRow(Top.undo)
  BY <1>4, FineRow DEF Running, Top
<1> QED BY <1>1, <1>3, <1>4, <1>5

\* A step that changes the innermost call and no other one.
LEMMA TopChange ==
    ASSUME ReturnInv, phase = "building", NEW f, WithTop(f)
    PROVE  /\ Len(frames') = Len(frames) /\ Len(frames) \in Nat \ {0}
           /\ Top' = f /\ frames'[1] = f /\ frames' # <<>> /\ frames # <<>>
           /\ \A i \in 2 .. Len(frames) : frames'[i] = frames[i]
<1>1. frames # <<>>
  BY TopFacts
<1>2. PICK F : frames \in Seq(F)
  BY DEF ReturnInv, StepsInv
<1>3. /\ frames' \in Seq(F \cup {f}) /\ Len(frames') = Len(frames) /\ Len(frames) \in Nat \ {0}
      /\ frames'[1] = f /\ \A i \in 2 .. Len(frames) : frames'[i] = frames[i]
  BY <1>1, <1>2, FramesChange DEF WithTop
<1> QED BY <1>1, <1>3, EmptySeq DEF Top

LEMMA TopGoesOn ==
    ASSUME ReturnInv, CallsInv, phase = "building", options' = options,
           NEW f, WithTop(f), f.onErr = Top.onErr, f.alt = Top.alt, IsRow(f.undo),
           NEW k, NEW p, Running(frames, 1, k, p), Placed(1, k, p),
           NEW q, Fine(f.todo, k, q),
           \A j \in 1 .. Len(f.undo) : DeferSound(f.undo[j], k),
           f.todo # <<>> =>
               /\ \A g \in q \cap UserFiles : \E j \in 1 .. Len(f.undo) : Undoes(f.undo[j], "file", g)
               /\ "moved" \in q => workDir' = "work",
           workDir' = workDir \/ Len(frames) = 1
    PROVE  CallsInv'
<1>1. /\ Len(frames') = Len(frames) /\ Len(frames) \in Nat \ {0} /\ frames'[1] = f
      /\ \A i \in 2 .. Len(frames) : frames'[i] = frames[i]
  BY TopChange
<1>2. KeptVariables' = KeptVariables
  BY DEF KeptVariables, Ran
<1> SUFFICES ASSUME NEW i \in 1 .. Len(frames)
             PROVE  \E c, r : Running(frames', i, c, r) /\ Placed(i, c, r)'
  BY <1>1 DEF CallsInv
<1>3. CASE i = 1
  <2>1. k.builder => 1 = Len(frames')
    BY <1>1 DEF Running
  <2>2. \A d \in k.h : /\ 1 < Len(frames') /\ frames'[1].onErr = "raise"
                       /\ Soon("rm", d, UnguardedSteps, frames'[1 + 1].todo)
    BY <1>1 DEF Running, Top
  <2>3. (\E j \in 1 .. Len(frames') : frames'[j].onErr = "else") => k.safe
    <3>1. \A j \in 1 .. Len(frames) : frames'[j].onErr = frames[j].onErr
      BY <1>1 DEF Top
    <3> QED BY <1>1, <3>1 DEF Running
  <2>4. Running(frames', 1, k, q)
    BY <1>1, <2>1, <2>2, <2>3 DEF Running
  <2>5. Placed(1, k, q)'
    BY <1>1, <1>2 DEF Placed
  <2> QED BY <1>3, <2>4, <2>5
<1>4. CASE i > 1
  <2>1. PICK c, r : Running(frames, i, c, r) /\ Placed(i, c, r)
    BY DEF CallsInv
  <2>2. i \in 2 .. Len(frames) /\ frames'[1].onErr = frames[1].onErr /\ frames'[1].alt = frames[1].alt
    BY <1>1, <1>4 DEF Top
  <2>3. Running(frames', i, c, r)
    BY <1>1, <2>1, <2>2, OthersRun
  <2>4. Placed(i, c, r)'
    BY <1>1, <1>2, <1>4, <2>1, <2>2 DEF Placed
  <2> QED BY <2>3, <2>4
<1> QED BY <1>1, <1>3, <1>4


\* What is registered stays so while the calls keep their deferred functions.
LEMMA RegisteredStays ==
    ASSUME ReturnInv, phase = "building", NEW f, WithTop(f),
           NEW act, NEW x, Registered(act, x),
           \A j \in 1 .. Len(Top.undo) : \/ ~Undoes(Top.undo[j], act, x)
                                         \/ \E l \in 1 .. Len(f.undo) : f.undo[l] = Top.undo[j]
    PROVE  Registered(act, x)'
<1>1. /\ Len(frames') = Len(frames) /\ Len(frames) \in Nat \ {0} /\ frames'[1] = f
      /\ \A i \in 2 .. Len(frames) : frames'[i] = frames[i]
  BY TopChange
<1>2. PICK i \in 1 .. Len(frames) : \E j \in 1 .. Len(frames[i].undo) : Undoes(frames[i].undo[j], act, x)
  BY DEF Registered
<1>3. PICK j \in 1 .. Len(frames[i].undo) : Undoes(frames[i].undo[j], act, x)
  BY <1>2
<1>4. CASE i = 1
  <2>1. PICK l \in 1 .. Len(f.undo) : f.undo[l] = Top.undo[j]
    BY <1>3, <1>4 DEF Top
  <2>2. Undoes(frames'[1].undo[l], act, x) /\ l \in 1 .. Len(frames'[1].undo) /\ 1 \in 1 .. Len(frames')
    BY <1>1, <1>3, <1>4, <2>1 DEF Top
  <2> QED BY <2>2 DEF Registered
<1>5. CASE i > 1
  <2>1. frames'[i] = frames[i] /\ i \in 1 .. Len(frames')
    BY <1>1, <1>5
  <2> QED BY <1>3, <2>1 DEF Registered
<1> QED BY <1>1, <1>4, <1>5

LEMMA SameUndo ==
    ASSUME ReturnInv, phase = "building", NEW f, WithTop(f), f.undo = Top.undo,
           NEW act, NEW x, Registered(act, x)
    PROVE  Registered(act, x)'
BY RegisteredStays

LEMMA ComingNext ==
    ASSUME ReturnInv, CallsInv, phase = "building",
           NEW act, NEW x, NEW pardoned, Coming(act, x, pardoned)
    PROVE  /\ Top.todo # <<>>
           /\ \/ Defers(Now, act, x)
              \/ Passes(Now, pardoned) /\ Soon(act, x, pardoned, Tail(Top.todo))
BY TopRuns, SoonNext DEF Coming, Now

\* The next step works.
LEMMA GuardRest ==
    ASSUME ReturnInv, CallsInv, phase = "building", Now.op # "defer",
           NEW f, WithTop(f), f.undo = Top.undo, f.todo = Tail(Top.todo),
           NEW act, NEW x, NEW pardoned, Guarded(act, x, pardoned)
    PROVE  Guarded(act, x, pardoned)'
<1>1. CASE Registered(act, x)
  BY <1>1, SameUndo DEF Guarded
<1>2. CASE Coming(act, x, pardoned)
  <2>1. Soon(act, x, pardoned, Tail(Top.todo))
    BY <1>2, ComingNext DEF Defers
  <2>2. Top' = f /\ frames' # <<>>
    BY TopChange
  <2> QED BY <2>1, <2>2 DEF Guarded, Coming
<1> QED BY <1>1, <1>2 DEF Guarded

\* The next step fails, or leads elsewhere.
LEMMA GuardReturn ==
    ASSUME ReturnInv, CallsInv, phase = "building",
           Now.op \notin {"defer", "put", "edit"},
           NEW f, WithTop(f), f.undo = Top.undo,
           NEW act, NEW x, NEW pardoned, Guarded(act, x, pardoned)
    PROVE  Guarded(act, x, pardoned)' \/ (Now.op \in {"try", "chdir"} /\ Now.arg \in pardoned)
<1>1. CASE Registered(act, x)
  BY <1>1, SameUndo DEF Guarded
<1>2. CASE Coming(act, x, pardoned)
  BY <1>2, ComingNext DEF Defers, Passes
<1> QED BY <1>1, <1>2 DEF Guarded

LEMMA RowPlus ==
    ASSUME NEW u, NEW s, IsRow(s)
    PROVE  /\ IsRow(<<u>> \o s) /\ Len(s) \in Nat /\ Len(<<u>> \o s) = Len(s) + 1
           /\ (<<u>> \o s)[1] = u /\ \A j \in 1 .. Len(s) : (<<u>> \o s)[j + 1] = s[j]
<1>1. PICK h : h = <<u>>
  OBVIOUS
<1>2. IsRow(h) /\ Len(h) = 1 /\ h[1] = u
  <2>1. u \in {u}
    OBVIOUS
  <2> QED BY <1>1, <2>1, OneElement DEF IsRow
<1>3. /\ IsRow(h \o s) /\ Len(s) \in Nat /\ Len(h \o s) = 1 + Len(s)
      /\ \A i \in 1 .. 1 + Len(s) : (h \o s)[i] = IF i <= 1 THEN h[i] ELSE s[i - 1]
  <2>1. PICK c, n : c = h \o s /\ n = Len(h)
    OBVIOUS
  <2>2. /\ IsRow(c) /\ Len(s) \in Nat /\ Len(c) = n + Len(s)
        /\ \A i \in 1 .. n + Len(s) : c[i] = IF i <= n THEN h[i] ELSE s[i - n]
    BY <1>2, <2>1, ConcatFacts
  <2>3. n = 1
    BY <1>2, <2>1
  <2> QED BY <2>1, <2>2, <2>3
<1>4. \A j \in 1 .. Len(s) : j + 1 \in 1 .. 1 + Len(s) /\ ~(j + 1 <= 1) /\ j + 1 - 1 = j
  BY <1>3
<1>5. \A j \in 1 .. Len(s) : (h \o s)[j + 1] = s[j]
  BY <1>3, <1>4
<1> QED BY <1>1, <1>2, <1>3, <1>5

\* The next step registers a deferred function.
LEMMA GuardDefer ==
    ASSUME ReturnInv, CallsInv, phase = "building", Top.todo # <<>>, Now.op = "defer",
           NEW f, WithTop(f), f.undo = <<Now.arg>> \o Top.undo, f.todo = Tail(Top.todo),
           NEW act, NEW x
    PROVE  /\ Undoes(Now.arg, act, x) => Registered(act, x)'
           /\ Registered(act, x) => Registered(act, x)'
           /\ \A pardoned : Guarded(act, x, pardoned) => Guarded(act, x, pardoned)'
<1>1. /\ IsRow(Top.undo) /\ IsRow(f.undo) /\ Len(Top.undo) \in Nat /\ Len(f.undo) = Len(Top.undo) + 1
      /\ f.undo[1] = Now.arg /\ \A j \in 1 .. Len(Top.undo) : f.undo[j + 1] = Top.undo[j]
  BY TopRuns, RowPlus
<1>2. /\ Len(frames') = Len(frames) /\ Len(frames) \in Nat \ {0} /\ frames'[1] = f
      /\ Top' = f /\ frames' # <<>>
  BY TopChange
<1>3. ASSUME Undoes(Now.arg, act, x)
      PROVE  Registered(act, x)'
  <2>1. 1 \in 1 .. Len(frames') /\ 1 \in 1 .. Len(frames'[1].undo) /\ frames'[1].undo[1] = Now.arg
    BY <1>1, <1>2
  <2> QED BY <1>3, <2>1 DEF Registered, Undoes
<1>4. ASSUME Registered(act, x)
      PROVE  Registered(act, x)'
  <2>1. \A j \in 1 .. Len(Top.undo) : \E l \in 1 .. Len(f.undo) : f.undo[l] = Top.undo[j]
    <3> SUFFICES ASSUME NEW j \in 1 .. Len(Top.undo)
                 PROVE  \E l \in 1 .. Len(f.undo) : f.undo[l] = Top.undo[j]
      OBVIOUS
    <3>1. j + 1 \in 1 .. Len(f.undo) /\ f.undo[j + 1] = Top.undo[j]
      BY <1>1
    <3> QED BY <3>1
  <2> QED BY <1>4, <2>1, RegisteredStays
<1>5. ASSUME NEW pardoned, Coming(act, x, pardoned)
      PROVE  Guarded(act, x, pardoned)'
  <2>1. CASE Defers(Now, act, x)
    BY <1>3, <2>1 DEF Defers, Undoes, Guarded
  <2>2. CASE Soon(act, x, pardoned, Tail(Top.todo))
    BY <1>2, <2>2 DEF Guarded, Coming
  <2> QED BY <1>5, <2>1, <2>2, ComingNext
<1> QED BY <1>3, <1>4, <1>5 DEF Guarded

\* A deferred function has run.
LEMMA GuardUndone ==
    ASSUME ReturnInv, CallsInv, Undoing, NEW f, WithTop(f), f.undo = Tail(Top.undo),
           NEW act, NEW x
    PROVE  /\ Registered(act, x) => Registered(act, x)' \/ Undoes(Deferred, act, x)
           /\ \A pardoned : ~Coming(act, x, pardoned)
<1>1. phase = "building" /\ Top.todo = <<>> /\ Top.undo # <<>>
  BY DEF Undoing
<1>2. /\ Len(Top.undo) \in Nat \ {0} /\ Deferred = Top.undo[1] /\ Len(f.undo) = Len(Top.undo) - 1
      /\ \A i \in 1 .. Len(Top.undo) - 1 : f.undo[i] = Top.undo[i + 1]
  BY <1>1, TopRuns, RowFacts DEF Deferred
<1>3. ASSUME Registered(act, x), ~Undoes(Deferred, act, x)
      PROVE  Registered(act, x)'
  <2>1. ASSUME NEW j \in 1 .. Len(Top.undo), j # 1
        PROVE  \E l \in 1 .. Len(f.undo) : f.undo[l] = Top.undo[j]
    <3>1. j - 1 \in 1 .. Len(f.undo) /\ j - 1 \in 1 .. Len(Top.undo) - 1 /\ j - 1 + 1 = j
      BY <1>2, <2>1
    <3> QED BY <1>2, <3>1
  <2>2. ~Undoes(Top.undo[1], act, x)
    BY <1>2, <1>3
  <2> QED BY <1>1, <1>3, <2>1, <2>2, RegisteredStays
<1>4. \A pardoned : ~Coming(act, x, pardoned)
  BY <1>1, ComingNext
<1> QED BY <1>3, <1>4


\* The next step of the innermost call.
LEMMA NextStep ==
    ASSUME ReturnInv, CallsInv, phase = "building", Top.todo # <<>>
    PROVE  \E k, p :
             /\ Running(frames, 1, k, p) /\ Placed(1, k, p)
             /\ Sound(Now, Tail(Top.todo), k, p) /\ Fine(Tail(Top.todo), k, After(Now, p))
             /\ "moved" \in p => workDir = "work"
             /\ \A g \in p \cap UserFiles : \E j \in 1 .. Len(Top.undo) : Undoes(Top.undo[j], "file", g)
             /\ \A j \in 1 .. Len(Top.undo) : DeferSound(Top.undo[j], k)
             /\ IsRow(Top.undo)
             /\ k.builder => Len(frames) = 1
<1>1. PICK k, p : Running(frames, 1, k, p) /\ Placed(1, k, p)
  BY TopRuns
<1>2. Fine(Top.todo, k, p) /\ IsRow(Top.undo)
  BY <1>1 DEF Running, Top
<1>3. Sound(Now, Tail(Top.todo), k, p) /\ Fine(Tail(Top.todo), k, After(Now, p))
  BY <1>2, FineUse DEF Now
<1>4. /\ "moved" \in p => workDir = "work"
      /\ \A g \in p \cap UserFiles : \E j \in 1 .. Len(Top.undo) : Undoes(Top.undo[j], "file", g)
      /\ \A j \in 1 .. Len(Top.undo) : DeferSound(Top.undo[j], k)
      /\ k.builder => Len(frames) = 1
  BY <1>1 DEF Running, Placed, Top
<1> QED BY <1>1, <1>2, <1>3, <1>4

\* While a technology is resolved.
LEMMA SameTarget ==
    ASSUME UNCHANGED outerVars
    PROVE  options' = options /\ home' = home /\ phase' = phase /\ KeptVariables' = KeptVariables
BY DEF outerVars, KeptVariables, Ran

LEMMA PhaseStays ==
    ASSUME PhaseInv, phase = "building", UNCHANGED outerVars, stuck \subseteq stuck', InstalledInCopy'
    PROVE  PhaseInv'
BY SameTarget DEF PhaseInv, StartsInTarget

LEMMA ExcusesStay ==
    ASSUME ReturnInv, ExcusesInv, phase = "building", NEW f, WithTop(f),
           f.onErr = Top.onErr, f.before = Top.before,
           \/ Excuses \cap failures' \subseteq failures
           \/ \A j \in 1 .. Len(frames) : frames[j].onErr # "else"
    PROVE  ExcusesInv'
<1>1. /\ Len(frames') = Len(frames) /\ Len(frames) \in Nat \ {0}
      /\ \A i \in 1 .. Len(frames) : frames'[i].onErr = frames[i].onErr /\ frames'[i].before = frames[i].before
  BY TopChange DEF Top
<1> SUFFICES ASSUME NEW j \in 1 .. Len(frames), frames[j].onErr = "else"
             PROVE  /\ Excuses \cap failures' \subseteq frames[j].before
                    /\ \A i \in 1 .. j - 1 : Excuses \cap frames'[i].before \subseteq frames[j].before
  BY <1>1 DEF ExcusesInv
<1>2. Excuses \cap failures \subseteq frames[j].before
      /\ \A i \in 1 .. j - 1 : Excuses \cap frames[i].before \subseteq frames[j].before
  BY DEF ExcusesInv
<1>3. \A i \in 1 .. j - 1 : i \in 1 .. Len(frames)
  BY <1>1
<1> QED BY <1>1, <1>2, <1>3

\* What a safe call may not add to the failures.
LEMMA SafeFails ==
    ASSUME NEW k, NEW p, Running(frames, 1, k, p), NEW x,
           k.safe => x \notin Excuses, failures' = failures \cup {x}
    PROVE  \/ Excuses \cap failures' \subseteq failures
           \/ \A j \in 1 .. Len(frames) : frames[j].onErr # "else"
<1>1. CASE k.safe
  BY <1>1
<1>2. CASE ~k.safe
  BY <1>2 DEF Running
<1> QED BY <1>1, <1>2

LEMMA RemovedRest ==
    ASSUME ReturnInv, CallsInv, phase = "building", Top.todo # <<>>, Now.op # "defer",
           NEW f, WithTop(f), f.undo = Top.undo, f.todo = Tail(Top.todo),
           NEW d, Removed(d)
    PROVE  Removed(d)'
<1>1. CASE Guarded("rm", d, UnguardedSteps)
  BY <1>1, GuardRest DEF Removed, UnguardedSteps
<1>2. CASE Registered("rmFailed", d)
  BY <1>2, SameUndo DEF Removed
<1>3. ~HandOver(d) /\ ~HandedOver(d)
  BY DEF HandOver, HandedOver
<1> QED BY <1>1, <1>2, <1>3 DEF Removed

LEMMA RemovedReturn ==
    ASSUME ReturnInv, CallsInv, phase = "building", Top.todo # <<>>, Now.op \notin {"defer", "put", "edit"},
           NEW f, WithTop(f), f.undo = Top.undo,
           NEW d, Removed(d)
    PROVE  Removed(d)' \/ (Now.op \in {"try", "chdir"} /\ Now.arg \in UnguardedSteps)
<1>1. CASE Guarded("rm", d, UnguardedSteps)
  BY <1>1, GuardReturn DEF Removed, UnguardedSteps
<1>2. CASE Registered("rmFailed", d)
  BY <1>2, SameUndo DEF Removed
<1>3. ~HandOver(d) /\ ~HandedOver(d)
  BY DEF HandOver, HandedOver
<1> QED BY <1>1, <1>2, <1>3 DEF Removed

\* Whether the step works or fails, what was taken before stays guarded, or a
\* failure excuses it.
LEMMA ReturnCovers ==
    ASSUME ReturnInv, FoundInv, phase = "building", Top.todo # <<>>,
           Now.op \notin {"defer", "put", "edit"},
           NEW f, WithTop(f), f.undo = Top.undo,
           failures \subseteq failures', Now.op \in {"try", "chdir"} => Now.arg \in failures',
           UNCHANGED <<workDir, env, temps, stuck>>, UNCHANGED outerVars,
           \A g \in touched' \cap UserFiles : g \in touched \/ Registered("file", g)
    PROVE  TempsInv' /\ EnvInv' /\ FilesInv' /\ DirInv'
<1>1. /\ workDir' = workDir /\ env' = env /\ temps' = temps /\ stuck' = stuck
      /\ home' = home /\ phase' = phase /\ KeptVariables' = KeptVariables
  BY SameTarget
<1>2. CallsInv /\ TempsInv /\ EnvInv /\ FilesInv /\ DirInv
  BY DEF FoundInv
<1>3. TempsInv'
  <2> SUFFICES ASSUME UnguardedSteps \cap failures' = {}, NEW d \in temps, d \notin stuck
               PROVE  Removed(d)'
    BY <1>1 DEF TempsInv, UnguardedSteps
  <2>1. Removed(d)
    BY <1>2 DEF TempsInv
  <2> QED BY <1>2, <2>1, RemovedReturn
<1>4. EnvInv'
  <2> SUFFICES ASSUME NEW v \in env, v \notin KeptVariables
               PROVE  Guarded("env", v, {})'
    BY <1>1 DEF EnvInv
  <2>1. Guarded("env", v, {})
    BY <1>2 DEF EnvInv
  <2> QED BY <1>2, <2>1, GuardReturn
<1>5. FilesInv'
  <2> SUFFICES ASSUME NEW g \in touched' \cap UserFiles, g \notin stuck, Pardoned(g) \cap failures' = {}
               PROVE  Guarded("file", g, Pardoned(g))'
    BY <1>1 DEF FilesInv, Pardoned, UserFiles
  <2>1. Guarded("file", g, Pardoned(g))
    <3>1. CASE g \in touched
      BY <1>2, <3>1 DEF FilesInv
    <3>2. CASE Registered("file", g)
      BY <3>2 DEF Guarded
    <3> QED BY <3>1, <3>2
  <2>2. Guarded("file", g, Pardoned(g))' \/ (Now.op \in {"try", "chdir"} /\ Now.arg \in Pardoned(g))
    <3>1. PICK w : w = Pardoned(g)
      OBVIOUS
    <3>2. Guarded("file", g, w)' \/ (Now.op \in {"try", "chdir"} /\ Now.arg \in w)
      BY <1>2, <2>1, <3>1, GuardReturn
    <3>3. Pardoned(g)' = w
      BY <3>1 DEF Pardoned
    <3> QED BY <3>1, <3>2, <3>3
  <2> QED BY <2>2
<1>6. DirInv'
  <2> SUFFICES ASSUME workDir # home, "cwd" \notin stuck
               PROVE  workDir = "work" /\ Guarded("chdir", "cwd", {})'
    BY <1>1 DEF DirInv
  <2>1. workDir = "work" /\ Guarded("chdir", "cwd", {})
    BY <1>2 DEF DirInv
  <2> QED BY <1>2, <2>1, GuardReturn
<1> QED BY <1>3, <1>4, <1>5, <1>6


LEMMA FailKeeps == ASSUME ReturnInv, FoundInv, StepFails \/ RaiseError PROVE FoundInv'
<1>1. /\ phase = "building" /\ Top.todo # <<>> /\ Now.op \in {"try", "mktemp", "chdir", "raise"}
      /\ UNCHANGED <<workDir, env, touched, temps, stuck>> /\ UNCHANGED outerVars
      /\ \/ Now.op = "raise" /\ failures' = failures
         \/ Now.op # "raise" /\ failures' = failures \cup {Now.arg}
  BY DEF StepFails, RaiseError, Doing
<1>2. CallsInv /\ ExcusesInv /\ PhaseInv
  BY DEF FoundInv
<1>3. PICK kind : Return(kind)
  BY DEF StepFails, RaiseError
<1>4. PICK f : f = [Top EXCEPT !.todo = <<>>, !.err = @ \cup {kind}]
  OBVIOUS
<1>5. IsFrame(Top)
  BY <1>1, TopFacts DEF GoodFrame
<1>6. /\ f.onErr = Top.onErr /\ f.before = Top.before /\ f.alt = Top.alt /\ f.todo = <<>> /\ f.undo = Top.undo
      /\ WithTop(f)
  BY <1>3, <1>4, <1>5 DEF IsFrame, Return
<1>7. PICK k, p : /\ Running(frames, 1, k, p) /\ Placed(1, k, p) /\ Sound(Now, Tail(Top.todo), k, p)
                  /\ \A j \in 1 .. Len(Top.undo) : DeferSound(Top.undo[j], k)
                  /\ IsRow(Top.undo)
  BY <1>1, <1>2, NextStep
<1>8. CallsInv'
  BY <1>1, <1>2, <1>6, <1>7, FineNone, SameTarget, TopGoesOn
<1>9. ExcusesInv'
  <2>1. \/ Excuses \cap failures' \subseteq failures
        \/ \A j \in 1 .. Len(frames) : frames[j].onErr # "else"
    <3>1. CASE failures' = failures
      BY <3>1
    <3>2. CASE failures' = failures \cup {Now.arg} /\ Now.op # "raise"
      <4>1. k.safe => Now.arg \notin Excuses
        BY <1>1, <1>7, <3>2 DEF Sound
      <4> QED BY <1>7, <3>2, <4>1, SafeFails
    <3> QED BY <1>1, <3>1, <3>2
  <2> QED BY <1>1, <1>2, <1>6, <2>1, ExcusesStay
<1>10. TempsInv' /\ EnvInv' /\ FilesInv' /\ DirInv'
  <2>1. failures \subseteq failures' /\ (Now.op \in {"try", "chdir"} => Now.arg \in failures')
    BY <1>1
  <2> QED BY <1>1, <1>6, <2>1, ReturnCovers
<1>11. PhaseInv'
  <2>1. InstalledInCopy'
    BY <1>1, <1>2, SameTarget DEF PhaseInv, InstalledInCopy
  <2> QED BY <1>1, <1>2, <2>1, PhaseStays
<1> QED BY <1>8, <1>9, <1>10, <1>11 DEF FoundInv

LEMMA AssignFound == ASSUME ReturnInv, FoundInv, AssignError PROVE FoundInv'
<1>1. /\ phase = "building" /\ Top.todo # <<>> /\ Now.op = "assign"
      /\ UNCHANGED <<workDir, env, touched, temps, stuck>> /\ UNCHANGED outerVars
      /\ failures' = failures \/ failures' = failures \cup {Now.arg}
  BY DEF AssignError, Doing
<1>2. CallsInv /\ ExcusesInv /\ PhaseInv
  BY DEF FoundInv
<1>3. PICK err : WithTop([Rest EXCEPT !.err = err])
  BY DEF AssignError
<1>4. PICK f : f = [Rest EXCEPT !.err = err]
  OBVIOUS
<1>5. /\ f.onErr = Top.onErr /\ f.before = Top.before /\ f.alt = Top.alt /\ f.todo = Tail(Top.todo)
      /\ f.undo = Top.undo /\ WithTop(f)
  BY <1>1, <1>3, <1>4, RestFacts DEF IsFrame
<1>6. PICK k, p : /\ Running(frames, 1, k, p) /\ Placed(1, k, p) /\ Sound(Now, Tail(Top.todo), k, p)
                  /\ Fine(Tail(Top.todo), k, After(Now, p))
                  /\ "moved" \in p => workDir = "work"
                  /\ \A g \in p \cap UserFiles : \E j \in 1 .. Len(Top.undo) : Undoes(Top.undo[j], "file", g)
                  /\ \A j \in 1 .. Len(Top.undo) : DeferSound(Top.undo[j], k)
                  /\ IsRow(Top.undo)
  BY <1>1, <1>2, NextStep
<1>7. CallsInv'
  <2>1. After(Now, p) = p
    BY <1>1 DEF After
  <2> QED BY <1>1, <1>2, <1>5, <1>6, <2>1, SameTarget, TopGoesOn
<1>8. ExcusesInv'
  <2>1. ~k.safe
    BY <1>1, <1>6 DEF Sound
  <2>2. \A j \in 1 .. Len(frames) : frames[j].onErr # "else"
    BY <1>6, <2>1 DEF Running
  <2> QED BY <1>1, <1>2, <1>5, <2>2, ExcusesStay
<1>9. TempsInv' /\ EnvInv' /\ FilesInv' /\ DirInv'
  BY <1>1, <1>5, ReturnCovers
<1>10. PhaseInv'
  <2>1. InstalledInCopy'
    BY <1>1, <1>2, SameTarget DEF PhaseInv, InstalledInCopy
  <2> QED BY <1>1, <1>2, <2>1, PhaseStays
<1> QED BY <1>7, <1>8, <1>9, <1>10 DEF FoundInv

LEMMA RunFound == ASSUME ReturnInv, FoundInv, RunCommand PROVE FoundInv'
<1>1. /\ phase = "building" /\ Top.todo # <<>> /\ Now.op = "run"
      /\ UNCHANGED <<workDir, env, temps, stuck>> /\ UNCHANGED outerVars
      /\ failures' = failures \/ failures' = failures \cup {Now.arg[2]}
      /\ touched' = IF InTarget(Now.arg[1]) THEN touched \cup {Now.arg[2]} ELSE touched
  BY DEF RunCommand, Doing
<1>2. CallsInv /\ ExcusesInv /\ PhaseInv
  BY DEF FoundInv
<1>3. PICK k, p : /\ Running(frames, 1, k, p) /\ Placed(1, k, p) /\ Sound(Now, Tail(Top.todo), k, p)
                  /\ Fine(Tail(Top.todo), k, After(Now, p))
                  /\ "moved" \in p => workDir = "work"
                  /\ \A g \in p \cap UserFiles : \E j \in 1 .. Len(Top.undo) : Undoes(Top.undo[j], "file", g)
                  /\ \A j \in 1 .. Len(Top.undo) : DeferSound(Top.undo[j], k)
                  /\ IsRow(Top.undo)
  BY <1>1, <1>2, NextStep
<1>4. After(Now, p) = p
  BY <1>1 DEF After
<1>5. PICK f : /\ WithTop(f) /\ f.onErr = Top.onErr /\ f.before = Top.before /\ f.alt = Top.alt
               /\ f.undo = Top.undo /\ Fine(f.todo, k, p)
  <2>1. CASE WithTop(Rest)
    BY <1>1, <1>3, <1>4, <2>1, RestFacts
  <2>2. CASE Return("failed")
    <3>1. PICK f : f = [Top EXCEPT !.todo = <<>>, !.err = @ \cup {"failed"}]
      OBVIOUS
    <3>2. IsFrame(Top)
      BY <1>1, TopFacts DEF GoodFrame
    <3>3. /\ f.onErr = Top.onErr /\ f.before = Top.before /\ f.alt = Top.alt /\ f.todo = <<>>
          /\ f.undo = Top.undo /\ WithTop(f)
      BY <2>2, <3>1, <3>2 DEF IsFrame, Return
    <3> QED BY <3>3, FineNone
  <2> QED BY <2>1, <2>2 DEF RunCommand
<1>6. CallsInv'
  BY <1>1, <1>2, <1>3, <1>5, SameTarget, TopGoesOn
<1>7. ExcusesInv'
  <2>1. k.safe => Now.arg[2] \notin Excuses
    BY <1>1, <1>3 DEF Sound
  <2>2. \/ Excuses \cap failures' \subseteq failures
        \/ \A j \in 1 .. Len(frames) : frames[j].onErr # "else"
    <3>1. CASE failures' = failures
      BY <3>1
    <3>2. CASE failures' = failures \cup {Now.arg[2]}
      BY <1>3, <2>1, <3>2, SafeFails
    <3> QED BY <1>1, <3>1, <3>2
  <2> QED BY <1>1, <1>2, <1>5, <2>2, ExcusesStay
<1>8. ASSUME InTarget(Now.arg[1])
      PROVE  Now.arg[2] \in InPlace(k) \cup (p \cap UserFiles)
  BY <1>1, <1>3, <1>8 DEF Sound, InTarget
<1>9. \A g \in touched' \cap UserFiles : g \in touched \/ Registered("file", g)
  <2> SUFFICES ASSUME NEW g \in UserFiles, g = Now.arg[2], InTarget(Now.arg[1])
               PROVE  Registered("file", g)
    BY <1>1
  <2>1. g \in p
    BY <1>8 DEF InPlace, UserFiles, InstallsInPlace
  <2>2. PICK j \in 1 .. Len(Top.undo) : Undoes(Top.undo[j], "file", g)
    BY <1>3, <2>1
  <2>3. 1 \in 1 .. Len(frames)
    BY <1>1, <1>2, TopRuns
  <2> QED BY <2>2, <2>3 DEF Registered, Top
<1>10. TempsInv' /\ EnvInv' /\ FilesInv' /\ DirInv'
  BY <1>1, <1>5, <1>9, ReturnCovers
<1>11. PhaseInv'
  <2>1. InstalledInCopy'
    <3>1. k.cur = options.curation /\ options' = options
      BY <1>1, <1>3, SameTarget DEF Placed
    <3>2. InPlace(k) = InstallsInPlace \cup (IF options.curation THEN {} ELSE {"yarn install"})
      BY <3>1 DEF InPlace
    <3>3. touched' \subseteq touched \cup UserFiles \cup InPlace(k)
      BY <1>1, <1>8
    <3> QED BY <1>2, <3>1, <3>2, <3>3 DEF PhaseInv, InstalledInCopy
  <2> QED BY <1>1, <1>2, <2>1, PhaseStays
<1> QED BY <1>6, <1>7, <1>10, <1>11 DEF FoundInv

LEMMA ChooseFound == ASSUME ReturnInv, FoundInv, Choose PROVE FoundInv'
<1>1. /\ phase = "building" /\ Top.todo # <<>> /\ Now.op = "choice"
      /\ UNCHANGED <<workDir, env, touched, temps, stuck, failures>> /\ UNCHANGED outerVars
  BY DEF Choose, Doing
<1>2. CallsInv /\ ExcusesInv /\ PhaseInv
  BY DEF FoundInv
<1>3. PICK branch \in {Now.body, Now.alt} : WithTop([Rest EXCEPT !.todo = branch \o @])
  BY DEF Choose
<1>4. PICK f : f = [Rest EXCEPT !.todo = branch \o @]
  OBVIOUS
<1>5. /\ f.onErr = Top.onErr /\ f.before = Top.before /\ f.alt = Top.alt /\ f.todo = branch \o Tail(Top.todo)
      /\ f.undo = Top.undo /\ WithTop(f)
  BY <1>1, <1>3, <1>4, RestFacts DEF IsFrame
<1>6. PICK k, p : /\ Running(frames, 1, k, p) /\ Placed(1, k, p)
                  /\ "moved" \in p => workDir = "work"
                  /\ \A g \in p \cap UserFiles : \E j \in 1 .. Len(Top.undo) : Undoes(Top.undo[j], "file", g)
                  /\ \A j \in 1 .. Len(Top.undo) : DeferSound(Top.undo[j], k)
                  /\ IsRow(Top.undo)
  BY <1>1, <1>2, NextStep
<1>7. Fine(f.todo, k, p)
  <2>1. Fine(Top.todo, k, p)
    BY <1>6 DEF Running, Top
  <2> QED BY <1>1, <1>3, <1>5, <2>1, FineUse DEF Now
<1>8. CallsInv'
  BY <1>1, <1>2, <1>5, <1>6, <1>7, SameTarget, TopGoesOn
<1>9. ExcusesInv'
  BY <1>1, <1>2, <1>5, ExcusesStay
<1>10. TempsInv' /\ EnvInv' /\ FilesInv' /\ DirInv'
  BY <1>1, <1>5, ReturnCovers
<1>11. PhaseInv'
  <2>1. InstalledInCopy'
    BY <1>1, <1>2, SameTarget DEF PhaseInv, InstalledInCopy
  <2> QED BY <1>1, <1>2, <2>1, PhaseStays
<1> QED BY <1>8, <1>9, <1>10, <1>11 DEF FoundInv


\* What a step takes is registered soon after.
LEMMA WorksFound == ASSUME ReturnInv, FoundInv, StepWorks PROVE FoundInv'
<1>1. /\ phase = "building" /\ Top.todo # <<>> /\ Now.op \in {"try", "mktemp", "chdir", "put", "edit"}
      /\ WithTop(Rest) /\ stuck' = stuck /\ failures' = failures /\ UNCHANGED outerVars
      /\ temps' = IF Now.op = "mktemp" THEN temps \cup {Now.arg} ELSE temps
      /\ workDir' = IF Now.op = "chdir" THEN Now.arg ELSE workDir
      /\ env' = IF Now.op = "put" THEN env \cup {Now.arg} ELSE env
      /\ touched' = IF Now.op = "edit" THEN touched \cup {Now.arg} ELSE touched
  BY DEF StepWorks, Doing
<1>2. CallsInv /\ ExcusesInv /\ TempsInv /\ EnvInv /\ FilesInv /\ DirInv /\ PhaseInv
  BY DEF FoundInv
<1>3. PICK f : f = Rest
  OBVIOUS
<1>4. /\ f.onErr = Top.onErr /\ f.before = Top.before /\ f.alt = Top.alt /\ f.todo = Tail(Top.todo)
      /\ f.undo = Top.undo /\ WithTop(f)
  BY <1>1, <1>3, RestFacts
<1>5. PICK k, p : /\ Running(frames, 1, k, p) /\ Placed(1, k, p) /\ Sound(Now, f.todo, k, p)
                  /\ Fine(f.todo, k, After(Now, p))
                  /\ "moved" \in p => workDir = "work"
                  /\ \A g \in p \cap UserFiles : \E j \in 1 .. Len(Top.undo) : Undoes(Top.undo[j], "file", g)
                  /\ \A j \in 1 .. Len(Top.undo) : DeferSound(Top.undo[j], k)
                  /\ IsRow(Top.undo)
                  /\ k.builder => Len(frames) = 1
  BY <1>1, <1>2, <1>4, NextStep
<1>6. options' = options /\ home' = home /\ phase' = phase /\ KeptVariables' = KeptVariables
  BY <1>1, SameTarget
<1>7. Top' = f /\ frames' # <<>> /\ Len(frames') = Len(frames)
  BY <1>1, <1>4, TopChange
<1>8. CallsInv'
  <2>1. After(Now, p) \cap UserFiles = p \cap UserFiles
    BY <1>1 DEF After, UserFiles
  <2>2. workDir' = workDir \/ Len(frames) = 1
    BY <1>1, <1>5 DEF Sound
  <2>3. "moved" \in After(Now, p) => workDir' = "work"
    BY <1>1, <1>5 DEF After, Sound
  <2> QED BY <1>1, <1>2, <1>4, <1>5, <1>6, <2>1, <2>2, <2>3, TopGoesOn
<1>9. ExcusesInv'
  BY <1>1, <1>2, <1>4, ExcusesStay
<1>10. TempsInv'
  <2> SUFFICES ASSUME UnguardedSteps \cap failures = {}, NEW d \in temps', d \notin stuck
               PROVE  Removed(d)'
    BY <1>1 DEF TempsInv, UnguardedSteps
  <2>1. CASE d \in temps
    <3>1. Removed(d)
      BY <1>2, <2>1 DEF TempsInv
    <3> QED BY <1>1, <1>2, <1>4, <3>1, RemovedRest
  <2>2. CASE Now.op = "mktemp" /\ d = Now.arg
    <3>1. CASE Soon("rm", d, UnguardedSteps, f.todo)
      <4>1. Guarded("rm", d, UnguardedSteps)'
        BY <1>7, <3>1 DEF Guarded, Coming, UnguardedSteps
      <4> QED BY <4>1 DEF Removed, UnguardedSteps
    <3>2. CASE /\ f.todo # <<>> /\ Head(f.todo).op = "defer" /\ Head(f.todo).arg.act = "rmFailed"
               /\ Head(f.todo).arg.arg = {d}
      <4>1. HandOver(d)'
        BY <1>7, <3>2 DEF HandOver, Now
      <4> QED BY <4>1 DEF Removed
    <3> QED BY <1>5, <2>2, <3>1, <3>2 DEF Sound
  <2> QED BY <1>1, <2>1, <2>2
<1>11. EnvInv'
  <2> SUFFICES ASSUME NEW v \in env', v \notin KeptVariables
               PROVE  Guarded("env", v, {})'
    BY <1>6 DEF EnvInv
  <2>1. CASE v \in env
    <3>1. Guarded("env", v, {})
      BY <1>2, <2>1 DEF EnvInv
    <3> QED BY <1>1, <1>2, <1>4, <3>1, GuardRest
  <2>2. CASE Now.op = "put" /\ v = Now.arg
    <3>1. v \notin k.kept
      BY <1>5 DEF Placed
    <3>2. Soon("env", v, {}, f.todo)
      BY <1>5, <2>2, <3>1 DEF Sound
    <3> QED BY <1>7, <3>2 DEF Guarded, Coming
  <2> QED BY <1>1, <2>1, <2>2
<1>12. FilesInv'
  <2> SUFFICES ASSUME NEW g \in touched' \cap UserFiles, g \notin stuck, Pardoned(g) \cap failures = {}
               PROVE  Guarded("file", g, Pardoned(g))'
    BY <1>1 DEF FilesInv, Pardoned, UserFiles
  <2>0. PICK w : w = Pardoned(g)
    OBVIOUS
  <2>1. Guarded("file", g, w)'
    <3>1. CASE g \in touched
      <4>1. Guarded("file", g, w)
        BY <1>2, <2>0, <3>1 DEF FilesInv
      <4> QED BY <1>1, <1>2, <1>4, <4>1, GuardRest
    <3>2. CASE Now.op = "edit" /\ g = Now.arg
      <4>1. Soon("file", g, w, f.todo)
        BY <1>5, <2>0, <3>2 DEF Sound
      <4> QED BY <1>7, <4>1 DEF Guarded, Coming
    <3> QED BY <1>1, <3>1, <3>2
  <2>2. Pardoned(g)' = w
    BY <2>0 DEF Pardoned
  <2> QED BY <2>1, <2>2
<1>13. DirInv'
  <2> SUFFICES ASSUME workDir' # home, "cwd" \notin stuck
               PROVE  workDir' = "work" /\ Guarded("chdir", "cwd", {})'
    BY <1>1, <1>6 DEF DirInv
  <2>1. CASE Now.op = "chdir"
    <3>1. workDir' = "work" /\ Soon("chdir", "cwd", {}, f.todo)
      BY <1>1, <1>5, <2>1 DEF Sound
    <3> QED BY <1>7, <3>1 DEF Guarded, Coming
  <2>2. CASE Now.op # "chdir"
    <3>1. workDir' = workDir /\ workDir = "work" /\ Guarded("chdir", "cwd", {})
      BY <1>1, <1>2, <2>2 DEF DirInv
    <3> QED BY <1>1, <1>2, <1>4, <3>1, GuardRest
  <2> QED BY <2>1, <2>2
<1>14. PhaseInv'
  <2>1. InstalledInCopy'
    <3>1. touched' \subseteq touched \cup UserFiles
      BY <1>1, <1>5 DEF Sound
    <3> QED BY <1>2, <1>6, <3>1 DEF PhaseInv, InstalledInCopy
  <2> QED BY <1>1, <1>2, <2>1, PhaseStays
<1> QED BY <1>8, <1>9, <1>10, <1>11, <1>12, <1>13, <1>14 DEF FoundInv

LEMMA DeferFound == ASSUME ReturnInv, FoundInv, Defer PROVE FoundInv'
<1>1. /\ phase = "building" /\ Top.todo # <<>> /\ Now.op = "defer"
      /\ workDir' = workDir /\ env' = env /\ touched' = touched /\ temps' = temps /\ stuck' = stuck
      /\ failures' = failures /\ UNCHANGED outerVars
      /\ WithTop([Rest EXCEPT !.undo = <<Now.arg>> \o @])
  BY DEF Defer, Doing
<1>2. CallsInv /\ ExcusesInv /\ TempsInv /\ EnvInv /\ FilesInv /\ DirInv /\ PhaseInv
  BY DEF FoundInv
<1>3. PICK f : f = [Rest EXCEPT !.undo = <<Now.arg>> \o @]
  OBVIOUS
<1>4. /\ f.onErr = Top.onErr /\ f.before = Top.before /\ f.alt = Top.alt /\ f.todo = Tail(Top.todo)
      /\ f.undo = <<Now.arg>> \o Top.undo /\ WithTop(f)
  BY <1>1, <1>3, RestFacts DEF IsFrame
<1>5. PICK k, p : /\ Running(frames, 1, k, p) /\ Placed(1, k, p) /\ Sound(Now, f.todo, k, p)
                  /\ Fine(f.todo, k, After(Now, p))
                  /\ "moved" \in p => workDir = "work"
                  /\ \A g \in p \cap UserFiles : \E j \in 1 .. Len(Top.undo) : Undoes(Top.undo[j], "file", g)
                  /\ \A j \in 1 .. Len(Top.undo) : DeferSound(Top.undo[j], k)
                  /\ IsRow(Top.undo)
  BY <1>1, <1>2, <1>4, NextStep
<1>6. options' = options /\ home' = home /\ phase' = phase /\ KeptVariables' = KeptVariables
  BY <1>1, SameTarget
<1>7. /\ IsRow(f.undo) /\ Len(Top.undo) \in Nat /\ Len(f.undo) = Len(Top.undo) + 1
      /\ f.undo[1] = Now.arg /\ \A j \in 1 .. Len(Top.undo) : f.undo[j + 1] = Top.undo[j]
  BY <1>4, <1>5, RowPlus
<1>8. \A j \in 1 .. Len(f.undo) : j = 1 \/ (j - 1 \in 1 .. Len(Top.undo) /\ f.undo[j] = Top.undo[j - 1])
  <2> SUFFICES ASSUME NEW j \in 1 .. Len(f.undo), j # 1
               PROVE  j - 1 \in 1 .. Len(Top.undo) /\ f.undo[j] = Top.undo[j - 1]
    OBVIOUS
  <2>1. j - 1 \in 1 .. Len(Top.undo) /\ j - 1 + 1 = j
    BY <1>7
  <2> QED BY <1>7, <2>1
<1>9. CallsInv'
  <2>1. \A j \in 1 .. Len(f.undo) : DeferSound(f.undo[j], k)
    <3>1. DeferSound(Now.arg, k)
      BY <1>1, <1>5 DEF Sound
    <3> QED BY <1>5, <1>7, <1>8, <3>1
  <2>2. ASSUME NEW g \in After(Now, p) \cap UserFiles
        PROVE  \E j \in 1 .. Len(f.undo) : Undoes(f.undo[j], "file", g)
    <3>1. CASE g \in p
      <4>1. PICK j \in 1 .. Len(Top.undo) : Undoes(Top.undo[j], "file", g)
        BY <1>5, <2>2, <3>1
      <4>2. j + 1 \in 1 .. Len(f.undo) /\ f.undo[j + 1] = Top.undo[j]
        BY <1>7
      <4> QED BY <4>1, <4>2
    <3>2. CASE g \notin p
      <4>1. Undoes(Now.arg, "file", g)
        BY <1>1, <2>2, <3>2 DEF After, Undoes
      <4>2. 1 \in 1 .. Len(f.undo)
        BY <1>7
      <4> QED BY <1>7, <4>1, <4>2
    <3> QED BY <3>1, <3>2
  <2>3. "moved" \in After(Now, p) => workDir' = "work"
    BY <1>1, <1>5 DEF After, UserFiles
  <2> QED BY <1>1, <1>2, <1>4, <1>5, <1>6, <1>7, <2>1, <2>2, <2>3, TopGoesOn
<1>10. ExcusesInv'
  BY <1>1, <1>2, <1>4, ExcusesStay
<1>11. ASSUME NEW act, NEW x
       PROVE  /\ Undoes(Now.arg, act, x) => Registered(act, x)'
              /\ Registered(act, x) => Registered(act, x)'
              /\ \A w : Guarded(act, x, w) => Guarded(act, x, w)'
  BY <1>1, <1>2, <1>4, GuardDefer
<1>12. TempsInv'
  <2> SUFFICES ASSUME UnguardedSteps \cap failures = {}, NEW d \in temps, d \notin stuck
               PROVE  Removed(d)'
    BY <1>1 DEF TempsInv, UnguardedSteps
  <2>1. Removed(d)
    BY <1>2 DEF TempsInv
  <2>2. CASE Guarded("rm", d, UnguardedSteps)
    BY <1>11, <2>2 DEF Removed, UnguardedSteps
  <2>3. CASE Registered("rmFailed", d)
    BY <1>11, <2>3 DEF Removed
  <2>4. CASE HandOver(d)
    BY <1>11, <2>4 DEF Removed, HandOver, Undoes
  <2>5. ~HandedOver(d)
    BY <1>1 DEF HandedOver
  <2> QED BY <2>1, <2>2, <2>3, <2>4, <2>5 DEF Removed
<1>13. EnvInv'
  BY <1>1, <1>2, <1>6, <1>11 DEF EnvInv
<1>14. FilesInv'
  <2> SUFFICES ASSUME NEW g \in touched \cap UserFiles, g \notin stuck, Pardoned(g) \cap failures = {}
               PROVE  Guarded("file", g, Pardoned(g))'
    BY <1>1 DEF FilesInv, Pardoned, UserFiles
  <2>1. PICK w : w = Pardoned(g)
    OBVIOUS
  <2>2. Guarded("file", g, w)'
    BY <1>2, <1>11, <2>1 DEF FilesInv
  <2>3. Pardoned(g)' = w
    BY <2>1 DEF Pardoned
  <2> QED BY <2>2, <2>3
<1>15. DirInv'
  BY <1>1, <1>2, <1>6, <1>11 DEF DirInv
<1>16. PhaseInv'
  <2>1. InstalledInCopy'
    BY <1>1, <1>2, <1>6 DEF PhaseInv, InstalledInCopy
  <2> QED BY <1>1, <1>2, <2>1, PhaseStays
<1> QED BY <1>9, <1>10, <1>12, <1>13, <1>14, <1>15, <1>16 DEF FoundInv


\* The deferred functions of the innermost call that are left.
LEMMA UndoStep ==
    ASSUME ReturnInv, CallsInv, Undoing
    PROVE  /\ phase = "building" /\ Top.todo = <<>> /\ Top.undo # <<>>
           /\ IsRow(Tail(Top.undo)) /\ Len(Tail(Top.undo)) = Len(Top.undo) - 1
           /\ Len(Top.undo) \in Nat \ {0} /\ Deferred = Top.undo[1]
           /\ \A j \in 1 .. Len(Top.undo) - 1 : Tail(Top.undo)[j] = Top.undo[j + 1] /\ j + 1 \in 1 .. Len(Top.undo)
           /\ \E k, p : /\ Running(frames, 1, k, p) /\ Placed(1, k, p) /\ DeferSound(Deferred, k)
                        /\ \A j \in 1 .. Len(Top.undo) : DeferSound(Top.undo[j], k)
                        /\ k.builder => Len(frames) = 1
<1>1. phase = "building" /\ Top.todo = <<>> /\ Top.undo # <<>>
  BY DEF Undoing
<1>2. PICK k, p : Running(frames, 1, k, p) /\ Placed(1, k, p)
  BY <1>1, TopRuns
<1>3. IsRow(Top.undo)
  BY <1>1, TopRuns
<1>4. /\ Len(Top.undo) \in Nat \ {0} /\ Deferred = Top.undo[1] /\ IsRow(Tail(Top.undo))
      /\ Len(Tail(Top.undo)) = Len(Top.undo) - 1
      /\ \A j \in 1 .. Len(Top.undo) - 1 : Tail(Top.undo)[j] = Top.undo[j + 1]
  BY <1>1, <1>3, RowFacts DEF Deferred
<1>5. \A j \in 1 .. Len(Top.undo) : DeferSound(Top.undo[j], k)
  BY <1>2 DEF Running, Top
<1>6. DeferSound(Deferred, k)
  BY <1>4, <1>5
<1>7. k.builder => Len(frames) = 1
  BY <1>2 DEF Running
<1>8. \A j \in 1 .. Len(Top.undo) - 1 : j + 1 \in 1 .. Len(Top.undo)
  BY <1>4
<1> QED BY <1>1, <1>2, <1>4, <1>5, <1>6, <1>7, <1>8

LEMMA UndoGoesOn ==
    ASSUME ReturnInv, CallsInv, Undoing, UNCHANGED outerVars,
           NEW f, WithTop(f), f.onErr = Top.onErr, f.alt = Top.alt, f.todo = <<>>, f.undo = Tail(Top.undo),
           workDir' = workDir \/ Deferred.act = "chdir"
    PROVE  CallsInv'
<1>1. PICK k, p : /\ Running(frames, 1, k, p) /\ Placed(1, k, p) /\ DeferSound(Deferred, k)
                  /\ \A j \in 1 .. Len(Top.undo) : DeferSound(Top.undo[j], k)
                  /\ k.builder => Len(frames) = 1
  BY UndoStep
<1>2. \A j \in 1 .. Len(f.undo) : DeferSound(f.undo[j], k)
  BY <1>1, UndoStep
<1>3. workDir' = workDir \/ Len(frames) = 1
  BY <1>1 DEF DeferSound
<1> QED BY <1>1, <1>2, <1>3, UndoStep, FineNone, SameTarget, TopGoesOn

\* A deferred function gives back what was taken.
LEMMA UndoFound == ASSUME ReturnInv, FoundInv, UndoWorks PROVE FoundInv'
<1>1. /\ Undoing /\ WithTop(Undone) /\ stuck' = stuck /\ failures' = failures /\ UNCHANGED outerVars
      /\ workDir' = IF Deferred.act = "chdir" THEN home ELSE workDir
      /\ temps' = IF Deferred.act = "rm" \/ (Deferred.act = "rmFailed" /\ Top.err # {})
                  THEN temps \ Deferred.arg ELSE temps
      /\ env' = IF Deferred.act = "env" THEN env \ Deferred.arg ELSE env
      /\ touched' = IF Deferred.act = "file" THEN touched \ Deferred.arg ELSE touched
  BY DEF UndoWorks
<1>2. CallsInv /\ ExcusesInv /\ TempsInv /\ EnvInv /\ FilesInv /\ DirInv /\ PhaseInv
  BY DEF FoundInv
<1>3. phase = "building" /\ Top.todo = <<>>
  BY <1>1 DEF Undoing
<1>4. PICK f : f = Undone
  OBVIOUS
<1>5. IsFrame(Top)
  BY <1>3, TopFacts DEF GoodFrame
<1>6. /\ f.onErr = Top.onErr /\ f.before = Top.before /\ f.alt = Top.alt /\ f.todo = <<>>
      /\ f.undo = Tail(Top.undo) /\ f.err = Top.err /\ WithTop(f)
  BY <1>1, <1>3, <1>4, <1>5 DEF IsFrame, Undone
<1>7. options' = options /\ home' = home /\ phase' = phase /\ KeptVariables' = KeptVariables
  BY <1>1, SameTarget
<1>8. ASSUME NEW act, NEW x
      PROVE  /\ Registered(act, x) => Registered(act, x)' \/ Undoes(Deferred, act, x)
             /\ \A pardoned : ~Coming(act, x, pardoned)
  BY <1>1, <1>2, <1>6, GuardUndone
<1>9. CallsInv'
  BY <1>1, <1>2, <1>6, UndoGoesOn
<1>10. ExcusesInv'
  BY <1>1, <1>2, <1>3, <1>6, ExcusesStay
<1>11. TempsInv'
  <2> SUFFICES ASSUME UnguardedSteps \cap failures = {}, NEW d \in temps', d \notin stuck
               PROVE  Removed(d)'
    BY <1>1 DEF TempsInv, UnguardedSteps
  <2>1. Removed(d) /\ d \in temps
    BY <1>1, <1>2 DEF TempsInv
  <2>2. CASE Guarded("rm", d, UnguardedSteps)
    <3>1. Registered("rm", d)
      BY <1>8, <2>2 DEF Guarded
    <3>2. ~Undoes(Deferred, "rm", d)
      BY <1>1 DEF Undoes
    <3> QED BY <1>8, <3>1, <3>2 DEF Removed, Guarded
  <2>3. CASE Registered("rmFailed", d) /\ ~Undoes(Deferred, "rmFailed", d)
    BY <1>8, <2>3 DEF Removed
  <2>4. CASE Undoes(Deferred, "rmFailed", d)
    <3>1. Top.err = {}
      BY <1>1, <2>4 DEF Undoes
    <3>2. PICK k, p : /\ Running(frames, 1, k, p) /\ DeferSound(Deferred, k)
                      /\ \A j \in 1 .. Len(Top.undo) : DeferSound(Top.undo[j], k)
      BY <1>1, <1>2, UndoStep
    <3>3. d \in k.h /\ \A j \in 1 .. Len(Top.undo) : Top.undo[j].act = "rmFailed"
      BY <2>4, <3>2 DEF DeferSound, Undoes
    <3>4. 1 < Len(frames) /\ frames[1].onErr = "raise" /\ Soon("rm", d, UnguardedSteps, frames[1 + 1].todo)
      BY <3>2, <3>3 DEF Running
    <3>9. Top.onErr = "raise" /\ Soon("rm", d, UnguardedSteps, frames[2].todo)
      BY <3>4 DEF Top
    <3>5. \A j \in 1 .. Len(f.undo) : f.undo[j].act = "rmFailed"
      BY <1>1, <1>2, <1>6, <3>3, UndoStep
    <3>6. /\ Len(frames') = Len(frames) /\ Len(frames) \in Nat \ {0} /\ Top' = f
          /\ \A i \in 2 .. Len(frames) : frames'[i] = frames[i]
      BY <1>3, <1>6, TopChange
    <3>7. frames'[2] = frames[2] /\ Len(frames') > 1
      BY <3>4, <3>6
    <3>8. HandedOver(d)'
      BY <1>6, <3>1, <3>9, <3>5, <3>6, <3>7 DEF HandedOver, UnguardedSteps
    <3> QED BY <3>8 DEF Removed
  <2>5. CASE HandedOver(d)
    <3>1. \A j \in 1 .. Len(f.undo) : f.undo[j].act = "rmFailed"
      BY <1>1, <1>2, <1>6, <2>5, UndoStep DEF HandedOver
    <3>2. /\ Len(frames') = Len(frames) /\ Len(frames) \in Nat \ {0} /\ Top' = f
          /\ \A i \in 2 .. Len(frames) : frames'[i] = frames[i]
      BY <1>3, <1>6, TopChange
    <3>3. frames'[2] = frames[2] /\ Len(frames') > 1
      BY <2>5, <3>2 DEF HandedOver
    <3>4. HandedOver(d)'
      BY <1>6, <2>5, <3>1, <3>2, <3>3 DEF HandedOver, UnguardedSteps
    <3> QED BY <3>4 DEF Removed
  <2>6. ~HandOver(d)
    BY <1>3 DEF HandOver
  <2> QED BY <2>1, <2>2, <2>3, <2>4, <2>5, <2>6 DEF Removed
<1>12. EnvInv'
  <2> SUFFICES ASSUME NEW v \in env', v \notin KeptVariables
               PROVE  Registered("env", v)'
    BY <1>7 DEF EnvInv, Guarded
  <2>1. Registered("env", v)
    BY <1>1, <1>2, <1>8 DEF EnvInv, Guarded
  <2>2. ~Undoes(Deferred, "env", v)
    BY <1>1 DEF Undoes
  <2> QED BY <1>8, <2>1, <2>2
<1>13. FilesInv'
  <2> SUFFICES ASSUME NEW g \in touched' \cap UserFiles, g \notin stuck, Pardoned(g) \cap failures = {}
               PROVE  Registered("file", g)'
    BY <1>1 DEF FilesInv, Guarded, Pardoned, UserFiles
  <2>1. Registered("file", g)
    BY <1>1, <1>2, <1>8 DEF FilesInv, Guarded
  <2>2. ~Undoes(Deferred, "file", g)
    BY <1>1 DEF Undoes
  <2> QED BY <1>8, <2>1, <2>2
<1>14. DirInv'
  <2> SUFFICES ASSUME workDir' # home, "cwd" \notin stuck
               PROVE  workDir' = "work" /\ Registered("chdir", "cwd")'
    BY <1>1, <1>7 DEF DirInv, Guarded
  <2>1. workDir' = workDir /\ Deferred.act # "chdir"
    BY <1>1
  <2>2. workDir = "work" /\ Registered("chdir", "cwd")
    BY <1>2, <1>3, <1>8, <2>1 DEF DirInv, Guarded
  <2>3. ~Undoes(Deferred, "chdir", "cwd")
    BY <2>1 DEF Undoes
  <2> QED BY <1>8, <2>1, <2>2, <2>3
<1>15. PhaseInv'
  <2>1. InstalledInCopy'
    BY <1>1, <1>2, <1>7 DEF PhaseInv, InstalledInCopy
  <2> QED BY <1>1, <1>2, <1>3, <2>1, PhaseStays
<1> QED BY <1>9, <1>10, <1>11, <1>12, <1>13, <1>14, <1>15 DEF FoundInv

\* What it fails to give back is stuck.
LEMMA StuckFound == ASSUME ReturnInv, FoundInv, UndoFails PROVE FoundInv'
<1>1. /\ Undoing /\ stuck' = stuck \cup Deferred.arg /\ UNCHANGED outerVars
      /\ \/ Deferred.act \in {"chdir", "file"}
         \/ Deferred.act = "rm" \/ (Deferred.act = "rmFailed" /\ Top.err # {})
      /\ workDir' = workDir /\ env' = env /\ touched' = touched /\ temps' = temps
      /\ failures' = failures \/ failures' = failures \cup {"undo"}
  BY DEF UndoFails
<1>2. CallsInv /\ ExcusesInv /\ TempsInv /\ EnvInv /\ FilesInv /\ DirInv /\ PhaseInv
  BY DEF FoundInv
<1>3. phase = "building" /\ Top.todo = <<>>
  BY <1>1 DEF Undoing
<1>4. IsFrame(Top)
  BY <1>3, TopFacts DEF GoodFrame
<1>5. PICK f : /\ f.onErr = Top.onErr /\ f.before = Top.before /\ f.alt = Top.alt /\ f.todo = <<>>
               /\ f.undo = Tail(Top.undo) /\ WithTop(f)
  <2>1. CASE WithTop(Undone)
    <3>1. PICK f : f = Undone
      OBVIOUS
    <3>2. /\ f.onErr = Top.onErr /\ f.before = Top.before /\ f.alt = Top.alt /\ f.todo = <<>>
          /\ f.undo = Tail(Top.undo) /\ WithTop(f)
      BY <1>3, <1>4, <2>1, <3>1 DEF IsFrame, Undone
    <3> QED BY <3>2
  <2>2. CASE WithTop([Undone EXCEPT !.err = @ \cup {"failed"}])
    <3>1. PICK f : f = [Undone EXCEPT !.err = @ \cup {"failed"}]
      OBVIOUS
    <3>2. /\ f.onErr = Top.onErr /\ f.before = Top.before /\ f.alt = Top.alt /\ f.todo = <<>>
          /\ f.undo = Tail(Top.undo) /\ WithTop(f)
      BY <1>3, <1>4, <2>2, <3>1 DEF IsFrame, Undone
    <3> QED BY <3>2
  <2> QED BY <2>1, <2>2 DEF UndoFails
<1>6. options' = options /\ home' = home /\ phase' = phase /\ KeptVariables' = KeptVariables
  BY <1>1, SameTarget
<1>7. ASSUME NEW act, NEW x
      PROVE  /\ Registered(act, x) => Registered(act, x)' \/ Undoes(Deferred, act, x)
             /\ \A pardoned : ~Coming(act, x, pardoned)
  BY <1>1, <1>2, <1>5, GuardUndone
<1>8. CallsInv'
  BY <1>1, <1>2, <1>5, UndoGoesOn
<1>9. ExcusesInv'
  <2>1. Excuses \cap failures' \subseteq failures
    BY <1>1 DEF Excuses, UnguardedSteps
  <2> QED BY <1>2, <1>3, <1>5, <2>1, ExcusesStay
<1>10. TempsInv'
  <2> SUFFICES ASSUME UnguardedSteps \cap failures = {}, NEW d \in temps, d \notin stuck'
               PROVE  Removed(d)'
    BY <1>1 DEF TempsInv, UnguardedSteps
  <2>1. Removed(d) /\ d \notin Deferred.arg
    BY <1>1, <1>2 DEF TempsInv
  <2>2. ~Undoes(Deferred, "rm", d) /\ ~Undoes(Deferred, "rmFailed", d)
    BY <2>1 DEF Undoes
  <2>3. CASE Guarded("rm", d, UnguardedSteps) \/ Registered("rmFailed", d)
    BY <1>7, <2>2, <2>3 DEF Removed, Guarded
  <2>4. ~HandedOver(d)
    <3> SUFFICES ASSUME HandedOver(d) PROVE FALSE
      OBVIOUS
    <3>1. Top.err = {} /\ \A j \in 1 .. Len(Top.undo) : Top.undo[j].act = "rmFailed"
      BY DEF HandedOver
    <3>2. Deferred.act = "rmFailed"
      BY <1>1, <1>2, <3>1, UndoStep
    <3> QED BY <1>1, <3>1, <3>2
  <2>5. ~HandOver(d)
    BY <1>3 DEF HandOver
  <2> QED BY <2>1, <2>3, <2>4, <2>5 DEF Removed
<1>11. EnvInv'
  <2> SUFFICES ASSUME NEW v \in env, v \notin KeptVariables
               PROVE  Registered("env", v)'
    BY <1>1, <1>6 DEF EnvInv, Guarded
  <2>1. Registered("env", v)
    BY <1>2, <1>7 DEF EnvInv, Guarded
  <2>2. ~Undoes(Deferred, "env", v)
    BY <1>1 DEF Undoes
  <2> QED BY <1>7, <2>1, <2>2
<1>12. FilesInv'
  <2> SUFFICES ASSUME NEW g \in touched \cap UserFiles, g \notin stuck', Pardoned(g) \cap failures = {}
               PROVE  Registered("file", g)'
    BY <1>1 DEF FilesInv, Guarded, Pardoned, UserFiles
  <2>1. Registered("file", g) /\ ~Undoes(Deferred, "file", g)
    BY <1>1, <1>2, <1>7 DEF FilesInv, Guarded, Undoes
  <2> QED BY <1>7, <2>1
<1>13. DirInv'
  <2> SUFFICES ASSUME workDir # home, "cwd" \notin stuck'
               PROVE  workDir = "work" /\ Registered("chdir", "cwd")'
    BY <1>1, <1>6 DEF DirInv, Guarded
  <2>1. workDir = "work" /\ Registered("chdir", "cwd") /\ ~Undoes(Deferred, "chdir", "cwd")
    BY <1>1, <1>2, <1>3, <1>7 DEF DirInv, Guarded, Undoes
  <2> QED BY <1>7, <2>1
<1>14. PhaseInv'
  <2>1. InstalledInCopy'
    BY <1>1, <1>2, <1>6 DEF PhaseInv, InstalledInCopy
  <2>2. stuck \subseteq stuck'
    BY <1>1
  <2> QED BY <1>1, <1>2, <1>3, <2>1, <2>2, PhaseStays
<1> QED BY <1>8, <1>9, <1>10, <1>11, <1>12, <1>13, <1>14 DEF FoundInv


\* The calls after a function is called.
LEMMA CallsEntered ==
    ASSUME ReturnInv, EnterCall
    PROVE  /\ phase = "building" /\ Top.todo # <<>> /\ Now.op = "call"
           /\ Len(frames) \in Nat \ {0} /\ Len(frames') = Len(frames) + 1 /\ frames' # <<>>
           /\ frames'[1].todo = Now.body /\ frames'[1].undo = <<>> /\ frames'[1].onErr = Now.arg
           /\ frames'[1].alt = Now.alt /\ frames'[1].before = failures
           /\ frames'[2].todo = Tail(frames[1].todo) /\ frames'[2].undo = frames[1].undo
           /\ \A i \in 2 .. Len(frames) + 1 : /\ frames'[i].onErr = frames[i - 1].onErr
                                              /\ frames'[i].alt = frames[i - 1].alt
                                              /\ frames'[i].before = frames[i - 1].before
           /\ \A i \in 3 .. Len(frames) + 1 : frames'[i] = frames[i - 1]
<1>1. phase = "building" /\ Top.todo # <<>> /\ Now.op = "call"
      /\ frames' = <<Frame(Now.body, Now.arg, Now.alt), Rest>> \o Tail(frames)
  BY DEF EnterCall, Doing
<1>2. /\ Rest.onErr = Top.onErr /\ Rest.before = Top.before /\ Rest.alt = Top.alt
      /\ Rest.todo = Tail(Top.todo) /\ Rest.undo = Top.undo
  BY <1>1, RestFacts
<1>3. frames # <<>>
  BY <1>1, TopFacts
<1>4. PICK r, n : r = Rest /\ n = Frame(Now.body, Now.arg, Now.alt)
  OBVIOUS
<1>5. /\ n.todo = Now.body /\ n.undo = <<>> /\ n.onErr = Now.arg /\ n.alt = Now.alt /\ n.before = failures
  BY <1>4 DEF Frame
<1>6. PICK F : frames \in Seq(F)
  BY DEF ReturnInv, StepsInv
<1>7. PICK fs : fs = <<r>> \o Tail(frames)
  OBVIOUS
<1>8. /\ fs \in Seq(F \cup {r}) /\ Len(fs) = Len(frames) /\ Len(frames) \in Nat \ {0}
      /\ fs[1] = r /\ \A i \in 2 .. Len(frames) : fs[i] = frames[i]
  BY <1>3, <1>6, <1>7, FramesChange
<1>9. frames' = <<n>> \o fs
  <2>1. Tail(frames) \in Seq(F)
    BY <1>3, <1>6, HeadTailProperties
  <2>2. PICK G, t : G = F \cup {r, n} /\ t = Tail(frames)
    OBVIOUS
  <2>3. t \in Seq(G) /\ <<n>> \in Seq(G) /\ <<r>> \in Seq(G)
    BY <2>1, <2>2
  <2>4. <<n, r>> = <<n>> \o <<r>>
    OBVIOUS
  <2>5. (<<n>> \o <<r>>) \o t = <<n>> \o (<<r>> \o t)
    BY <2>3, ConcatAssociative
  <2> QED BY <1>1, <1>4, <1>7, <2>2, <2>4, <2>5
<1>10. IsRow(fs)
  BY <1>8 DEF IsRow
<1>11. /\ Len(frames') = Len(frames) + 1 /\ frames'[1] = n
       /\ \A j \in 1 .. Len(frames) : frames'[j + 1] = fs[j]
  BY <1>8, <1>9, <1>10, RowPlus
<1>12. frames' # <<>>
  BY <1>8, <1>11, EmptySeq
<1>13. frames'[2] = r
  <2>1. 1 \in 1 .. Len(frames) /\ 1 + 1 = 2
    BY <1>8
  <2> QED BY <1>8, <1>11, <2>1
<1>14. ASSUME NEW i \in 3 .. Len(frames) + 1
       PROVE  frames'[i] = frames[i - 1]
  <2>1. i - 1 \in 2 .. Len(frames) /\ i - 1 \in 1 .. Len(frames) /\ i - 1 + 1 = i
    BY <1>8
  <2> QED BY <1>8, <1>11, <2>1
<1>15. ASSUME NEW i \in 2 .. Len(frames) + 1
       PROVE  /\ frames'[i].onErr = frames[i - 1].onErr /\ frames'[i].alt = frames[i - 1].alt
              /\ frames'[i].before = frames[i - 1].before
  <2>1. CASE i = 2
    BY <1>2, <1>4, <1>13, <2>1 DEF Top
  <2>2. CASE i # 2
    BY <1>8, <1>14, <2>2
  <2> QED BY <2>1, <2>2
<1>16. frames'[2].todo = Tail(frames[1].todo) /\ frames'[2].undo = frames[1].undo
  BY <1>2, <1>4, <1>13 DEF Top
<1> QED BY <1>1, <1>5, <1>8, <1>11, <1>12, <1>14, <1>15, <1>16

LEMMA AllButTwo ==
    ASSUME NEW S, NEW s \in Seq(S), Len(s) > 1
    PROVE  /\ SubSeq(s, 3, Len(s)) \in Seq(S) /\ Len(SubSeq(s, 3, Len(s))) = Len(s) - 2
           /\ \A i \in 1 .. Len(s) - 2 : SubSeq(s, 3, Len(s))[i] = s[i + 2]
<1>1. Len(s) \in Nat /\ Len(s) >= 2
  BY LenProperties
<1>2. PICK m, n : m = 3 /\ n = Len(s)
  OBVIOUS
<1>3. /\ SubSeq(s, m, n) \in Seq(S)
      /\ Len(SubSeq(s, m, n)) = IF m <= n THEN n - m + 1 ELSE 0
      /\ \A i \in 1 .. n - m + 1 : SubSeq(s, m, n)[i] = s[m + i - 1]
  BY <1>1, <1>2, SubSeqProperties
<1> QED BY <1>1, <1>2, <1>3

\* The calls after a function returned.
LEMMA CallsEnded ==
    ASSUME ReturnInv, EndCall
    PROVE  /\ phase = "building" /\ Top.todo = <<>> /\ Top.undo = <<>>
           /\ Len(frames) \in Nat /\ Len(frames) > 1 /\ Len(frames') = Len(frames) - 1 /\ frames' # <<>>
           /\ \/ Top.err = {} /\ frames'[1].todo = frames[2].todo /\ failures' = failures
              \/ Top.err # {} /\ Top.onErr = "raise" /\ frames'[1].todo = <<>> /\ failures' = failures
              \/ /\ Top.err # {} /\ Top.onErr = "else" /\ frames'[1].todo = Top.alt \o frames[2].todo
                 /\ failures' = Top.before
           /\ \A i \in 1 .. Len(frames) - 1 : /\ frames'[i].onErr = frames[i + 1].onErr
                                              /\ frames'[i].alt = frames[i + 1].alt
                                              /\ frames'[i].before = frames[i + 1].before
                                              /\ frames'[i].undo = frames[i + 1].undo
           /\ \A i \in 2 .. Len(frames) - 1 : frames'[i] = frames[i + 1]
<1>1. /\ phase = "building" /\ Len(frames) > 1 /\ Top.todo = <<>> /\ Top.undo = <<>>
      /\ failures' = IF Top.err # {} /\ Top.onErr = "else" THEN Top.before ELSE failures
  BY DEF EndCall
<1>2. PICK F : frames \in Seq(F) /\ \A g \in F : GoodFrame(g)
  BY DEF ReturnInv, StepsInv
<1>3. Top.onErr \in {"raise", "else"}
  BY <1>1, TopFacts
<1>4. PICK c : c = frames[2]
  OBVIOUS
<1>5. Len(frames) \in Nat /\ IsFrame(c)
  BY <1>1, <1>2, <1>4, LenProperties, ElementOfSeq DEF GoodFrame
<1>6. PICK f : /\ f.onErr = c.onErr /\ f.alt = c.alt /\ f.before = c.before /\ f.undo = c.undo
               /\ \/ Top.err = {} /\ f.todo = c.todo
                  \/ Top.err # {} /\ Top.onErr = "raise" /\ f.todo = <<>>
                  \/ Top.err # {} /\ Top.onErr = "else" /\ f.todo = Top.alt \o c.todo
               /\ frames' = <<f>> \o SubSeq(frames, 3, Len(frames))
  <2>1. CASE Top.err = {}
    <3>1. frames' = <<c>> \o SubSeq(frames, 3, Len(frames))
      BY <1>4, <2>1, Zenon DEF EndCall
    <3> QED BY <2>1, <3>1
  <2>2. CASE Top.err # {} /\ Top.onErr = "raise"
    <3>1. frames' = <<[c EXCEPT !.todo = <<>>, !.err = @ \cup Top.err]>> \o SubSeq(frames, 3, Len(frames))
      BY <1>4, <2>2 DEF EndCall
    <3>2. PICK f : f = [c EXCEPT !.todo = <<>>, !.err = @ \cup Top.err]
      OBVIOUS
    <3>3. f.todo = <<>> /\ f.onErr = c.onErr /\ f.before = c.before /\ f.alt = c.alt /\ f.undo = c.undo
      BY <1>5, <3>2 DEF IsFrame
    <3> QED BY <2>2, <3>1, <3>2, <3>3
  <2>3. CASE Top.err # {} /\ Top.onErr = "else"
    <3>1. frames' = <<[c EXCEPT !.todo = Top.alt \o @]>> \o SubSeq(frames, 3, Len(frames))
      BY <1>4, <2>3 DEF EndCall
    <3>2. PICK f : f = [c EXCEPT !.todo = Top.alt \o @]
      OBVIOUS
    <3>3. f.todo = Top.alt \o c.todo /\ f.onErr = c.onErr /\ f.before = c.before /\ f.alt = c.alt
          /\ f.undo = c.undo
      BY <1>5, <3>2 DEF IsFrame
    <3> QED BY <2>3, <3>1, <3>2, <3>3
  <2> QED BY <1>3, <2>1, <2>2, <2>3
<1>7. PICK t : /\ t = SubSeq(frames, 3, Len(frames)) /\ t \in Seq(F) /\ Len(t) = Len(frames) - 2
               /\ \A i \in 1 .. Len(frames) - 2 : t[i] = frames[i + 2]
  <2>1. /\ SubSeq(frames, 3, Len(frames)) \in Seq(F)
        /\ Len(SubSeq(frames, 3, Len(frames))) = Len(frames) - 2
        /\ \A i \in 1 .. Len(frames) - 2 : SubSeq(frames, 3, Len(frames))[i] = frames[i + 2]
    BY <1>1, <1>2, <1>5, AllButTwo
  <2> QED BY <2>1
<1>8. IsRow(t)
  BY <1>7 DEF IsRow
<1>9. /\ Len(frames') = Len(frames) - 1 /\ frames'[1] = f
      /\ \A j \in 1 .. Len(frames) - 2 : frames'[j + 1] = t[j]
  <2>1. /\ Len(frames') = Len(t) + 1 /\ frames'[1] = f /\ \A j \in 1 .. Len(t) : frames'[j + 1] = t[j]
    BY <1>6, <1>7, <1>8, RowPlus
  <2> QED BY <1>5, <1>7, <2>1
<1>10. frames' # <<>>
  BY <1>1, <1>5, <1>9, EmptySeq
<1>11. ASSUME NEW i \in 2 .. Len(frames) - 1
       PROVE  frames'[i] = frames[i + 1]
  <2>1. i - 1 \in 1 .. Len(frames) - 2 /\ i - 1 + 1 = i /\ i - 1 + 2 = i + 1
    BY <1>5
  <2> QED BY <1>7, <1>9, <2>1
<1>12. ASSUME NEW i \in 1 .. Len(frames) - 1
       PROVE  /\ frames'[i].onErr = frames[i + 1].onErr /\ frames'[i].alt = frames[i + 1].alt
              /\ frames'[i].before = frames[i + 1].before /\ frames'[i].undo = frames[i + 1].undo
  <2>1. CASE i = 1
    BY <1>4, <1>6, <1>9, <2>1
  <2>2. CASE i # 1
    BY <1>5, <1>11, <2>2
  <2> QED BY <2>1, <2>2
<1> QED BY <1>1, <1>4, <1>5, <1>6, <1>9, <1>10, <1>11, <1>12


LEMMA EnterGoesOn == ASSUME ReturnInv, CallsInv, EnterCall PROVE CallsInv'
<1>1. /\ phase = "building" /\ Top.todo # <<>> /\ Now.op = "call"
      /\ Len(frames) \in Nat \ {0} /\ Len(frames') = Len(frames) + 1
      /\ frames'[1].todo = Now.body /\ frames'[1].undo = <<>> /\ frames'[1].onErr = Now.arg
      /\ frames'[1].alt = Now.alt
      /\ frames'[2].todo = Tail(frames[1].todo) /\ frames'[2].undo = frames[1].undo
      /\ \A i \in 2 .. Len(frames) + 1 : /\ frames'[i].onErr = frames[i - 1].onErr
                                         /\ frames'[i].alt = frames[i - 1].alt
      /\ \A i \in 3 .. Len(frames) + 1 : frames'[i] = frames[i - 1]
  BY CallsEntered
<1>2. workDir' = workDir /\ options' = options /\ KeptVariables' = KeptVariables
  <2>1. UNCHANGED outerVars
    BY DEF EnterCall
  <2> QED BY <2>1, SameTarget DEF EnterCall
<1>3. PICK k, p : /\ Running(frames, 1, k, p) /\ Placed(1, k, p)
                  /\ Fine(Tail(Top.todo), k, After(Now, p))
                  /\ "moved" \in p => workDir = "work"
                  /\ \A g \in p \cap UserFiles : \E j \in 1 .. Len(Top.undo) : Undoes(Top.undo[j], "file", g)
                  /\ \A j \in 1 .. Len(Top.undo) : DeferSound(Top.undo[j], k)
                  /\ IsRow(Top.undo)
  BY <1>1, NextStep
<1>4. Fine(Tail(frames[1].todo), k, p)
  <2>1. After(Now, p) = p
    BY <1>1 DEF After
  <2> QED BY <1>3, <2>1 DEF Top
<1>5. Fine(Top.todo, k, p)
  BY <1>3 DEF Running, Top
<1>6. PICK c, q : Callee(Now, Tail(Top.todo), k, p, c, q) /\ Fine(Now.body, c, q)
  BY <1>1, <1>5, FineUse DEF Now
<1>7. Now.arg = "else" => Fine(Now.alt \o Tail(frames[1].todo), k, p)
  BY <1>1, <1>5, FineUse DEF Now, Top
<1>8. \A i \in 1 .. Len(frames) : i + 1 \in 2 .. Len(frames) + 1 /\ i + 1 - 1 = i
  BY <1>1
<1>9. (\E j \in 1 .. Len(frames) : frames[j].onErr = "else") => k.safe
  BY <1>3 DEF Running
<1>10. Running(frames', 1, c, q) /\ Placed(1, c, q)'
  <2>1. ~c.builder /\ q \cap UserFiles = {} /\ q \subseteq p \cap {"moved"}
    BY <1>6 DEF Callee, UserFiles
  <2>2. \A d \in c.h : /\ 1 < Len(frames') /\ frames'[1].onErr = "raise"
                       /\ Soon("rm", d, UnguardedSteps, frames'[1 + 1].todo)
    BY <1>1, <1>6 DEF Callee, Top
  <2>3. (\E j \in 1 .. Len(frames') : frames'[j].onErr = "else") => c.safe
    <3> SUFFICES ASSUME NEW j \in 1 .. Len(frames'), frames'[j].onErr = "else" PROVE c.safe
      OBVIOUS
    <3>1. CASE j = 1
      BY <1>1, <1>6, <3>1 DEF Callee
    <3>2. CASE j # 1
      <4>1. j \in 2 .. Len(frames) + 1 /\ j - 1 \in 1 .. Len(frames)
        BY <1>1, <3>2
      <4>2. k.safe
        BY <1>1, <1>9, <4>1
      <4> QED BY <1>6, <4>2 DEF Callee
    <3> QED BY <3>1, <3>2
  <2>4. Len(<<>>) = 0 /\ IsRow(<<>>)
    BY EmptySeq DEF IsRow
  <2>5. IsRow(frames'[1].undo) /\ \A j \in 1 .. Len(frames'[1].undo) : DeferSound(frames'[1].undo[j], c)
    BY <1>1, <2>4
  <2>6. Running(frames', 1, c, q)
    BY <1>1, <1>6, <2>1, <2>2, <2>3, <2>5 DEF Running
  <2>7. "moved" \in q => workDir' = "work"
    BY <1>2, <1>3, <2>1
  <2>8. c.cur = options'.curation /\ c.kept \subseteq KeptVariables'
    BY <1>2, <1>3, <1>6 DEF Callee, Placed
  <2> QED BY <2>6, <2>7, <2>8 DEF Placed
<1>11. Running(frames', 2, k, p) /\ Placed(2, k, p)'
  <2>1. frames'[2 - 1].onErr = "else" => Fine(frames'[2 - 1].alt \o frames'[2].todo, k, p)
    BY <1>1, <1>7
  <2>2. k.builder => 2 = Len(frames')
    <3>1. k.builder => 1 = Len(frames)
      BY <1>3 DEF Running
    <3>2. PICK m, n : m = Len(frames) /\ n = Len(frames') /\ m \in Nat /\ n = m + 1
      BY <1>1
    <3>3. 1 = Len(frames) => 2 = Len(frames')
      <4>1. m = 1 => n = 2
        BY <3>2
      <4> QED BY <3>2, <4>1
    <3> QED BY <3>1, <3>3
  <2>3. \A d \in k.h : /\ 2 < Len(frames') /\ frames'[2].onErr = "raise"
                       /\ Soon("rm", d, UnguardedSteps, frames'[2 + 1].todo)
    <3> SUFFICES ASSUME NEW d \in k.h
                 PROVE  /\ 2 < Len(frames') /\ frames'[2].onErr = "raise"
                        /\ Soon("rm", d, UnguardedSteps, frames'[2 + 1].todo)
      OBVIOUS
    <3>1. 1 < Len(frames) /\ frames[1].onErr = "raise" /\ Soon("rm", d, UnguardedSteps, frames[1 + 1].todo)
      BY <1>3 DEF Running
    <3>2. 2 \in 2 .. Len(frames) + 1 /\ 3 \in 3 .. Len(frames) + 1 /\ 2 < Len(frames')
      BY <1>1, <3>1
    <3> QED BY <1>1, <3>1, <3>2
  <2>4. (\E j \in 2 .. Len(frames') : frames'[j].onErr = "else") => k.safe
    <3> SUFFICES ASSUME NEW j \in 2 .. Len(frames) + 1, frames'[j].onErr = "else" PROVE k.safe
      BY <1>1
    <3>1. j - 1 \in 1 .. Len(frames)
      BY <1>1
    <3> QED BY <1>1, <1>9, <3>1
  <2>5. /\ IsRow(frames'[2].undo)
        /\ \A j \in 1 .. Len(frames'[2].undo) : DeferSound(frames'[2].undo[j], k)
        /\ \A g \in p \cap UserFiles : \E j \in 1 .. Len(frames'[2].undo) : Undoes(frames'[2].undo[j], "file", g)
    BY <1>1, <1>3 DEF Top
  <2>6. Fine(frames'[2].todo, k, p)
    BY <1>1, <1>4
  <2>7. Running(frames', 2, k, p)
    BY <2>1, <2>2, <2>3, <2>4, <2>5, <2>6 DEF Running
  <2>8. Placed(2, k, p)'
    BY <1>2, <1>3 DEF Placed
  <2> QED BY <2>7, <2>8
<1>12. ASSUME NEW i \in 3 .. Len(frames) + 1
       PROVE  \E d, r : Running(frames', i, d, r) /\ Placed(i, d, r)'
  <2>1. PICK m \in 2 .. Len(frames) : i = m + 1 /\ m \in 1 .. Len(frames) /\ m \in Nat
    <3>1. i - 1 \in 2 .. Len(frames) /\ i = i - 1 + 1 /\ i - 1 \in 1 .. Len(frames) /\ i - 1 \in Nat
      BY <1>1
    <3> QED BY <3>1
  <2>2. PICK d, r : Running(frames, m, d, r) /\ Placed(m, d, r)
    BY <2>1 DEF CallsInv
  <2>3. frames'[m + 1] = frames[m] /\ m > 1 /\ m + 1 > 1 /\ m + 1 - 1 = m
    BY <1>1, <2>1
  <2>4. frames'[m].onErr = frames[m - 1].onErr /\ frames'[m].alt = frames[m - 1].alt
    BY <1>1, <2>1
  <2>5. Fine(frames'[m + 1].todo, d, r) /\ IsRow(frames'[m + 1].undo)
        /\ \A j \in 1 .. Len(frames'[m + 1].undo) : DeferSound(frames'[m + 1].undo[j], d)
    BY <2>2, <2>3 DEF Running
  <2>6. frames'[m + 1 - 1].onErr = "else" => Fine(frames'[m + 1 - 1].alt \o frames'[m + 1].todo, d, r)
    BY <2>2, <2>3, <2>4 DEF Running
  <2>7. d.builder => m + 1 = Len(frames')
    BY <1>1, <2>2 DEF Running
  <2>8. \A x \in d.h : /\ m + 1 < Len(frames') /\ frames'[m + 1].onErr = "raise"
                       /\ Soon("rm", x, UnguardedSteps, frames'[m + 1 + 1].todo)
    <3> SUFFICES ASSUME NEW x \in d.h
                 PROVE  /\ m + 1 < Len(frames') /\ frames'[m + 1].onErr = "raise"
                        /\ Soon("rm", x, UnguardedSteps, frames'[m + 1 + 1].todo)
      OBVIOUS
    <3>1. m < Len(frames) /\ frames[m].onErr = "raise" /\ Soon("rm", x, UnguardedSteps, frames[m + 1].todo)
      BY <2>2 DEF Running
    <3>2. m + 1 + 1 \in 3 .. Len(frames) + 1 /\ m + 1 + 1 - 1 = m + 1
      BY <1>1, <2>1, <3>1
    <3>3. frames'[m + 1 + 1] = frames[m + 1]
      BY <1>1, <3>2
    <3> QED BY <1>1, <2>3, <3>1, <3>3
  <2>9. (\E j \in m + 1 .. Len(frames') : frames'[j].onErr = "else") => d.safe
    <3> SUFFICES ASSUME NEW j \in m + 1 .. Len(frames) + 1, frames'[j].onErr = "else" PROVE d.safe
      BY <1>1
    <3>1. j - 1 \in m .. Len(frames) /\ j \in 2 .. Len(frames) + 1
      BY <1>1, <2>1
    <3>2. frames[j - 1].onErr = "else"
      BY <1>1, <3>1
    <3> QED BY <2>2, <3>1, <3>2 DEF Running
  <2>10. \A g \in r \cap UserFiles :
            \E j \in 1 .. Len(frames'[m + 1].undo) : Undoes(frames'[m + 1].undo[j], "file", g)
    BY <2>2, <2>3 DEF Running
  <2>11. Running(frames', m + 1, d, r)
    BY <2>5, <2>6, <2>7, <2>8, <2>9, <2>10 DEF Running
  <2>12. Placed(m + 1, d, r)'
    BY <1>2, <2>2, <2>3 DEF Placed
  <2> QED BY <2>1, <2>11, <2>12
<1>13. \A i \in 1 .. Len(frames) + 1 : i = 1 \/ i = 2 \/ i \in 3 .. Len(frames) + 1
  BY <1>1
<1> QED BY <1>1, <1>10, <1>11, <1>12, <1>13 DEF CallsInv

LEMMA EnterFound == ASSUME ReturnInv, FoundInv, EnterCall PROVE FoundInv'
<1>1. /\ phase = "building" /\ Top.todo # <<>> /\ Now.op = "call"
      /\ Len(frames) \in Nat \ {0} /\ Len(frames') = Len(frames) + 1 /\ frames' # <<>>
      /\ frames'[1].onErr = Now.arg /\ frames'[1].before = failures
      /\ frames'[2].undo = frames[1].undo
      /\ \A i \in 2 .. Len(frames) + 1 : /\ frames'[i].onErr = frames[i - 1].onErr
                                         /\ frames'[i].before = frames[i - 1].before
      /\ \A i \in 3 .. Len(frames) + 1 : frames'[i] = frames[i - 1]
  BY CallsEntered
<1>2. CallsInv /\ ExcusesInv /\ TempsInv /\ EnvInv /\ FilesInv /\ DirInv /\ PhaseInv
  BY DEF FoundInv
<1>3. /\ workDir' = workDir /\ env' = env /\ touched' = touched /\ temps' = temps /\ stuck' = stuck
      /\ failures' = failures /\ UNCHANGED outerVars
  BY DEF EnterCall
<1>4. options' = options /\ home' = home /\ phase' = phase /\ KeptVariables' = KeptVariables
  BY <1>3, SameTarget
<1>5. CallsInv'
  BY <1>2, EnterGoesOn
<1>6. ExcusesInv'
  <2> SUFFICES ASSUME NEW j \in 1 .. Len(frames) + 1, frames'[j].onErr = "else"
               PROVE  /\ Excuses \cap failures \subseteq frames'[j].before
                      /\ \A i \in 1 .. j - 1 : Excuses \cap frames'[i].before \subseteq frames'[j].before
    BY <1>1, <1>3 DEF ExcusesInv
  <2>1. CASE j = 1
    BY <1>1, <2>1
  <2>2. CASE j # 1
    <3>1. j \in 2 .. Len(frames) + 1 /\ j - 1 \in 1 .. Len(frames)
      BY <1>1, <2>2
    <3>2. frames'[j].before = frames[j - 1].before /\ frames[j - 1].onErr = "else"
      BY <1>1, <3>1
    <3>3. /\ Excuses \cap failures \subseteq frames[j - 1].before
          /\ \A i \in 1 .. j - 1 - 1 : Excuses \cap frames[i].before \subseteq frames[j - 1].before
      BY <1>2, <3>1, <3>2 DEF ExcusesInv
    <3>4. ASSUME NEW i \in 1 .. j - 1
          PROVE  Excuses \cap frames'[i].before \subseteq frames'[j].before
      <4>1. CASE i = 1
        BY <1>1, <3>2, <3>3, <4>1
      <4>2. CASE i # 1
        <5>1. i \in 2 .. Len(frames) + 1 /\ i - 1 \in 1 .. j - 1 - 1
          BY <1>1, <3>1, <4>2
        <5>2. frames'[i].before = frames[i - 1].before
          BY <1>1, <5>1
        <5> QED BY <3>2, <3>3, <5>1, <5>2
      <4> QED BY <4>1, <4>2
    <3> QED BY <3>2, <3>3, <3>4
  <2> QED BY <2>1, <2>2
<1>7. ASSUME NEW act, NEW x, NEW w, Guarded(act, x, w)
      PROVE  Registered(act, x)'
  <2>1. ~Coming(act, x, w)
    BY <1>1, <1>2, ComingNext DEF Defers, Passes
  <2>2. PICK i \in 1 .. Len(frames) : \E j \in 1 .. Len(frames[i].undo) : Undoes(frames[i].undo[j], act, x)
    BY <1>7, <2>1 DEF Guarded, Registered
  <2>3. i + 1 \in 1 .. Len(frames') /\ frames'[i + 1].undo = frames[i].undo
    <3>1. CASE i = 1
      BY <1>1, <3>1
    <3>2. CASE i # 1
      <4>1. i + 1 \in 3 .. Len(frames) + 1 /\ i + 1 - 1 = i
        BY <1>1, <3>2
      <4> QED BY <1>1, <4>1
    <3> QED BY <3>1, <3>2
  <2> QED BY <2>2, <2>3 DEF Registered
<1>8. TempsInv'
  <2> SUFFICES ASSUME UnguardedSteps \cap failures = {}, NEW d \in temps, d \notin stuck
               PROVE  Removed(d)'
    BY <1>3 DEF TempsInv, UnguardedSteps
  <2>1. Removed(d)
    BY <1>2 DEF TempsInv
  <2>2. ~HandOver(d) /\ ~HandedOver(d)
    BY <1>1 DEF HandOver, HandedOver
  <2>3. Guarded("rm", d, UnguardedSteps) \/ Guarded("rmFailed", d, {})
    BY <2>1, <2>2 DEF Removed, Guarded
  <2>4. Registered("rm", d)' \/ Registered("rmFailed", d)'
    BY <1>7, <2>3
  <2> QED BY <2>4 DEF Removed, Guarded
<1>9. EnvInv'
  <2> SUFFICES ASSUME NEW v \in env, v \notin KeptVariables
               PROVE  Registered("env", v)'
    BY <1>3, <1>4 DEF EnvInv, Guarded
  <2> QED BY <1>2, <1>7 DEF EnvInv
<1>10. FilesInv'
  <2> SUFFICES ASSUME NEW g \in touched \cap UserFiles, g \notin stuck, Pardoned(g) \cap failures = {}
               PROVE  Registered("file", g)'
    BY <1>3 DEF FilesInv, Guarded, Pardoned, UserFiles
  <2>1. Guarded("file", g, Pardoned(g))
    BY <1>2 DEF FilesInv
  <2> QED BY <1>7, <2>1
<1>11. DirInv'
  <2> SUFFICES ASSUME workDir # home, "cwd" \notin stuck
               PROVE  workDir = "work" /\ Registered("chdir", "cwd")'
    BY <1>3, <1>4 DEF DirInv, Guarded
  <2> QED BY <1>1, <1>2, <1>7 DEF DirInv
<1>12. PhaseInv'
  <2>1. InstalledInCopy'
    BY <1>2, <1>3, <1>4 DEF PhaseInv, InstalledInCopy
  <2> QED BY <1>1, <1>2, <1>3, <2>1, PhaseStays
<1> QED BY <1>5, <1>6, <1>8, <1>9, <1>10, <1>11, <1>12 DEF FoundInv


LEMMA EndGoesOn == ASSUME ReturnInv, CallsInv, EndCall PROVE CallsInv'
<1>1. /\ Len(frames) \in Nat /\ Len(frames) > 1 /\ Len(frames') = Len(frames) - 1
      /\ \/ frames'[1].todo \in {frames[2].todo, <<>>}
         \/ frames[1].onErr = "else" /\ frames'[1].todo = frames[1].alt \o frames[2].todo
      /\ \A i \in 1 .. Len(frames) - 1 : /\ frames'[i].onErr = frames[i + 1].onErr
                                         /\ frames'[i].alt = frames[i + 1].alt
                                         /\ frames'[i].undo = frames[i + 1].undo
      /\ \A i \in 2 .. Len(frames) - 1 : frames'[i] = frames[i + 1]
  BY CallsEnded DEF Top
<1>2. workDir' = workDir /\ options' = options /\ KeptVariables' = KeptVariables
  <2>1. UNCHANGED outerVars
    BY DEF EndCall
  <2> QED BY <2>1, SameTarget DEF EndCall
<1> SUFFICES ASSUME NEW i \in 1 .. Len(frames) - 1
             PROVE  \E k, p : Running(frames', i, k, p) /\ Placed(i, k, p)'
  BY <1>1 DEF CallsInv
<1>3. PICK m \in 2 .. Len(frames) : m = i + 1 /\ m - 1 = i /\ m \in 1 .. Len(frames) /\ m > 1
  <2>1. i + 1 \in 2 .. Len(frames) /\ i + 1 - 1 = i /\ i + 1 \in 1 .. Len(frames) /\ i + 1 > 1
    BY <1>1
  <2> QED BY <2>1
<1>4. PICK k, p : Running(frames, m, k, p) /\ Placed(m, k, p)
  BY <1>3 DEF CallsInv
<1>5. frames'[i].onErr = frames[m].onErr /\ frames'[i].alt = frames[m].alt /\ frames'[i].undo = frames[m].undo
  BY <1>1, <1>3
<1>6. Fine(frames'[i].todo, k, p)
  <2>1. Fine(frames[m].todo, k, p)
    BY <1>4 DEF Running
  <2>2. CASE i = 1
    <3>1. m = 2
      BY <1>3, <2>2
    <3>2. frames[1].onErr = "else" => Fine(frames[1].alt \o frames[2].todo, k, p)
      BY <1>4, <3>1 DEF Running
    <3> QED BY <1>1, <2>1, <2>2, <3>1, <3>2, FineNone
  <2>3. CASE i # 1
    <3>1. frames'[i] = frames[m]
      BY <1>1, <1>3, <2>3
    <3> QED BY <2>1, <3>1
  <2> QED BY <2>2, <2>3
<1>7. i > 1 /\ frames'[i - 1].onErr = "else" => Fine(frames'[i - 1].alt \o frames'[i].todo, k, p)
  <2> SUFFICES ASSUME i > 1, frames'[i - 1].onErr = "else"
               PROVE  Fine(frames'[i - 1].alt \o frames'[i].todo, k, p)
    OBVIOUS
  <2>1. i - 1 \in 1 .. Len(frames) - 1 /\ i - 1 + 1 = i /\ i \in 2 .. Len(frames) - 1
    BY <1>1
  <2>2. frames'[i - 1].onErr = frames[i].onErr /\ frames'[i - 1].alt = frames[i].alt /\ frames'[i] = frames[m]
    BY <1>1, <1>3, <2>1
  <2> QED BY <1>3, <1>4, <2>2 DEF Running
<1>8. k.builder => i = Len(frames')
  <2>1. k.builder => m = Len(frames)
    BY <1>4 DEF Running
  <2>2. m = Len(frames) => i = Len(frames')
    BY <1>1, <1>3
  <2> QED BY <2>1, <2>2
<1>9. \A d \in k.h : /\ i < Len(frames') /\ frames'[i].onErr = "raise"
                     /\ Soon("rm", d, UnguardedSteps, frames'[i + 1].todo)
  <2> SUFFICES ASSUME NEW d \in k.h
               PROVE  /\ i < Len(frames') /\ frames'[i].onErr = "raise"
                      /\ Soon("rm", d, UnguardedSteps, frames'[i + 1].todo)
    OBVIOUS
  <2>1. m < Len(frames) /\ frames[m].onErr = "raise" /\ Soon("rm", d, UnguardedSteps, frames[m + 1].todo)
    BY <1>4 DEF Running
  <2>2. i + 1 \in 2 .. Len(frames) - 1 /\ i + 1 + 1 = m + 1 /\ i < Len(frames')
    BY <1>1, <1>3, <2>1
  <2>3. frames'[i + 1] = frames[m + 1]
    BY <1>1, <2>2
  <2> QED BY <1>5, <2>1, <2>2, <2>3
<1>10. (\E j \in i .. Len(frames') : frames'[j].onErr = "else") => k.safe
  <2> SUFFICES ASSUME NEW j \in i .. Len(frames) - 1, frames'[j].onErr = "else" PROVE k.safe
    BY <1>1
  <2>1. j \in 1 .. Len(frames) - 1 /\ j + 1 \in m .. Len(frames)
    BY <1>1, <1>3
  <2>2. frames[j + 1].onErr = "else"
    BY <1>1, <2>1
  <2> QED BY <1>4, <2>1, <2>2 DEF Running
<1>11. /\ IsRow(frames'[i].undo)
       /\ \A j \in 1 .. Len(frames'[i].undo) : DeferSound(frames'[i].undo[j], k)
  BY <1>4, <1>5 DEF Running
<1>12. \A g \in p \cap UserFiles : \E j \in 1 .. Len(frames'[i].undo) : Undoes(frames'[i].undo[j], "file", g)
  BY <1>3, <1>4, <1>5 DEF Running
<1>13. Running(frames', i, k, p)
  BY <1>6, <1>7, <1>8, <1>9, <1>10, <1>11, <1>12 DEF Running
<1>14. Placed(i, k, p)'
  BY <1>2, <1>3, <1>4 DEF Placed
<1> QED BY <1>13, <1>14

LEMMA EndFound == ASSUME ReturnInv, FoundInv, EndCall PROVE FoundInv'
<1>1. /\ phase = "building" /\ Top.todo = <<>> /\ Top.undo = <<>>
      /\ Len(frames) \in Nat /\ Len(frames) > 1 /\ Len(frames') = Len(frames) - 1 /\ frames' # <<>>
      /\ Top.err = {} => frames'[1].todo = frames[2].todo
      /\ failures' = failures \/ (Top.onErr = "else" /\ failures' = Top.before)
      /\ \A i \in 1 .. Len(frames) - 1 : /\ frames'[i].onErr = frames[i + 1].onErr
                                         /\ frames'[i].before = frames[i + 1].before
                                         /\ frames'[i].undo = frames[i + 1].undo
  BY CallsEnded
<1>2. CallsInv /\ ExcusesInv /\ TempsInv /\ EnvInv /\ FilesInv /\ DirInv /\ PhaseInv
  BY DEF FoundInv
<1>3. /\ workDir' = workDir /\ env' = env /\ touched' = touched /\ temps' = temps /\ stuck' = stuck
      /\ UNCHANGED outerVars
  BY DEF EndCall
<1>4. options' = options /\ home' = home /\ phase' = phase /\ KeptVariables' = KeptVariables
  BY <1>3, SameTarget
<1>5. CallsInv'
  BY <1>2, EndGoesOn
<1>6. Excuses \cap failures \subseteq failures'
  <2>1. Top.onErr = "else" => Excuses \cap failures \subseteq Top.before
    BY <1>1, <1>2 DEF ExcusesInv, Top
  <2> QED BY <1>1, <2>1
<1>7. ExcusesInv'
  <2> SUFFICES ASSUME NEW j \in 1 .. Len(frames) - 1, frames'[j].onErr = "else"
               PROVE  /\ Excuses \cap failures' \subseteq frames'[j].before
                      /\ \A i \in 1 .. j - 1 : Excuses \cap frames'[i].before \subseteq frames'[j].before
    BY <1>1 DEF ExcusesInv, Excuses, UnguardedSteps
  <2>1. j + 1 \in 1 .. Len(frames) /\ frames'[j].before = frames[j + 1].before /\ frames[j + 1].onErr = "else"
    BY <1>1
  <2>2. /\ Excuses \cap failures \subseteq frames[j + 1].before
        /\ \A i \in 1 .. j + 1 - 1 : Excuses \cap frames[i].before \subseteq frames[j + 1].before
    BY <1>2, <2>1 DEF ExcusesInv
  <2>3. Excuses \cap failures' \subseteq frames[j + 1].before
    <3>1. 1 \in 1 .. j + 1 - 1
      BY <1>1
    <3>2. Excuses \cap Top.before \subseteq frames[j + 1].before
      BY <2>2, <3>1 DEF Top
    <3> QED BY <1>1, <2>2, <3>2
  <2>4. ASSUME NEW i \in 1 .. j - 1
        PROVE  Excuses \cap frames'[i].before \subseteq frames[j + 1].before
    <3>1. i \in 1 .. Len(frames) - 1 /\ i + 1 \in 1 .. j + 1 - 1
      BY <1>1
    <3>2. frames'[i].before = frames[i + 1].before
      BY <1>1, <3>1
    <3> QED BY <2>2, <3>1, <3>2
  <2> QED BY <2>1, <2>3, <2>4
<1>8. ASSUME NEW act, NEW x, NEW w, Guarded(act, x, w)
      PROVE  Registered(act, x)'
  <2>1. ~Coming(act, x, w)
    BY <1>1, <1>2, ComingNext
  <2>2. PICK i \in 1 .. Len(frames) : \E j \in 1 .. Len(frames[i].undo) : Undoes(frames[i].undo[j], act, x)
    BY <1>8, <2>1 DEF Guarded, Registered
  <2>3. i # 1
    <3>1. Len(<<>>) = 0
      BY EmptySeq
    <3>2. Len(frames[1].undo) = 0
      BY <1>1, <3>1 DEF Top
    <3> QED BY <2>2, <3>2
  <2>4. i - 1 \in 1 .. Len(frames) - 1 /\ i - 1 + 1 = i
    BY <1>1, <2>3
  <2>5. i - 1 \in 1 .. Len(frames') /\ frames'[i - 1].undo = frames[i].undo
    BY <1>1, <2>4
  <2> QED BY <2>2, <2>5 DEF Registered
<1>9. TempsInv'
  <2> SUFFICES ASSUME UnguardedSteps \cap failures' = {}, NEW d \in temps, d \notin stuck
               PROVE  Removed(d)'
    BY <1>3 DEF TempsInv, UnguardedSteps
  <2>1. UnguardedSteps \cap failures = {}
    BY <1>6 DEF Excuses
  <2>2. Removed(d)
    BY <1>2, <2>1 DEF TempsInv
  <2>3. ~HandOver(d)
    BY <1>1 DEF HandOver
  <2>4. CASE HandedOver(d)
    <3>1. Soon("rm", d, UnguardedSteps, frames'[1].todo)
      BY <1>1, <2>4 DEF HandedOver
    <3>2. Coming("rm", d, UnguardedSteps)'
      BY <1>1, <3>1 DEF Coming, Top, UnguardedSteps
    <3> QED BY <3>2 DEF Removed, Guarded, UnguardedSteps
  <2>5. CASE Guarded("rm", d, UnguardedSteps) \/ Guarded("rmFailed", d, {})
    <3>1. Registered("rm", d)' \/ Registered("rmFailed", d)'
      BY <1>8, <2>5
    <3> QED BY <3>1 DEF Removed, Guarded
  <2> QED BY <2>2, <2>3, <2>4, <2>5 DEF Removed, Guarded
<1>10. EnvInv'
  <2> SUFFICES ASSUME NEW v \in env, v \notin KeptVariables
               PROVE  Registered("env", v)'
    BY <1>3, <1>4 DEF EnvInv, Guarded
  <2> QED BY <1>2, <1>8 DEF EnvInv
<1>11. FilesInv'
  <2> SUFFICES ASSUME NEW g \in touched \cap UserFiles, g \notin stuck, Pardoned(g) \cap failures' = {}
               PROVE  Registered("file", g)'
    BY <1>3 DEF FilesInv, Guarded, Pardoned, UserFiles
  <2>1. Pardoned(g) \cap failures = {}
    BY <1>6 DEF Pardoned, Excuses
  <2>2. Guarded("file", g, Pardoned(g))
    BY <1>2, <2>1 DEF FilesInv
  <2> QED BY <1>8, <2>2
<1>12. DirInv'
  <2> SUFFICES ASSUME workDir # home, "cwd" \notin stuck
               PROVE  workDir = "work" /\ Registered("chdir", "cwd")'
    BY <1>3, <1>4 DEF DirInv, Guarded
  <2> QED BY <1>1, <1>2, <1>8 DEF DirInv
<1>13. PhaseInv'
  <2>1. InstalledInCopy'
    BY <1>2, <1>3, <1>4 DEF PhaseInv, InstalledInCopy
  <2> QED BY <1>1, <1>2, <1>3, <2>1, PhaseStays
<1> QED BY <1>5, <1>7, <1>9, <1>10, <1>11, <1>12, <1>13 DEF FoundInv


-----------------------------------------------------------------------------
(* One technology after another: between them nothing waits to be undone.    *)

LEMMA NothingRuns ==
    ASSUME frames = <<>>
    PROVE  (\A act, x, w : ~Guarded(act, x, w)) /\ (\A d : ~Removed(d))
<1>1. Len(frames) = 0
  BY EmptySeq
<1>2. \A act, x : ~Registered(act, x)
  BY <1>1 DEF Registered
<1> QED BY <1>1, <1>2 DEF Guarded, Coming, Removed, HandOver, HandedOver

LEMMA LastCall ==
    ASSUME ReturnInv, FoundInv, phase = "building", Len(frames) = 1, Top.todo = <<>>, Top.undo = <<>>
    PROVE  (\A act, x, w : ~Guarded(act, x, w)) /\ (\A d : ~Removed(d))
<1>1. ASSUME NEW act, NEW x, Registered(act, x)
      PROVE  FALSE
  <2>1. Len(Top.undo) = 0
    BY EmptySeq
  <2>2. PICK i \in 1 .. Len(frames) : \E j \in 1 .. Len(frames[i].undo) : Undoes(frames[i].undo[j], act, x)
    BY <1>1 DEF Registered
  <2>3. Len(frames[i].undo) = 0
    BY <2>1 DEF Top
  <2> QED BY <2>2, <2>3
<1>2. \A act, x, w : ~Coming(act, x, w)
  BY ComingNext DEF FoundInv
<1>3. \A d : ~HandOver(d) /\ ~HandedOver(d)
  BY DEF HandOver, HandedOver
<1> QED BY <1>1, <1>2, <1>3 DEF Guarded, Removed

\* What is left then is stuck, excused, or never given back.
LEMMA TakenStays ==
    ASSUME FoundInv, \A act, x, w : ~Guarded(act, x, w), \A d : ~Removed(d),
           env' = env, touched' = touched, temps' = temps, failures' = failures, stuck \subseteq stuck',
           env = {} \/ KeptVariables' = KeptVariables
    PROVE  TempsInv' /\ EnvInv' /\ FilesInv'
<1>1. TempsInv /\ EnvInv /\ FilesInv
  BY DEF FoundInv
<1>2. TempsInv'
  BY <1>1 DEF TempsInv, UnguardedSteps
<1>3. EnvInv'
  BY <1>1 DEF EnvInv
<1>4. FilesInv'
  BY <1>1 DEF FilesInv, Pardoned, UserFiles
<1> QED BY <1>2, <1>3, <1>4

LEMMA NoCalls == ASSUME frames' = <<>> PROVE CallsInv' /\ ExcusesInv'
<1>1. Len(frames') = 0
  BY EmptySeq
<1> QED BY <1>1 DEF CallsInv, ExcusesInv

LEMMA FoundInit == ASSUME TreesInit PROVE FoundInv
<1>1. /\ frames = <<>> /\ options.curation = FALSE /\ phase = "idle" /\ workDir = "start"
      /\ env = {} /\ touched = {} /\ temps = {}
  BY DEF TreesInit
<1>2. Len(frames) = 0
  BY <1>1, EmptySeq
<1>3. CallsInv /\ ExcusesInv
  BY <1>2 DEF CallsInv, ExcusesInv
<1>4. TempsInv /\ EnvInv /\ FilesInv /\ DirInv
  BY <1>1 DEF TempsInv, EnvInv, FilesInv, DirInv
<1>5. PhaseInv
  BY <1>1 DEF PhaseInv, InstalledInCopy, StartsInTarget
<1> QED BY <1>3, <1>4, <1>5 DEF FoundInv

LEMMA BeginTargetFound ==
    ASSUME ReturnInv, FoundInv, NEW o \in TargetRequests, BeginTarget(o)
    PROVE  FoundInv'
<1>1. /\ phase = "idle" /\ options' = o /\ frames' = frames
      /\ (phase' = "techs" /\ workDir' = "target") \/ (phase' = "done" /\ workDir' = workDir)
      /\ env' = env /\ touched' = touched /\ temps' = temps /\ stuck' = stuck /\ failures' = failures
  BY DEF BeginTarget, innerVars
<1>2. frames = <<>>
  BY <1>1 DEF ReturnInv, FailuresInv, FramesInv
<1>3. workDir = "start" /\ env = {} /\ touched = {}
  BY <1>1 DEF FoundInv, PhaseInv
<1>4. CallsInv' /\ ExcusesInv'
  BY <1>1, <1>2, NoCalls
<1>5. TempsInv' /\ EnvInv' /\ FilesInv'
  BY <1>1, <1>2, <1>3, NothingRuns, TakenStays
<1>6. o.curation \in BOOLEAN
  BY DEF TargetRequests
<1>7. DirInv' /\ PhaseInv'
  BY <1>1, <1>3, <1>6 DEF DirInv, PhaseInv, InstalledInCopy, StartsInTarget
<1> QED BY <1>4, <1>5, <1>7 DEF FoundInv

LEMMA BeginTechFound == ASSUME ReturnInv, FoundInv, BeginTech PROVE FoundInv'
<1>1. /\ phase = "techs" /\ pending # <<>> /\ phase' = "building" /\ home' = workDir
      /\ options' = options /\ workDir' = workDir
      /\ env' = env /\ touched' = touched /\ temps' = temps /\ stuck' = stuck /\ failures' = failures
      /\ frames' = <<Frame(If(~options.curation, <<Try("resolution repository")>>)
                           \o GetTechDependencyTree(Head(pending), options), "raise", <<>>)>>
  BY DEF BeginTech, innerVars
<1>2. frames = <<>>
  BY <1>1 DEF ReturnInv, FailuresInv, FramesInv
<1>3. KeptVariables' = KeptVariables
  BY <1>1 DEF KeptVariables, Ran
<1>4. PhaseInv
  BY DEF FoundInv
<1>5. PICK t : t = Head(pending)
  OBVIOUS
<1>6. Ran(t)
  <2>1. /\ options.techs \in Seq(STRING) /\ pending \in Seq(STRING)
        /\ Len(pending) <= Len(options.techs)
        /\ \A i \in DOMAIN pending : pending[i] = options.techs[Resolved + i]
    BY DEF ReturnInv, TechsInv, FailuresInv, PendingInv
  <2>2. /\ Len(pending) \in Nat \ {0} /\ Len(options.techs) \in Nat /\ t = pending[1]
        /\ DOMAIN pending = 1 .. Len(pending) /\ DOMAIN options.techs = 1 .. Len(options.techs)
    <3>1. /\ Len(pending) \in Nat /\ DOMAIN pending = 1 .. Len(pending)
          /\ Len(options.techs) \in Nat /\ DOMAIN options.techs = 1 .. Len(options.techs)
      BY <2>1, LenProperties
    <3>2. Len(pending) # 0
      BY <1>1, <2>1, EmptySeq
    <3>3. Head(pending) = pending[1]
      OBVIOUS
    <3> QED BY <1>5, <3>1, <3>2, <3>3
  <2>3. Resolved + 1 \in DOMAIN options.techs /\ options.techs[Resolved + 1] = t
    BY <2>1, <2>2 DEF Resolved
  <2> QED BY <2>3 DEF Ran
<1>7. PICK k : k = Outer(options)
  OBVIOUS
<1>8. /\ k.h = {} /\ k.builder = TRUE /\ k.safe = FALSE /\ k.cur = options.curation
      /\ k.kept = KeptVariables
  BY <1>7 DEF Outer
<1>9. Fine(If(~options.curation, <<Try("resolution repository")>>) \o GetTechDependencyTree(t, options), k, {})
  <2>1. t = "nuget" => {"NUGET_PACKAGES", "ArtifactoryUrl"} \subseteq KeptVariables
    BY <1>6 DEF KeptVariables
  <2>2. t = "go" => {"GOMODCACHE", "GOPROXY"} \subseteq KeptVariables
    BY <1>6 DEF KeptVariables
  <2>3. options.curation \in BOOLEAN
    BY <1>4 DEF PhaseInv
  <2>4. PICK o : o = options
    OBVIOUS
  <2>5. Asked(o)
    BY <2>3, <2>4 DEF Asked
  <2>6. k = Outer(o)
    BY <1>7, <2>4
  <2>7. /\ Fine(GetTechDependencyTree(t, o), k, {})
        /\ \A c : Fine(If(c, <<Try("resolution repository")>>), k, {})
    BY <2>1, <2>2, <2>5, <2>6, FineTree
  <2>8. PICK first, then : /\ first = If(~options.curation, <<Try("resolution repository")>>)
                           /\ then = GetTechDependencyTree(t, options)
    OBVIOUS
  <2>9. Fine(first, k, {}) /\ Fine(then, k, {})
    BY <2>4, <2>7, <2>8
  <2>10. Fine(first \o then, k, {})
    BY <2>9, FineConcat
  <2> QED BY <2>8, <2>10
<1> DEFINE program == If(~options.curation, <<Try("resolution repository")>>)
                      \o GetTechDependencyTree(t, options)
<1>10. PICK f : f = Frame(program, "raise", <<>>)
  OBVIOUS
<1> HIDE DEF program
<1>11. f.todo = program /\ f.undo = <<>> /\ f.onErr = "raise"
  BY <1>10 DEF Frame
<1>12. Len(frames') = 1 /\ frames'[1] = f
  <2>1. frames' = <<f>>
    BY <1>1, <1>5, <1>10 DEF program
  <2>2. f \in {f}
    OBVIOUS
  <2> QED BY <2>1, <2>2, OneElement
<1>13. Running(frames', 1, k, {})
  <2>1. Len(<<>>) = 0 /\ IsRow(<<>>)
    BY EmptySeq DEF IsRow
  <2>2. IsRow(frames'[1].undo) /\ \A j \in 1 .. Len(frames'[1].undo) : DeferSound(frames'[1].undo[j], k)
    BY <1>11, <1>12, <2>1
  <2>3. ~(\E j \in 1 .. Len(frames') : frames'[j].onErr = "else")
    BY <1>11, <1>12
  <2>4. Fine(program, k, {})
    BY <1>9 DEF program
  <2> QED BY <1>8, <2>4, <1>11, <1>12, <2>2, <2>3 DEF Running
<1>14. CallsInv'
  <2>1. Placed(1, k, {})'
    BY <1>1, <1>3, <1>8 DEF Placed
  <2> QED BY <1>12, <1>13, <2>1 DEF CallsInv
<1>15. ExcusesInv'
  BY <1>11, <1>12 DEF ExcusesInv
<1>16. TempsInv' /\ EnvInv' /\ FilesInv'
  BY <1>1, <1>2, <1>3, NothingRuns, TakenStays
<1>17. DirInv' /\ PhaseInv'
  BY <1>1, <1>4 DEF DirInv, PhaseInv, InstalledInCopy, StartsInTarget
<1> QED BY <1>14, <1>15, <1>16, <1>17 DEF FoundInv

LEMMA EndTechFound == ASSUME ReturnInv, FoundInv, EndTech PROVE FoundInv'
<1>1. /\ phase = "building" /\ Len(frames) = 1 /\ Top.todo = <<>> /\ Top.undo = <<>>
      /\ frames' = <<>> /\ phase' = "techs" /\ options' = options /\ workDir' = workDir
      /\ env' = env /\ touched' = touched /\ temps' = temps /\ stuck' = stuck /\ failures' = failures
  BY DEF EndTech, innerVars
<1>2. KeptVariables' = KeptVariables
  BY <1>1 DEF KeptVariables, Ran
<1>3. (\A act, x, w : ~Guarded(act, x, w)) /\ (\A d : ~Removed(d))
  BY <1>1, LastCall
<1>4. DirInv /\ PhaseInv
  BY DEF FoundInv
<1>5. workDir = "target" \/ "cwd" \in stuck
  BY <1>1, <1>3, <1>4 DEF DirInv, PhaseInv, StartsInTarget
<1>6. CallsInv' /\ ExcusesInv'
  BY <1>1, NoCalls
<1>7. TempsInv' /\ EnvInv' /\ FilesInv'
  BY <1>1, <1>2, <1>3, TakenStays
<1>8. DirInv' /\ PhaseInv'
  BY <1>1, <1>4, <1>5 DEF DirInv, PhaseInv, InstalledInCopy, StartsInTarget
<1> QED BY <1>6, <1>7, <1>8 DEF FoundInv

LEMMA EndsFound ==
    ASSUME ReturnInv, FoundInv, EndCurationTree \/ EndTrees \/ LeaveTarget
    PROVE  FoundInv'
<1>1. /\ frames' = frames /\ options' = options
      /\ env' = env /\ touched' = touched /\ temps' = temps /\ failures' = failures
      /\ \/ phase = "techs" /\ options.curation /\ phase' = "done" /\ workDir' = workDir /\ stuck' = stuck
         \/ phase = "techs" /\ phase' = "leaving" /\ stuck' = stuck
         \/ /\ phase = "leaving" /\ phase' = "done" /\ stuck \subseteq stuck'
            /\ workDir' = "start" \/ "start" \in stuck'
  BY DEF EndCurationTree, EndTrees, LeaveTarget, innerVars
<1>2. frames = <<>>
  BY <1>1 DEF ReturnInv, FailuresInv, FramesInv
<1>3. KeptVariables' = KeptVariables
  BY <1>1 DEF KeptVariables, Ran
<1>4. PhaseInv
  BY DEF FoundInv
<1>5. CallsInv' /\ ExcusesInv'
  BY <1>1, <1>2, NoCalls
<1>6. TempsInv' /\ EnvInv' /\ FilesInv'
  BY <1>1, <1>2, <1>3, NothingRuns, TakenStays
<1>7. DirInv'
  BY <1>1 DEF DirInv
<1>8. PhaseInv'
  <2>1. options'.curation \in BOOLEAN /\ InstalledInCopy' /\ StartsInTarget'
    BY <1>1, <1>4 DEF PhaseInv, InstalledInCopy, StartsInTarget
  <2>2. phase' = "done" =>
          \/ workDir' \in {"start", IF options'.curation THEN "target" ELSE "start"}
          \/ stuck' \cap {"cwd", "start"} # {}
    <3>1. CASE phase = "techs" /\ options.curation /\ workDir' = workDir /\ stuck' = stuck
      BY <1>1, <1>4, <3>1 DEF PhaseInv
    <3>2. CASE workDir' = "start" \/ "start" \in stuck'
      BY <3>2
    <3> QED BY <1>1, <3>1, <3>2
  <2> QED BY <1>1, <2>1, <2>2 DEF PhaseInv
<1> QED BY <1>5, <1>6, <1>7, <1>8 DEF FoundInv

\* Invariant of what a builder takes: of each call that runs the steps that are
\* left are fine, and every temporary directory, variable and file of the user
\* that is taken, and the directory, has a deferred function that gives it back,
\* registered or about to be, unless a failure excuses it.
THEOREM TreesFound == TreesSpec => [](ReturnInv /\ FoundInv)
<1>1. TreesInit => FoundInv
  BY FoundInit
<1>2. ReturnInv /\ FoundInv /\ [TreesNext]_treeVars => FoundInv'
  <2> SUFFICES ASSUME ReturnInv, FoundInv, [TreesNext]_treeVars
               PROVE  FoundInv'
    OBVIOUS
  <2>1. ASSUME NEW o \in TargetRequests, BeginTarget(o) PROVE FoundInv'
    BY <2>1, BeginTargetFound
  <2>2. CASE BeginTech \/ EndTech
    BY <2>2, BeginTechFound, EndTechFound
  <2>3. CASE EndCurationTree \/ EndTrees \/ LeaveTarget
    BY <2>3, EndsFound
  <2>4. CASE StepWorks \/ StepFails \/ RaiseError \/ RunCommand
    BY <2>4, WorksFound, FailKeeps, RunFound
  <2>5. CASE AssignError \/ Choose \/ Defer
    BY <2>5, AssignFound, ChooseFound, DeferFound
  <2>6. CASE EnterCall \/ EndCall
    BY <2>6, EnterFound, EndFound
  <2>7. CASE UndoWorks \/ UndoFails
    BY <2>7, UndoFound, StuckFound
  <2>8. CASE UNCHANGED treeVars
    <3>1. /\ options' = options /\ frames' = frames /\ workDir' = workDir /\ home' = home /\ env' = env
          /\ touched' = touched /\ temps' = temps /\ stuck' = stuck /\ failures' = failures
          /\ phase' = phase
      BY <2>8 DEF treeVars
    <3>2. KeptVariables' = KeptVariables
      BY <3>1 DEF KeptVariables, Ran
    <3>3. CallsInv' /\ ExcusesInv'
      BY <3>1, <3>2 DEF FoundInv, CallsInv, ExcusesInv, Placed, Excuses, UnguardedSteps
    <3>4. TempsInv' /\ EnvInv' /\ FilesInv' /\ DirInv'
      <4>1. Top' = Top /\ Now' = Now
        BY <3>1 DEF Top, Now
      <4>2. \A act, x, w : Guarded(act, x, w)' = Guarded(act, x, w)
        BY <3>1, <4>1 DEF Guarded, Registered, Coming
      <4>3. \A d : Removed(d)' = Removed(d)
        BY <3>1, <4>1, <4>2 DEF Removed, Registered, HandOver, HandedOver, UnguardedSteps
      <4> QED BY <3>1, <3>2, <4>2, <4>3 DEF FoundInv, TempsInv, EnvInv, FilesInv, DirInv, UnguardedSteps, Pardoned,
                                            UserFiles
    <3>5. PhaseInv'
      BY <3>1 DEF FoundInv, PhaseInv, InstalledInCopy, StartsInTarget
    <3> QED BY <3>3, <3>4, <3>5 DEF FoundInv
  <2> QED BY <2>1, <2>2, <2>3, <2>4, <2>5, <2>6, <2>7, <2>8 DEF TreesNext
<1>3. TreesSpec => []ReturnInv
  BY TreesReturn
<1> QED BY <1>1, <1>2, <1>3, PTL DEF TreesSpec

\* Whatever fails on the way, a build of the trees leaves the user's files,
\* directory and environment as it found them, but for what could not be undone,
\* and starts each technology in the directory of the target.
THEOREM TreesLeaveAsFound == TreesSpec => []LeftAsFound
<1>1. ReturnInv /\ FoundInv => LeftAsFound
  <2> SUFFICES ASSUME ReturnInv, FoundInv
               PROVE  LeftAsFound
    OBVIOUS
  <2>1. InstalledInCopy /\ StartsInTarget
    BY DEF FoundInv, PhaseInv
  <2>2. ASSUME phase = "done"
        PROVE  /\ workDir \in {"start", IF options.curation THEN "target" ELSE "start"}
                  \/ stuck \cap {"cwd", "start"} # {}
               /\ env \subseteq KeptVariables
               /\ touched \cap UserFiles \subseteq
                      stuck \cup {f \in {"maven.config.bkp"} : "remove maven.config" \in failures}
               /\ temps \subseteq stuck \/ UnguardedSteps \cap failures # {}
    <3>1. (\A act, x, w : ~Guarded(act, x, w)) /\ (\A d : ~Removed(d))
      BY <2>2, NothingRuns DEF ReturnInv, FailuresInv, FramesInv
    <3>2. workDir \in {"start", IF options.curation THEN "target" ELSE "start"}
          \/ stuck \cap {"cwd", "start"} # {}
      BY <2>2 DEF FoundInv, PhaseInv
    <3>3. env \subseteq KeptVariables
      BY <3>1 DEF FoundInv, EnvInv
    <3>4. touched \cap UserFiles \subseteq
              stuck \cup {f \in {"maven.config.bkp"} : "remove maven.config" \in failures}
      BY <3>1 DEF FoundInv, FilesInv, Pardoned
    <3>5. temps \subseteq stuck \/ UnguardedSteps \cap failures # {}
      BY <3>1 DEF FoundInv, TempsInv
    <3> QED BY <3>2, <3>3, <3>4, <3>5
  <2> QED BY <2>1, <2>2 DEF LeftAsFound, Released
<1> QED BY <1>1, TreesFound, PTL

=============================================================================
