---------------------------- MODULE PolicyReport ----------------------------
(***************************************************************************)
(* From finished scans to the verdict of `jf audit`: the results are       *)
(* uploaded, Xray is polled until it has seen them (artifactstatus.go),    *)
(* the violations are read from Xray (policy/enforcer) or taken from the   *)
(* scans (policy/local), filtered (policy/handler.go), and decide whether  *)
(* the build fails.                                                        *)
(*                                                                         *)
(* Xray works on its own: it moves between two polls.  A violation names   *)
(* an issue; which component, finding and applicability it is about is     *)
(* looked up in the results of the targets, in their order.                *)
(***************************************************************************)
EXTENDS Naturals, Sequences, FiniteSets

CONSTANTS
    Cases,      \* records of options, targets and Xray's response
    NoOne       \* no CVE, no component, no finding

IsSequence(s) == s \in Seq({s[i] : i \in DOMAIN s})
ASSUME PolicyAssumption ==
    \A c \in Cases : IsSequence(c.targets) /\ IsSequence(c.response) /\ c.partial \in BOOLEAN

VARIABLES
    case,       \* what this command is about
    xray,       \* the overall status of Xray's scan and that of its violations step
    moment,     \* "idle", "upload", "route", "wait", "fetch", "convert", "enrich", "verdict" or "done"
    remaining,  \* the violations, or the targets, that are left to convert
    report,     \* the violations of the command
    genErr,     \* the generator met an error
    errors,     \* GeneralErrors: pairs of a cause and whether it may be skipped
    status,     \* ViolationsStatusCode: "none", "ok" (0) or "failed" (1)
    dropped,    \* the rows that were filtered out
    verdict     \* what the command returns: "none", "ok", "error" or "failBuild"

prVars == <<case, xray, moment, remaining, report, genErr, errors, status, dropped, verdict>>

Statuses == {"", "notScanned", "pending", "inProgress", "done", "failed", "partial", "notSupported"}
IsScanCompleted(s)  == s \in {"done", "failed", "partial", "notSupported"}
IsScanNotStarted(s) == s \in {"", "notScanned", "pending"}

NoCase == [enforcer |-> FALSE, upload |-> FALSE, repo |-> FALSE, git |-> FALSE, context |-> FALSE,
           watches |-> 0, partial |-> FALSE, fail |-> FALSE, allowed |-> {}, targets |-> <<>>, response |-> <<>>]

PolicyInit ==
    /\ case = NoCase /\ moment = "idle"
    /\ xray = [overall |-> "", violations |-> ""]
    /\ remaining = <<>> /\ report = {} /\ genErr = FALSE /\ errors = {}
    /\ status = "none" /\ dropped = {} /\ verdict = "none"

BeginProcessing(c) ==
    /\ moment = "idle"
    /\ case' = c
    /\ moment' = "upload"
    /\ UNCHANGED <<xray, remaining, report, genErr, errors, status, dropped, verdict>>

-----------------------------------------------------------------------------
(* Xray and the polling of its status.                                     *)

XrayMoves(part) ==
    /\ moment \in {"route", "wait", "fetch"}
    /\ ~IsScanCompleted(xray[part])
    /\ \E s \in IF IsScanNotStarted(xray[part]) THEN {"pending", "inProgress"} ELSE {"done", "partial"} :
        xray' = [xray EXCEPT ![part] = s]
    /\ UNCHANGED <<case, moment, remaining, report, genErr, errors, status, dropped, verdict>>

\* WaitForArtifactScanStatus: a poll that does not end it changes nothing.  A
\* scan that ended without the step ends the wait too.
Arrived ==
    /\ ~IsScanNotStarted(xray.overall)
    /\ IsScanCompleted(xray.violations) \/ IsScanCompleted(xray.overall)

-----------------------------------------------------------------------------
(* processScanResults and fetchViolations.                                 *)

AfterUpload == IF case.context THEN IF case.enforcer /\ case.repo THEN "wait" ELSE "convert" ELSE "verdict"
Items == IF ~case.context THEN <<>>
         ELSE IF ~case.enforcer THEN case.targets
         ELSE IF case.repo THEN case.response ELSE <<>>

Upload ==
    /\ moment = "upload"
    /\ case.upload => case.repo
    /\ moment' = IF case.upload /\ case.git THEN "route" ELSE AfterUpload
    /\ remaining' = Items
    /\ UNCHANGED <<case, xray, report, genErr, errors, status, dropped, verdict>>

\* No repository, or the upload fails: no violations are read.
UploadFails ==
    /\ moment = "upload" /\ case.upload
    /\ errors' = errors \cup {<<"upload", FALSE>>}
    /\ moment' = "verdict"
    /\ UNCHANGED <<case, xray, remaining, report, genErr, status, dropped, verdict>>

\* getScanResultsUiRoute waits until the scan starts, or for 20 minutes: a
\* failure is only a warning.
RouteKnown ==
    /\ moment = "route"
    /\ moment' = AfterUpload
    /\ UNCHANGED <<case, xray, remaining, report, genErr, errors, status, dropped, verdict>>

WaitEnds ==
    /\ moment = "wait" /\ Arrived
    /\ moment' = "fetch"
    /\ UNCHANGED <<case, xray, remaining, report, genErr, errors, status, dropped, verdict>>

\* A poll fails or 20 minutes pass, the request or the dump of the response
\* fails, or there is more than one watch: there are no violations.
GenerateFails ==
    /\ moment \in {"wait", "fetch"}
    /\ genErr' = TRUE /\ remaining' = <<>>
    /\ moment' = "enrich"
    /\ UNCHANGED <<case, xray, report, errors, status, dropped, verdict>>

FetchViolations ==
    /\ moment = "fetch" /\ case.watches <= 1
    /\ moment' = "convert"
    /\ UNCHANGED <<case, xray, remaining, report, genErr, errors, status, dropped, verdict>>

-----------------------------------------------------------------------------
(* Rows, and where Xray's violations are looked up.                        *)

Row(v, cve, comp, s) ==
    [id |-> v.id, type |-> v.type, cve |-> cve, comp |-> comp, applicability |-> s, policies |-> v.policies]

Listed(c) == \E i \in DOMAIN case.targets : c \in case.targets[i].comps
Infected(v) == {c \in v.comps : Listed(c)}

OrNone(S) == IF S = {} THEN {NoOne} ELSE S

\* locateBomVulnerabilityInfo goes on after the target in which it found the
\* vulnerability: the applicability is that of the last target that lists it.
About(w, c) == (c = NoOne /\ w.affects = {}) \/ (c # NoOne /\ (w.affects = {} \/ c \in w.affects))
Located(cve, c) == \E i \in DOMAIN case.targets : \E w \in case.targets[i].vulns : w.id = cve /\ About(w, c)
Listing(cve) == {i \in DOMAIN case.targets : \E w \in case.targets[i].vulns : w.id = cve}
LastToList(i, cve) == i \in Listing(cve) /\ \A j \in Listing(cve) : j <= i

CveRows(v) ==
    {Row(v, x[1], x[2], case.targets[x[3]].applicability[x[1]]) :
        x \in {y \in v.cves \X OrNone(Infected(v)) \X DOMAIN case.targets :
                  Located(y[1], y[2]) /\ LastToList(y[3], y[1])}}
ComponentRows(v) == {Row(v, NoOne, c, "none") : c \in OrNone(Infected(v))}
\* The first finding of the analysers with the rule, the file and the line.
FindingRows(v) ==
    IF \E i \in DOMAIN case.targets : v.finding \in case.targets[i].findings
    THEN {Row(v, NoOne, NoOne, "none")} ELSE {}

XrayRows(v) ==
    CASE v.type \in {"sast", "exposure"}  -> FindingRows(v)
      [] v.type = "security"              -> CveRows(v)
      [] v.type \in {"license", "opRisk"} -> ComponentRows(v)
      [] OTHER                            -> {}

ConvertXray ==
    /\ moment = "convert" /\ case.enforcer /\ remaining # <<>>
    /\ LET v == Head(remaining) IN
        /\ report' = report \cup XrayRows(v)
        /\ genErr' = (genErr \/ v.type = "unknown")
    /\ remaining' = Tail(remaining)
    /\ UNCHANGED <<case, xray, moment, errors, status, dropped, verdict>>

-----------------------------------------------------------------------------
(* The violations a scan brought itself.                                   *)

\* A violation whose severity or components cannot be read is an error, the
\* others are kept.
LocalRows(t, v) ==
    CASE v.sound /\ v.type = "security" ->
            {Row(v, x[1], x[2], IF x[1] = NoOne THEN "none" ELSE t.applicability[x[1]]) :
                x \in OrNone(v.cves) \X OrNone(v.comps)}
      [] v.sound /\ v.type = "license"  ->
            {Row(v, NoOne, c, "none") : c \in IF v.comps = {} THEN {NoOne} ELSE v.comps \ {"root"}}
      [] v.sound /\ v.type = "opRisk"   -> {Row(v, NoOne, c, "none") : c \in OrNone(v.comps)}
      [] OTHER                          -> {}
FindingsRows(t) == {Row(v, NoOne, NoOne, "none") : v \in t.violating}

\* --allowed-licenses: only while no license violation is in the report.
Unlicensed(t, rows) ==
    IF \E r \in rows : r.type = "license" THEN {}
    ELSE {Row([id |-> "license", type |-> "license", policies |-> {}], NoOne, c, "none") :
            c \in IF case.allowed = {} THEN {} ELSE {x \in t.comps : t.licenses[x] \notin case.allowed}}

ConvertTarget ==
    /\ moment = "convert" /\ ~case.enforcer /\ remaining # <<>>
    /\ LET t    == Head(remaining)
           rows == report \cup UNION {LocalRows(t, v) : v \in t.sca}
       IN /\ report' = rows \cup Unlicensed(t, rows) \cup FindingsRows(t)
          /\ genErr' = (genErr \/ \E v \in t.sca : ~v.sound)
    /\ remaining' = Tail(remaining)
    /\ UNCHANGED <<case, xray, moment, errors, status, dropped, verdict>>

Converted ==
    /\ moment = "convert" /\ remaining = <<>>
    /\ moment' = "enrich"
    /\ UNCHANGED <<case, xray, remaining, report, genErr, errors, status, dropped, verdict>>

-----------------------------------------------------------------------------
(* The policies.                                                           *)

\* At least one policy that does not skip keeps the violation.
ShouldSkipNotApplicable(r) == \A p \in r.policies : p.skip

\* Faulty variant: one policy that skips is enough.
SkippableAnyPolicy(r) == r.applicability = "notApplicable" /\ \E p \in r.policies : p.skip

Skippable(r) == r.applicability = "notApplicable" /\ ShouldSkipNotApplicable(r)
NotApplicableRows(rows) == {r \in rows : r.type = "security" /\ Skippable(r)}

ShouldFailBuild(r) == \E p \in r.policies : p.fail /\ ~(r.type = "security" /\ p.skip /\ r.applicability = "notApplicable")

\* EnrichWithGeneratedViolations: what there is is stored before the error.
Enrich ==
    /\ moment = "enrich"
    /\ report' = report \ NotApplicableRows(report)
    /\ dropped' = NotApplicableRows(report)
    /\ status' = IF genErr THEN "failed" ELSE "ok"
    /\ errors' = IF genErr THEN errors \cup {<<"violations", case.partial>>} ELSE errors
    /\ moment' = "verdict"
    /\ UNCHANGED <<case, xray, remaining, genErr, verdict>>

\* OutputResultsAndCmdError: an error that may not be skipped comes first.
FailsBuild == status = "ok" /\ \E r \in report : ShouldFailBuild(r)
Conclude ==
    /\ moment = "verdict"
    /\ verdict' = IF \E e \in errors : ~e[2] THEN "error"
                  ELSE IF case.fail /\ FailsBuild THEN "failBuild" ELSE "ok"
    /\ moment' = "done"
    /\ UNCHANGED <<case, xray, remaining, report, genErr, errors, status, dropped>>

PolicyNext ==
    \/ moment = "idle" /\ \E c \in Cases : BeginProcessing(c)
    \/ \E part \in {"overall", "violations"} : XrayMoves(part)
    \/ Upload \/ UploadFails \/ RouteKnown
    \/ WaitEnds \/ GenerateFails \/ FetchViolations
    \/ ConvertXray \/ ConvertTarget \/ Converted
    \/ Enrich \/ Conclude

PolicySpec == PolicyInit /\ [][PolicyNext]_prVars

-----------------------------------------------------------------------------
(* Properties.                                                             *)

\* The variables range over the values the code gives them.
PolicyTypeOK ==
    /\ (case = NoCase \/ case \in Cases) /\ IsSequence(remaining)
    /\ xray \in [{"overall", "violations"} -> Statuses]
    /\ moment \in {"idle", "upload", "route", "wait", "fetch", "convert", "enrich", "verdict", "done"}
    /\ genErr \in BOOLEAN /\ status \in {"none", "ok", "failed"}
    /\ verdict \in {"none", "ok", "error", "failBuild"}

\* Xray's violations are not read before they are final, or its scan is over.
ReadWhenFinal ==
    moment \in {"convert", "enrich"} /\ case.enforcer /\ case.repo /\ ~genErr =>
        IsScanCompleted(xray.violations) \/ IsScanCompleted(xray.overall)

\* A violation that concerns something the scans found is reported, unless each
\* of its policies skips what some target found not to be applicable.
Told(v, cve, c) == \E r \in report \cup dropped : r.id = v.id /\ r.cve = cve /\ r.comp = c
NotApplicableSomewhere(cve) ==
    \E i \in DOMAIN case.targets : case.targets[i].applicability[cve] = "notApplicable"
NothingDropped ==
    moment \in {"verdict", "done"} /\ status = "ok" /\ case.enforcer /\ case.repo =>
        \A i \in DOMAIN case.response : LET v == case.response[i] IN
            /\ v.type \in {"license", "opRisk"} =>
                  \A c \in OrNone(Infected(v)) : Told(v, NoOne, c)
            /\ v.type = "security" => \A cve \in v.cves, c \in Infected(v) :
                  Located(cve, c) => Told(v, cve, c)
DroppedForAReason ==
    \A r \in dropped : NotApplicableSomewhere(r.cve) /\ \A p \in r.policies : p.skip

\* The filter never decides: what it removes would not have failed the build.
FilterNeverDecides == \A r \in dropped : ~ShouldFailBuild(r)

\* A command that ends well reported no violation that fails the build, unless
\* the user does not want to know or has accepted partial results.
SuccessIsDeserved ==
    verdict = "ok" /\ case.fail /\ case.context =>
        \/ status = "failed" /\ case.partial
        \/ \A r \in report \cup dropped : ~ShouldFailBuild(r)

ReportFaithful ==
    ReadWhenFinal /\ NothingDropped /\ DroppedForAReason /\ FilterNeverDecides /\ SuccessIsDeserved

-----------------------------------------------------------------------------
(* Why the report is faithful.                                             *)

\* What is read was final when the wait ended.
ReadInv ==
    moment \in {"fetch", "convert", "enrich"} /\ case.enforcer /\ case.repo /\ ~genErr =>
        IsScanCompleted(xray.violations) \/ IsScanCompleted(xray.overall)

\* The items that are left are the last ones; what the others say is reported.
Dealt == Len(Items) - Len(remaining)
ItemsInv ==
    /\ moment \in {"wait", "fetch", "convert", "enrich"} => case.context
    /\ moment \in {"route", "wait", "fetch", "convert"} =>
          /\ Len(remaining) <= Len(Items)
          /\ \A i \in DOMAIN remaining : remaining[i] = Items[Dealt + i]
          /\ case.enforcer => \A i \in 1 .. Dealt : XrayRows(Items[i]) \subseteq report
    /\ moment \in {"enrich", "verdict", "done"} /\ case.enforcer /\ case.repo
       /\ (IF moment = "enrich" THEN ~genErr ELSE status = "ok") =>
          \A i \in DOMAIN case.response : XrayRows(case.response[i]) \subseteq report \cup dropped

\* A row that is not applicable is that in a target; only those are dropped.
RowsInv ==
    /\ moment \in {"idle", "upload", "route", "wait", "fetch"} => report = {}
    /\ \A r \in report \cup dropped : r.applicability = "notApplicable" => NotApplicableSomewhere(r.cve)
    /\ \A r \in dropped : r.type = "security" /\ Skippable(r)

\* The status tells whether the violations were read, the errors why not.
VerdictInv ==
    /\ moment \notin {"verdict", "done"} => status = "none" /\ errors = {} /\ dropped = {} /\ verdict = "none"
    /\ moment \in {"verdict", "done"} =>
          /\ status = "none" /\ case.context => <<"upload", FALSE>> \in errors
          /\ status = "failed" => <<"violations", case.partial>> \in errors
    /\ verdict = "ok" => moment = "done" /\ (\A e \in errors : e[2]) /\ ~(case.fail /\ FailsBuild)

PolicyInv == PolicyTypeOK /\ ReadInv /\ ItemsInv /\ RowsInv /\ VerdictInv

=============================================================================
