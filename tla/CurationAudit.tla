--------------------------- MODULE CurationAudit ---------------------------
(***************************************************************************)
(* `jf curation-audit` as a sequence of audits: one per technology of each *)
(* working directory (CurationAuditCommand.Run, doCurateAudit, auditTree   *)
(* and the SetRepo family in commands/curation/curationaudit.go).          *)
(*                                                                         *)
(* What the audits share is the hazard: the package manager's connection   *)
(* (PackageManagerConfig), the server's details that some technologies     *)
(* overwrite, the map of reports and the error that Run returns.  What     *)
(* fetchNodesStatus returns is a choice here; CurationFetch models it.     *)
(***************************************************************************)
EXTENDS Naturals, Sequences, FiniteSets, SequencesExt

CONSTANTS
    Dirs,       \* the number of working directories
    TechLists,  \* the lists of technologies a directory may need
    Keys,       \* the names a report may ask for
    NoConfig    \* no package manager connection

Gated     == {"pip", "maven", "go", "nuget", "gradle", "gem", "poetry", "uv", "pipenv"}
Supported == Gated \cup {"npm", "yarn", "pnpm", "docker", "huggingFace", "cargo"}
\* Technologies that accept --run-native.
NativeOk  == {"npm", "pnpm", "yarn", "uv", "cargo", "poetry", "pip", "pipenv"}
CvsTechs  == {"pip", "poetry", "uv", "pipenv"}
\* Their connection is set up before the tree is built, if there is none.
EarlyRepo == {"uv", "pipenv", "pip", "poetry"}
\* The technologies that a detection may list.
Technologies == Supported \cup {"dotnet", "conan", "cocoapods", "swift", "oci"}

ASSUME CurationAssumption ==
    /\ Dirs \in Nat
    /\ TechLists \subseteq Seq(Technologies)
    /\ NoConfig \notin (1 .. Dirs) \X Technologies

VARIABLES
    options,  \* the command's flags and environment (Options)
    dir,      \* the working directory
    techs,    \* its technologies that are left to audit
    listed,   \* how many it had
    pc,       \* where the command is
    config,   \* whose connection PackageManagerConfig holds
    server,   \* who last wrote the URL of the shared server details
    results,  \* the reports by key
    stored,   \* how many reports were stored
    scanErr,  \* the audits that failed
    err,      \* what Run will return: the errors joined so far
    probes,   \* the audits that sent requests, with the connection they used
    skipped,  \* the audits that ended without a report and without an error
    unprinted \* the reports still to print

caVars == <<options, dir, techs, listed, pc, config, server, results, stored, scanErr, err,
            probes, skipped, unprinted>>

\* native: --run-native; skipGate: the environment variable that disables the
\* version check; ci: no questions are asked; model and image: a Hugging Face
\* model or a docker image was named on the command line.
Options == [native : BOOLEAN, skipGate : BOOLEAN, ci : BOOLEAN, model : BOOLEAN, image : BOOLEAN]
NoOptions == [native |-> FALSE, skipGate |-> FALSE, ci |-> FALSE, model |-> FALSE, image |-> FALSE]

CurationInit ==
    /\ options = NoOptions
    /\ dir = 0 /\ techs = <<>> /\ listed = 0 /\ pc = "idle"
    /\ config = NoConfig /\ server = NoConfig
    /\ results = <<>> /\ stored = 0
    /\ scanErr = {} /\ err = {} /\ probes = {} /\ skipped = {}
    /\ unprinted = {}

Tech == Head(techs)
This == <<dir, Tech>>

-----------------------------------------------------------------------------
(* Run's loop over the working directories.                                *)

Begin(o) ==
    /\ pc = "idle"
    /\ options' = o
    /\ dir' = 1 /\ pc' = "enter"
    /\ UNCHANGED <<techs, listed, config, server, results, stored, scanErr, err, probes,
                   skipped, unprinted>>

\* The directory cannot be entered: Run returns that error alone and prints
\* no report.
ChdirFails ==
    /\ pc = "enter" /\ dir <= Dirs
    /\ err' = {<<0, "chdir">>} /\ pc' = "done"
    /\ UNCHANGED <<options, dir, techs, listed, config, server, results, stored, scanErr,
                   probes, skipped, unprinted>>

\* validateCurationAuditFlags: a model and an image do not go together.
FlagsRefused ==
    /\ pc = "enter" /\ dir <= Dirs /\ options.model /\ options.image
    /\ scanErr' = scanErr \cup {<<dir, "flags">>} /\ err' = err \cup {<<dir, "flags">>}
    /\ dir' = dir + 1
    /\ UNCHANGED <<options, techs, listed, pc, config, server, results, stored, probes, skipped,
                   unprinted>>

EnterDir(list) ==
    /\ pc = "enter" /\ dir <= Dirs /\ ~(options.model /\ options.image)
    /\ techs' = list /\ listed' = Len(list) /\ pc' = "tech"
    /\ UNCHANGED <<options, dir, config, server, results, stored, scanErr, err, probes,
                   skipped, unprinted>>

\* Faulty variant: the result of a directory replaces the errors before it.
LeaveDirOverwriting ==
    /\ pc = "tech" /\ techs = <<>>
    /\ dir' = dir + 1 /\ pc' = "enter" /\ err' = {}
    /\ UNCHANGED <<options, techs, listed, config, server, results, stored, scanErr, probes,
                   skipped, unprinted>>

\* Faulty variant: a directory is counted twice.
LeaveDirTwice ==
    /\ pc = "tech" /\ techs = <<>>
    /\ dir' = dir + 2 /\ pc' = "enter"
    /\ UNCHANGED <<options, techs, listed, config, server, results, stored, scanErr, err,
                   probes, skipped, unprinted>>

\* doCurateAudit went through the list.
LeaveDir ==
    /\ pc = "tech" /\ techs = <<>>
    /\ dir' = dir + 1 /\ pc' = "enter"
    /\ UNCHANGED <<options, techs, listed, config, server, results, stored, scanErr, err,
                   probes, skipped, unprinted>>

-----------------------------------------------------------------------------
(* One technology.                                                         *)

\* How doCurateAudit takes an error of auditTree: the automatic discovery of
\* Hugging Face models is additive when something else is audited too.
Lenient == Tech = "huggingFace" /\ ~options.model /\ listed > 1
Failed(fatal) ==
    IF Lenient /\ ~fatal
    THEN /\ techs' = Tail(techs) /\ pc' = "tech" /\ config' = NoConfig
         /\ skipped' = skipped \cup {This}
         /\ UNCHANGED <<dir, scanErr, err>>
    ELSE /\ scanErr' = scanErr \cup {This} /\ err' = err \cup {This}
         /\ techs' = <<>> /\ dir' = dir + 1 /\ pc' = "enter"
         /\ UNCHANGED <<config, skipped>>

\* The audit succeeded: the connection is cleared for the next technology.
Succeeded ==
    /\ techs' = Tail(techs) /\ pc' = "tech" /\ config' = NoConfig
    /\ UNCHANGED <<dir, scanErr, err>>

Unsupported ==
    /\ pc = "tech" /\ techs # <<>> /\ Tech \notin Supported
    /\ techs' = Tail(techs)
    /\ skipped' = skipped \cup {This}
    /\ UNCHANGED <<options, dir, listed, pc, config, server, results, stored, scanErr, err,
                   probes, unprinted>>

\* SetRepo: npm with --run-native and pnpm without a token of its own write
\* the URL into the server details that all technologies share.
SetRepo ==
    /\ config' = This
    /\ server' \in IF Tech = "pnpm" \/ (Tech = "npm" /\ options.native)
                   THEN {server, This} ELSE {server}
\* GetAuth sets the connection up only if there is none.
GetAuth == IF config = NoConfig THEN SetRepo ELSE UNCHANGED <<config, server>>

\* checkSupportByVersionOrEnv asks the server of the connection for its version.
SupportChecked ==
    /\ pc = "tech" /\ techs # <<>> /\ Tech \in Supported
    /\ IF Tech \in Gated /\ ~options.skipGate THEN GetAuth ELSE UNCHANGED <<config, server>>
    /\ pc' = "tree"
    /\ UNCHANGED <<options, dir, techs, listed, results, stored, scanErr, err, probes, skipped,
                   unprinted>>

\* The connection cannot be set up.
AuthFails ==
    /\ pc = "tech" /\ techs # <<>> /\ Tech \in Gated /\ ~options.skipGate
    /\ config = NoConfig
    /\ Failed(TRUE)
    /\ UNCHANGED <<options, listed, server, results, stored, probes, unprinted>>

\* The versions are too old: the connection has been set up by then.
GateFails ==
    /\ pc = "tech" /\ techs # <<>> /\ Tech \in Gated /\ ~options.skipGate
    /\ scanErr' = scanErr \cup {This} /\ err' = err \cup {This}
    /\ techs' = <<>> /\ dir' = dir + 1 /\ pc' = "enter"
    /\ GetAuth
    /\ UNCHANGED <<options, listed, results, stored, probes, skipped, unprinted>>

\* auditTree up to the dependency tree: --run-native is refused where it means
\* nothing, and the Python technologies and cargo set up their connection.
NativeRefused ==
    /\ pc = "tree" /\ options.native /\ Tech \notin NativeOk
    /\ Failed(FALSE)
    /\ UNCHANGED <<options, listed, server, results, stored, probes, unprinted>>

PrepareTree ==
    /\ pc = "tree" /\ (options.native => Tech \in NativeOk)
    /\ CASE Tech \in EarlyRepo -> GetAuth
         [] Tech = "cargo"     -> SetRepo
         [] OTHER              -> UNCHANGED <<config, server>>
    /\ pc' = "resolve"
    /\ UNCHANGED <<options, dir, techs, listed, results, stored, scanErr, err, probes, skipped,
                   unprinted>>

PrepareFails ==
    /\ pc = "tree" /\ (options.native => Tech \in NativeOk)
    /\ Failed(FALSE)
    /\ UNCHANGED <<options, listed, server, results, stored, probes, unprinted>>

-----------------------------------------------------------------------------
(* The reports.                                                            *)

\* uniqueReportKey: the key, then the key with the technology, then a number.
Free(key) == key \notin DOMAIN results
\* Faulty variant: no number is appended.
UniqueKeyOnce(key, tech) == IF key \notin {k[1] : k \in {x \in DOMAIN results : Len(x) = 1}} THEN <<key>> ELSE <<key, tech>>

UniqueKey(key, tech) ==
    IF Free(<<key>>) THEN <<key>>
    ELSE IF Free(<<key, tech>>) THEN <<key, tech>>
    ELSE LET n == CHOOSE i \in 2 .. (stored + 2) :
                    Free(<<key, tech, i>>) /\ \A j \in 2 .. (i - 1) : ~Free(<<key, tech, j>>)
         IN <<key, tech, n>>

\* kind: a full report, one of the two fallbacks, or warnings without a table.
Report(kind, waiver) == [owner |-> This, kind |-> kind, waiver |-> waiver]
AddReport(key, r) ==
    LET k == UniqueKey(key, Tech) IN
    /\ results' = [x \in DOMAIN results \cup {k} |-> IF x = k THEN r ELSE results[x]]
    /\ stored' = stored + 1

\* The tree cannot be built and nothing can be recovered, or it is empty.
TreeFails ==
    /\ pc = "resolve"
    /\ Failed(FALSE)
    /\ UNCHANGED <<options, listed, server, results, stored, probes, unprinted>>

\* Nothing to audit: the cargo workspace was audited from another directory,
\* or no Hugging Face model was found (with or without unresolved references).
NothingToAudit(key) ==
    /\ pc = "resolve" /\ Tech \in {"cargo", "huggingFace"}
    /\ \/ Tech = "huggingFace" /\ AddReport(key, Report("warnings", FALSE))
       \/ UNCHANGED <<results, stored>>
    /\ skipped' = skipped \cup {This}
    /\ Succeeded
    /\ UNCHANGED <<options, listed, server, probes, unprinted>>

\* The installation failed because curation removed a version: the packages
\* that caused it are looked up, and a partial report replaces the error.
Fallback(key) ==
    /\ pc = "resolve" /\ Tech \in CvsTechs \cup {"npm"}
    /\ AddReport(key, Report(IF Tech = "npm" THEN "npmLog" ELSE "cvs", FALSE))
    /\ IF config = NoConfig
       THEN /\ probes' = probes \cup {[audit |-> This, config |-> This, server |-> server]}
            /\ server' \in IF Tech = "npm" /\ options.native THEN {server, This} ELSE {server}
       ELSE /\ probes' = probes \cup {[audit |-> This, config |-> config, server |-> server]}
            /\ UNCHANGED server
    /\ Succeeded
    /\ UNCHANGED <<options, listed, skipped, unprinted>>

\* The tree is there and the connection is looked up.
TreeBuilt ==
    /\ pc = "resolve"
    /\ GetAuth
    /\ pc' = "fetch"
    /\ UNCHANGED <<options, dir, techs, listed, results, stored, scanErr, err, probes, skipped,
                   unprinted>>

Probe == probes' = probes \cup {[audit |-> This, config |-> config, server |-> server]}

\* A 401 drops the report.
FetchRefused ==
    /\ pc = "fetch"
    /\ Probe
    /\ Failed(FALSE)
    /\ UNCHANGED <<options, listed, server, results, stored, unprinted>>

\* Another error does not: the report is incomplete and the error returned.
FetchFails(key, waiver) ==
    /\ pc = "fetch"
    /\ Probe
    /\ AddReport(key, Report("full", waiver))
    /\ Failed(FALSE)
    /\ UNCHANGED <<options, listed, server, unprinted>>

Fetched(key, waiver) ==
    /\ pc = "fetch"
    /\ Probe
    /\ AddReport(key, Report("full", waiver))
    /\ Succeeded
    /\ UNCHANGED <<options, listed, server, skipped, unprinted>>

-----------------------------------------------------------------------------
(* The end of Run: reports, waivers, the summary.                          *)

StartPrinting ==
    /\ pc = "enter" /\ dir > Dirs
    /\ unprinted' = DOMAIN results
    /\ pc' = "print"
    /\ UNCHANGED <<options, dir, techs, listed, config, server, results, stored, scanErr, err,
                   probes, skipped>>

IsHf(k) == results[k].owner[2] = "huggingFace"
\* Tables of Hugging Face models come last.
Next1(k) == k \in unprinted /\ (IsHf(k) => \A o \in unprinted : IsHf(o))

\* The report may be asked a waiver for: only a complete one, and not in CI.
Waivable(k) == results[k].kind = "full" /\ results[k].waiver /\ ~options.ci

PrintReport(k) ==
    /\ pc = "print" /\ Next1(k) /\ ~Waivable(k)
    /\ unprinted' = unprinted \ {k}
    /\ UNCHANGED <<options, dir, techs, listed, pc, config, server, results, stored, scanErr,
                   err, probes, skipped>>

\* The answer of requestWaiver takes the place of the errors joined so far.
AskWaiver(k) ==
    /\ pc = "print" /\ Next1(k) /\ Waivable(k)
    /\ \E failed \in BOOLEAN : err' = IF failed THEN {<<0, "waiver">>} ELSE {}
    /\ unprinted' = unprinted \ {k}
    /\ UNCHANGED <<options, dir, techs, listed, pc, config, server, results, stored, scanErr,
                   probes, skipped>>

EndRun ==
    /\ pc = "print" /\ unprinted = {}
    /\ pc' = "done"
    /\ UNCHANGED <<options, dir, techs, listed, config, server, results, stored, scanErr, err,
                   probes, skipped, unprinted>>

CurationNext ==
    \/ \E o \in Options : Begin(o)
    \/ ChdirFails \/ FlagsRefused \/ LeaveDir \/ \E list \in TechLists : EnterDir(list)
    \/ Unsupported \/ SupportChecked \/ AuthFails \/ GateFails
    \/ NativeRefused \/ PrepareTree \/ PrepareFails
    \/ TreeFails \/ TreeBuilt \/ FetchRefused
    \/ \E key \in Keys : NothingToAudit(key) \/ Fallback(key)
    \/ \E key \in Keys, waiver \in BOOLEAN : FetchFails(key, waiver) \/ Fetched(key, waiver)
    \/ StartPrinting \/ EndRun
    \/ \E k \in DOMAIN results : PrintReport(k) \/ AskWaiver(k)

CurationSpec == CurationInit /\ [][CurationNext]_caVars

-----------------------------------------------------------------------------
(* Properties.                                                             *)

Audits == (1 .. Dirs) \X Technologies

\* The variables range over the values the code gives them.
CurationTypeOK ==
    /\ options \in Options /\ dir \in 0 .. (Dirs + 1)
    /\ techs \in Seq(Technologies) /\ listed \in Nat /\ stored \in Nat
    /\ pc \in {"idle", "enter", "tech", "tree", "resolve", "fetch", "print", "done"}
    /\ config \in Audits \cup {NoConfig} /\ server \in Audits \cup {NoConfig}
    /\ scanErr \subseteq Audits \cup ((1 .. Dirs) \X {"flags"}) /\ skipped \subseteq Audits
    /\ err \subseteq scanErr \cup {<<0, "chdir">>, <<0, "waiver">>}
    /\ unprinted \subseteq DOMAIN results

\* Two audits that ask for one key keep a report each: the map never loses one.
NoReportLost == Cardinality(DOMAIN results) = stored

\* An audit may use the connection of another one only if that one failed in
\* an earlier directory; within a directory each technology has its own.
ForeignOnlyAfterFailure ==
    \A p \in probes : p.config # p.audit => p.config \in scanErr /\ p.config[1] < p.audit[1]

\* Run returns no error although an audit failed only if a report was stored
\* whose packages a waiver may be asked for: nothing else may lose the error.
ErrorLostOnlyToWaiver ==
    (pc = "done" /\ err = {} /\ scanErr # {}) => \E k \in DOMAIN results : Waivable(k)

\* The audits of a run share a map, a connection and an error, and none spoils
\* what another one left there: no report is overwritten, no connection is used
\* that is another's unless it failed, and only a waiver hides an error.
AuditsKeepApart == NoReportLost /\ ForeignOnlyAfterFailure /\ ErrorLostOnlyToWaiver

\* Run: "If error returned, continue to print results(if any), and return
\* error at the end."
ErrorReturned == pc = "done" /\ scanErr # {} => err # {}

-----------------------------------------------------------------------------
(* Why they hold.                                                          *)

\* While a technology is audited, the directory and the technology exist.
AuditingInv ==
    /\ pc = "idle" => dir = 0
    /\ pc = "enter" => dir \in 1 .. (Dirs + 1)
    /\ pc \in {"tech", "tree", "resolve", "fetch"} => dir \in 1 .. Dirs
    /\ pc \in {"tree", "resolve", "fetch"} => techs # <<>>
\* The reports are finitely many, which makes uniqueReportKey find a number.
ReportsInv == IsFiniteSet(DOMAIN results) /\ NoReportLost
\* The connection is the current audit's own, or the leftover of one that
\* failed in an earlier directory; no request is sent without one.
ConnectionInv ==
    /\ \/ config = NoConfig
       \/ config \in scanErr /\ config[1] < dir
       \/ pc \in {"tree", "resolve", "fetch"} /\ config = This
    /\ pc = "fetch" => config # NoConfig
\* Run collects every failure until it prints; from then on the errors are
\* the collected ones or a report could be asked a waiver for.
ErrorInv ==
    IF pc \in {"print", "done"}
    THEN err = scanErr \/ err = {<<0, "chdir">>} \/ \E k \in DOMAIN results : Waivable(k)
    ELSE err = scanErr

AuditInv == /\ CurationTypeOK /\ AuditingInv /\ ReportsInv /\ ConnectionInv /\ ErrorInv
            /\ ForeignOnlyAfterFailure
=============================================================================
