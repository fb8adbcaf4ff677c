-------------------------- MODULE CurationFallback --------------------------
(***************************************************************************)
(* What `jf curation-audit` recovers when curation made the installation   *)
(* itself fail: from npm's debug log (commands/curation/npmlogparser.go    *)
(* and runNpmLogFallback) or from the pins that pip could not find         *)
(* (runCvsFallback, fetchCvsBlockedStatus in curationaudit.go).            *)
(*                                                                         *)
(* npm fetches packages concurrently.  The notice with the policy and the  *)
(* 403 line with the package's name are written apart, so lines of several *)
(* fetches mix; the scanner pairs them first in, first out.  A line is     *)
(* scanned as it is written: the chunks of a log are one stream.           *)
(***************************************************************************)
EXTENDS Naturals, Sequences, FiniteSets, SequencesExt

CONSTANTS
    Pkg,        \* package names
    Entry,      \* the placeDep lines a log may hold: name, version, kind, text, parent
    Pin,        \* the pins of a failed Python resolution
    NoVersion,  \* the version of an entry npm did not resolve
    Project     \* the name and version npm logs the project under

VARIABLES
    phase,      \* "idle", "log", "probe", "graph", "pins", or how it ended
    line,       \* what npm logged of each package's fetch
    pending,    \* pendingNotices
    policyOf,   \* blockedPackages: pairs of a package and the policy's owner
    entries,    \* the entries read from the log
    todo,       \* the entries, or pins, that are left
    seenKeys,   \* the keys of the map that were dealt with
    blockedKeys,\* the keys stored in the map
    cleanKeys,  \* the keys a probe found clean
    advised,    \* the entries an advisory warning names
    root,       \* the name and version the graph is built from
    rows        \* the rows of the report

cfVars == <<phase, line, pending, policyOf, entries, todo, seenKeys, blockedKeys, cleanKeys,
            advised, root, rows>>

\* What readNpmProjectNameVersion reads in a package.json without a version;
\* one without a name is alike.
Unversioned == <<Project[1], NoVersion>>

FallbackInit ==
    /\ phase = "idle"
    /\ line = [p \in Pkg |-> "none"]
    /\ pending = <<>> /\ policyOf = {}
    /\ entries = {} /\ todo = {} /\ seenKeys = {} /\ blockedKeys = {} /\ cleanKeys = {}
    /\ advised = {} /\ root = Unversioned /\ rows = {}

-----------------------------------------------------------------------------
(* The debug log.                                                          *)

InstallFails ==
    /\ phase = "idle"
    /\ phase' = "log"
    /\ UNCHANGED <<line, pending, policyOf, entries, todo, seenKeys, blockedKeys, cleanKeys,
                   advised, root, rows>>

\* Faulty variant: overlapping notices are paired in order.
AmbiguousNever(notices) == notices

\* A notice that overlaps with another makes both ambiguous.
Ambiguous(notices) == [i \in DOMAIN notices |-> [notices[i] EXCEPT !.ambiguous = TRUE]]
Notice(p) ==
    /\ phase = "log" /\ line[p] = "none"
    /\ line' = [line EXCEPT ![p] = "noticed"]
    /\ pending' = Append(Ambiguous(pending), [owner |-> p, ambiguous |-> pending # <<>>])
    /\ UNCHANGED <<phase, policyOf, entries, todo, seenKeys, blockedKeys, cleanKeys, advised, root, rows>>

\* A 403 takes the oldest notice, if one is pending; a map keeps one policy
\* for a name.
Paired(p) == IF Head(pending).ambiguous THEN "unknown" ELSE Head(pending).owner
Record(p) ==
    IF pending = <<>> THEN UNCHANGED <<pending, policyOf>>
    ELSE /\ policyOf' = {x \in policyOf : x[1] # p} \cup {<<p, Paired(p)>>}
         /\ pending' = Tail(pending)
Fetch403(p) ==
    /\ phase = "log" /\ line[p] = "noticed"
    /\ line' = [line EXCEPT ![p] = "forbidden"]
    /\ Record(p)
    /\ UNCHANGED <<phase, entries, todo, seenKeys, blockedKeys, cleanKeys, advised, root, rows>>

\* A 403 that no notice announced: the registry's permissions, for instance.
Plain403(p) ==
    /\ phase = "log" /\ line[p] = "none"
    /\ line' = [line EXCEPT ![p] = "plain"]
    /\ Record(p)
    /\ UNCHANGED <<phase, entries, todo, seenKeys, blockedKeys, cleanKeys, advised, root, rows>>

\* The log cannot be read, is not newer than the baseline, or holds no entry.
NothingLogged ==
    /\ phase = "log"
    /\ phase' = "original"
    /\ UNCHANGED <<line, pending, policyOf, entries, todo, seenKeys, blockedKeys, cleanKeys,
                   advised, root, rows>>

\* Without a connection to Artifactory the error is returned.
LogParsed(found, connected) ==
    /\ phase = "log" /\ found # {}
    /\ entries' = found /\ todo' = found
    /\ phase' = IF connected THEN "probe" ELSE "original"
    /\ UNCHANGED <<line, pending, policyOf, seenKeys, blockedKeys, cleanKeys, advised, root, rows>>

-----------------------------------------------------------------------------
(* The loop over the entries, sorted by name and version.                  *)

Policies(p) == {x \in policyOf : x[1] = p}

\* classifyBlankVersionEntry and effectiveGraphVersion.
Category(e) ==
    CASE e.version # NoVersion        -> "resolved"
      [] Policies(e.name) # {} /\ e.version = NoVersion -> "wholePackageBlocked"
      [] OTHER                        -> e.kind
EffectiveVersion(e) ==
    IF Category(e) \in {"etarget", "nonRegistry"} THEN e.text ELSE e.version
KeyOf(e) == <<e.name, EffectiveVersion(e)>>

NextEntry(e) ==
    /\ phase = "probe" /\ e \in todo
    /\ e.version # NoVersion => \A f \in todo : f.name = e.name => f.version # NoVersion

\* A range is only advised about, whatever key it would have.
AdviseRange(e) ==
    /\ NextEntry(e) /\ Category(e) = "range"
    /\ advised' = advised \cup {e} /\ todo' = todo \ {e}
    /\ UNCHANGED <<phase, line, pending, policyOf, entries, seenKeys, blockedKeys, cleanKeys, root, rows>>

SkipDuplicate(e) ==
    /\ NextEntry(e) /\ Category(e) # "range" /\ KeyOf(e) \in seenKeys
    /\ todo' = todo \ {e}
    /\ UNCHANGED <<phase, line, pending, policyOf, entries, seenKeys, blockedKeys, cleanKeys,
                   advised, root, rows>>

First(e) ==
    /\ NextEntry(e) /\ Category(e) # "range" /\ KeyOf(e) \notin seenKeys
    /\ todo' = todo \ {e} /\ seenKeys' = seenKeys \cup {KeyOf(e)}
    /\ UNCHANGED <<phase, line, pending, policyOf, entries, root, rows>>

\* What the log says is enough.
TakeFromLog(e) ==
    /\ First(e)
    /\ \/ /\ Category(e) = "wholePackageBlocked"
          /\ blockedKeys' = blockedKeys \cup {KeyOf(e)} /\ UNCHANGED advised
       \/ /\ Category(e) = "nonRegistry"
          /\ advised' = advised \cup {e} /\ UNCHANGED blockedKeys
    /\ UNCHANGED cleanKeys

\* An entry with an exact version is probed.
ProbeBlocked(e) ==
    /\ First(e) /\ Category(e) \in {"resolved", "etarget"}
    /\ blockedKeys' = blockedKeys \cup {KeyOf(e)}
    /\ UNCHANGED <<cleanKeys, advised>>
\* Faulty variant: an entry whose probe fails is left out.
ProbeFailsSilently(e) ==
    /\ First(e) /\ Category(e) \in {"resolved", "etarget"}
    /\ UNCHANGED <<blockedKeys, cleanKeys, advised>>

ProbeFails(e) ==
    /\ First(e) /\ Category(e) \in {"resolved", "etarget"}
    /\ advised' = advised \cup {e}
    /\ UNCHANGED <<blockedKeys, cleanKeys>>
ProbeClean(e) ==
    /\ First(e) /\ Category(e) \in {"resolved", "etarget"}
    /\ cleanKeys' = cleanKeys \cup {KeyOf(e)}
    /\ advised' = IF Category(e) = "etarget" THEN advised \cup {e} ELSE advised
    /\ UNCHANGED blockedKeys

\* Faulty variant: to the entry by the version the log gives it.
NodeLogged(e) == <<e.name, e.version>>
\* buildGraphFromLogEntries: from the parent the log names, by the version the
\* log gives it, to the entry by the version it is probed with.
NodeOf(e) == KeyOf(e)
Nodes == {NodeOf(e) : e \in entries}
FollowsEdges(from, keys) ==
    \A e \in entries : e.parent \in keys \cup {from} => NodeOf(e) \in keys
\* The nodes fillGraphRelations gets to: a node is not put below itself.
Reached(from) ==
    {k \in Nodes : \A keys \in SUBSET Nodes : FollowsEdges(from, keys) => k \in keys} \ {from}

\* The project is the one of package.json, or the parent of an entry at the top
\* if there is no such file.  A line is only read if its parent has a version, so
\* no entry is the project's when package.json has none.  The rows are the blocked
\* keys its graph reaches; a report without rows and warnings is dropped.
BuildReport(identity) ==
    /\ phase = "probe" /\ todo = {}
    /\ identity = Unversioned => \A e \in entries : e.parent # Project
    /\ root' = identity
    /\ rows' = blockedKeys \cap Reached(identity)
    /\ phase' = IF rows' = {} /\ advised = {} THEN "original" ELSE "report"
    /\ UNCHANGED <<line, pending, policyOf, entries, todo, seenKeys, blockedKeys, cleanKeys, advised>>

-----------------------------------------------------------------------------
(* The pins of a Python project, one after another.                        *)

PipFails(pins, connected) ==
    /\ phase = "idle" /\ pins # {}
    /\ todo' = pins
    /\ phase' = IF connected THEN "pins" ELSE "original"
    /\ UNCHANGED <<line, pending, policyOf, entries, seenKeys, blockedKeys, cleanKeys, advised, root, rows>>

\* lookup: no version or no download URL; HEAD: no answer, not forbidden, or
\* forbidden, which is shown whatever the GET says.
ProbePin(p, answer) ==
    /\ phase = "pins" /\ p \in todo
    /\ todo' = todo \ {p}
    /\ rows' = IF answer = "forbidden" THEN rows \cup {<<p, answer>>} ELSE rows
    /\ UNCHANGED <<phase, line, pending, policyOf, entries, seenKeys, blockedKeys, cleanKeys,
                   advised, root>>

PinsDone ==
    /\ phase = "pins" /\ todo = {}
    /\ phase' = IF rows = {} THEN "original" ELSE "report"
    /\ UNCHANGED <<line, pending, policyOf, entries, todo, seenKeys, blockedKeys, cleanKeys,
                   advised, root, rows>>

FallbackNext ==
    \/ InstallFails
    \/ \E p \in Pkg : Notice(p) \/ Fetch403(p) \/ Plain403(p)
    \/ NothingLogged
    \/ \E found \in SUBSET Entry, connected \in BOOLEAN : LogParsed(found, connected)
    \/ \E e \in Entry : \/ AdviseRange(e) \/ SkipDuplicate(e) \/ TakeFromLog(e)
                        \/ ProbeBlocked(e) \/ ProbeFails(e) \/ ProbeClean(e)
    \/ \E identity \in {Project, Unversioned} \cup {e.parent : e \in entries} : BuildReport(identity)
    \/ \E pins \in SUBSET Pin, connected \in BOOLEAN : PipFails(pins, connected)
    \/ \E p \in Pin, answer \in {"unresolved", "noAnswer", "open", "forbidden"} : ProbePin(p, answer)
    \/ PinsDone

FallbackSpec == FallbackInit /\ [][FallbackNext]_cfVars

FallbackDone == phase \in {"original", "report"}

-----------------------------------------------------------------------------
(* Properties.                                                             *)

\* The variables range over the values the code gives them.
FallbackTypeOK ==
    /\ phase \in {"idle", "log", "probe", "pins", "original", "report"}
    /\ line \in [Pkg -> {"none", "noticed", "forbidden", "plain"}]
    /\ pending \in Seq([owner : Pkg, ambiguous : BOOLEAN])
    /\ policyOf \subseteq Pkg \X (Pkg \cup {"unknown"})
    /\ entries \subseteq Entry /\ advised \subseteq entries
    /\ root \in {Project, Unversioned} \cup {e.parent : e \in Entry}

\* However the lines of concurrent fetches mix, a package is shown with its
\* own policy or an unknown one, never another package's, as long as every 403
\* has its notice.
NoticePaired ==
    (\A p \in Pkg : line[p] # "plain") => \A x \in policyOf : x[2] \in {x[1], "unknown"}

\* The log places an entry below the project, or below a package it places there.
PlacedBelow(e, placed) ==
    e.parent = Project \/ \E f \in placed : f.version # NoVersion /\ e.parent = <<f.name, f.version>>
Installed ==
    {e \in entries : \A placed \in SUBSET entries :
        (\A f \in entries : PlacedBelow(f, placed) => f \in placed) => e \in placed}
\* When a report takes the place of npm's error, each package of the log was
\* found clean, is warned about, or has its row in the report: none is dropped
\* because it shares a name or a version with another, or because the graph
\* names it by another version than the probe.  Not so when the graph is built
\* from another project than the log's, and for a package whose line of the log,
\* or that of one above it, was not read.
EntriesAccounted ==
    phase = "report" =>
        \A e \in entries :
            \/ KeyOf(e) \in rows \cup cleanKeys
            \/ \E f \in advised : f.name = e.name /\ KeyOf(f) = KeyOf(e)
            \/ root # Project \/ KeyOf(e) = Project \/ e \notin Installed

\* curationaudit_test.go:3375: a package that is "genuinely blocked ... must
\* appear, not be lost".  It is lost from the report, made of warnings then, of a
\* project whose package.json has no version or no name.
BlockedAreShown == phase = "report" /\ root = Unversioned => blockedKeys \subseteq rows

\* Both: npm's log becomes a report that accounts for every package it links to
\* the project, and shows none with another's policy.
LogRecovered == NoticePaired /\ EntriesAccounted

-----------------------------------------------------------------------------
(* Why it holds.                                                           *)

Noticed == {p \in Pkg : line[p] = "noticed"}
\* As long as every 403 took the place of a notice, as many are pending as
\* packages wait for theirs; so a notice that overlapped with none belongs to
\* the only package that waits.
PendingInv ==
    (\A p \in Pkg : line[p] # "plain") =>
        /\ IsFiniteSet(Noticed) /\ Cardinality(Noticed) = Len(pending)
        /\ \A i \in DOMAIN pending : ~pending[i].ambiguous => Noticed = {pending[i].owner}

\* A key that was dealt with is in the map, was found clean, or is warned about.
Accounted(k) == k \in blockedKeys \cup cleanKeys \/ \E f \in advised : KeyOf(f) = k
\* The entries that are left are read from the log; the others have their keys
\* accounted for, and a duplicate has the key of one that has.
EntriesInv ==
    /\ phase \in {"idle", "log", "pins"} => entries = {} /\ seenKeys = {}
    /\ \A k \in seenKeys : Accounted(k)
    /\ phase = "probe" => \A e \in entries \ todo : Accounted(KeyOf(e))
    /\ phase = "report" => \A e \in entries : Accounted(KeyOf(e))
    /\ phase = "report" /\ entries # {} => rows = blockedKeys \cap Reached(root)

FallbackInv == /\ FallbackTypeOK /\ NoticePaired /\ PendingInv /\ EntriesInv
               /\ phase = "probe" => todo \subseteq entries
=============================================================================
