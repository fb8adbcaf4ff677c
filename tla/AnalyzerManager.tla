-------------------------- MODULE AnalyzerManager --------------------------
(***************************************************************************)
(* jas/analyzermanager.go and utils.DownloadResourceFromPlatformIfNeeded:  *)
(* the executable of the Advanced Security scanners is cached in one       *)
(* directory of the user's home, next to a file with its checksum, for     *)
(* every process of the CLI; each process wants the version its            *)
(* environment names.  A process then starts it, as a scanner or, for the  *)
(* SAST server and the source MCP, as a server whose time may be limited.  *)
(***************************************************************************)
CONSTANTS Processes,   \* processes of the CLI that share the home directory
          Versions,    \* versions of the analyzer manager
          Requests,    \* process -> [version, server, timed]
          Nothing      \* no file, no version

\* A process asks for a version, which is neither absent nor incomplete.
ASSUME ManagerAssumption ==
    /\ Requests \subseteq [Processes -> [version : Versions, server : BOOLEAN, timed : BOOLEAN]]
    /\ Nothing \notin Versions /\ "mixed" \notin Versions /\ Nothing # "mixed"

VARIABLES request,     \* what each process was called for
          checksum,    \* the version whose checksum is in the checksum file
          content,     \* the version of the unpacked files, "mixed" if some are missing
          doing,       \* process -> its next call
          started,     \* process -> the content of the executable it started
          child,       \* process -> its analyzer manager
          disturbed    \* two processes met, or another version was left half unpacked

managerVars == <<request, checksum, content, doing, started, child, disturbed>>

Wanted(p) == request[p].version
Unpacking(p) == doing[p] \in {"unpack", "mark"}
\* Goes by the checksum it read, or by the files it found or made.
Relying(p) == doing[p] \in {"download", "unpack", "mark", "locate"}

ManagerInit ==
    /\ request \in Requests
    /\ checksum = Nothing
    /\ content = Nothing
    /\ doing = [p \in Processes |-> "check"]
    /\ started = [p \in Processes |-> Nothing]
    /\ child = [p \in Processes |-> "none"]
    /\ disturbed = FALSE

GoTo(p, call) == doing' = [doing EXCEPT ![p] = call]
Met == \E p, q \in Processes : p # q /\ Unpacking(p)' /\ Relying(q)'
Watch == disturbed' = (disturbed \/ Met)

--------------------------------------------------------------------------
(* DownloadAnalyzerManagerIfNeeded                                         *)

\* The remote details or the checksum file cannot be read.
CheckFails(p) ==
    /\ doing[p] = "check"
    /\ GoTo(p, "failed")
    /\ UNCHANGED <<request, checksum, content, started, child, disturbed>>

isArtifactChecksumsMatch(p) ==
    /\ doing[p] = "check"
    /\ GoTo(p, IF checksum = Wanted(p) THEN "locate" ELSE "download")
    /\ Watch
    /\ UNCHANGED <<request, checksum, content, started, child>>

DownloadFails(p) ==
    /\ doing[p] = "download"
    /\ GoTo(p, "failed")
    /\ UNCHANGED <<request, checksum, content, started, child, disturbed>>

UnpackMarked(p) == content' = "mixed" /\ checksum' = Wanted(p)
\* The checksum file is left as it is until the files are complete.
Unpack(p) == content' = "mixed" /\ UNCHANGED checksum

BeginUnpack(p) ==
    /\ doing[p] = "download"
    /\ Unpack(p)
    /\ GoTo(p, "unpack")
    /\ Watch
    /\ UNCHANGED <<request, started, child>>

EndUnpack(p) ==
    /\ doing[p] = "unpack"
    /\ content' = Wanted(p)
    /\ GoTo(p, "mark")
    /\ UNCHANGED <<request, checksum, started, child, disturbed>>

CreateChecksumFile(p) ==
    /\ doing[p] = "mark"
    /\ checksum' = Wanted(p)
    /\ GoTo(p, "locate")
    /\ UNCHANGED <<request, content, started, child, disturbed>>

\* Unpacking or writing the checksum fails, or the process is killed.
Interrupted(p) ==
    /\ Unpacking(p)
    /\ GoTo(p, "failed")
    /\ disturbed' = (disturbed \/ checksum \notin {Nothing, Wanted(p)})
    /\ UNCHANGED <<request, checksum, content, started, child>>

--------------------------------------------------------------------------
(* GetAnalyzerManagerExecutable, Exec and RunAnalyzerManagerWithPipes      *)

\* The executable may be among the files that are missing.
NotLocated(p) ==
    /\ doing[p] = "locate" /\ content \in {Nothing, "mixed"}
    /\ GoTo(p, "failed")
    /\ UNCHANGED <<request, checksum, content, started, child, disturbed>>

Start(p) ==
    /\ doing[p] = "locate" /\ content # Nothing
    /\ started' = [started EXCEPT ![p] = content]
    /\ child' = [child EXCEPT ![p] = "running"]
    /\ GoTo(p, "wait")
    /\ UNCHANGED <<request, checksum, content, disturbed>>

\* A pipe cannot be made, or the process cannot be started.
StartFails(p) ==
    /\ doing[p] = "locate" /\ content # Nothing
    /\ GoTo(p, "failed")
    /\ UNCHANGED <<request, checksum, content, started, child, disturbed>>

Exits(p) ==
    /\ doing[p] = "wait"
    /\ child' = [child EXCEPT ![p] = "ended"]
    /\ \E end \in {"done", "failed"} : GoTo(p, end)
    /\ UNCHANGED <<request, checksum, content, started, disturbed>>

killProcessTree(p) == child' = [child EXCEPT ![p] = "ended"]

\* The server's time is over: it is killed, and the command succeeds.
TimeoutReached(p) ==
    /\ doing[p] = "wait" /\ request[p].server /\ request[p].timed
    /\ killProcessTree(p)
    /\ GoTo(p, "done")
    /\ UNCHANGED <<request, checksum, content, started, disturbed>>

ManagerNext ==
    \E p \in Processes :
        \/ CheckFails(p) \/ isArtifactChecksumsMatch(p) \/ DownloadFails(p)
        \/ BeginUnpack(p) \/ EndUnpack(p) \/ CreateChecksumFile(p) \/ Interrupted(p)
        \/ NotLocated(p) \/ Start(p) \/ StartFails(p) \/ Exits(p) \/ TimeoutReached(p)

ManagerSpec == ManagerInit /\ [][ManagerNext]_managerVars

--------------------------------------------------------------------------

ManagerTypes ==
    /\ request \in Requests
    /\ checksum \in Versions \cup {Nothing}
    /\ content \in Versions \cup {Nothing, "mixed"}
    /\ doing \in [Processes -> {"check", "download", "unpack", "mark", "locate", "wait", "done", "failed"}]
    /\ started \in [Processes -> Versions \cup {Nothing, "mixed"}]
    /\ child \in [Processes -> {"none", "running", "ended"}]
    /\ disturbed \in BOOLEAN

\* A process that starts the analyzer manager starts complete files of the
\* version it wants, whatever process was killed at whatever point before it,
\* unless two processes unpacked or relied on the cache at one time or another
\* version was left half unpacked under the checksum of this one; and no
\* process of the CLI ends before the manager it started.
ManagerIsWhole ==
    \A p \in Processes :
        /\ started[p] \in {Nothing, Wanted(p)} \/ disturbed
        /\ doing[p] \in {"done", "failed"} => child[p] # "running"

--------------------------------------------------------------------------
(* The inductive invariant behind the theorems of AnalyzerManager_proofs.  *)

\* Who unpacks is alone with the cache.
Alone == \A p, q \in Processes : p # q /\ Unpacking(p) => ~Relying(q)

\* The checksum file speaks of the files, except while they are unpacked and
\* after that was interrupted, when there is no checksum file.
ChecksumTells ==
    \/ checksum = Nothing
    \/ checksum = content
    \/ \E p \in Processes : Unpacking(p)

\* What each process knows of the cache at its next call.
CacheKnown ==
    \A p \in Processes :
        /\ doing[p] \in {"download", "unpack", "mark"} => checksum # Wanted(p)
        /\ doing[p] \in {"mark", "locate"} => content = Wanted(p)
        /\ started[p] \in {Nothing, Wanted(p)}

\* Only a process that waits has a manager that runs.
ChildKnown == \A p \in Processes : child[p] = "running" => doing[p] = "wait"

ManagerInv ==
    /\ ManagerTypes
    /\ ChildKnown
    /\ disturbed \/ (Alone /\ ChecksumTells /\ CacheKnown)
=============================================================================
