--------------------------- MODULE ContributorsScan ---------------------------
(***************************************************************************)
(* "jf git count-contributors": each command lists the repositories of its *)
(* git servers, scans them on a parallel runner, and merges the results    *)
(* into a report.  Commands share, across runs and processes, a cache on   *)
(* disk with one file per repository, replaced by writing a temporary file *)
(* and renaming it.                                                        *)
(*                                                                         *)
(* The commits of a repository do not change in the model, so an entry is  *)
(* as good as the scan that wrote it; all commands analyse the same number *)
(* of months, which is part of the cache directory's name.                 *)
(***************************************************************************)
EXTENDS Integers, Sequences, FiniteSets, Functions

CONSTANTS
  Commands,    \* processes of the CLI
  Servers,     \* <<scm-type, scm-api-url, owner>> combinations
  Names,       \* repository names
  Safe,        \* sanitizeFilename
  History,     \* the pages of commits of a repository, a commit by its author
  Requests,    \* the command lines considered for each command
  MaxRepos,    \* the longest list of repositories
  NumThreads,  \* workers of the runner (--threads)
  Tries        \* getCommitsRetryNumber (5 in the code)

Repos   == Servers \X Names
Authors == UNION {UNION {Range(p) : p \in Range(History[r])} : r \in Repos}

\* The repositories of all servers in order; -detailed-summary; and whether
\* --cache-validity is positive.
RequestType == [repos : Seq(Repos), detailed : BOOLEAN, readCache : BOOLEAN]

\* "no" only marks the markers below: no server is called that.
ASSUME ContributorsAssumption ==
  /\ "no" \notin Servers
  /\ \A r \in Repos : History[r] \in Seq(Seq(Authors) \ {<<>>})
  /\ DOMAIN Safe = Names
  /\ MaxRepos \in Nat
  /\ Requests \in [Commands -> SUBSET RequestType]
  /\ \A c \in Commands : \A q \in Requests[c] : Len(q.repos) \in 1 .. MaxRepos
  /\ NumThreads \in Nat \ {0}
  /\ Tries \in Nat \ {0}

VARIABLES
  request,  \* the command line of each command
  main,     \* the goroutine that runs the command
  dirs,     \* the servers whose cache directory the command could create
  phase,    \* what the scan of a task is doing
  page,     \* the pages of commits it has received
  tries,    \* the failed attempts at the next page
  result,   \* its repoScanResult
  fd,       \* the file it has open for writing
  temp,     \* the temporary file of a cache file
  final,    \* the cache file
  content,  \* what a file on disk holds
  expired   \* the files older than --cache-validity

vars == <<request, main, dirs, phase, page, tries, result, fd, temp, final,
          content, expired>>
disk  == <<temp, final, content, expired>>
local == <<page, tries, result, fd>>

\* Task s is the s[2]-th repository of the request of command s[1].
Tasks == Commands \X (1 .. MaxRepos)
TasksOf(c) == {s \in Tasks : s[1] = c /\ s[2] <= Len(request[c].repos)}
RepoOf(s) == request[s[1]].repos[s[2]]

\* A cache file is found by its path; a file on disk (an inode) is named by the
\* task that created it.
NoFile == <<"none", 0>>
Paths  == Servers \X Range(Safe)
RepoPath(r) == <<r[1], Safe[r[2]]>>
PathOf(s) == RepoPath(RepoOf(s))
Cached(s) == RepoOf(s)[1] \in dirs[s[1]]

\* What a scan found: the first pages of a repository, with the detailed
\* summaries or without.
Scan(r, n, d) == [repo |-> r, pages |-> n, detailed |-> d]
Scans   == [repo : Repos, pages : Nat, detailed : BOOLEAN]
NoScan  == Scan(<<"no", "scan">>, 0, FALSE)
Skipped == Scan(<<"no", "access">>, 0, FALSE)
Empty   == Scan(<<"no", "bytes">>, 0, FALSE)  \* truncated, not yet written
Torn    == Scan(<<"no", "json">>, 0, FALSE)   \* cut off, or of two writers

TypeOK ==
  /\ \A c \in Commands : request[c] \in Requests[c]
  /\ main \in [Commands -> {"idle", "run", "reported", "failed", "killed"}]
  /\ dirs \in [Commands -> SUBSET Servers]
  /\ phase \in [Tasks -> {"none", "read", "fetch", "open", "write", "rename",
                          "remove", "store", "done"}]
  /\ page \in [Tasks -> Nat]
  /\ tries \in [Tasks -> 0 .. Tries - 1]
  /\ result \in [Tasks -> Scans \cup {NoScan, Skipped}]
  /\ fd \in [Tasks -> Tasks \cup {NoFile}]
  /\ temp \in [Paths -> Tasks \cup {NoFile}]
  /\ final \in [Paths -> Tasks \cup {NoFile}]
  /\ content \in [Tasks -> Scans \cup {NoScan, Empty, Torn}]
  /\ expired \subseteq Tasks

Init ==
  /\ request \in {q \in [Commands -> UNION Range(Requests)] :
                    \A c \in Commands : q[c] \in Requests[c]}
  /\ main = [c \in Commands |-> "idle"]
  /\ dirs = [c \in Commands |-> {}]
  /\ phase = [s \in Tasks |-> "none"]
  /\ page = [s \in Tasks |-> 0]
  /\ tries = [s \in Tasks |-> 0]
  /\ result = [s \in Tasks |-> NoScan]
  /\ fd = [s \in Tasks |-> NoFile]
  /\ temp = [p \in Paths |-> NoFile]
  /\ final = [p \in Paths |-> NoFile]
  /\ content = [s \in Tasks |-> NoScan]
  /\ expired = {}

-----------------------------------------------------------------------------
\* The command: buildRepoScanTasks, then runRepoScanTasks.

\* A cache directory that cannot be created, like a negative --cache-validity,
\* only disables that server's cache.
Start(c) ==
  /\ main[c] = "idle"
  /\ main' = [main EXCEPT ![c] = "run"]
  /\ \E d \in SUBSET {RepoOf(s)[1] : s \in TasksOf(c)} : dirs' = [dirs EXCEPT ![c] = d]
  /\ UNCHANGED <<request, phase, local, disk>>

\* Listing the repositories of one server failed.
StartFails(c) ==
  /\ main[c] = "idle"
  /\ main' = [main EXCEPT ![c] = "failed"]
  /\ UNCHANGED <<request, dirs, phase, local, disk>>

\* One skipped repository fails the command; otherwise the results are merged.
Finish(c) ==
  /\ main[c] = "run"
  /\ \A s \in TasksOf(c) : phase[s] = "done"
  /\ main' = [main EXCEPT ![c] =
       IF \E s \in TasksOf(c) : result[s] = Skipped THEN "failed" ELSE "reported"]
  /\ UNCHANGED <<request, dirs, phase, local, disk>>

\* The process is interrupted, at any point.
Kill(c) ==
  /\ main[c] = "run"
  /\ main' = [main EXCEPT ![c] = "killed"]
  /\ UNCHANGED <<request, dirs, phase, local, disk>>

\* The age of a cache file passes --cache-validity.
Expire(p) ==
  /\ final[p] # NoFile /\ content[final[p]] \in Scans
  /\ final[p] \notin expired
  /\ expired' = expired \cup {final[p]}
  /\ UNCHANGED <<request, main, dirs, phase, local, temp, final, content>>

-----------------------------------------------------------------------------
\* A task: scanRepo.

At(s, ph) == main[s[1]] = "run" /\ phase[s] = ph
GoTo(s, ph) == phase' = [phase EXCEPT ![s] = ph]

\* A free worker takes the next task.
Take(s) ==
  /\ s \in TasksOf(s[1]) /\ At(s, "none")
  /\ \A t \in TasksOf(s[1]) : t[2] < s[2] => phase[t] # "none"
  /\ Cardinality({t \in TasksOf(s[1]) : phase[t] \notin {"none", "done"}}) < NumThreads
  /\ GoTo(s, IF Cached(s) THEN "read" ELSE "fetch")
  /\ UNCHANGED <<request, main, dirs, local, disk>>

\* Faulty variant: the file is used without parsing it first.
FoundAnything(s) == request[s[1]].readCache /\ final[PathOf(s)] # NoFile

\* readRepoCache finds an entry that parses and is recent enough.
Found(s) ==
  /\ request[s[1]].readCache
  /\ final[PathOf(s)] # NoFile
  /\ content[final[PathOf(s)]] \in Scans
  /\ final[PathOf(s)] \notin expired

ReadCache(s) ==
  /\ At(s, "read")
  /\ IF Found(s)
     THEN /\ result' = [result EXCEPT ![s] = content[final[PathOf(s)]]]
          /\ GoTo(s, "store")
     ELSE /\ GoTo(s, "fetch")
          /\ UNCHANGED result
  /\ UNCHANGED <<request, main, dirs, page, tries, fd, disk>>

Pages(r) == Len(History[r])

FetchPage(s) ==
  /\ At(s, "fetch") /\ page[s] < Pages(RepoOf(s))
  /\ page' = [page EXCEPT ![s] = @ + 1]
  /\ tries' = [tries EXCEPT ![s] = 0]
  /\ UNCHANGED <<request, main, dirs, phase, result, fd, disk>>

FetchedAll(s) ==
  /\ At(s, "fetch") /\ page[s] = Pages(RepoOf(s))
  /\ result' = [result EXCEPT ![s] = Scan(RepoOf(s), page[s], request[s[1]].detailed)]
  /\ GoTo(s, IF Cached(s) THEN "open" ELSE "store")
  /\ UNCHANGED <<request, main, dirs, page, tries, fd, disk>>

\* Faulty variant: what was received before the error is kept, and cached.
FetchFailsKeeping(s) ==
  /\ At(s, "fetch")
  /\ result' = [result EXCEPT ![s] = Scan(RepoOf(s), page[s], request[s[1]].detailed)]
  /\ GoTo(s, IF Cached(s) THEN "open" ELSE "store")
  /\ UNCHANGED <<request, main, dirs, page, tries, fd, disk>>

FetchFails(s) ==
  /\ At(s, "fetch")
  /\ result' = [result EXCEPT ![s] = Skipped]
  /\ GoTo(s, "store")
  /\ UNCHANGED <<request, main, dirs, page, tries, fd, disk>>

\* Faulty variant: the last try starts the count again.
RateLimitedForever(s) ==
  /\ At(s, "fetch")
  /\ tries' = [tries EXCEPT ![s] = (@ + 1) % Tries]
  /\ UNCHANGED <<request, main, dirs, phase, page, result, fd, disk>>

\* GitHub's rate limit: sleep until it is reset and try again; the last try
\* ends like any other failure, as "retries exceeded" (FetchFails).
RateLimited(s) ==
  /\ At(s, "fetch") /\ tries[s] < Tries - 1
  /\ tries' = [tries EXCEPT ![s] = @ + 1]
  /\ UNCHANGED <<request, main, dirs, phase, page, result, fd, disk>>

-----------------------------------------------------------------------------
\* writeRepoCache: os.WriteFile (open and truncate, then write) and os.Rename.

OpenTemp(s) ==
  /\ At(s, "open")
  /\ LET p == PathOf(s)
         f == IF temp[p] = NoFile THEN s ELSE temp[p]
     IN /\ temp' = [temp EXCEPT ![p] = f]
        /\ fd' = [fd EXCEPT ![s] = f]
        /\ content' = [content EXCEPT ![f] = Empty]
  /\ GoTo(s, "write")
  /\ UNCHANGED <<request, main, dirs, page, tries, result, final, expired>>

\* What is left when s writes over the bytes of another writer.
Written(s) ==
  IF content[fd[s]] \in {Empty, result[s]} THEN {result[s]} ELSE {result[s], Torn}

WriteTemp(s) ==
  /\ At(s, "write")
  /\ \E e \in Written(s) : content' = [content EXCEPT ![fd[s]] = e]
  /\ expired' = expired \ {fd[s]}
  /\ GoTo(s, "rename")
  /\ UNCHANGED <<request, main, dirs, local, temp, final>>

\* The file could not be opened, or the disk was full.
WriteFails(s) ==
  /\ \/ At(s, "open") /\ UNCHANGED content
     \/ At(s, "write") /\ content' = [content EXCEPT ![fd[s]] = Torn]
  /\ GoTo(s, "store")
  /\ UNCHANGED <<request, main, dirs, local, temp, final, expired>>

Rename(s) ==
  /\ At(s, "rename") /\ temp[PathOf(s)] # NoFile
  /\ final' = [final EXCEPT ![PathOf(s)] = temp[PathOf(s)]]
  /\ temp' = [temp EXCEPT ![PathOf(s)] = NoFile]
  /\ GoTo(s, "store")
  /\ UNCHANGED <<request, main, dirs, local, content, expired>>

\* Another writer renamed the file already, or the file system refused.
RenameFails(s) ==
  /\ At(s, "rename")
  /\ GoTo(s, "remove")
  /\ UNCHANGED <<request, main, dirs, local, disk>>

RemoveTemp(s) ==
  /\ At(s, "remove")
  /\ temp' = [temp EXCEPT ![PathOf(s)] = NoFile]
  /\ GoTo(s, "store")
  /\ UNCHANGED <<request, main, dirs, local, final, content, expired>>

\* Under the mutex of runRepoScanTasks.
Store(s) ==
  /\ At(s, "store")
  /\ GoTo(s, "done")
  /\ UNCHANGED <<request, main, dirs, local, disk>>

-----------------------------------------------------------------------------
FetchStep(s) == FetchPage(s) \/ FetchedAll(s) \/ FetchFails(s) \/ RateLimited(s)

WriteStep(s) == \/ OpenTemp(s) \/ WriteTemp(s) \/ WriteFails(s)
                \/ Rename(s) \/ RenameFails(s) \/ RemoveTemp(s)

TaskStep(s) == Take(s) \/ ReadCache(s) \/ FetchStep(s) \/ WriteStep(s) \/ Store(s)

Next == \/ \E c \in Commands : Start(c) \/ StartFails(c) \/ Finish(c) \/ Kill(c)
        \/ \E s \in Tasks : TaskStep(s)
        \/ \E p \in Paths : Expire(p)

\* The goroutines of a command that is not killed are scheduled, and requests
\* to the git server time out.
Fairness == /\ \A s \in Tasks : WF_vars(TaskStep(s))
            /\ \A c \in Commands : WF_vars(Finish(c))

Spec == Init /\ [][Next]_vars
FairSpec == Spec /\ Fairness

-----------------------------------------------------------------------------
\* The report of command c.

AuthorsIn(e) == UNION {Range(History[e.repo][i]) : i \in 1 .. e.pages}

\* uniqueContributors: keyed by e-mail and the name of the repository.
Contributors(c) ==
  UNION {{<<a, result[s].repo[2]>> : a \in AuthorsIn(result[s])} : s \in TasksOf(c)}

\* detailedContributors.
Details(c) ==
  UNION {{<<a, result[s].repo[2]>> : a \in AuthorsIn(result[s])} :
           s \in {t \in TasksOf(c) : result[t].detailed}}

Reported == {c \in Commands : main[c] = "reported"}

\* A report rests, for each repository of the request, on a complete scan of
\* that very repository, fetched or cached: whatever other commands write,
\* truncate, rename or leave behind, and whichever pages failed.
ReportExact ==
  \A c \in Reported : \A s \in TasksOf(c) :
    result[s].repo = RepoOf(s) /\ result[s].pages = Pages(RepoOf(s))

\* What parses in the cache is a complete scan: a failed or interrupted scan
\* leaves nothing that a later command would believe.
CacheComplete ==
  \A p \in Paths : final[p] # NoFile =>
    LET e == content[final[p]] IN e \in Scans => e.pages = Pages(e.repo)

\* A command that is not interrupted ends, however often it is rate limited.
Termination == \A c \in Commands : main[c] = "run" ~> main[c] # "run"

\* A scan served from the cache is a scan of the repository that was asked for:
\* what the comment on readRepoCache says.
EntryOfRepo == \A s \in Tasks : result[s] \in Scans => result[s].repo = RepoOf(s)

\* A detailed report has the details of every contributor it counts: entries
\* of commands with other options must not be found in the cache.
DetailsComplete ==
  \A c \in Reported : request[c].detailed => Details(c) = Contributors(c)
-----------------------------------------------------------------------------
\* The inductive invariant behind the theorems of ContributorsScan_proofs.

\* e, if it parses, is a complete scan of a repository cached at path p.
SoundAt(e, p) == e \in Scans => e.pages = Pages(e.repo) /\ RepoPath(e.repo) = p

\* A task that has begun is one of its command's.
Begun(s) == phase[s] # "none" /\ s \in TasksOf(s[1])
BegunInv == \A s \in Tasks : phase[s] # "none" => Begun(s)

\* A file never leaves the path of the task that created it: a rename moves it
\* from the temporary to the final name, and writers of one path share it.
FileInv ==
  /\ \A p \in Paths, f \in Tasks :
       temp[p] = f \/ final[p] = f => Begun(f) /\ PathOf(f) = p
  /\ \A s, f \in Tasks : fd[s] = f => Begun(s) /\ Begun(f) /\ PathOf(f) = PathOf(s)
  /\ \A s \in Tasks : phase[s] = "write" => fd[s] # NoFile
  /\ \A s \in Tasks : content[s] # NoScan => Begun(s) /\ SoundAt(content[s], PathOf(s))

ResultInv ==
  \A s \in Tasks :
    /\ result[s] # NoScan => Begun(s) /\ SoundAt(result[s], PathOf(s))
    /\ phase[s] \in {"open", "write", "rename", "remove"} => result[s] \in Scans
    /\ phase[s] \in {"store", "done"} => result[s] # NoScan

ReportInv ==
  \A c \in Reported : \A s \in TasksOf(c) : phase[s] = "done" /\ result[s] # Skipped

IndInv == TypeOK /\ BegunInv /\ FileInv /\ ResultInv /\ ReportInv
=============================================================================
