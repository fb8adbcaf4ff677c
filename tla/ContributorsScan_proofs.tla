------------------------ MODULE ContributorsScan_proofs ------------------------
(***************************************************************************)
(* Proofs about ContributorsScan: whatever processes, failures and         *)
(* interruptions do to the cache, only complete scans are believed.        *)
(***************************************************************************)
EXTENDS ContributorsScan, TLAPS

\* The markers are not scans of a repository, and not one another.
LEMMA Markers ==
  /\ NoScan \notin Scans /\ Skipped \notin Scans
  /\ Empty \notin Scans /\ Torn \notin Scans
  /\ NoScan # Skipped /\ NoScan # Empty /\ NoScan # Torn
<1>1. \A r \in Repos : r[1] # "no"
  BY ContributorsAssumption DEF Repos
<1>2. \A e \in Scans : e.repo \in Repos
  BY DEF Scans
<1>. QED
  BY <1>1, <1>2 DEF NoScan, Skipped, Empty, Torn, Scan

\* No file is not the name of a file.
LEMMA NoFileName == NoFile \notin Tasks
BY ContributorsAssumption DEF NoFile, Tasks

\* A repository has finitely many pages, and its path is a cache path.
LEMMA RepoFacts ==
  ASSUME NEW r \in Repos
  PROVE  Pages(r) \in Nat /\ RepoPath(r) \in Paths
<1>1. Pages(r) \in Nat
  BY ContributorsAssumption DEF Pages
<1>2. r[1] \in Servers /\ r[2] \in Names
  BY DEF Repos
<1>3. Safe[r[2]] \in Range(Safe)
  BY <1>2, ContributorsAssumption DEF Range
<1>. QED
  BY <1>1, <1>2, <1>3 DEF RepoPath, Paths

\* A task of a command has a repository.
LEMMA TaskRepo ==
  ASSUME TypeOK, NEW s \in Tasks, s \in TasksOf(s[1])
  PROVE  RepoOf(s) \in Repos /\ PathOf(s) \in Paths /\ s[1] \in Commands
<1>1. s[1] \in Commands /\ s[2] \in 1 .. MaxRepos
  BY DEF Tasks
<1>2. request[s[1]] \in RequestType
  BY <1>1, ContributorsAssumption DEF TypeOK
<1>3. request[s[1]].repos \in Seq(Repos)
  BY <1>2 DEF RequestType
<1>4. s[2] \in 1 .. Len(request[s[1]].repos)
  BY <1>1, <1>3, ContributorsAssumption DEF TasksOf
<1>5. RepoOf(s) \in Repos
  BY <1>3, <1>4 DEF RepoOf
<1>. QED
  BY <1>1, <1>5, RepoFacts DEF PathOf

\* A freshly made scan is a record of the right kind.
LEMMA ScanMade ==
  ASSUME NEW r \in Repos, NEW n \in Nat, NEW d \in BOOLEAN
  PROVE  /\ Scan(r, n, d) \in Scans
         /\ Scan(r, n, d).repo = r /\ Scan(r, n, d).pages = n
BY DEF Scan, Scans

-----------------------------------------------------------------------------
\* Type correctness.

LEMMA TypeInit == Init => TypeOK
<1>1. Init => \A c \in Commands : request[c] \in Requests[c]
  BY DEF Init
<1>2. Tries - 1 \in Nat
  BY ContributorsAssumption
<1>. QED
  BY <1>1, <1>2 DEF Init, TypeOK

\* The steps of a command.
LEMMA TypeCommand ==
  ASSUME TypeOK, NEW c \in Commands, Start(c) \/ StartFails(c) \/ Finish(c) \/ Kill(c)
  PROVE  TypeOK'
<1>1. CASE Start(c)
  <2>1. {RepoOf(s)[1] : s \in TasksOf(c)} \subseteq Servers
    <3>1. ASSUME NEW s \in TasksOf(c) PROVE RepoOf(s)[1] \in Servers
      <4>1. s \in Tasks /\ s \in TasksOf(s[1])
        BY DEF TasksOf
      <4>. QED
        BY <4>1, TaskRepo DEF Repos
    <3>. QED
      BY <3>1
  <2>. QED
    BY <1>1, <2>1 DEF Start, TypeOK, local, disk
<1>2. CASE StartFails(c)
  BY <1>2 DEF StartFails, TypeOK, local, disk
<1>3. CASE Finish(c)
  BY <1>3 DEF Finish, TypeOK, local, disk
<1>4. CASE Kill(c)
  BY <1>4 DEF Kill, TypeOK, local, disk
<1>. QED
  BY <1>1, <1>2, <1>3, <1>4

\* The steps of a task that fetch.
LEMMA TypeFetch ==
  ASSUME TypeOK, BegunInv, NEW s \in Tasks, FetchStep(s)
  PROVE  TypeOK'
<1>1. phase[s] = "fetch"
  BY DEF FetchStep, FetchPage, FetchedAll, FetchFails, RateLimited, At
<1>2. s \in TasksOf(s[1])
  BY <1>1 DEF BegunInv, Begun
<1>3. RepoOf(s) \in Repos /\ s[1] \in Commands
  BY <1>2, TaskRepo
<1>4. request[s[1]].detailed \in BOOLEAN
  BY <1>3, ContributorsAssumption DEF TypeOK, RequestType
<1>5. CASE FetchPage(s)
  BY <1>5, ContributorsAssumption DEF FetchPage, TypeOK, disk
<1>6. CASE FetchedAll(s)
  <2>1. Scan(RepoOf(s), page[s], request[s[1]].detailed) \in Scans
    BY <1>3, <1>4, ScanMade DEF TypeOK
  <2>. QED
    BY <1>6, <2>1 DEF FetchedAll, GoTo, TypeOK, disk
<1>7. CASE FetchFails(s)
  BY <1>7 DEF FetchFails, GoTo, TypeOK, disk
<1>8. CASE RateLimited(s)
  BY <1>8, ContributorsAssumption DEF RateLimited, TypeOK, disk
<1>. QED
  BY <1>5, <1>6, <1>7, <1>8 DEF FetchStep

\* The steps of a task that write its cache file.
LEMMA TypeWrite ==
  ASSUME TypeOK, BegunInv, FileInv, ResultInv, NEW s \in Tasks, WriteStep(s)
  PROVE  TypeOK'
<1>1. phase[s] # "none" 
  BY DEF WriteStep, OpenTemp, WriteTemp, WriteFails, Rename, RenameFails, RemoveTemp, At
<1>2. s \in TasksOf(s[1])
  BY <1>1 DEF BegunInv, Begun
<1>3. PathOf(s) \in Paths
  BY <1>2, TaskRepo
<1>4. CASE OpenTemp(s)
  BY <1>3, <1>4 DEF OpenTemp, GoTo, TypeOK
<1>5. CASE WriteTemp(s)
  <2>1. result[s] \in Scans
    BY <1>5 DEF WriteTemp, At, ResultInv
  <2>2. Written(s) \subseteq Scans \cup {Torn}
    BY <2>1 DEF Written
  <2>. QED
    BY <1>5, <2>2 DEF WriteTemp, GoTo, TypeOK, local
<1>6. CASE WriteFails(s)
  BY <1>6 DEF WriteFails, GoTo, TypeOK, local
<1>7. CASE Rename(s)
  BY <1>3, <1>7 DEF Rename, GoTo, TypeOK, local
<1>8. CASE RenameFails(s)
  BY <1>8 DEF RenameFails, GoTo, TypeOK, local, disk
<1>9. CASE RemoveTemp(s)
  BY <1>3, <1>9 DEF RemoveTemp, GoTo, TypeOK, local
<1>. QED
  BY <1>4, <1>5, <1>6, <1>7, <1>8, <1>9 DEF WriteStep

\* The other steps of a task, and the passing of time.
LEMMA TypeOther ==
  ASSUME TypeOK, BegunInv, NEW s \in Tasks, Take(s) \/ ReadCache(s) \/ Store(s)
  PROVE  TypeOK'
<1>1. CASE Take(s)
  BY <1>1 DEF Take, GoTo, TypeOK, local, disk
<1>2. CASE ReadCache(s)
  <2>1. s \in TasksOf(s[1])
    BY <1>2 DEF ReadCache, At, BegunInv, Begun
  <2>2. PathOf(s) \in Paths
    BY <2>1, TaskRepo
  <2>3. Found(s) => content[final[PathOf(s)]] \in Scans
    BY DEF Found
  <2>. QED
    BY <1>2, <2>3 DEF ReadCache, GoTo, TypeOK, disk
<1>3. CASE Store(s)
  BY <1>3 DEF Store, GoTo, TypeOK, local, disk
<1>. QED
  BY <1>1, <1>2, <1>3

LEMMA TypeStep == TypeOK /\ BegunInv /\ FileInv /\ ResultInv /\ [Next]_vars => TypeOK'
<1>. SUFFICES ASSUME TypeOK, BegunInv, FileInv, ResultInv, [Next]_vars
              PROVE  TypeOK'
  OBVIOUS
<1>1. CASE \E c \in Commands : Start(c) \/ StartFails(c) \/ Finish(c) \/ Kill(c)
  BY <1>1, TypeCommand
<1>2. CASE \E s \in Tasks : TaskStep(s)
  BY <1>2, TypeFetch, TypeWrite, TypeOther DEF TaskStep
<1>3. CASE \E p \in Paths : Expire(p)
  BY <1>3 DEF Expire, TypeOK, local
<1>4. CASE UNCHANGED vars
  BY <1>4 DEF vars, TypeOK
<1>. QED
  BY <1>1, <1>2, <1>3, <1>4 DEF Next

-----------------------------------------------------------------------------
\* What every step leaves alone.

LEMMA RequestFixed == [Next]_vars => request' = request
BY DEF Next, vars, Start, StartFails, Finish, Kill, Expire, TaskStep, Take, ReadCache,
   FetchStep, FetchPage, FetchedAll, FetchFails, RateLimited, WriteStep, OpenTemp,
   WriteTemp, WriteFails, Rename, RenameFails, RemoveTemp, Store

\* No task goes back to not having begun.
LEMMA PhaseForward ==
  ASSUME TypeOK, [Next]_vars, NEW t \in Tasks, phase[t] # "none"
  PROVE  phase'[t] # "none"
<1>1. CASE \E s \in Tasks : FetchStep(s) \/ WriteStep(s)
  BY <1>1 DEF FetchStep, FetchPage, FetchedAll, FetchFails, RateLimited, WriteStep,
     OpenTemp, WriteTemp, WriteFails, Rename, RenameFails, RemoveTemp, GoTo, TypeOK
<1>2. CASE \E s \in Tasks : Take(s) \/ ReadCache(s) \/ Store(s)
  BY <1>2 DEF Take, ReadCache, Store, GoTo, TypeOK
<1>3. CASE \E c \in Commands : Start(c) \/ StartFails(c) \/ Finish(c) \/ Kill(c)
  BY <1>3 DEF Start, StartFails, Finish, Kill
<1>4. CASE (\E p \in Paths : Expire(p)) \/ UNCHANGED vars
  BY <1>4 DEF Expire, vars
<1>. QED
  BY <1>1, <1>2, <1>3, <1>4 DEF Next, TaskStep

\* What belongs to a task that has begun stays as it is.
LEMMA Kept ==
  ASSUME TypeOK, [Next]_vars, NEW t \in Tasks
  PROVE  /\ TasksOf(t[1])' = TasksOf(t[1])
         /\ PathOf(t)' = PathOf(t)
         /\ Begun(t) => Begun(t)'
<1>1. TasksOf(t[1])' = TasksOf(t[1]) /\ PathOf(t)' = PathOf(t)
  BY RequestFixed DEF TasksOf, PathOf, RepoOf
<1>. QED
  BY <1>1, PhaseForward DEF Begun

\* Only Take begins a task, one of its command's.
LEMMA BegunStep == TypeOK /\ BegunInv /\ [Next]_vars => BegunInv'
<1>. SUFFICES ASSUME TypeOK, BegunInv, [Next]_vars, NEW t \in Tasks, phase'[t] # "none"
              PROVE  Begun(t)'
  BY DEF BegunInv
<1>1. CASE phase[t] # "none"
  BY <1>1, Kept DEF BegunInv
<1>2. CASE phase[t] = "none"
  <2>1. ASSUME NEW s \in Tasks, TaskStep(s) PROVE Begun(t)'
    <3>1. CASE Take(s)
      <4>1. s = t
        BY <1>2, <3>1 DEF Take, GoTo, TypeOK
      <4>2. t \in TasksOf(t[1])
        BY <3>1, <4>1 DEF Take
      <4>. QED
        BY <4>2, Kept DEF Begun
    <3>2. CASE ~Take(s)
      <4>1. phase[s] # "none"
        BY <2>1, <3>2 DEF TaskStep, ReadCache, FetchStep, FetchPage, FetchedAll, FetchFails,
           RateLimited, WriteStep, OpenTemp, WriteTemp, WriteFails, Rename, RenameFails,
           RemoveTemp, Store, At
      <4>2. \A u \in Tasks : u # s => phase'[u] = phase[u]
        BY <2>1, <3>2 DEF TaskStep, ReadCache, FetchStep, FetchPage, FetchedAll, FetchFails,
           RateLimited, WriteStep, OpenTemp, WriteTemp, WriteFails, Rename, RenameFails,
           RemoveTemp, Store, GoTo, TypeOK
      <4>. QED
        BY <1>2, <4>1, <4>2 DEF TypeOK
    <3>. QED
      BY <3>1, <3>2
  <2>2. CASE UNCHANGED phase
    BY <1>2, <2>2
  <2>. QED
    BY <2>1, <2>2 DEF Next, vars, Start, StartFails, Finish, Kill, Expire
<1>. QED
  BY <1>1, <1>2

-----------------------------------------------------------------------------
\* The files.

\* A step that touches no file and begins no write.
LEMMA FileUntouched ==
  ASSUME TypeOK, FileInv, [Next]_vars, UNCHANGED <<temp, final, fd, content>>,
         \A t \in Tasks : phase'[t] = "write" => phase[t] = "write"
  PROVE  FileInv'
BY Kept DEF FileInv

\* What may be written to a file of path p.
LEMMA MarkersSound == \A p : SoundAt(Empty, p) /\ SoundAt(Torn, p)
BY Markers DEF SoundAt

LEMMA OpenFile ==
  ASSUME TypeOK, BegunInv, FileInv, [Next]_vars, NEW s \in Tasks, OpenTemp(s)
  PROVE  FileInv'
<1>. DEFINE p == PathOf(s)
            f == IF temp[p] = NoFile THEN s ELSE temp[p]
<1>1. Begun(s) /\ p \in Paths
  BY TaskRepo DEF OpenTemp, At, BegunInv, Begun
<1>2. f \in Tasks /\ Begun(f) /\ PathOf(f) = p
  BY <1>1 DEF FileInv, TypeOK
<1>3. /\ temp' = [temp EXCEPT ![p] = f] /\ fd' = [fd EXCEPT ![s] = f]
      /\ content' = [content EXCEPT ![f] = Empty]
      /\ final' = final /\ phase' = [phase EXCEPT ![s] = "write"]
  BY DEF OpenTemp, GoTo
<1>. HIDE DEF p, f
<1>4. \A q \in Paths, g \in Tasks :
        temp'[q] = g \/ final'[q] = g => Begun(g)' /\ PathOf(g)' = q
  BY <1>1, <1>2, <1>3, Kept DEF FileInv, TypeOK
<1>5. \A t, g \in Tasks : fd'[t] = g => Begun(t)' /\ Begun(g)' /\ PathOf(g)' = PathOf(t)'
  <2>. SUFFICES ASSUME NEW t \in Tasks, NEW g \in Tasks, fd'[t] = g
                PROVE  Begun(t)' /\ Begun(g)' /\ PathOf(g)' = PathOf(t)'
    OBVIOUS
  <2>1. CASE t = s
    <3>1. g = f
      BY <1>3, <2>1 DEF TypeOK
    <3>. QED
      BY <1>1, <1>2, <2>1, <3>1, Kept DEF p
  <2>2. CASE t # s
    BY <1>3, <2>2, Kept DEF FileInv, TypeOK
  <2>. QED
    BY <2>1, <2>2
<1>6. \A t \in Tasks : phase'[t] = "write" => fd'[t] # NoFile
  BY <1>2, <1>3, NoFileName DEF FileInv, TypeOK
<1>7. \A t \in Tasks : content'[t] # NoScan => Begun(t)' /\ SoundAt(content'[t], PathOf(t)')
  BY <1>2, <1>3, Kept, MarkersSound DEF FileInv, TypeOK
<1>. QED
  BY <1>4, <1>5, <1>6, <1>7 DEF FileInv

\* A step that changes what one open file holds.
LEMMA WriteFile ==
  ASSUME TypeOK, FileInv, [Next]_vars, NEW s \in Tasks, fd[s] # NoFile, NEW e,
         content' = [content EXCEPT ![fd[s]] = e], SoundAt(e, PathOf(s)),
         UNCHANGED <<temp, final, fd>>,
         \A t \in Tasks : phase'[t] = "write" => phase[t] = "write"
  PROVE  FileInv'
<1>1. fd[s] \in Tasks /\ Begun(fd[s]) /\ PathOf(fd[s]) = PathOf(s)
  BY DEF FileInv, TypeOK
<1>2. \A q \in Paths, g \in Tasks :
        temp'[q] = g \/ final'[q] = g => Begun(g)' /\ PathOf(g)' = q
  BY Kept DEF FileInv
<1>3. /\ \A t, g \in Tasks : fd'[t] = g => Begun(t)' /\ Begun(g)' /\ PathOf(g)' = PathOf(t)'
      /\ \A t \in Tasks : phase'[t] = "write" => fd'[t] # NoFile
  BY Kept DEF FileInv
<1>4. \A t \in Tasks : content'[t] # NoScan => Begun(t)' /\ SoundAt(content'[t], PathOf(t)')
  BY <1>1, Kept DEF FileInv, TypeOK
<1>. QED
  BY <1>2, <1>3, <1>4 DEF FileInv

\* Renaming and removing the temporary file.
LEMMA MoveFile ==
  ASSUME TypeOK, BegunInv, FileInv, [Next]_vars, NEW s \in Tasks, Rename(s) \/ RemoveTemp(s)
  PROVE  FileInv'
<1>1. PathOf(s) \in Paths
  BY TaskRepo DEF Rename, RemoveTemp, At, BegunInv, Begun
<1>2. \A q \in Paths : temp'[q] \in {temp[q], NoFile} /\ final'[q] \in {temp[q], final[q]}
  BY <1>1 DEF Rename, RemoveTemp, TypeOK
<1>3. UNCHANGED <<fd, content>> /\ \A t \in Tasks : phase'[t] = "write" => phase[t] = "write"
  BY DEF Rename, RemoveTemp, GoTo, TypeOK, local
<1>4. \A q \in Paths, g \in Tasks :
        temp'[q] = g \/ final'[q] = g => Begun(g)' /\ PathOf(g)' = q
  BY <1>2, Kept, NoFileName DEF FileInv
<1>. QED
  BY <1>3, <1>4, Kept DEF FileInv

LEMMA FileStep == TypeOK /\ BegunInv /\ FileInv /\ ResultInv /\ [Next]_vars => FileInv'
<1>. SUFFICES ASSUME TypeOK, BegunInv, FileInv, ResultInv, [Next]_vars
              PROVE  FileInv'
  OBVIOUS
<1>1. ASSUME NEW s \in Tasks, WriteStep(s) PROVE FileInv'
  <2>1. CASE OpenTemp(s)
    BY <2>1, OpenFile
  <2>2. CASE WriteTemp(s)
    <3>1. result[s] \in Scans /\ fd[s] # NoFile
      BY <2>2 DEF WriteTemp, At, ResultInv, FileInv
    <3>2. SoundAt(result[s], PathOf(s))
      BY <3>1, Markers DEF ResultInv
    <3>3. PICK e \in Written(s) : content' = [content EXCEPT ![fd[s]] = e]
      BY <2>2 DEF WriteTemp
    <3>4. SoundAt(e, PathOf(s))
      BY <3>2, <3>3, MarkersSound DEF Written
    <3>5. UNCHANGED <<temp, final, fd>>
      BY <2>2 DEF WriteTemp, local
    <3>6. \A t \in Tasks : phase'[t] = "write" => phase[t] = "write"
      BY <2>2 DEF WriteTemp, GoTo, TypeOK
    <3>. QED
      BY <3>1, <3>3, <3>4, <3>5, <3>6, WriteFile
  <2>3. CASE WriteFails(s)
    <3>1. UNCHANGED <<temp, final, fd>>
          /\ \A t \in Tasks : phase'[t] = "write" => phase[t] = "write"
      BY <2>3 DEF WriteFails, GoTo, TypeOK, local
    <3>2. CASE UNCHANGED content
      BY <3>1, <3>2, FileUntouched
    <3>3. CASE At(s, "write") /\ content' = [content EXCEPT ![fd[s]] = Torn]
      BY <3>1, <3>3, MarkersSound, WriteFile DEF At, FileInv
    <3>. QED
      BY <2>3, <3>2, <3>3 DEF WriteFails
  <2>4. CASE RenameFails(s)
    <3>1. UNCHANGED <<temp, final, fd, content>>
          /\ \A t \in Tasks : phase'[t] = "write" => phase[t] = "write"
      BY <2>4 DEF RenameFails, GoTo, TypeOK, local, disk
    <3>. QED
      BY <3>1, FileUntouched
  <2>. QED
    BY <1>1, <2>1, <2>2, <2>3, <2>4, MoveFile DEF WriteStep
<1>2. ASSUME NEW s \in Tasks, Take(s) \/ ReadCache(s) \/ Store(s) \/ FetchStep(s)
      PROVE  FileInv'
  <2>1. UNCHANGED <<temp, final, fd, content>>
        /\ \A t \in Tasks : phase'[t] = "write" => phase[t] = "write"
    BY <1>2 DEF Take, ReadCache, Store, FetchStep, FetchPage, FetchedAll, FetchFails,
       RateLimited, GoTo, TypeOK, local, disk
  <2>. QED
    BY <2>1, FileUntouched
<1>3. CASE \/ \E c \in Commands : Start(c) \/ StartFails(c) \/ Finish(c) \/ Kill(c)
           \/ \E p \in Paths : Expire(p)
           \/ UNCHANGED vars
  <2>1. UNCHANGED <<temp, final, fd, content, phase>>
    BY <1>3 DEF Start, StartFails, Finish, Kill, Expire, vars, local, disk
  <2>. QED
    BY <2>1, FileUntouched
<1>. QED
  BY <1>1, <1>2, <1>3 DEF Next, TaskStep

-----------------------------------------------------------------------------
\* The results.

\* A step that moves one task and leaves its result as it is.
LEMMA ResultUntouched ==
  ASSUME TypeOK, ResultInv, [Next]_vars, UNCHANGED result, NEW s \in Tasks,
         \A t \in Tasks : t # s => phase'[t] = phase[t],
         phase'[s] \in {"open", "write", "rename", "remove"} => result[s] \in Scans,
         phase'[s] \in {"store", "done"} => result[s] # NoScan
  PROVE  ResultInv'
<1>1. \A t \in Tasks : result[t] # NoScan => Begun(t)' /\ SoundAt(result[t], PathOf(t)')
  BY Kept DEF ResultInv
<1>2. \A t \in Tasks : phase'[t] \in {"open", "write", "rename", "remove"} => result[t] \in Scans
  BY DEF ResultInv
<1>3. \A t \in Tasks : phase'[t] \in {"store", "done"} => result[t] # NoScan
  BY DEF ResultInv
<1>. QED
  BY <1>1, <1>2, <1>3 DEF ResultInv

\* A step that gives a task its result.
LEMMA ResultGiven ==
  ASSUME TypeOK, ResultInv, [Next]_vars, NEW s \in Tasks, Begun(s), NEW r,
         result' = [result EXCEPT ![s] = r], SoundAt(r, PathOf(s)), r # NoScan,
         \A t \in Tasks : t # s => phase'[t] = phase[t],
         phase'[s] \in {"open", "write", "rename", "remove"} => r \in Scans
  PROVE  ResultInv'
<1>1. \A t \in Tasks : result'[t] = IF t = s THEN r ELSE result[t]
  BY DEF TypeOK
<1>2. \A t \in Tasks : result'[t] # NoScan => Begun(t)' /\ SoundAt(result'[t], PathOf(t)')
  BY <1>1, Kept DEF ResultInv
<1>3. \A t \in Tasks : phase'[t] \in {"open", "write", "rename", "remove"} => result'[t] \in Scans
  BY <1>1 DEF ResultInv
<1>4. \A t \in Tasks : phase'[t] \in {"store", "done"} => result'[t] # NoScan
  BY <1>1 DEF ResultInv
<1>. QED
  BY <1>2, <1>3, <1>4 DEF ResultInv

\* What is read from the cache is sound, because the file is of that path.
LEMMA ResultRead ==
  ASSUME TypeOK, BegunInv, FileInv, ResultInv, [Next]_vars, NEW s \in Tasks, ReadCache(s)
  PROVE  ResultInv'
<1>1. Begun(s) /\ PathOf(s) \in Paths
  BY TaskRepo DEF ReadCache, At, BegunInv, Begun
<1>2. \A t \in Tasks : t # s => phase'[t] = phase[t]
  BY DEF ReadCache, GoTo, TypeOK
<1>3. CASE Found(s)
  <2>. DEFINE f == final[PathOf(s)]
  <2>1. f \in Tasks /\ content[f] \in Scans
    BY <1>1, <1>3 DEF Found, TypeOK
  <2>2. PathOf(f) = PathOf(s)
    BY <1>1, <2>1 DEF FileInv
  <2>3. content[f] # NoScan /\ SoundAt(content[f], PathOf(s))
    BY <2>1, <2>2, Markers DEF FileInv
  <2>4. result' = [result EXCEPT ![s] = content[f]]
    BY <1>3 DEF ReadCache
  <2>. QED
    BY <1>1, <1>2, <2>1, <2>3, <2>4, ResultGiven
<1>4. CASE ~Found(s)
  <2>1. UNCHANGED result /\ phase'[s] = "fetch"
    BY <1>4 DEF ReadCache, GoTo, TypeOK
  <2>. QED
    BY <1>2, <2>1, ResultUntouched
<1>. QED
  BY <1>3, <1>4

LEMMA ResultFetch ==
  ASSUME TypeOK, BegunInv, ResultInv, [Next]_vars, NEW s \in Tasks, FetchStep(s)
  PROVE  ResultInv'
<1>1. phase[s] = "fetch"
  BY DEF FetchStep, FetchPage, FetchedAll, FetchFails, RateLimited, At
<1>2. Begun(s) /\ RepoOf(s) \in Repos /\ s[1] \in Commands
  BY <1>1, TaskRepo DEF BegunInv, Begun
<1>3. CASE FetchPage(s) \/ RateLimited(s)
  <2>1. UNCHANGED <<result, phase>>
    BY <1>3 DEF FetchPage, RateLimited
  <2>. QED
    BY <1>1, <2>1, ResultUntouched
<1>4. CASE FetchedAll(s)
  <2>. DEFINE r == Scan(RepoOf(s), page[s], request[s[1]].detailed)
  <2>1. request[s[1]].detailed \in BOOLEAN
    BY <1>2, ContributorsAssumption DEF TypeOK, RequestType
  <2>2. r \in Scans /\ r.repo = RepoOf(s) /\ r.pages = Pages(RepoOf(s))
    BY <1>2, <1>4, <2>1, ScanMade, RepoFacts DEF FetchedAll
  <2>3. SoundAt(r, PathOf(s)) /\ r # NoScan
    BY <2>2, Markers DEF SoundAt, PathOf
  <2>4. result' = [result EXCEPT ![s] = r] /\ \A t \in Tasks : t # s => phase'[t] = phase[t]
    BY <1>4 DEF FetchedAll, GoTo, TypeOK
  <2>. HIDE DEF r
  <2>. QED
    BY <1>2, <2>2, <2>3, <2>4, ResultGiven
<1>5. CASE FetchFails(s)
  <2>1. SoundAt(Skipped, PathOf(s)) /\ Skipped # NoScan
    BY Markers DEF SoundAt
  <2>2. /\ result' = [result EXCEPT ![s] = Skipped]
        /\ phase'[s] = "store"
        /\ \A t \in Tasks : t # s => phase'[t] = phase[t]
    BY <1>5 DEF FetchFails, GoTo, TypeOK
  <2>. QED
    BY <1>2, <2>1, <2>2, ResultGiven
<1>. QED
  BY <1>3, <1>4, <1>5 DEF FetchStep

LEMMA ResultWrite ==
  ASSUME TypeOK, ResultInv, [Next]_vars, NEW s \in Tasks,
         WriteStep(s) \/ Take(s) \/ Store(s)
  PROVE  ResultInv'
<1>1. CASE WriteStep(s)
  <2>1. result[s] \in Scans /\ UNCHANGED result
    BY <1>1 DEF WriteStep, OpenTemp, WriteTemp, WriteFails, Rename, RenameFails,
       RemoveTemp, At, ResultInv, local
  <2>2. \A t \in Tasks : t # s => phase'[t] = phase[t]
    BY <1>1 DEF WriteStep, OpenTemp, WriteTemp, WriteFails, Rename, RenameFails,
       RemoveTemp, GoTo, TypeOK
  <2>. QED
    BY <2>1, <2>2, Markers, ResultUntouched
<1>2. CASE Take(s)
  <2>1. UNCHANGED result /\ phase'[s] \in {"read", "fetch"}
        /\ \A t \in Tasks : t # s => phase'[t] = phase[t]
    BY <1>2 DEF Take, GoTo, TypeOK, local
  <2>. QED
    BY <2>1, ResultUntouched
<1>3. CASE Store(s)
  <2>1. UNCHANGED result /\ phase'[s] = "done" /\ result[s] # NoScan
        /\ \A t \in Tasks : t # s => phase'[t] = phase[t]
    BY <1>3 DEF Store, At, GoTo, TypeOK, ResultInv, local
  <2>. QED
    BY <2>1, ResultUntouched
<1>. QED
  BY <1>1, <1>2, <1>3

LEMMA ResultStep == TypeOK /\ BegunInv /\ FileInv /\ ResultInv /\ [Next]_vars => ResultInv'
<1>. SUFFICES ASSUME TypeOK, BegunInv, FileInv, ResultInv, [Next]_vars
              PROVE  ResultInv'
  OBVIOUS
<1>1. CASE \E s \in Tasks : TaskStep(s)
  BY <1>1, ResultRead, ResultFetch, ResultWrite DEF TaskStep
<1>2. CASE \/ \E c \in Commands : Start(c) \/ StartFails(c) \/ Finish(c) \/ Kill(c)
           \/ \E p \in Paths : Expire(p)
           \/ UNCHANGED vars
  <2>1. UNCHANGED <<result, phase>>
    BY <1>2 DEF Start, StartFails, Finish, Kill, Expire, vars, local
  <2>. QED
    BY <2>1, Kept DEF ResultInv
<1>. QED
  BY <1>1, <1>2 DEF Next

\* A report is final: its command's tasks take no step any more.
LEMMA ReportStep == TypeOK /\ ReportInv /\ [Next]_vars => ReportInv'
<1>. SUFFICES ASSUME TypeOK, ReportInv, [Next]_vars, NEW c \in Commands, main'[c] = "reported",
                     NEW t \in TasksOf(c)
              PROVE  phase'[t] = "done" /\ result'[t] # Skipped
  BY RequestFixed DEF ReportInv, Reported, TasksOf
<1>1. t \in Tasks /\ t[1] = c
  BY DEF TasksOf
<1>2. ASSUME NEW s \in Tasks, TaskStep(s) PROVE phase'[t] = "done" /\ result'[t] # Skipped
  <2>1. main' = main /\ main[s[1]] = "run"
    BY <1>2 DEF TaskStep, Take, ReadCache, FetchStep, FetchPage, FetchedAll, FetchFails,
       RateLimited, WriteStep, OpenTemp, WriteTemp, WriteFails, Rename, RenameFails,
       RemoveTemp, Store, At
  <2>2. phase'[t] = phase[t] /\ result'[t] = result[t]
    <3>1. s # t
      BY <1>1, <2>1
    <3>. QED
      BY <1>1, <1>2, <3>1 DEF TaskStep, Take, ReadCache, FetchStep, FetchPage, FetchedAll,
         FetchFails, RateLimited, WriteStep, OpenTemp, WriteTemp, WriteFails, Rename,
         RenameFails, RemoveTemp, Store, GoTo, TypeOK, local
  <2>. QED
    BY <2>1, <2>2 DEF ReportInv, Reported
<1>3. ASSUME NEW d \in Commands, Finish(d) PROVE phase'[t] = "done" /\ result'[t] # Skipped
  BY <1>3 DEF Finish, ReportInv, Reported, TypeOK, local
<1>4. CASE \/ \E d \in Commands : Start(d) \/ StartFails(d) \/ Kill(d)
           \/ \E p \in Paths : Expire(p)
           \/ UNCHANGED vars
  BY <1>4 DEF Start, StartFails, Kill, Expire, vars, local, ReportInv, Reported, TypeOK
<1>. QED
  BY <1>2, <1>3, <1>4 DEF Next

-----------------------------------------------------------------------------
LEMMA IndInit == Init => IndInv
<1>. SUFFICES ASSUME Init PROVE IndInv
  OBVIOUS
<1>1. BegunInv /\ ReportInv
  BY DEF Init, BegunInv, ReportInv, Reported
<1>2. FileInv
  BY NoFileName DEF Init, FileInv
<1>3. ResultInv
  BY DEF Init, ResultInv
<1>. QED
  BY <1>1, <1>2, <1>3, TypeInit DEF IndInv

LEMMA IndStep == IndInv /\ [Next]_vars => IndInv'
BY TypeStep, BegunStep, FileStep, ResultStep, ReportStep DEF IndInv

\* The inductive invariant: every file stays on the path of the task that
\* created it, and what parses there is a complete scan.
THEOREM CacheInvariance == Spec => []IndInv
BY IndInit, IndStep, PTL DEF Spec

\* Nothing an interrupted, failed or overlapping write leaves in the cache is
\* believed by a later command, for any number of processes and workers.
THEOREM CacheSound == Spec => []CacheComplete
<1>1. IndInv => CacheComplete
  <2>. SUFFICES ASSUME IndInv, NEW p \in Paths, final[p] # NoFile,
                       content[final[p]] \in Scans
                PROVE  content[final[p]].pages = Pages(content[final[p]].repo)
    BY DEF CacheComplete
  <2>1. final[p] \in Tasks
    BY DEF IndInv, TypeOK
  <2>. QED
    BY <2>1, Markers DEF IndInv, FileInv, SoundAt
<1>. QED
  BY <1>1, CacheInvariance, PTL

\* As long as no two names share a cache file, every report rests on complete
\* scans of the very repositories it lists.
THEOREM ReportsExact ==
  ASSUME \A m, n \in Names : Safe[m] = Safe[n] => m = n
  PROVE  Spec => []ReportExact
<1>1. IndInv => ReportExact
  <2>. SUFFICES ASSUME IndInv, NEW c \in Reported, NEW s \in TasksOf(c)
                PROVE  result[s].repo = RepoOf(s) /\ result[s].pages = Pages(RepoOf(s))
    BY DEF ReportExact
  <2>1. s \in Tasks /\ s \in TasksOf(s[1])
    BY DEF TasksOf
  <2>2. result[s] # NoScan /\ result[s] # Skipped
    BY <2>1 DEF IndInv, ReportInv, ResultInv
  <2>3. result[s] \in Scans
    BY <2>1, <2>2 DEF IndInv, TypeOK
  <2>4. result[s].pages = Pages(result[s].repo) /\ RepoPath(result[s].repo) = RepoPath(RepoOf(s))
    BY <2>1, <2>2, <2>3 DEF IndInv, ResultInv, SoundAt, PathOf
  <2>5. result[s].repo \in Repos /\ RepoOf(s) \in Repos
    BY <2>1, <2>3, TaskRepo DEF Scans, IndInv
  <2>6. result[s].repo = RepoOf(s)
    BY <2>4, <2>5 DEF RepoPath, Repos
  <2>. QED
    BY <2>4, <2>6
<1>. QED
  BY <1>1, CacheInvariance, PTL
=============================================================================
