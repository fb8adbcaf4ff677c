-------------------------- MODULE ScanPipeline_proofs --------------------------
(***************************************************************************)
(* Proofs about ScanPipeline: its channels are closed in order and its     *)
(* clean-up comes last, for any files, groups, workers and capacity.       *)
(***************************************************************************)
EXTENDS ScanPipeline, TLAPS

\* The kinds of tasks and their stages.
LEMMA Kinds ==
  /\ \A f \in Files : /\ <<"index", f>> \in Indexings /\ <<"sca", f>> \in Scans
                      /\ \A s \in Scanners : <<s, f>> \in JasScans
  /\ \A x \in Indexings : x \in Tasks /\ x \notin Scans /\ x \notin JasScans
  /\ \A x \in Scans : x \in Tasks /\ x \notin Indexings /\ x \notin JasScans
  /\ \A x \in JasScans : x \in Tasks /\ x \notin Indexings /\ x \notin Scans
  /\ \A x \in Tasks : x \in Indexings \/ x \in Scans \/ x \in JasScans
BY DEF Indexings, Scans, JasScans, Tasks, Scanners

LEMMA Stage ==
  /\ \A x \in Indexings : StageOf(x) = "file"
  /\ \A x \in Scans : StageOf(x) = "scan"
  /\ \A x \in JasScans : StageOf(x) = "jas"
  /\ \A x \in Tasks : StageOf(x) \in Stages
BY Kinds DEF StageOf, Stages

\* A task of each kind is named by its file.
LEMMA Named ==
  /\ \A x \in Indexings : \E f \in Files : x = <<"index", f>>
  /\ \A x \in Scans : \E f \in Files : x = <<"sca", f>>
  /\ \A f, g \in Files, s, t \in {"index", "sca", "ca", "secrets"} :
       <<s, f>> = <<t, g>> => s = t /\ f = g
BY DEF Indexings, Scans

-----------------------------------------------------------------------------
\* Type correctness.

LEMMA TypeInit == Init => TypeOK
BY PipelineAssumption, Kinds DEF Init, TypeOK, Stages

\* Sending a task keeps the channels sequences of tasks.
LEMMA SendType ==
  ASSUME TypeOK, NEW x \in Tasks, Send(x)
  PROVE  queue' \in [Stages -> Seq(Tasks)]
BY Stage DEF Send, TypeOK

LEMMA TypeMain ==
  ASSUME TypeOK, MainStep \/ WalkStep \/ HandOvers
  PROVE  TypeOK'
<1>1. CASE MainStep
  BY <1>1 DEF MainStep, Prepared, PrepareFails, CleanUp, Conclude, TypeOK, outs, General
<1>2. CASE WalkStep
  <2>1. ASSUME NEW f \in Files, WalkFile(f) PROVE TypeOK'
    <3>1. <<"index", f>> \in Tasks
      BY Kinds
    <3>2. queue' \in [Stages -> Seq(Tasks)]
      BY <2>1, <3>1, SendType DEF WalkFile
    <3>. QED
      BY <2>1, <3>2 DEF WalkFile, MoveTo, TypeOK, outs
  <2>2. CASE GroupWalked \/ GroupFails
    BY <2>2, PipelineAssumption DEF GroupWalked, GroupFails, TypeOK, outs, General
  <2>3. CASE WalkEnds
    BY <2>3 DEF WalkEnds, TypeOK, outs
  <2>. QED
    BY <1>2, <2>1, <2>2, <2>3 DEF WalkStep
<1>3. CASE HandOvers
  BY <1>3 DEF HandOvers, HandOver, TypeOK, outs
<1>. QED
  BY <1>1, <1>2, <1>3

LEMMA TypeTake ==
  ASSUME TypeOK, NEW x \in Tasks, Take(x)
  PROVE  TypeOK'
<1>1. queue' \in [Stages -> Seq(Tasks)]
  BY Stage DEF Take, TypeOK
<1>2. FirstPhase(x) \in Busy
  BY DEF FirstPhase, Busy
<1>. QED
  BY <1>1, <1>2 DEF Take, MoveTo, TypeOK, outs

LEMMA TypeFile ==
  ASSUME TypeOK, NEW f \in Files, FileStep(f)
  PROVE  TypeOK'
<1>1. <<"index", f>> \in Tasks /\ <<"sca", f>> \in Tasks
  BY Kinds
<1>2. CASE IndexFails(f)
  BY <1>1, <1>2 DEF IndexFails, MoveTo, TypeOK
<1>3. CASE Indexed(f)
  BY <1>1, <1>3 DEF Indexed, MoveTo, TypeOK, Busy
<1>4. CASE SendScan(f)
  <2>1. queue' \in [Stages -> Seq(Tasks)]
    BY <1>1, <1>4, SendType DEF SendScan
  <2>. QED
    BY <1>4, <2>1 DEF SendScan, TypeOK, outs
<1>. QED
  BY <1>2, <1>3, <1>4 DEF FileStep

LEMMA TypeScan ==
  ASSUME TypeOK, NEW f \in Files, ScaStep(f)
  PROVE  TypeOK'
<1>1. <<"sca", f>> \in Tasks /\ <<"sca", f>> \in Scans
  BY Kinds
<1>2. AfterSca \in {"setup", "done"}
  BY DEF AfterSca
<1>3. CASE ScaSkipped(f) \/ ScaScanned(f) \/ ScaFails(f)
  <2>1. AfterSca \in {"none", "queued", "done"} \cup Busy
    BY <1>2 DEF Busy
  <2>. HIDE DEF AfterSca
  <2>2. CASE ScaSkipped(f)
    BY <1>1, <2>1, <2>2 DEF ScaSkipped, MoveTo, TypeOK, outs
  <2>3. CASE ScaScanned(f)
    BY <1>1, <2>1, <2>3 DEF ScaScanned, MoveTo, TypeOK
  <2>4. CASE ScaFails(f)
    BY <1>1, <2>4 DEF ScaFails, MoveTo, TypeOK
  <2>. QED
    BY <1>3, <2>2, <2>3, <2>4
<1>4. CASE JasSetupFails(f) \/ NoJasScanner(f) \/ NoExecutable(f) \/ JasSetUp(f)
  BY <1>1, <1>4 DEF JasSetupFails, NoJasScanner, NoExecutable, JasSetUp, MoveTo, TypeOK, Busy, outs
<1>5. ASSUME NEW s \in Scanners, NEW ph, NEW next \in {"addSecrets", "done"},
             AddScanner(f, s, ph, next)
      PROVE  TypeOK'
  <2>1. <<s, f>> \in Tasks
    BY Kinds
  <2>2. queue' \in [Stages -> Seq(Tasks)]
    BY <1>5, <2>1, SendType DEF AddScanner, TypeOK
  <2>. QED
    BY <1>5, <2>2 DEF AddScanner, MoveTo, TypeOK, Busy, outs
<1>6. CASE AddJasScanners(f)
  <2>1. CASE AddScanner(f, "ca", "addCa", "addSecrets")
    BY <1>5, <2>1 DEF Scanners
  <2>2. CASE AddScanner(f, "secrets", "addSecrets", "done")
    BY <1>5, <2>2 DEF Scanners
  <2>. QED
    BY <1>6, <2>1, <2>2 DEF AddJasScanners
<1>. QED
  BY <1>3, <1>4, <1>6 DEF ScaStep

LEMMA TypeStep == TypeOK /\ [Next]_vars => TypeOK'
<1>. SUFFICES ASSUME TypeOK, [Next]_vars PROVE TypeOK'
  OBVIOUS
<1>1. ASSUME NEW x \in JasScans, ScannerRecords(x) \/ ScannerReports(x) PROVE TypeOK'
  BY <1>1, Kinds DEF ScannerRecords, ScannerReports, MoveTo, TypeOK, Busy
<1>2. CASE UNCHANGED vars
  BY <1>2 DEF vars, TypeOK, outs
<1>. QED
  BY <1>1, <1>2, TypeMain, TypeTake, TypeFile, TypeScan DEF Next, Stay

-----------------------------------------------------------------------------
\* The channels.

\* A step that sends x, or moves a task without queueing it.
LEMMA SendQueue ==
  ASSUME TypeOK, QueueInv, NEW x \in Tasks, Send(x),
         \A y \in Tasks : y # x /\ st'[y] = "queued" => st[y] = "queued"
  PROVE  QueueInv'
<1>1. StageOf(x) \in Stages /\ queue[StageOf(x)] \in Seq(Tasks)
  BY Stage DEF TypeOK
<1>2. queue'[StageOf(x)] = Append(queue[StageOf(x)], x)
  BY <1>1 DEF Send, TypeOK
<1>3. \A s \in Stages : s # StageOf(x) => queue'[s] = queue[s]
  BY <1>1 DEF Send, TypeOK
<1>. SUFFICES ASSUME NEW y \in Tasks, st'[y] = "queued"
              PROVE  \E i \in 1 .. Len(queue'[StageOf(y)]) : queue'[StageOf(y)][i] = y
  BY DEF QueueInv, StageOf
<1>. DEFINE q == queue[StageOf(x)]
<1>4. CASE y = x
  <2>1. Append(q, x)[Len(q) + 1] = x /\ Len(Append(q, x)) = Len(q) + 1 /\ Len(q) \in Nat
    BY <1>1
  <2>. QED
    BY <1>2, <1>4, <2>1
<1>5. CASE y # x
  <2>1. PICK i \in 1 .. Len(queue[StageOf(y)]) : queue[StageOf(y)][i] = y
    BY <1>5 DEF QueueInv
  <2>2. CASE StageOf(y) = StageOf(x)
    <3>1. Append(q, x)[i] = q[i] /\ i \in 1 .. Len(Append(q, x))
      BY <1>1, <2>1, <2>2
    <3>. QED
      BY <1>2, <2>1, <2>2, <3>1
  <2>3. CASE StageOf(y) # StageOf(x)
    BY <1>3, <2>1, <2>3, Stage
  <2>. QED
    BY <2>2, <2>3
<1>. QED
  BY <1>4, <1>5

LEMMA KeepQueue ==
  ASSUME QueueInv, UNCHANGED queue,
         \A y \in Tasks : st'[y] = "queued" => st[y] = "queued"
  PROVE  QueueInv'
BY DEF QueueInv, StageOf

LEMMA TakeQueue ==
  ASSUME TypeOK, QueueInv, NEW x \in Tasks, Take(x)
  PROVE  QueueInv'
<1>. DEFINE q == queue[StageOf(x)]
<1>1. StageOf(x) \in Stages /\ q \in Seq(Tasks) /\ q # <<>> /\ q[1] = x
  BY Stage DEF Take, TypeOK
<1>2. queue'[StageOf(x)] = Tail(q) /\ \A s \in Stages : s # StageOf(x) => queue'[s] = queue[s]
  BY <1>1 DEF Take, TypeOK
<1>3. st'[x] # "queued" /\ \A y \in Tasks : y # x => st'[y] = st[y]
  BY DEF Take, MoveTo, FirstPhase, TypeOK
<1>. SUFFICES ASSUME NEW y \in Tasks, st'[y] = "queued"
              PROVE  \E i \in 1 .. Len(queue'[StageOf(y)]) : queue'[StageOf(y)][i] = y
  BY DEF QueueInv, StageOf
<1>4. y # x /\ st[y] = "queued"
  BY <1>3
<1>5. PICK i \in 1 .. Len(queue[StageOf(y)]) : queue[StageOf(y)][i] = y
  BY <1>4 DEF QueueInv
<1>6. CASE StageOf(y) = StageOf(x)
  <2>1. i # 1
    BY <1>1, <1>4, <1>5, <1>6
  <2>2. i - 1 \in 1 .. Len(Tail(q)) /\ Tail(q)[i - 1] = q[i]
    BY <1>1, <1>5, <1>6, <2>1
  <2>. QED
    BY <1>2, <1>5, <1>6, <2>2
<1>7. CASE StageOf(y) # StageOf(x)
  BY <1>2, <1>5, <1>7, Stage
<1>. QED
  BY <1>6, <1>7

\* When Run of a stage has returned, none of its tasks is left.
LEMMA NoneLeft ==
  ASSUME PhaseInv, QueueInv, NEW s \in Stages, RunReturned(s),
         NEW x \in Tasks, StageOf(x) = s
  PROVE  st[x] \in {"none", "done"}
<1>1. st[x] \notin Busy
  BY DEF RunReturned, Running
<1>2. st[x] # "queued"
  <2>1. Len(queue[s]) = 0
    BY DEF RunReturned
  <2>. QED
    BY <2>1 DEF QueueInv
<1>. QED
  BY <1>1, <1>2, Kinds DEF PhaseInv, Busy

-----------------------------------------------------------------------------
\* One lemma per goroutine: each of its steps preserves the invariant.

LEMMA MainInv ==
  ASSUME IndInv, MainStep \/ UNCHANGED vars
  PROVE  PhaseInv' /\ QueueInv' /\ CloseInv' /\ CleanUpLast'
<1>1. UNCHANGED <<st, queue, closed, group>>
  BY DEF MainStep, Prepared, PrepareFails, CleanUp, Conclude, vars
<1>2. PhaseInv' /\ CloseInv'
  BY <1>1 DEF IndInv, PhaseInv, CloseInv, NoSendOnClosed
<1>3. QueueInv'
  BY <1>1, KeepQueue DEF IndInv
<1>4. CleanUpLast'
  <2>1. CASE CleanUp
    <3>1. closed["jas"] /\ main = "run" /\ RunReturned("jas")
      BY <2>1 DEF CleanUp, RunReturned
    <3>2. \A x \in JasScans : st[x] \in {"none", "done"}
      BY <3>1, NoneLeft, Kinds, Stage DEF IndInv, Stages
    <3>3. /\ \A f \in Files : st[<<"index", f>>] \in {"none", "done"}
          /\ \A f \in Files : st[<<"sca", f>>] \in {"none", "done"}
      BY <3>1 DEF IndInv, CloseInv, NoSendOnClosed
    <3>4. \A x \in Tasks : st[x] \in {"none", "done"}
      BY <3>2, <3>3, Kinds, Named
    <3>. QED
      BY <1>1, <3>4 DEF CleanUpLast
  <2>2. CASE Prepared \/ PrepareFails
    BY <2>2 DEF Prepared, PrepareFails, CleanUpLast
  <2>3. CASE Conclude \/ UNCHANGED vars
    BY <1>1, <2>3 DEF Conclude, vars, IndInv, CleanUpLast
  <2>. QED
    BY <2>1, <2>2, <2>3 DEF MainStep
<1>. QED
  BY <1>2, <1>3, <1>4

LEMMA WalkInv ==
  ASSUME IndInv, WalkStep
  PROVE  PhaseInv' /\ QueueInv' /\ CloseInv' /\ CleanUpLast'
<1>1. ASSUME NEW f \in Files, WalkFile(f)
      PROVE  PhaseInv' /\ QueueInv' /\ CloseInv' /\ CleanUpLast'
  <2>. DEFINE x == <<"index", f>>
  <2>1. x \in Indexings /\ x \in Tasks
    BY Kinds
  <2>2. st' = [st EXCEPT ![x] = "queued"] /\ UNCHANGED <<main, closed, group>> /\ Send(x)
    BY <1>1 DEF WalkFile, MoveTo
  <2>3. PhaseInv'
    BY <2>1, <2>2, Kinds DEF IndInv, TypeOK, PhaseInv
  <2>4. QueueInv'
    BY <2>1, <2>2, SendQueue DEF IndInv, TypeOK
  <2>5. ~closed["file"] /\ ~closed["scan"] /\ ~closed["jas"]
    BY <1>1, PipelineAssumption DEF WalkFile, IndInv, CloseInv, NoSendOnClosed
  <2>6. CloseInv' /\ CleanUpLast'
    BY <1>1, <2>2, <2>5 DEF WalkFile, CloseInv, NoSendOnClosed, CleanUpLast
  <2>. QED
    BY <2>3, <2>4, <2>6
<1>2. CASE GroupWalked \/ GroupFails \/ WalkEnds
  <2>1. UNCHANGED <<st, queue, main>>
    BY <1>2 DEF GroupWalked, GroupFails, WalkEnds
  <2>2. PhaseInv' /\ CleanUpLast'
    BY <2>1 DEF IndInv, PhaseInv, CleanUpLast
  <2>3. QueueInv'
    BY <2>1, KeepQueue DEF IndInv
  <2>4. CloseInv'
    BY <1>2, PipelineAssumption DEF GroupWalked, GroupFails, WalkEnds, IndInv, TypeOK,
       Stages, CloseInv, NoSendOnClosed
  <2>. QED
    BY <2>2, <2>3, <2>4
<1>. QED
  BY <1>1, <1>2 DEF WalkStep

LEMMA HandOverInv ==
  ASSUME IndInv, HandOvers
  PROVE  PhaseInv' /\ QueueInv' /\ CloseInv' /\ CleanUpLast'
<1>1. UNCHANGED <<st, queue, main, group>>
  BY DEF HandOvers, HandOver
<1>2. PhaseInv' /\ CleanUpLast'
  BY <1>1 DEF IndInv, PhaseInv, CleanUpLast
<1>3. QueueInv'
  BY <1>1, KeepQueue DEF IndInv
<1>4. CASE HandOver("file", "scan")
  <2>1. closed["file"] /\ queue["file"] = <<>> /\ ~closed["scan"]
    BY <1>4 DEF HandOver, RunReturned
  <2>2. \A f \in Files : st[<<"index", f>>] \in {"none", "done"}
    BY <1>4, NoneLeft, Kinds, Stage DEF HandOver, IndInv, Stages
  <2>3. closed' = [closed EXCEPT !["scan"] = TRUE]
    BY <1>4 DEF HandOver
  <2>. QED
    BY <1>1, <1>2, <1>3, <2>1, <2>2, <2>3 DEF IndInv, TypeOK, Stages, CloseInv, NoSendOnClosed
<1>5. CASE HandOver("scan", "jas")
  <2>1. closed["scan"] /\ queue["scan"] = <<>>
    BY <1>5 DEF HandOver, RunReturned
  <2>2. \A f \in Files : st[<<"sca", f>>] \in {"none", "done"}
    BY <1>5, NoneLeft, Kinds, Stage DEF HandOver, IndInv, Stages
  <2>3. closed' = [closed EXCEPT !["jas"] = TRUE]
    BY <1>5 DEF HandOver
  <2>. QED
    BY <1>1, <1>2, <1>3, <2>1, <2>2, <2>3 DEF IndInv, TypeOK, Stages, CloseInv, NoSendOnClosed
<1>. QED
  BY <1>4, <1>5 DEF HandOvers

LEMMA TakeInv ==
  ASSUME IndInv, NEW x \in Tasks, Take(x)
  PROVE  PhaseInv' /\ QueueInv' /\ CloseInv' /\ CleanUpLast'
<1>1. st' = [st EXCEPT ![x] = FirstPhase(x)] /\ UNCHANGED <<closed, group>>
      /\ main = "run" /\ main' = "run" /\ queue[StageOf(x)] # <<>>
  BY DEF Take, MoveTo
<1>2. PhaseInv'
  BY <1>1, Kinds DEF FirstPhase, IndInv, TypeOK, PhaseInv
<1>3. QueueInv'
  BY TakeQueue DEF IndInv
<1>4. CleanUpLast'
  BY <1>1 DEF CleanUpLast
<1>5. \A s \in Stages : s # StageOf(x) => queue'[s] = queue[s]
  BY Stage DEF Take, IndInv, TypeOK
<1>6. CloseInv'
  <2>1. CASE x \in Indexings
    BY <1>1, <2>1, Stage DEF IndInv, CloseInv, NoSendOnClosed
  <2>2. CASE x \in Scans
    <3>1. ~closed["jas"]
      BY <1>1, <2>2, Stage DEF IndInv, CloseInv, NoSendOnClosed
    <3>2. queue'["file"] = queue["file"] /\ \A f \in Files : st'[<<"index", f>>] = st[<<"index", f>>]
      BY <1>1, <1>5, <2>2, Stage, Kinds DEF IndInv, TypeOK, Stages
    <3>. QED
      BY <1>1, <3>1, <3>2 DEF IndInv, CloseInv, NoSendOnClosed
  <2>3. CASE x \in JasScans
    <3>1. queue'["file"] = queue["file"] /\ queue'["scan"] = queue["scan"]
      BY <1>5, <2>3, Stage DEF Stages
    <3>2. \A f \in Files : st'[<<"index", f>>] = st[<<"index", f>>] /\ st'[<<"sca", f>>] = st[<<"sca", f>>]
      BY <1>1, <2>3, Kinds DEF IndInv, TypeOK
    <3>. QED
      BY <1>1, <3>1, <3>2 DEF IndInv, CloseInv, NoSendOnClosed
  <2>. QED
    BY <2>1, <2>2, <2>3, Kinds
<1>. QED
  BY <1>2, <1>3, <1>4, <1>6

\* A task that indexes keeps the second channel open, and so the third.
LEMMA FileInv ==
  ASSUME IndInv, NEW f \in Files, FileStep(f)
  PROVE  PhaseInv' /\ QueueInv' /\ CloseInv' /\ CleanUpLast'
<1>. DEFINE x == <<"index", f>>
            y == <<"sca", f>>
<1>1. x \in Indexings /\ x \in Tasks /\ y \in Scans /\ y \in Tasks /\ x # y
  BY Kinds
<1>2. st[x] \in {"index", "send"} /\ UNCHANGED <<closed, group, main>>
  BY DEF FileStep, IndexFails, Indexed, SendScan
<1>3. ~closed["scan"] /\ ~closed["jas"]
  BY <1>2 DEF IndInv, CloseInv, NoSendOnClosed
<1>4. CloseInv'
  BY <1>2, <1>3 DEF IndInv, CloseInv, NoSendOnClosed
<1>5. CleanUpLast'
  BY <1>1, <1>2 DEF IndInv, CleanUpLast
<1>6. CASE IndexFails(f) \/ Indexed(f)
  <2>1. UNCHANGED queue /\ \E ph \in {"send", "done"} : st' = [st EXCEPT ![x] = ph]
    BY <1>6 DEF IndexFails, Indexed, MoveTo
  <2>2. PhaseInv'
    BY <1>1, <2>1, Kinds DEF IndInv, TypeOK, PhaseInv
  <2>3. QueueInv'
    BY <1>1, <2>1, KeepQueue DEF IndInv, TypeOK
  <2>. QED
    BY <1>4, <1>5, <2>2, <2>3
<1>7. CASE SendScan(f)
  <2>1. Send(y) /\ st' = [st EXCEPT ![x] = "done", ![y] = "queued"]
    BY <1>7 DEF SendScan
  <2>2. PhaseInv'
    BY <1>1, <2>1, Kinds DEF IndInv, TypeOK, PhaseInv
  <2>3. QueueInv'
    BY <1>1, <2>1, SendQueue DEF IndInv, TypeOK
  <2>. QED
    BY <1>4, <1>5, <2>2, <2>3
<1>. QED
  BY <1>6, <1>7 DEF FileStep

\* A task that scans keeps the third channel open.
LEMMA ScanInv ==
  ASSUME IndInv, NEW f \in Files, ScaStep(f)
  PROVE  PhaseInv' /\ QueueInv' /\ CloseInv' /\ CleanUpLast'
<1>. DEFINE y == <<"sca", f>>
<1>1. y \in Scans /\ y \in Tasks
  BY Kinds
<1>2. st[y] \in {"sca", "setup", "addCa", "addSecrets"} /\ UNCHANGED <<closed, group, main>>
  BY DEF ScaStep, ScaSkipped, ScaScanned, ScaFails, JasSetupFails, NoJasScanner,
     NoExecutable, JasSetUp, AddJasScanners, AddScanner
<1>3. ~closed["jas"]
  BY <1>2 DEF IndInv, CloseInv, NoSendOnClosed
<1>4. CleanUpLast'
  BY <1>1, <1>2 DEF IndInv, CleanUpLast
<1>5. ASSUME UNCHANGED queue, NEW ph \in {"setup", "addCa", "addSecrets", "done"},
             st' = [st EXCEPT ![y] = ph]
      PROVE  PhaseInv' /\ QueueInv' /\ CloseInv'
  <2>1. PhaseInv'
    BY <1>1, <1>5, Kinds DEF IndInv, TypeOK, PhaseInv
  <2>2. QueueInv'
    BY <1>1, <1>5, KeepQueue DEF IndInv, TypeOK
  <2>3. \A g \in Files : st'[<<"index", g>>] = st[<<"index", g>>]
    BY <1>1, <1>5, Kinds DEF IndInv, TypeOK
  <2>4. CloseInv'
    BY <1>2, <1>3, <1>5, <2>3 DEF IndInv, CloseInv, NoSendOnClosed
  <2>. QED
    BY <2>1, <2>2, <2>4
<1>6. ASSUME NEW s \in Scanners, Send(<<s, f>>), NEW ph \in {"addSecrets", "done"},
             st' = [st EXCEPT ![y] = ph, ![<<s, f>>] = "queued"]
      PROVE  PhaseInv' /\ QueueInv' /\ CloseInv'
  <2>1. <<s, f>> \in JasScans /\ <<s, f>> \in Tasks /\ <<s, f>> # y
    BY <1>1, Kinds
  <2>2. PhaseInv'
    BY <1>1, <1>6, <2>1, Kinds DEF IndInv, TypeOK, PhaseInv
  <2>3. QueueInv'
    BY <1>1, <1>6, <2>1, SendQueue DEF IndInv, TypeOK
  <2>4. \A g \in Files : st'[<<"index", g>>] = st[<<"index", g>>]
    BY <1>1, <1>6, <2>1, Kinds DEF IndInv, TypeOK
  <2>5. queue'["file"] = queue["file"]
    BY <1>6, <2>1, Stage DEF Send, IndInv, TypeOK, Stages
  <2>6. CloseInv'
    BY <1>2, <1>3, <2>4, <2>5 DEF IndInv, CloseInv, NoSendOnClosed
  <2>. QED
    BY <2>2, <2>3, <2>6
<1>7. CASE AddJasScanners(f)
  <2>1. ASSUME NEW s \in Scanners, NEW ph, NEW next \in {"addSecrets", "done"},
               AddScanner(f, s, ph, next)
        PROVE  PhaseInv' /\ QueueInv' /\ CloseInv'
    <3>1. CASE s \in plan.scanners
      BY <1>6, <2>1, <3>1 DEF AddScanner
    <3>2. CASE s \notin plan.scanners
      BY <1>5, <2>1, <3>2 DEF AddScanner, MoveTo
    <3>. QED
      BY <3>1, <3>2
  <2>2. CASE AddScanner(f, "ca", "addCa", "addSecrets")
    BY <1>4, <2>1, <2>2 DEF Scanners
  <2>3. CASE AddScanner(f, "secrets", "addSecrets", "done")
    BY <1>4, <2>1, <2>3 DEF Scanners
  <2>. QED
    BY <1>7, <2>2, <2>3 DEF AddJasScanners
<1>8. CASE ~AddJasScanners(f)
  <2>1. UNCHANGED queue /\ \E ph \in {"setup", "addCa", "addSecrets", "done"} :
          st' = [st EXCEPT ![y] = ph]
    BY <1>8 DEF ScaStep, ScaSkipped, ScaScanned, ScaFails, JasSetupFails, NoJasScanner,
       NoExecutable, JasSetUp, MoveTo, AfterSca
  <2>. QED
    BY <1>4, <1>5, <2>1
<1>. QED
  BY <1>7, <1>8

LEMMA ScannerInv ==
  ASSUME IndInv, NEW x \in JasScans, ScannerRecords(x) \/ ScannerReports(x)
  PROVE  PhaseInv' /\ QueueInv' /\ CloseInv' /\ CleanUpLast'
<1>1. st[x] \in {"scan", "report"} /\ UNCHANGED <<queue, closed, group, main>>
      /\ \E ph \in {"report", "done"} : st' = [st EXCEPT ![x] = ph]
  BY DEF ScannerRecords, ScannerReports, MoveTo
<1>2. PhaseInv'
  BY <1>1, Kinds DEF IndInv, TypeOK, PhaseInv
<1>3. QueueInv'
  BY <1>1, Kinds, KeepQueue DEF IndInv, TypeOK
<1>4. \A f \in Files : st'[<<"index", f>>] = st[<<"index", f>>] /\ st'[<<"sca", f>>] = st[<<"sca", f>>]
  BY <1>1, Kinds DEF IndInv, TypeOK
<1>5. CloseInv'
  BY <1>1, <1>4 DEF IndInv, CloseInv, NoSendOnClosed
<1>6. CleanUpLast'
  BY <1>1, Kinds DEF IndInv, CleanUpLast
<1>. QED
  BY <1>2, <1>3, <1>5, <1>6

-----------------------------------------------------------------------------
\* The channels hold waiting tasks only, each once.

LEMMA SendOnce ==
  ASSUME TypeOK, OnceInv, NEW x \in Tasks, Send(x), st[x] # "queued", st'[x] = "queued",
         \A y \in Tasks : st[y] = "queued" => st'[y] = "queued"
  PROVE  OnceInv'
<1>. DEFINE q == queue[StageOf(x)]
<1>1. StageOf(x) \in Stages /\ q \in Seq(Tasks) /\ Len(q) \in Nat
  BY Stage DEF TypeOK
<1>2. queue'[StageOf(x)] = Append(q, x)
      /\ \A s \in Stages : s # StageOf(x) => queue'[s] = queue[s]
  BY <1>1 DEF Send, TypeOK
<1>3. \A s \in Stages : \A i \in 1 .. Len(queue[s]) :
        queue[s][i] \in Tasks /\ queue[s][i] # x
  BY DEF OnceInv, TypeOK
<1>. SUFFICES ASSUME NEW s \in Stages, NEW i \in 1 .. Len(queue'[s]), NEW j \in 1 .. Len(queue'[s])
              PROVE  /\ st'[queue'[s][i]] = "queued" /\ StageOf(queue'[s][i]) = s
                     /\ queue'[s][i] = queue'[s][j] => i = j
  BY DEF OnceInv, StageOf
<1>4. CASE s # StageOf(x)
  BY <1>2, <1>3, <1>4 DEF OnceInv
<1>5. CASE s = StageOf(x)
  <2>1. /\ Len(queue'[s]) = Len(q) + 1 /\ queue'[s][Len(q) + 1] = x
        /\ \A k \in 1 .. Len(q) : queue'[s][k] = q[k]
    BY <1>1, <1>2, <1>5
  <2>2. \A k \in 1 .. Len(queue'[s]) : k = Len(q) + 1 \/ k \in 1 .. Len(q)
    BY <1>1, <2>1
  <2>. QED
    BY <1>3, <1>5, <2>1, <2>2 DEF OnceInv
<1>. QED
  BY <1>4, <1>5

LEMMA KeepOnce ==
  ASSUME TypeOK, OnceInv, UNCHANGED queue,
         \A y \in Tasks : st[y] = "queued" => st'[y] = "queued"
  PROVE  OnceInv'
<1>1. \A s \in Stages : \A i \in 1 .. Len(queue[s]) : queue[s][i] \in Tasks
  BY DEF TypeOK
<1>. QED
  BY <1>1 DEF OnceInv, StageOf

LEMMA TakeOnce ==
  ASSUME TypeOK, OnceInv, NEW x \in Tasks, Take(x)
  PROVE  OnceInv' /\ st[x] = "queued"
<1>. DEFINE q == queue[StageOf(x)]
<1>1. StageOf(x) \in Stages /\ q \in Seq(Tasks) /\ q # <<>> /\ q[1] = x /\ Len(q) \in Nat
      /\ 1 \in 1 .. Len(q)
  BY Stage DEF Take, TypeOK
<1>2. queue'[StageOf(x)] = Tail(q) /\ \A s \in Stages : s # StageOf(x) => queue'[s] = queue[s]
  BY <1>1 DEF Take, TypeOK
<1>3. \A y \in Tasks : y # x => st'[y] = st[y]
  BY DEF Take, MoveTo, TypeOK
<1>4. \A s \in Stages : \A i \in 1 .. Len(queue[s]) :
        queue[s][i] \in Tasks /\ (queue[s][i] = x => s = StageOf(x) /\ i = 1)
  BY <1>1 DEF OnceInv, TypeOK
<1>5. ASSUME NEW s \in Stages, NEW i \in 1 .. Len(queue'[s]), NEW j \in 1 .. Len(queue'[s])
      PROVE  /\ st'[queue'[s][i]] = "queued" /\ StageOf(queue'[s][i]) = s
             /\ queue'[s][i] = queue'[s][j] => i = j
  <2>1. CASE s # StageOf(x)
    BY <1>2, <1>3, <1>4, <1>5, <2>1 DEF OnceInv
  <2>2. CASE s = StageOf(x)
    <3>1. /\ Len(Tail(q)) = Len(q) - 1
          /\ \A k \in 1 .. Len(Tail(q)) :
               Tail(q)[k] = q[k + 1] /\ k + 1 \in 1 .. Len(q) /\ k + 1 # 1
      BY <1>1
    <3>2. queue'[s] = Tail(q) /\ queue[s] = q
      BY <1>2, <2>2
    <3>3. /\ i + 1 \in 1 .. Len(q) /\ j + 1 \in 1 .. Len(q) /\ i + 1 # 1
          /\ queue'[s][i] = queue[s][i + 1] /\ queue'[s][j] = queue[s][j + 1]
      BY <1>5, <3>1, <3>2
    <3>4. /\ st[queue[s][i + 1]] = "queued" /\ StageOf(queue[s][i + 1]) = s
          /\ queue[s][i + 1] = queue[s][j + 1] => i + 1 = j + 1
      BY <3>2, <3>3 DEF OnceInv
    <3>5. st'[queue[s][i + 1]] = st[queue[s][i + 1]]
      BY <1>3, <1>4, <3>2, <3>3
    <3>6. i + 1 = j + 1 => i = j
      BY <1>5
    <3>. QED
      BY <3>3, <3>4, <3>5, <3>6
  <2>. QED
    BY <2>1, <2>2
<1>6. st[x] = "queued"
  BY <1>1 DEF OnceInv
<1>. QED
  BY <1>5, <1>6 DEF OnceInv, StageOf

-----------------------------------------------------------------------------
\* What no step takes back, and what happens after the run has succeeded.

LEMMA Grows ==
  ASSUME TypeOK, [Next]_vars
  PROVE  /\ plan' = plan /\ errs \subseteq errs' /\ recorded \subseteq recorded'
         /\ closed["jas"] => closed'["jas"]
BY DEF TypeOK, Stages, Next, Stay, vars, outs, MainStep, Prepared, PrepareFails, CleanUp,
   Conclude, WalkStep, WalkFile, GroupWalked, GroupFails, WalkEnds, HandOvers, HandOver, Take,
   FileStep, IndexFails, Indexed, SendScan, ScaStep, ScaSkipped, ScaScanned, ScaFails,
   JasSetupFails, NoJasScanner, NoExecutable, JasSetUp, AddJasScanners, AddScanner,
   ScannerRecords, ScannerReports

LEMMA NothingAfterSuccess ==
  ASSUME IndInv, main = "success", [Next]_vars
  PROVE  UNCHANGED vars
<1>1. \A x \in Tasks : st[x] \in {"none", "done"}
  BY DEF IndInv, CleanUpLast
<1>2. ~MainStep /\ ~WalkStep /\ ~HandOvers /\ \A x \in Tasks : ~Take(x)
  BY DEF MainStep, Prepared, PrepareFails, CleanUp, Conclude, WalkStep, WalkFile,
     GroupWalked, GroupFails, WalkEnds, HandOvers, HandOver, Take
<1>3. \A f \in Files : ~FileStep(f)
  BY <1>1, Kinds DEF FileStep, IndexFails, Indexed, SendScan
<1>4. \A f \in Files : ~ScaStep(f)
  BY <1>1, Kinds DEF ScaStep, ScaSkipped, ScaScanned, ScaFails, JasSetupFails,
     NoJasScanner, NoExecutable, JasSetUp, AddJasScanners, AddScanner
<1>5. \A x \in JasScans : ~(ScannerRecords(x) \/ ScannerReports(x))
  BY <1>1, Kinds DEF ScannerRecords, ScannerReports
<1>. QED
  BY <1>2, <1>3, <1>4, <1>5 DEF Next, Stay

-----------------------------------------------------------------------------
\* Each file through the stages.

\* A plan names no other JAS scan.
LEMMA PlanScanners ==
  ASSUME TypeOK
  PROVE  plan.scanners \subseteq Scanners
BY PipelineAssumption DEF TypeOK, PlanType

\* A file whose tasks do not move stays where it is.
LEMMA TracedKept ==
  ASSUME TypeOK, NEW g \in Files, Traced(g), plan' = plan,
         \A k \in {"index", "sca", "ca", "secrets"} : st'[<<k, g>>] = st[<<k, g>>],
         graph'[g] = graph[g], recorded \subseteq recorded', errs \subseteq errs'
  PROVE  Traced(g)'
BY PlanScanners DEF Traced, WithoutJas, Scanners

\* Moving one task of the file f moves no task of another file.
LEMMA OthersKept ==
  ASSUME TypeOK, NEW f \in Files, NEW g \in Files, g # f,
         \A x \in Tasks : x[2] # f => st'[x] = st[x]
  PROVE  \A k \in {"index", "sca", "ca", "secrets"} : st'[<<k, g>>] = st[<<k, g>>]
<1>1. \A k \in {"index", "sca", "ca", "secrets"} : <<k, g>> \in Tasks /\ <<k, g>>[2] # f
  BY Kinds DEF Scanners
<1>. QED
  BY <1>1

\* The tasks of the file runner.
LEMMA FileTraced ==
  ASSUME IndInv, NEW f \in Files, FileStep(f)
  PROVE  OnceInv' /\ \A g \in Files : Traced(g)'
<1>. DEFINE x == <<"index", f>>
            y == <<"sca", f>>
<1>1. x \in Tasks /\ y \in Tasks /\ x # y /\ Traced(f)
      /\ \A s \in Scanners : <<s, f>> \in Tasks /\ <<s, f>> # x /\ <<s, f>> # y
  BY Kinds DEF IndInv, Scanners
<1>2. /\ plan' = plan /\ recorded' = recorded /\ errs \subseteq errs'
      /\ \A z \in Tasks : z[2] # f => st'[z] = st[z]
      /\ \A g \in Files : g # f => graph'[g] = graph[g]
  BY <1>1 DEF FileStep, IndexFails, Indexed, SendScan, MoveTo, outs, IndInv, TypeOK
<1>3. \A g \in Files : g # f => Traced(g)'
  BY <1>2, OthersKept, TracedKept DEF IndInv
<1>4. st[y] = "none"
  BY <1>1 DEF FileStep, IndexFails, Indexed, SendScan, Traced
<1>5. \A s \in Scanners : st'[<<s, f>>] = st[<<s, f>>] /\ st[<<s, f>>] = "none"
  BY <1>1, <1>4 DEF FileStep, IndexFails, Indexed, SendScan, MoveTo, IndInv, TypeOK,
     Traced, WithoutJas
<1>6. CASE IndexFails(f)
  <2>1. st'[x] = "done" /\ st'[y] = "none" /\ x \in errs' /\ UNCHANGED queue
        /\ \A z \in Tasks : st[z] = "queued" => st'[z] = "queued"
    BY <1>1, <1>4, <1>6 DEF IndexFails, MoveTo, IndInv, TypeOK
  <2>2. Traced(f)'
    BY <1>2, <1>5, <2>1 DEF Traced, WithoutJas
  <2>. QED
    BY <1>3, <2>1, <2>2, KeepOnce DEF IndInv
<1>7. CASE Indexed(f)
  <2>1. st'[x] = "send" /\ st'[y] = "none" /\ graph'[f] \in {"empty", "components"}
        /\ UNCHANGED queue /\ \A z \in Tasks : st[z] = "queued" => st'[z] = "queued"
    BY <1>1, <1>4, <1>7 DEF Indexed, MoveTo, IndInv, TypeOK
  <2>2. Traced(f)'
    BY <1>2, <1>5, <2>1 DEF Traced, WithoutJas
  <2>. QED
    BY <1>3, <2>1, <2>2, KeepOnce DEF IndInv
<1>8. CASE SendScan(f)
  <2>1. st[x] = "send" /\ st'[x] = "done" /\ st'[y] = "queued" /\ graph' = graph
        /\ Send(y) /\ errs' = errs
        /\ \A z \in Tasks : st[z] = "queued" => st'[z] = "queued"
    BY <1>1, <1>4, <1>8 DEF SendScan, outs, IndInv, TypeOK
  <2>2. Traced(f)'
    BY <1>1, <1>2, <1>5, <2>1 DEF Traced, WithoutJas
  <2>. QED
    BY <1>1, <1>3, <1>4, <2>1, <2>2, SendOnce DEF IndInv
<1>. QED
  BY <1>6, <1>7, <1>8 DEF FileStep

\* The tasks of the scan runner.
LEMMA ScanTraced ==
  ASSUME IndInv, NEW f \in Files, ScaStep(f)
  PROVE  OnceInv' /\ \A g \in Files : Traced(g)'
<1>. DEFINE x == <<"index", f>>
            y == <<"sca", f>>
<1>1. x \in Tasks /\ y \in Tasks /\ x # y /\ Traced(f)
      /\ \A s \in Scanners : <<s, f>> \in Tasks /\ <<s, f>> # x /\ <<s, f>> # y
      /\ <<"ca", f>> # <<"secrets", f>>
  BY Kinds DEF IndInv, Scanners
<1>2. /\ plan' = plan /\ recorded \subseteq recorded' /\ errs \subseteq errs' /\ graph' = graph
      /\ \A z \in Tasks : z[2] # f => st'[z] = st[z]
      /\ st'[x] = st[x]
  BY <1>1 DEF ScaStep, ScaSkipped, ScaScanned, ScaFails, JasSetupFails, NoJasScanner,
     NoExecutable, JasSetUp, AddJasScanners, AddScanner, MoveTo, outs, IndInv, TypeOK, Scanners
<1>3. \A g \in Files : g # f => Traced(g)'
  BY <1>2, OthersKept, TracedKept DEF IndInv
<1>4. ASSUME NEW ph \in {"setup", "addCa", "done"}, st' = [st EXCEPT ![y] = ph],
             st[y] \in {"sca", "setup"}, UNCHANGED queue,
             st[y] = "sca" => \/ y \in recorded' \cup errs'
                              \/ ~(plan.sca /\ graph[f] = "components")
      PROVE  OnceInv' /\ \A g \in Files : Traced(g)'
  <2>1. st'[y] = ph /\ \A s \in Scanners : st'[<<s, f>>] = st[<<s, f>>] /\ st[<<s, f>>] = "none"
    BY <1>1, <1>4 DEF IndInv, TypeOK, Traced, WithoutJas
  <2>2. y \in recorded' \cup errs' \/ ~(plan.sca /\ graph[f] = "components")
    BY <1>1, <1>2, <1>4 DEF Traced
  <2>3. Traced(f)'
    BY <1>1, <1>2, <1>4, <2>1, <2>2 DEF Traced, WithoutJas
  <2>4. \A z \in Tasks : st[z] = "queued" => st'[z] = "queued"
    BY <1>1, <1>4 DEF IndInv, TypeOK
  <2>. QED
    BY <1>3, <1>4, <2>3, <2>4, KeepOnce DEF IndInv
<1>5. CASE ScaSkipped(f) \/ ScaScanned(f) \/ ScaFails(f)
  BY <1>4, <1>5 DEF ScaSkipped, ScaScanned, ScaFails, MoveTo, AfterSca
<1>6. CASE JasSetupFails(f) \/ NoJasScanner(f) \/ NoExecutable(f) \/ JasSetUp(f)
  BY <1>4, <1>6 DEF JasSetupFails, NoJasScanner, NoExecutable, JasSetUp, MoveTo
<1>7. CASE AddScanner(f, "ca", "addCa", "addSecrets")
  <2>1. st[y] = "addCa" /\ \A s \in Scanners : st[<<s, f>>] = "none"
    BY <1>1, <1>7 DEF AddScanner, Traced, WithoutJas
  <2>2. CASE "ca" \in plan.scanners
    <3>1. /\ st' = [st EXCEPT ![y] = "addSecrets", ![<<"ca", f>>] = "queued"]
          /\ Send(<<"ca", f>>) /\ UNCHANGED <<recorded, errs>>
      BY <1>7, <2>2 DEF AddScanner, outs
    <3>2. /\ st'[y] = "addSecrets" /\ st'[<<"ca", f>>] = "queued" /\ st'[<<"secrets", f>>] = "none"
          /\ \A z \in Tasks : st[z] = "queued" => st'[z] = "queued"
      BY <1>1, <2>1, <3>1 DEF IndInv, TypeOK, Scanners
    <3>3. Traced(f)'
      BY <1>1, <1>2, <2>1, <3>1, <3>2 DEF Traced, WithoutJas, Scanners
    <3>4. <<"ca", f>> \in Tasks /\ st[<<"ca", f>>] = "none"
      BY <1>1, <2>1 DEF Scanners
    <3>. QED
      BY <1>3, <3>1, <3>2, <3>3, <3>4, SendOnce DEF IndInv
  <2>3. CASE "ca" \notin plan.scanners
    <3>1. st' = [st EXCEPT ![y] = "addSecrets"] /\ UNCHANGED <<recorded, errs, queue>>
      BY <1>7, <2>3 DEF AddScanner, MoveTo, outs
    <3>2. /\ st'[y] = "addSecrets" /\ \A s \in Scanners : st'[<<s, f>>] = "none"
          /\ \A z \in Tasks : st[z] = "queued" => st'[z] = "queued"
      BY <1>1, <2>1, <3>1 DEF IndInv, TypeOK
    <3>3. Traced(f)'
      BY <1>1, <1>2, <2>1, <2>3, <3>1, <3>2 DEF Traced, WithoutJas, Scanners
    <3>. QED
      BY <1>3, <3>1, <3>2, <3>3, KeepOnce DEF IndInv
  <2>. QED
    BY <2>2, <2>3
<1>8. CASE AddScanner(f, "secrets", "addSecrets", "done")
  <2>1. st[y] = "addSecrets" /\ st[<<"secrets", f>>] = "none"
        /\ ("ca" \in plan.scanners => st[<<"ca", f>>] # "none")
    BY <1>1, <1>8 DEF AddScanner, Traced
  <2>0. plan.scanners \subseteq Scanners
    BY PlanScanners DEF IndInv
  <2>2. CASE "secrets" \in plan.scanners
    <3>1. /\ st' = [st EXCEPT ![y] = "done", ![<<"secrets", f>>] = "queued"]
          /\ Send(<<"secrets", f>>) /\ UNCHANGED <<recorded, errs>>
      BY <1>8, <2>2 DEF AddScanner, outs
    <3>2. /\ st'[y] = "done" /\ st'[<<"secrets", f>>] = "queued"
          /\ st'[<<"ca", f>>] = st[<<"ca", f>>]
          /\ \A z \in Tasks : st[z] = "queued" => st'[z] = "queued"
      BY <1>1, <2>1, <3>1 DEF IndInv, TypeOK, Scanners
    <3>3. Traced(f)'
      BY <1>1, <1>2, <2>0, <2>1, <3>1, <3>2 DEF Traced, WithoutJas, Scanners
    <3>4. <<"secrets", f>> \in Tasks
      BY <1>1 DEF Scanners
    <3>. QED
      BY <1>3, <2>1, <3>1, <3>2, <3>3, <3>4, SendOnce DEF IndInv
  <2>3. CASE "secrets" \notin plan.scanners
    <3>1. st' = [st EXCEPT ![y] = "done"] /\ UNCHANGED <<recorded, errs, queue>>
      BY <1>8, <2>3 DEF AddScanner, MoveTo, outs
    <3>2. /\ st'[y] = "done" /\ \A s \in Scanners : st'[<<s, f>>] = st[<<s, f>>]
          /\ \A z \in Tasks : st[z] = "queued" => st'[z] = "queued"
      BY <1>1, <2>1, <3>1 DEF IndInv, TypeOK
    <3>3. Traced(f)'
      BY <1>1, <1>2, <2>0, <2>1, <2>3, <3>1, <3>2 DEF Traced, WithoutJas, Scanners
    <3>. QED
      BY <1>3, <3>1, <3>2, <3>3, KeepOnce DEF IndInv
  <2>. QED
    BY <2>2, <2>3
<1>. QED
  BY <1>5, <1>6, <1>7, <1>8 DEF ScaStep, AddJasScanners

\* A scanner task is recorded before it is done.
LEMMA ScannerTraced ==
  ASSUME IndInv, NEW x \in JasScans, ScannerRecords(x) \/ ScannerReports(x)
  PROVE  OnceInv' /\ \A g \in Files : Traced(g)'
<1>1. PICK s \in Scanners, f \in Files : x = <<s, f>>
  BY DEF JasScans
<1>2. x \in Tasks /\ st[x] \in {"scan", "report"} /\ UNCHANGED <<plan, queue, graph>>
      /\ x \in recorded'
      /\ recorded \subseteq recorded' /\ errs \subseteq errs'
      /\ \E ph \in {"report", "done"} : st' = [st EXCEPT ![x] = ph]
  BY <1>1, Kinds DEF ScannerRecords, ScannerReports, MoveTo, IndInv, Traced
<1>3. \A z \in Tasks : z # x => st'[z] = st[z]
  BY <1>2 DEF IndInv, TypeOK
<1>4. \A z \in Tasks : st[z] = "queued" => st'[z] = "queued"
  BY <1>2, <1>3
<1>5. st'[x] \in {"report", "done"}
  BY <1>2 DEF IndInv, TypeOK
<1>6. ASSUME NEW g \in Files
      PROVE  Traced(g)'
  <2>1. st'[<<"index", g>>] = st[<<"index", g>>] /\ st'[<<"sca", g>>] = st[<<"sca", g>>]
    BY <1>3, Kinds DEF Scanners
  <2>2. \A t \in Scanners : (st[<<t, g>>] = "none") <=> (st'[<<t, g>>] = "none")
    BY <1>2, <1>3, <1>5, Kinds
  <2>3. \A t \in Scanners : st'[<<t, g>>] \in {"report", "done"} => <<t, g>> \in recorded'
    BY <1>2, <1>3, Kinds DEF IndInv, Traced
  <2>4. plan.scanners \subseteq Scanners
    BY PlanScanners DEF IndInv
  <2>5. Traced(g)
    BY DEF IndInv
  <2>. QED
    BY <1>2, <2>1, <2>2, <2>3, <2>4, <2>5 DEF Traced, WithoutJas, Scanners
<1>. QED
  BY <1>2, <1>4, <1>6, KeepOnce DEF IndInv

\* Taking a task and walking to a file only begin a stage.
LEMMA TakeTraced ==
  ASSUME IndInv, NEW x \in Tasks, Take(x)
  PROVE  OnceInv' /\ \A g \in Files : Traced(g)'
<1>1. st[x] = "queued" /\ OnceInv'
  BY TakeOnce DEF IndInv
<1>2. UNCHANGED <<plan, graph, recorded, errs>> /\ st' = [st EXCEPT ![x] = FirstPhase(x)]
  BY DEF Take, MoveTo, outs
<1>3. /\ x \in Indexings => st'[x] = "index"
      /\ x \in Scans => st'[x] = "sca"
      /\ x \in JasScans => st'[x] = "scan"
      /\ \A z \in Tasks : z # x => st'[z] = st[z]
  BY <1>2, Kinds DEF FirstPhase, IndInv, TypeOK
<1>4. ASSUME NEW g \in Files
      PROVE  Traced(g)'
  <2>1. Traced(g)
    BY DEF IndInv
  <2>2. <<"index", g>> \in Indexings /\ <<"sca", g>> \in Scans
        /\ \A s \in Scanners : <<s, g>> \in JasScans
    BY Kinds
  <2>3. /\ \/ st'[<<"index", g>>] = st[<<"index", g>>]
           \/ st[<<"index", g>>] = "queued" /\ st'[<<"index", g>>] = "index"
        /\ \/ st'[<<"sca", g>>] = st[<<"sca", g>>]
           \/ st[<<"sca", g>>] = "queued" /\ st'[<<"sca", g>>] = "sca"
        /\ \A s \in Scanners :
             \/ st'[<<s, g>>] = st[<<s, g>>]
             \/ st[<<s, g>>] = "queued" /\ st'[<<s, g>>] = "scan"
    BY <1>1, <1>3, <2>2, Kinds
  <2>4. plan.scanners \subseteq Scanners
    BY PlanScanners DEF IndInv
  <2>. QED
    BY <1>2, <2>1, <2>3, <2>4 DEF Traced, WithoutJas, Scanners
<1>. QED
  BY <1>1, <1>4

LEMMA WalkTraced ==
  ASSUME IndInv, WalkStep
  PROVE  OnceInv' /\ \A g \in Files : Traced(g)'
<1>1. ASSUME NEW f \in Files, WalkFile(f)
      PROVE  OnceInv' /\ \A g \in Files : Traced(g)'
  <2>. DEFINE x == <<"index", f>>
  <2>1. x \in Tasks /\ st[x] = "none" /\ Send(x) /\ UNCHANGED <<plan, graph, recorded, errs>>
        /\ st' = [st EXCEPT ![x] = "queued"]
    BY <1>1, Kinds DEF WalkFile, MoveTo, outs
  <2>2. st'[x] = "queued" /\ \A z \in Tasks : z # x => st'[z] = st[z]
    BY <2>1 DEF IndInv, TypeOK
  <2>3. OnceInv'
    BY <2>1, <2>2, SendOnce DEF IndInv
  <2>4. ASSUME NEW g \in Files
        PROVE  Traced(g)'
    <3>1. Traced(g)
      BY DEF IndInv
    <3>2. /\ st'[<<"sca", g>>] = st[<<"sca", g>>]
          /\ \A s \in Scanners : st'[<<s, g>>] = st[<<s, g>>]
          /\ \/ st'[<<"index", g>>] = st[<<"index", g>>]
             \/ st[<<"index", g>>] = "none" /\ st'[<<"index", g>>] = "queued"
      BY <2>1, <2>2, Kinds DEF Scanners
    <3>3. plan.scanners \subseteq Scanners
      BY PlanScanners DEF IndInv
    <3>. QED
      BY <2>1, <3>1, <3>2, <3>3 DEF Traced, WithoutJas, Scanners
  <2>. QED
    BY <2>3, <2>4
<1>2. CASE GroupWalked \/ GroupFails \/ WalkEnds
  <2>1. UNCHANGED <<plan, st, queue, graph, recorded>> /\ errs \subseteq errs'
    BY <1>2 DEF GroupWalked, GroupFails, WalkEnds, outs
  <2>. QED
    BY <2>1, KeepOnce, TracedKept DEF IndInv
<1>. QED
  BY <1>1, <1>2 DEF WalkStep

\* No step of any goroutine loses a file, or a task of a channel.
LEMMA TracedStep ==
  ASSUME IndInv, [Next]_vars
  PROVE  OnceInv' /\ \A g \in Files : Traced(g)'
<1>1. CASE MainStep \/ HandOvers \/ UNCHANGED vars
  <2>1. UNCHANGED <<plan, st, queue, graph, recorded>> /\ errs \subseteq errs'
    BY <1>1 DEF MainStep, Prepared, PrepareFails, CleanUp, Conclude, HandOvers, HandOver,
       vars, outs
  <2>. QED
    BY <2>1, KeepOnce, TracedKept DEF IndInv
<1>. QED
  BY <1>1, WalkTraced, TakeTraced, FileTraced, ScanTraced, ScannerTraced DEF Next, Stay

\* A task that was added stays added.
LEMMA StaysAdded ==
  ASSUME IndInv, [Next]_vars, NEW f \in Files, st[<<"index", f>>] # "none"
  PROVE  st'[<<"index", f>>] # "none"
<1>. DEFINE x == <<"index", f>>
<1>1. x \in Indexings /\ x \in Tasks
  BY Kinds
<1>2. CASE WalkStep \/ \E g \in Files : FileStep(g)
  BY <1>1, <1>2 DEF WalkStep, WalkFile, GroupWalked, GroupFails, WalkEnds, FileStep,
     IndexFails, Indexed, SendScan, MoveTo, IndInv, TypeOK
<1>3. ASSUME NEW g \in Files, ScaStep(g)
      PROVE  st'[x] = st[x]
  BY <1>1, <1>3 DEF ScaStep, ScaSkipped, ScaScanned, ScaFails, JasSetupFails,
     NoJasScanner, NoExecutable, JasSetUp, AddJasScanners, AddScanner, MoveTo, IndInv, TypeOK
<1>4. ASSUME NEW y \in Tasks, Take(y)
      PROVE  st'[x] # "none"
  BY <1>1, <1>4 DEF Take, MoveTo, FirstPhase, IndInv, TypeOK
<1>5. ASSUME NEW y \in JasScans, ScannerRecords(y) \/ ScannerReports(y)
      PROVE  st'[x] # "none"
  BY <1>1, <1>5 DEF ScannerRecords, ScannerReports, MoveTo, IndInv, TypeOK
<1>6. CASE MainStep \/ HandOvers \/ UNCHANGED vars
  BY <1>6 DEF MainStep, Prepared, PrepareFails, CleanUp, Conclude, HandOvers, HandOver, vars
<1>. QED
  BY <1>2, <1>3, <1>4, <1>5, <1>6 DEF Next, Stay

\* The walk passes no file by in silence, and success means no error so far.
LEMMA WalkedStep ==
  ASSUME IndInv, [Next]_vars
  PROVE  WalkedInv'
<1>1. ASSUME NEW f \in Files, GroupOf[f] < group'
      PROVE  st'[<<"index", f>>] # "none" \/ <<"walk", 0>> \in errs'
  <2>1. CASE GroupOf[f] < group
    <3>1. st[<<"index", f>>] # "none" \/ <<"walk", 0>> \in errs
      BY <2>1 DEF IndInv, WalkedInv
    <3>. QED
      BY <3>1, StaysAdded, Grows DEF IndInv
  <2>2. CASE ~(GroupOf[f] < group)
    <3>1. group' # group
      BY <1>1, <2>2
    <3>2. GroupWalked \/ GroupFails
      BY <3>1 DEF Next, Stay, vars, outs, MainStep, Prepared, PrepareFails, CleanUp,
         Conclude, WalkStep, WalkFile, GroupWalked, GroupFails, WalkEnds, HandOvers,
         HandOver, Take, FileStep, IndexFails, Indexed, SendScan, ScaStep, ScaSkipped,
         ScaScanned, ScaFails, JasSetupFails, NoJasScanner, NoExecutable, JasSetUp,
         AddJasScanners, AddScanner, ScannerRecords, ScannerReports
    <3>3. GroupOf[f] = group
      BY <1>1, <2>2, <3>2, PipelineAssumption DEF GroupWalked, GroupFails, IndInv, TypeOK
    <3>. QED
      BY <3>2, <3>3 DEF GroupWalked, GroupFails
  <2>. QED
    BY <2>1, <2>2
<1>2. ASSUME main' \in {"cleaned", "success"}
      PROVE  closed'["jas"]
  <2>1. CASE main \in {"cleaned", "success"}
    BY <2>1, Grows DEF IndInv, WalkedInv
  <2>2. CASE main \notin {"cleaned", "success"}
    <3>1. CleanUp
      BY <1>2, <2>2 DEF Next, Stay, vars, outs, MainStep, Prepared, PrepareFails, CleanUp,
         Conclude, WalkStep, WalkFile, GroupWalked, GroupFails, WalkEnds, HandOvers,
         HandOver, Take, FileStep, IndexFails, Indexed, SendScan, ScaStep, ScaSkipped,
         ScaScanned, ScaFails, JasSetupFails, NoJasScanner, NoExecutable, JasSetUp,
         AddJasScanners, AddScanner, ScannerRecords, ScannerReports
    <3>. QED
      BY <3>1 DEF CleanUp, RunReturned
  <2>. QED
    BY <2>1, <2>2
<1>3. ASSUME main' = "success"
      PROVE  errs' = {}
  <2>1. CASE main = "success"
    BY <2>1, NothingAfterSuccess DEF vars, IndInv, WalkedInv
  <2>2. CASE main # "success"
    <3>1. Conclude
      BY <1>3, <2>2 DEF Next, Stay, vars, outs, MainStep, Prepared, PrepareFails, CleanUp,
         Conclude, WalkStep, WalkFile, GroupWalked, GroupFails, WalkEnds, HandOvers,
         HandOver, Take, FileStep, IndexFails, Indexed, SendScan, ScaStep, ScaSkipped,
         ScaScanned, ScaFails, JasSetupFails, NoJasScanner, NoExecutable, JasSetUp,
         AddJasScanners, AddScanner, ScannerRecords, ScannerReports
    <3>. QED
      BY <1>3, <3>1 DEF Conclude
  <2>. QED
    BY <2>1, <2>2
<1>. QED
  BY <1>1, <1>2, <1>3 DEF WalkedInv

-----------------------------------------------------------------------------
\* The inductive invariant.

LEMMA IndInit == Init => IndInv
<1>. SUFFICES ASSUME Init PROVE IndInv
  OBVIOUS
<1>1. PhaseInv /\ QueueInv
  BY Kinds DEF Init, PhaseInv, QueueInv
<1>2. CloseInv /\ CleanUpLast
  BY DEF Init, CloseInv, NoSendOnClosed, CleanUpLast, Stages
<1>3. OnceInv /\ WalkedInv
  BY PipelineAssumption DEF Init, OnceInv, WalkedInv
<1>4. \A f \in Files : Traced(f)
  BY Kinds DEF Init, Traced, WithoutJas, Scanners
<1>. QED
  BY <1>1, <1>2, <1>3, <1>4, TypeInit DEF IndInv

LEMMA IndStep == IndInv /\ [Next]_vars => IndInv'
<1>. SUFFICES ASSUME IndInv, [Next]_vars PROVE IndInv'
  OBVIOUS
<1>1. TypeOK'
  BY TypeStep DEF IndInv
<1>2. PhaseInv' /\ QueueInv' /\ CloseInv' /\ CleanUpLast'
  BY MainInv, WalkInv, HandOverInv, TakeInv, FileInv, ScanInv, ScannerInv DEF Next, Stay
<1>3. OnceInv' /\ WalkedInv' /\ (\A f \in Files : Traced(f))'
  BY TracedStep, WalkedStep
<1>. QED
  BY <1>1, <1>2, <1>3 DEF IndInv

\* The inductive invariant of the pipeline.
THEOREM PipelineInvariance == Spec => []IndInv
BY IndInit, IndStep, PTL DEF Spec

\* No task of any stage ever finds the channel of the next stage closed.
THEOREM ChannelsSafe == Spec => []NoSendOnClosed
<1>1. IndInv => NoSendOnClosed
  BY DEF IndInv, CloseInv
<1>. QED
  BY <1>1, PipelineInvariance, PTL

\* The BOM generator is cleaned up, and the results are read, after the last
\* task of the last stage.
THEOREM CleanUpComesLast == Spec => []CleanUpLast
<1>1. IndInv => CleanUpLast
  BY DEF IndInv
<1>. QED
  BY <1>1, PipelineInvariance, PTL

\* A run that ends well took every matched file through every stage.
THEOREM NoFileLost == Spec => []SuccessIsComplete
<1>1. IndInv => SuccessIsComplete
  <2>. SUFFICES ASSUME IndInv, main = "success", NEW f \in Files
                PROVE  /\ graph[f] \in {"empty", "components"}
                       /\ st[<<"sca", f>>] = "done"
                       /\ plan.sca /\ graph[f] = "components" => <<"sca", f>> \in recorded
                       /\ WithoutJas(f) \/ \A s \in plan.scanners : <<s, f>> \in recorded
    BY DEF SuccessIsComplete
  <2>1. closed["jas"] /\ errs = {}
    BY DEF IndInv, WalkedInv
  <2>2. GroupOf[f] < group
    <3>1. group > NumGroups
      BY <2>1 DEF IndInv, CloseInv, NoSendOnClosed
    <3>. QED
      BY <3>1, PipelineAssumption DEF IndInv, TypeOK
  <2>3. \A x \in Tasks : st[x] \in {"none", "done"}
    BY DEF IndInv, CleanUpLast
  <2>4. st[<<"index", f>>] = "done"
    BY <2>1, <2>2, <2>3, Kinds DEF IndInv, WalkedInv
  <2>5. Traced(f)
    BY DEF IndInv
  <2>6. st[<<"sca", f>>] = "done" /\ graph[f] \in {"empty", "components"}
    BY <2>1, <2>3, <2>4, <2>5, Kinds DEF Traced
  <2>7. plan.scanners \subseteq Scanners
    BY PlanScanners DEF IndInv
  <2>8. ASSUME ~WithoutJas(f), NEW s \in plan.scanners
        PROVE  <<s, f>> \in recorded
    <3>1. <<s, f>> \in Tasks /\ st[<<s, f>>] # "none"
      BY <2>5, <2>6, <2>7, <2>8, Kinds DEF Traced
    <3>. QED
      BY <2>3, <2>5, <2>7, <3>1 DEF Traced
  <2>. QED
    BY <2>1, <2>5, <2>6, <2>8 DEF Traced
<1>. QED
  BY <1>1, PipelineInvariance, PTL
=============================================================================
