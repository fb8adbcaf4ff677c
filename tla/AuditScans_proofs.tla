--------------------------- MODULE AuditScans_proofs ---------------------------
(***************************************************************************)
(* Proofs about AuditScans for any number of targets and threads, any      *)
(* channel capacity, any set of plans and any scan outcomes.               *)
(***************************************************************************)
EXTENDS AuditScans, FiniteSetTheorems, TLAPS

-----------------------------------------------------------------------------
\* The kinds of tasks are told apart by their first component.
LEMMA Kinds ==
  /\ \A x \in ScaTasks : x \in Tasks /\ x \in ScanTasks /\ x \notin ScannerTasks
                         /\ x # JasTask /\ x # NoTask
  /\ \A x \in ScannerTasks : x \in Tasks /\ x \in ScanTasks /\ x # JasTask
  /\ \A x \in CaTasks : x \in ScannerTasks
  /\ JasTask \in Tasks /\ JasTask \notin ScanTasks
  /\ \A x \in ScanTasks : x \in Tasks
  /\ \A x \in Tasks : x \in ScaTasks \/ x \in ScannerTasks \/ x = JasTask
  /\ PlannedSca \subseteq ScaTasks /\ PlannedScanners \subseteq ScannerTasks
  BY DEF ScaTasks, ScannerTasks, CaTasks, ScanTasks, Tasks, JasTask, NoTask,
         Scanners, PlannedSca, PlannedScanners

\* What an outcome is made of.
LEMMA OutcomeParts ==
  \A o \in Outcomes : o[1] \in {0, 1} /\ o[2] \in BOOLEAN
  BY AuditAssumption

\* What a plan says of errors, and which targets have no module.
LEMMA PlanParts ==
  \A p \in Plans : p.allowPartial \in BOOLEAN /\ p.noModule \in SUBSET Targets
  BY AuditAssumption DEF PlanType

\* The sets the wait groups count are finite, so a group with a task still to
\* be signalled is positive, and a group at zero has none.
LEMMA OutFinite ==
  ASSUME TypeOK
  PROVE  IsFiniteSet(ScaOut) /\ IsFiniteSet(ScannersOut) /\ IsFiniteSet(JasOut)
<1>1. IsFiniteSet(Targets)
  BY AuditAssumption, FS_Interval DEF Targets
<1>2. IsFiniteSet(ScaTasks)
  <2>1. IsFiniteSet({"sca"})
    BY FS_Singleton
  <2> QED
    BY <1>1, <2>1, FS_Product DEF ScaTasks
<1>3. IsFiniteSet(ScannerTasks)
  <2>1. IsFiniteSet(Scanners)
    <3> DEFINE S1 == {"ca"}
               S2 == S1 \cup {"secrets"}
               S3 == S2 \cup {"iac"}
               S4 == S3 \cup {"services"}
    <3>1. IsFiniteSet(S1)
      BY FS_Singleton
    <3>2. IsFiniteSet(S2)
      BY <3>1, FS_AddElement
    <3>3. IsFiniteSet(S3)
      BY <3>2, FS_AddElement
    <3>4. IsFiniteSet(S4)
      BY <3>3, FS_AddElement
    <3>5. IsFiniteSet(S4 \cup {"sast"})
      BY <3>4, FS_AddElement
    <3>6. Scanners = S4 \cup {"sast"}
      BY DEF Scanners
    <3> QED
      BY <3>5, <3>6
  <2> QED
    BY <1>1, <2>1, FS_Product DEF ScannerTasks
<1>4. IsFiniteSet({JasTask})
  BY FS_Singleton
<1> QED
  BY <1>2, <1>3, <1>4, FS_Subset DEF ScaOut, ScannersOut, JasOut

\* A wait group at zero has no task still to be signalled.
LEMMA WaitGroupZero ==
  ASSUME TypeOK, WaitGroupsExact
  PROVE  /\ scaWg = 0 <=> ScaOut = {}
         /\ jasWg = 0 <=> JasOut = {}
         /\ scannersWg = 0 <=> ScannersOut = {}
  BY OutFinite, FS_EmptySet DEF WaitGroupsExact

-----------------------------------------------------------------------------
\* Type correctness.  A wait group stays a natural number because it counts
\* the tasks still to be signalled, which is why typing needs WaitGroupsExact.

\* The run starts with every variable in its type.
LEMMA TypeInit == Init => TypeOK
  BY DEF Init, TypeOK, NoTask, NoCode, Phases

\* The steps of RunAudit, up to Start and after Run, keep every type.
LEMMA TypeMain ==
  ASSUME TypeOK, MainStep
  PROVE  TypeOK'
<1> USE Kinds DEF TypeOK
<1>1. CASE SkipJas
  BY <1>1 DEF SkipJas, wgs, outs
<1>2. CASE JasScannerFails
  BY <1>2, PlanParts DEF JasScannerFails, wgs, outs, Origins
<1>3. CASE AddJasTask
  BY <1>3 DEF AddJasTask, outs, Phases
<1>4. ASSUME NEW x \in ScaTasks, AddScaTask(x)
      PROVE  TypeOK'
  BY <1>4 DEF AddScaTask, outs, Phases
<1>5. CASE StartRunner
  BY <1>5 DEF StartRunner, wgs, outs
<1>6. CASE RunReturns
  BY <1>6 DEF RunReturns, wgs, outs
<1> QED
  BY <1>1, <1>2, <1>3, <1>4, <1>5, <1>6 DEF MainStep

\* The errors of onScanEnd are general errors, of a known origin.
LEMMA EndErrorType ==
  ASSUME errs \subseteq Origins \X BOOLEAN,
         NEW o \in {"cleanup", "finalize"}, EndError(o)
  PROVE  errs' \subseteq Origins \X BOOLEAN
<1>1. <<o, 0>> \in Origins
  BY DEF Origins
<1>2. <<<<o, 0>>, FALSE>> \in Origins \X BOOLEAN
  BY <1>1
<1> QED
  BY <1>2 DEF EndError

\* The steps of the goroutine that Start spawns keep every type.
LEMMA TypeCoord ==
  ASSUME TypeOK, CoordStep
  PROVE  TypeOK'
<1> USE DEF TypeOK, wgs, outs
<1>1. CASE WaitSca
  BY <1>1 DEF WaitSca
<1>2. CASE WaitJas
  BY <1>2 DEF WaitJas
<1>3. CASE WaitScanners
  BY <1>3 DEF WaitScanners
<1>4. CASE CleanTempDir
  BY <1>4, EndErrorType DEF CleanTempDir
<1>5. CASE Finalize
  BY <1>5, EndErrorType DEF Finalize
<1>6. CASE CloseQueue
  BY <1>6 DEF CloseQueue
<1> QED
  BY <1>1, <1>2, <1>3, <1>4, <1>5, <1>6 DEF CoordStep

\* The JAS set-up task, which adds tasks to the channel, keeps every type.
LEMMA TypeSetup ==
  ASSUME TypeOK, WaitGroupsExact, SetupStep
  PROVE  TypeOK'
<1> USE Kinds DEF TypeOK, wgs, outs, Phases
<1>1. CASE SetupFails
  BY <1>1 DEF SetupFails
<1>2. CASE SetupDone
  BY <1>2 DEF SetupDone
<1>3. CASE SetupReturns
  BY <1>3 DEF SetupReturns
<1>4. CASE SetupSignal
  <2>1. jasWg # 0
    BY <1>4, WaitGroupZero DEF SetupSignal, JasOut
  <2> QED
    BY <1>4, <2>1 DEF SetupSignal
<1>5. ASSUME NEW t \in Targets, AddMissingModule(t)
      PROVE  TypeOK'
  BY <1>5, PlanParts DEF AddMissingModule, MissingModule, Origins
<1>6. ASSUME NEW x \in ScannerTasks, AddScanner(x)
      PROVE  TypeOK'
  BY <1>6 DEF AddScanner
<1>7. ASSUME NEW x \in ScannerTasks, SendScanner(x)
      PROVE  TypeOK'
  BY <1>7 DEF SendScanner
<1> QED
  BY <1>1, <1>2, <1>3, <1>4, <1>5, <1>6, <1>7 DEF SetupStep

\* A task a worker takes begins in one of four phases.
LEMMA FirstPhaseType ==
  ASSUME NEW x \in Tasks
  PROVE  /\ x = JasTask => FirstPhase(x) = "setup"
         /\ x \in ScaTasks => FirstPhase(x) = "lock"
         /\ x \in CaTasks => FirstPhase(x) = "await"
         /\ x \in ScannerTasks => FirstPhase(x) \in {"await", "scan"}
         /\ FirstPhase(x) \in {"setup", "lock", "await", "scan"}
  BY Kinds DEF FirstPhase

\* Taking a task and reporting its error keep every type.
LEMMA TypeWorker ==
  ASSUME TypeOK, NEW x \in Tasks, Take(x) \/ Report(x)
  PROVE  TypeOK'
<1> USE Kinds DEF TypeOK, wgs, outs, Phases
<1>1. CASE Take(x)
  BY <1>1, FirstPhaseType DEF Take
<1>2. CASE Report(x)
  BY <1>2, PlanParts DEF Report, Origins
<1> QED
  BY <1>1, <1>2

\* The steps of an SCA task, under ResultsMu, keep every type.
LEMMA TypeSca ==
  ASSUME TypeOK, WaitGroupsExact, NEW x \in ScaTasks, ScaStep(x)
  PROVE  TypeOK'
<1> USE Kinds DEF TypeOK, wgs, outs, Phases
<1>1. CASE ScaLock(x)
  BY <1>1 DEF ScaLock
<1>2. CASE ScaScan(x)
  BY <1>2, OutcomeParts DEF ScaScan, Record
<1>3. CASE ScaSignal(x)
  <2>1. scaWg # 0
    BY <1>3, WaitGroupZero DEF ScaSignal, ScaOut
  <2> QED
    BY <1>3, <2>1 DEF ScaSignal
<1> QED
  BY <1>1, <1>2, <1>3 DEF ScaStep

\* The steps of a scanner task keep every type.
LEMMA TypeScanner ==
  ASSUME TypeOK, WaitGroupsExact, NEW x \in ScannerTasks, ScannerStep(x)
  PROVE  TypeOK'
<1> USE Kinds DEF TypeOK, wgs, outs, Phases
<1>1. CASE AwaitSca(x)
  BY <1>1 DEF AwaitSca
<1>2. CASE ScannerEnds(x)
  BY <1>2 DEF ScannerEnds
<1>3. CASE ScannerRecords(x)
  BY <1>3, OutcomeParts DEF ScannerRecords, Record
<1>4. CASE ScannerSignal(x)
  <2>1. scannersWg # 0
    BY <1>4, WaitGroupZero DEF ScannerSignal, ScannersOut
  <2> QED
    BY <1>4, <2>1 DEF ScannerSignal
<1> QED
  BY <1>1, <1>2, <1>3, <1>4 DEF ScannerStep

\* Every step of the scan phase keeps every type.
LEMMA TypeStep ==
  ASSUME TypeOK, WaitGroupsExact, [Next]_vars
  PROVE  TypeOK'
<1>1. CASE UNCHANGED vars
  BY <1>1 DEF vars, TypeOK
<1> QED
  BY <1>1, TypeMain, TypeCoord, TypeSetup, TypeWorker, TypeSca, TypeScanner
     DEF Next, Stay

-----------------------------------------------------------------------------
\* What a step does to the channel and to the phases of the tasks: nothing,
\* send a task, receive the oldest one, or move one task on its own.

Sends(x) ==
  /\ st[x] \in {"none", "adding"}
  /\ st[x] = "none" => main \in {"addJas", "addSca"} /\ x \notin ScannerTasks
  /\ st[x] = "adding" => x \in ScannerTasks
  /\ queue' = Append(queue, x)
  /\ st' = [st EXCEPT ![x] = "queued"]

Receives(x) ==
  /\ queue # <<>> /\ x = Head(queue)
  /\ queue' = Tail(queue)
  /\ st' = [st EXCEPT ![x] = FirstPhase(x)]

Moves(x, p) ==
  /\ st[x] # "queued" /\ p \notin {"none", "queued"}
  /\ queue' = queue
  /\ st' = [st EXCEPT ![x] = p]

\* What a step does to the channel and the phases: it sends one task, a
\* worker takes the oldest, or one task moves on outside the channel.
LEMMA Effects ==
  ASSUME TypeOK, PhaseInv, StartInv, [Next]_vars
  PROVE  \/ queue' = queue /\ st' = st
         \/ \E x \in Tasks : Sends(x)
         \/ \E x \in Tasks : Receives(x)
         \/ \E x \in Tasks, p \in Phases : Moves(x, p)
<1> USE Kinds
<1>1. CASE MainStep
  <2>1. ASSUME NEW x \in ScaTasks, AddScaTask(x)
        PROVE  Sends(x)
    BY <2>1 DEF AddScaTask, Sends
  <2>2. ASSUME AddJasTask
        PROVE  Sends(JasTask)
    BY <2>2 DEF AddJasTask, Sends, StartInv
  <2> QED
    BY <1>1, <2>1, <2>2
       DEF MainStep, SkipJas, JasScannerFails, StartRunner, RunReturns
<1>2. CASE CoordStep
  BY <1>2 DEF CoordStep, WaitSca, WaitJas, WaitScanners, CleanTempDir, Finalize, CloseQueue
<1>3. CASE SetupStep
  <2>1. CASE SetupFails
    BY <2>1 DEF SetupFails, Moves, Phases
  <2>2. CASE SetupDone
    BY <2>2 DEF SetupDone, Moves, Phases
  <2>3. CASE SetupReturns
    BY <2>3 DEF SetupReturns, Moves, Phases
  <2>4. CASE SetupSignal
    BY <2>4 DEF SetupSignal, Moves, Phases
  <2>5. ASSUME NEW x \in ScannerTasks, AddScanner(x)
        PROVE  Moves(x, "adding") /\ "adding" \in Phases
    BY <2>5 DEF AddScanner, Moves, Phases
  <2>6. ASSUME NEW x \in ScannerTasks, SendScanner(x)
        PROVE  Sends(x)
    BY <2>6 DEF SendScanner, Sends
  <2>7. ASSUME NEW t \in Targets, AddMissingModule(t)
        PROVE  queue' = queue /\ st' = st
    BY <2>7 DEF AddMissingModule
  <2> QED
    BY <1>3, <2>1, <2>2, <2>3, <2>4, <2>5, <2>6, <2>7 DEF SetupStep
<1>4. ASSUME NEW x \in Tasks, Take(x)
      PROVE  Receives(x)
  BY <1>4 DEF Take, Receives
<1>5. ASSUME NEW x \in Tasks, Report(x)
      PROVE  Moves(x, "done") /\ "done" \in Phases
  BY <1>5 DEF Report, Moves, Phases
<1>6. ASSUME NEW x \in ScaTasks, ScaStep(x)
      PROVE  \E p \in Phases : Moves(x, p)
  BY <1>6 DEF ScaStep, ScaLock, ScaScan, ScaSignal, Record, Moves, Phases
<1>7. ASSUME NEW x \in ScannerTasks, ScannerStep(x)
      PROVE  \E p \in Phases : Moves(x, p)
  BY <1>7 DEF ScannerStep, AwaitSca, ScannerEnds, ScannerRecords, ScannerSignal,
              Record, Moves, Phases
<1>8. CASE UNCHANGED vars
  BY <1>8 DEF vars
<1> QED
  BY <1>1, <1>2, <1>3, <1>4, <1>5, <1>6, <1>7, <1>8 DEF Next, Stay

-----------------------------------------------------------------------------
\* The channel.

\* Sending a task that is not in the channel keeps QueueInv.
LEMMA QueueSend ==
  ASSUME TypeOK, QueueInv, NEW x \in Tasks, Sends(x)
  PROVE  QueueInv'
<1>1. /\ Len(queue') = Len(queue) + 1
      /\ \A i \in 1 .. Len(queue) : queue'[i] = queue[i]
      /\ queue'[Len(queue) + 1] = x
      /\ Len(queue) \in Nat
  BY DEF Sends, TypeOK
<1>2. /\ st'[x] = "queued" /\ st[x] # "queued"
      /\ \A y \in Tasks : y # x => st'[y] = st[y]
  BY DEF Sends, TypeOK
<1>3. \A i \in 1 .. Len(queue) : queue[i] \in Tasks /\ queue[i] # x
  BY <1>2 DEF QueueInv, TypeOK
<1>4. \A i \in 1 .. Len(queue') : i = Len(queue) + 1 \/ i \in 1 .. Len(queue)
  BY <1>1
<1>5. \A i \in 1 .. Len(queue') : st'[queue'[i]] = "queued"
  BY <1>1, <1>2, <1>3, <1>4 DEF QueueInv
<1>6. \A i, j \in 1 .. Len(queue') : queue'[i] = queue'[j] => i = j
  BY <1>1, <1>3, <1>4 DEF QueueInv
<1>7. \A y \in Tasks : st'[y] = "queued" => \E i \in 1 .. Len(queue') : queue'[i] = y
  <2>1. ASSUME NEW y \in Tasks, st'[y] = "queued", y # x
        PROVE  \E i \in 1 .. Len(queue') : queue'[i] = y
    <3>1. PICK i \in 1 .. Len(queue) : queue[i] = y
      BY <2>1, <1>2 DEF QueueInv
    <3> QED
      BY <3>1, <1>1
  <2>2. Len(queue) + 1 \in 1 .. Len(queue')
    BY <1>1
  <2> QED
    BY <2>1, <2>2, <1>1
<1> QED
  BY <1>5, <1>6, <1>7 DEF QueueInv

\* Taking the oldest task of the channel keeps QueueInv.
LEMMA QueueReceive ==
  ASSUME TypeOK, QueueInv, NEW x \in Tasks, Receives(x)
  PROVE  QueueInv'
<1>1. /\ Len(queue) \in Nat /\ Len(queue) > 0
      /\ Len(queue') = Len(queue) - 1
      /\ \A i \in 1 .. Len(queue') : queue'[i] = queue[i + 1]
      /\ queue[1] = x
  BY DEF Receives, TypeOK
<1>2. /\ st'[x] # "queued"
      /\ \A y \in Tasks : y # x => st'[y] = st[y]
  BY FirstPhaseType DEF Receives, TypeOK
<1>3. \A i \in 1 .. Len(queue) : queue[i] \in Tasks /\ (queue[i] = x => i = 1)
  BY <1>1 DEF QueueInv, TypeOK
<1>4. \A i \in 1 .. Len(queue') : i + 1 \in 1 .. Len(queue) /\ i + 1 # 1
  BY <1>1
<1>5. \A i \in 1 .. Len(queue') : st'[queue'[i]] = "queued"
  BY <1>1, <1>2, <1>3, <1>4 DEF QueueInv
<1>6. \A i, j \in 1 .. Len(queue') : queue'[i] = queue'[j] => i = j
  BY <1>1, <1>4 DEF QueueInv
<1>7. ASSUME NEW y \in Tasks, st'[y] = "queued"
      PROVE  \E i \in 1 .. Len(queue') : queue'[i] = y
  <2>1. PICK i \in 1 .. Len(queue) : queue[i] = y
    BY <1>2, <1>7 DEF QueueInv
  <2>2. i # 1
    BY <2>1, <1>1, <1>2, <1>7
  <2>3. i - 1 \in 1 .. Len(queue') /\ (i - 1) + 1 = i
    BY <2>2, <1>1
  <2> QED
    BY <2>1, <2>3, <1>1
<1> QED
  BY <1>5, <1>6, <1>7 DEF QueueInv

\* The channel holds the queued tasks, each once, after every step.
LEMMA QueueStep ==
  ASSUME TypeOK, PhaseInv, StartInv, QueueInv, [Next]_vars
  PROVE  QueueInv'
<1>1. ASSUME NEW x \in Tasks, NEW p \in Phases, Moves(x, p)
      PROVE  QueueInv'
  BY <1>1 DEF Moves, QueueInv, TypeOK
<1>2. CASE queue' = queue /\ st' = st
  BY <1>2 DEF QueueInv
<1> QED
  BY <1>1, <1>2, Effects, QueueSend, QueueReceive

\* The task a worker receives was queued.
LEMMA HeadQueued ==
  ASSUME TypeOK, QueueInv, queue # <<>>
  PROVE  st[Head(queue)] = "queued"
<1>1. 1 \in 1 .. Len(queue) /\ Head(queue) = queue[1]
  BY DEF TypeOK
<1> QED
  BY <1>1 DEF QueueInv

\* SCA tasks are all sent before the runner starts, scanner tasks afterwards.
LEMMA OrderStep ==
  ASSUME TypeOK, PhaseInv, StartInv, SetupInv, QueueInv, OrderInv, [Next]_vars
  PROVE  OrderInv'
<1>1. ASSUME NEW x \in Tasks, Sends(x)
      PROVE  OrderInv'
  <2>1. /\ Len(queue') = Len(queue) + 1
        /\ \A i \in 1 .. Len(queue) : queue'[i] = queue[i]
        /\ queue'[Len(queue) + 1] = x
        /\ Len(queue) \in Nat
    BY <1>1 DEF Sends, TypeOK
  <2>2. \A i \in 1 .. Len(queue') : i = Len(queue) + 1 \/ i \in 1 .. Len(queue)
    BY <2>1
  <2>3. \A i \in 1 .. Len(queue) : x \in ScaTasks => queue[i] \notin ScannerTasks
    <3>1. CASE st[x] = "none"
      <4>1. \A y \in ScannerTasks : st[y] = "none"
        BY <3>1, <1>1, Kinds DEF Sends, StartInv, SetupInv
      <4> QED
        BY <4>1 DEF QueueInv
    <3>2. CASE st[x] # "none"
      BY <3>2, <1>1, Kinds DEF Sends
    <3> QED
      BY <3>1, <3>2
  <2> QED
    BY <2>1, <2>2, <2>3 DEF OrderInv
<1>2. ASSUME NEW x \in Tasks, Receives(x)
      PROVE  OrderInv'
  <2>1. /\ Len(queue) \in Nat /\ Len(queue) > 0
        /\ Len(queue') = Len(queue) - 1
        /\ \A i \in 1 .. Len(queue') : queue'[i] = queue[i + 1]
    BY <1>2 DEF Receives, TypeOK
  <2>2. \A i \in 1 .. Len(queue') : i + 1 \in 1 .. Len(queue)
    BY <2>1
  <2> QED
    BY <2>1, <2>2 DEF OrderInv
<1>3. CASE queue' = queue
  BY <1>3 DEF OrderInv
<1> QED
  BY <1>1, <1>2, <1>3, Effects DEF Moves

-----------------------------------------------------------------------------
\* The phases.

\* Every task stays within the phases of its own kind.
LEMMA PhaseStep ==
  ASSUME TypeOK, PhaseInv, [Next]_vars
  PROVE  PhaseInv'
<1> USE Kinds DEF PhaseInv, TypeOK
<1>1. CASE MainStep
  BY <1>1 DEF MainStep, SkipJas, JasScannerFails, AddJasTask, AddScaTask,
              StartRunner, RunReturns
<1>2. CASE CoordStep
  BY <1>2 DEF CoordStep, WaitSca, WaitJas, WaitScanners, CleanTempDir, Finalize, CloseQueue
<1>3. CASE SetupStep
  BY <1>3 DEF SetupStep, SetupFails, SetupDone, SetupReturns, SetupSignal,
              AddMissingModule, AddScanner, SendScanner
<1>4. ASSUME NEW x \in Tasks, Take(x)
      PROVE  PhaseInv'
  BY <1>4, FirstPhaseType DEF Take
<1>5. ASSUME NEW x \in Tasks, Report(x)
      PROVE  PhaseInv'
  BY <1>5 DEF Report
<1>6. ASSUME NEW x \in ScaTasks, ScaStep(x)
      PROVE  PhaseInv'
  BY <1>6 DEF ScaStep, ScaLock, ScaScan, ScaSignal, Record
<1>7. ASSUME NEW x \in ScannerTasks, ScannerStep(x)
      PROVE  PhaseInv'
  BY <1>7 DEF ScannerStep, AwaitSca, ScannerEnds, ScannerRecords, ScannerSignal, Record
<1>8. CASE UNCHANGED vars
  BY <1>8 DEF vars
<1> QED
  BY <1>1, <1>2, <1>3, <1>4, <1>5, <1>6, <1>7, <1>8 DEF Next, Stay

-----------------------------------------------------------------------------
\* The wait groups.

\* How the three counted sets change when one task changes its phase.
LEMMA CountMove ==
  ASSUME TypeOK, NEW x \in Tasks, NEW p \in Phases, st' = [st EXCEPT ![x] = p]
  PROVE  /\ Cardinality(ScaOut') =
              Cardinality(ScaOut \ {x})
              + IF x \in ScaTasks /\ p \in {"queued", "lock", "scan", "signal"}
                THEN 1 ELSE 0
         /\ Cardinality(JasOut') =
              Cardinality(JasOut \ {x})
              + IF x = JasTask /\ p \in {"queued", "setup", "loop", "signal"}
                THEN 1 ELSE 0
         /\ Cardinality(ScannersOut') =
              Cardinality(ScannersOut \ {x})
              + IF /\ x \in ScannerTasks
                   /\ p \in {"adding", "queued", "await", "scan", "record", "signal"}
                THEN 1 ELSE 0
<1>1. st'[x] = p /\ \A y \in Tasks : y # x => st'[y] = st[y]
  BY DEF TypeOK
<1>2. ScaOut' = IF x \in ScaTasks /\ p \in {"queued", "lock", "scan", "signal"}
                THEN (ScaOut \ {x}) \cup {x} ELSE ScaOut \ {x}
  BY <1>1, Kinds DEF ScaOut
<1>3. JasOut' = IF x = JasTask /\ p \in {"queued", "setup", "loop", "signal"}
                THEN (JasOut \ {x}) \cup {x} ELSE JasOut \ {x}
  BY <1>1, Kinds DEF JasOut
<1>4. ScannersOut' =
        IF /\ x \in ScannerTasks
           /\ p \in {"adding", "queued", "await", "scan", "record", "signal"}
        THEN (ScannersOut \ {x}) \cup {x} ELSE ScannersOut \ {x}
  BY <1>1, Kinds DEF ScannersOut
<1>5. /\ IsFiniteSet(ScaOut \ {x}) /\ x \notin ScaOut \ {x}
      /\ IsFiniteSet(JasOut \ {x}) /\ x \notin JasOut \ {x}
      /\ IsFiniteSet(ScannersOut \ {x}) /\ x \notin ScannersOut \ {x}
  BY OutFinite, FS_RemoveElement
<1>6. /\ Cardinality((ScaOut \ {x}) \cup {x}) = Cardinality(ScaOut \ {x}) + 1
      /\ Cardinality((JasOut \ {x}) \cup {x}) = Cardinality(JasOut \ {x}) + 1
      /\ Cardinality((ScannersOut \ {x}) \cup {x}) = Cardinality(ScannersOut \ {x}) + 1
  BY <1>5, FS_AddElement
<1>7. /\ Cardinality(ScaOut \ {x}) \in Nat
      /\ Cardinality(JasOut \ {x}) \in Nat
      /\ Cardinality(ScannersOut \ {x}) \in Nat
  BY <1>5, FS_CardinalityType
<1> QED
  BY <1>2, <1>3, <1>4, <1>6, <1>7

\* A task that signals leaves its counted set one smaller, as Done does.
LEMMA CountRemove ==
  ASSUME TypeOK, WaitGroupsExact, NEW x \in Tasks
  PROVE  /\ Cardinality(ScaOut \ {x}) = IF x \in ScaOut THEN scaWg - 1 ELSE scaWg
         /\ Cardinality(JasOut \ {x}) = IF x \in JasOut THEN jasWg - 1 ELSE jasWg
         /\ Cardinality(ScannersOut \ {x}) =
              IF x \in ScannersOut THEN scannersWg - 1 ELSE scannersWg
  BY OutFinite, FS_RemoveElement DEF WaitGroupsExact

\* Every task is counted from the moment it is added until it signals.
LEMMA WaitGroupStep ==
  ASSUME TypeOK, PhaseInv, StartInv, QueueInv, WaitGroupsExact, [Next]_vars
  PROVE  WaitGroupsExact'
<1> DEFINE CountOf(x, p) ==
      /\ st' = [st EXCEPT ![x] = p]
      /\ scaWg' = (IF x \in ScaOut THEN scaWg - 1 ELSE scaWg)
                  + (IF x \in ScaTasks /\ p \in {"queued", "lock", "scan", "signal"}
                     THEN 1 ELSE 0)
      /\ jasWg' = (IF x \in JasOut THEN jasWg - 1 ELSE jasWg)
                  + (IF x = JasTask /\ p \in {"queued", "setup", "loop", "signal"}
                     THEN 1 ELSE 0)
      /\ scannersWg' = (IF x \in ScannersOut THEN scannersWg - 1 ELSE scannersWg)
                  + (IF /\ x \in ScannerTasks
                        /\ p \in {"adding", "queued", "await", "scan", "record", "signal"}
                     THEN 1 ELSE 0)
<1>1. ASSUME NEW x \in Tasks, NEW p \in Phases, CountOf(x, p)
      PROVE  WaitGroupsExact'
  BY <1>1, CountMove, CountRemove DEF WaitGroupsExact
<1>2. ASSUME st' = st, UNCHANGED wgs
      PROVE  WaitGroupsExact'
  BY <1>2 DEF WaitGroupsExact, ScaOut, JasOut, ScannersOut, wgs
<1> USE Kinds DEF TypeOK, wgs, Phases, ScaOut, JasOut, ScannersOut
<1>3. ASSUME MainStep
      PROVE  WaitGroupsExact'
  <2>1. ASSUME NEW x \in ScaTasks, AddScaTask(x)
        PROVE  CountOf(x, "queued")
    BY <2>1 DEF AddScaTask
  <2>2. ASSUME AddJasTask
        PROVE  CountOf(JasTask, "queued")
    BY <2>2 DEF AddJasTask, StartInv
  <2>3. CASE SkipJas \/ JasScannerFails \/ StartRunner \/ RunReturns
    BY <2>3, <1>2 DEF SkipJas, JasScannerFails, StartRunner, RunReturns
  <2> QED
    BY <1>1, <1>3, <2>1, <2>2, <2>3 DEF MainStep
<1>4. ASSUME CoordStep
      PROVE  WaitGroupsExact'
  BY <1>4, <1>2 DEF CoordStep, WaitSca, WaitJas, WaitScanners, CleanTempDir,
                    Finalize, CloseQueue
<1>5. ASSUME SetupStep
      PROVE  WaitGroupsExact'
  <2>1. ASSUME SetupFails \/ SetupReturns
        PROVE  CountOf(JasTask, "signal")
    BY <2>1 DEF SetupFails, SetupReturns
  <2>2. ASSUME SetupDone
        PROVE  CountOf(JasTask, "loop")
    BY <2>2 DEF SetupDone
  <2>3. ASSUME SetupSignal
        PROVE  CountOf(JasTask, "report")
    BY <2>3 DEF SetupSignal
  <2>4. ASSUME NEW x \in ScannerTasks, AddScanner(x)
        PROVE  CountOf(x, "adding")
    BY <2>4 DEF AddScanner
  <2>5. ASSUME NEW x \in ScannerTasks, SendScanner(x)
        PROVE  CountOf(x, "queued")
    BY <2>5 DEF SendScanner
  <2>6. ASSUME NEW t \in Targets, AddMissingModule(t)
        PROVE  WaitGroupsExact'
    BY <2>6, <1>2 DEF AddMissingModule
  <2> QED
    BY <1>1, <1>5, <2>1, <2>2, <2>3, <2>4, <2>5, <2>6 DEF SetupStep
<1>6. ASSUME NEW x \in Tasks, Take(x)
      PROVE  CountOf(x, FirstPhase(x)) /\ FirstPhase(x) \in Phases
  <2>1. st[x] = "queued"
    BY <1>6, HeadQueued DEF Take
  <2> QED
    BY <1>6, <2>1, FirstPhaseType DEF Take
<1>7. ASSUME NEW x \in Tasks, Report(x)
      PROVE  CountOf(x, "done") /\ "done" \in Phases
  BY <1>7 DEF Report
<1>8. ASSUME NEW x \in ScaTasks, ScaStep(x)
      PROVE  \E p \in Phases : CountOf(x, p)
  <2>1. ASSUME ScaLock(x)
        PROVE  CountOf(x, "scan")
    BY <2>1 DEF ScaLock
  <2>2. ASSUME ScaScan(x)
        PROVE  CountOf(x, "signal")
    BY <2>2 DEF ScaScan, Record
  <2>3. ASSUME ScaSignal(x)
        PROVE  CountOf(x, "report")
    BY <2>3 DEF ScaSignal
  <2> QED
    BY <1>8, <2>1, <2>2, <2>3 DEF ScaStep
<1>9. ASSUME NEW x \in ScannerTasks, ScannerStep(x)
      PROVE  \E p \in Phases : CountOf(x, p)
  <2>1. ASSUME AwaitSca(x)
        PROVE  CountOf(x, "scan")
    BY <2>1 DEF AwaitSca
  <2>2. ASSUME ScannerEnds(x)
        PROVE  CountOf(x, "record")
    BY <2>2 DEF ScannerEnds
  <2>3. ASSUME ScannerRecords(x)
        PROVE  CountOf(x, "signal")
    BY <2>3 DEF ScannerRecords, Record
  <2>4. ASSUME ScannerSignal(x)
        PROVE  CountOf(x, "report")
    BY <2>4 DEF ScannerSignal
  <2> QED
    BY <1>9, <2>1, <2>2, <2>3, <2>4 DEF ScannerStep
<1>10. CASE UNCHANGED vars
  BY <1>10, <1>2 DEF vars
<1> HIDE DEF CountOf, TypeOK, wgs, Phases, ScaOut, JasOut, ScannersOut
<1> QED
  BY <1>1, <1>3, <1>4, <1>5, <1>6, <1>7, <1>8, <1>9, <1>10 DEF Next, Stay

-----------------------------------------------------------------------------
\* The main goroutine, the set-up task and the coordinator.

\* Every planned SCA task is added before the runner starts.
LEMMA StartStep ==
  ASSUME TypeOK, PhaseInv, SetupInv, QueueInv, StartInv, [Next]_vars
  PROVE  StartInv'
<1> USE Kinds DEF StartInv, SetupInv, PhaseInv, TypeOK, PlannedSca, ScaPlanned, Requested
<1>1. CASE MainStep
  BY <1>1 DEF MainStep, SkipJas, JasScannerFails, AddJasTask, AddScaTask,
              StartRunner, RunReturns
<1>2. CASE CoordStep
  BY <1>2 DEF CoordStep, WaitSca, WaitJas, WaitScanners, CleanTempDir, Finalize, CloseQueue
<1>3. CASE SetupStep
  BY <1>3 DEF SetupStep, SetupFails, SetupDone, SetupReturns, SetupSignal,
              AddMissingModule, AddScanner, SendScanner
<1>4. ASSUME NEW x \in Tasks, Take(x)
      PROVE  StartInv'
  BY <1>4, HeadQueued, FirstPhaseType DEF Take
<1>5. ASSUME NEW x \in Tasks, Report(x)
      PROVE  StartInv'
  BY <1>5 DEF Report
<1>6. ASSUME NEW x \in ScaTasks, ScaStep(x)
      PROVE  StartInv'
  BY <1>6 DEF ScaStep, ScaLock, ScaScan, ScaSignal, Record
<1>7. ASSUME NEW x \in ScannerTasks, ScannerStep(x)
      PROVE  StartInv'
  BY <1>7 DEF ScannerStep, AwaitSca, ScannerEnds, ScannerRecords, ScannerSignal, Record
<1>8. CASE UNCHANGED vars
  BY <1>8 DEF vars
<1> QED
  BY <1>1, <1>2, <1>3, <1>4, <1>5, <1>6, <1>7, <1>8 DEF Next, Stay

\* Scanner tasks come from the loop of the set-up task only.
LEMMA SetupInvStep ==
  ASSUME TypeOK, PhaseInv, StartInv, QueueInv, SetupInv, [Next]_vars
  PROVE  SetupInv'
<1> USE Kinds DEF SetupInv, StartInv, PhaseInv, TypeOK
<1>1. CASE MainStep
  BY <1>1 DEF MainStep, SkipJas, JasScannerFails, AddJasTask, AddScaTask,
              StartRunner, RunReturns
<1>2. CASE CoordStep
  BY <1>2 DEF CoordStep, WaitSca, WaitJas, WaitScanners, CleanTempDir, Finalize, CloseQueue
<1>3. CASE SetupStep
  BY <1>3 DEF SetupStep, SetupFails, SetupDone, SetupReturns, SetupSignal,
              AddMissingModule, AddScanner, SendScanner
<1>4. ASSUME NEW x \in Tasks, Take(x)
      PROVE  SetupInv'
  BY <1>4, HeadQueued, FirstPhaseType DEF Take
<1>5. ASSUME NEW x \in Tasks, Report(x)
      PROVE  SetupInv'
  BY <1>5 DEF Report
<1>6. ASSUME NEW x \in ScaTasks, ScaStep(x)
      PROVE  SetupInv'
  BY <1>6 DEF ScaStep, ScaLock, ScaScan, ScaSignal, Record
<1>7. ASSUME NEW x \in ScannerTasks, ScannerStep(x)
      PROVE  SetupInv'
  BY <1>7 DEF ScannerStep, AwaitSca, ScannerEnds, ScannerRecords, ScannerSignal, Record
<1>8. CASE UNCHANGED vars
  BY <1>8 DEF vars
<1> QED
  BY <1>1, <1>2, <1>3, <1>4, <1>5, <1>6, <1>7, <1>8 DEF Next, Stay

\* A scan that returned has a status code, a reported failure has its error.
LEMMA OutcomeStep ==
  ASSUME TypeOK, PhaseInv, QueueInv, StartInv, OutcomeInv, [Next]_vars
  PROVE  OutcomeInv'
<1> USE Kinds DEF OutcomeInv, StartInv, PhaseInv, TypeOK, NoCode, wgs, outs, EndError
<1>1. CASE MainStep
  BY <1>1 DEF MainStep, SkipJas, JasScannerFails, AddJasTask, AddScaTask,
              StartRunner, RunReturns
<1>2. CASE CoordStep
  BY <1>2 DEF CoordStep, WaitSca, WaitJas, WaitScanners, CleanTempDir, Finalize, CloseQueue
<1>3. CASE SetupStep
  BY <1>3 DEF SetupStep, SetupFails, SetupDone, SetupReturns, SetupSignal,
              AddMissingModule, AddScanner, SendScanner
<1>4. ASSUME NEW x \in Tasks, Take(x)
      PROVE  OutcomeInv'
  BY <1>4, HeadQueued, FirstPhaseType DEF Take
<1>5. ASSUME NEW x \in Tasks, Report(x)
      PROVE  OutcomeInv'
  BY <1>5 DEF Report
<1>6. ASSUME NEW x \in ScaTasks, ScaStep(x)
      PROVE  OutcomeInv'
  BY <1>6, OutcomeParts DEF ScaStep, ScaLock, ScaScan, ScaSignal, Record
<1>7. ASSUME NEW x \in ScannerTasks, ScannerStep(x)
      PROVE  OutcomeInv'
  BY <1>7, OutcomeParts DEF ScannerStep, AwaitSca, ScannerEnds, ScannerRecords, ScannerSignal, Record
<1>8. CASE UNCHANGED vars
  BY <1>8 DEF vars
<1> QED
  BY <1>1, <1>2, <1>3, <1>4, <1>5, <1>6, <1>7, <1>8 DEF Next, Stay

\* A wait group that reached zero stays there.
LEMMA CoordInvStep ==
  ASSUME TypeOK, PhaseInv, StartInv, SetupInv, WaitGroupsExact, CoordInv, [Next]_vars
  PROVE  CoordInv'
<1> USE Kinds DEF CoordInv, StartInv, SetupInv, PhaseInv, TypeOK, wgs, outs, ScaOut, JasOut, ScannersOut
<1>1. CASE MainStep
  BY <1>1 DEF MainStep, SkipJas, JasScannerFails, AddJasTask, AddScaTask,
              StartRunner, RunReturns
<1>2. CASE CoordStep
  BY <1>2, WaitGroupZero DEF CoordStep, WaitSca, WaitJas, WaitScanners, CleanTempDir, Finalize, CloseQueue
<1>3. CASE SetupStep
  BY <1>3, WaitGroupZero DEF SetupStep, SetupFails, SetupDone, SetupReturns, SetupSignal,
              AddMissingModule, AddScanner, SendScanner
<1>4. ASSUME NEW x \in Tasks, Take(x)
      PROVE  CoordInv'
  BY <1>4, FirstPhaseType DEF Take
<1>5. ASSUME NEW x \in Tasks, Report(x)
      PROVE  CoordInv'
  BY <1>5 DEF Report
<1>6. ASSUME NEW x \in ScaTasks, ScaStep(x)
      PROVE  CoordInv'
  BY <1>6, WaitGroupZero DEF ScaStep, ScaLock, ScaScan, ScaSignal, Record
<1>7. ASSUME NEW x \in ScannerTasks, ScannerStep(x)
      PROVE  CoordInv'
  BY <1>7, WaitGroupZero DEF ScannerStep, AwaitSca, ScannerEnds, ScannerRecords, ScannerSignal, Record
<1>8. CASE UNCHANGED vars
  BY <1>8 DEF vars
<1> QED
  BY <1>1, <1>2, <1>3, <1>4, <1>5, <1>6, <1>7, <1>8 DEF Next, Stay

\* When Run returns every task is done or was never added.
LEMMA RunEnds ==
  ASSUME TypeOK, PhaseInv, SetupInv, QueueInv, RunReturns
  PROVE  \A x \in Tasks : st[x] \in {"none", "done"}
<1> TAKE x \in Tasks
<1>1. st[x] \in Phases /\ st[x] \notin Busy /\ st[JasTask] \notin Busy
  BY Kinds DEF RunReturns, Running, TypeOK
<1>2. st[x] # "queued"
  BY DEF RunReturns, QueueInv
<1>3. st[x] # "adding"
  BY <1>1, Kinds DEF PhaseInv, SetupInv, Busy
<1> QED
  BY <1>1, <1>2, <1>3 DEF Phases, Busy

\* Run returns only when nothing is left to do.
LEMMA RestStep ==
  ASSUME TypeOK, PhaseInv, StartInv, SetupInv, QueueInv, RestInv, [Next]_vars
  PROVE  RestInv'
<1> USE Kinds DEF RestInv, Returned, StartInv, SetupInv, PhaseInv, TypeOK, Running, Busy
<1>1. CASE MainStep
  <2>1. CASE RunReturns
    BY <2>1, RunEnds DEF RunReturns
  <2>2. CASE ~RunReturns
    BY <1>1, <2>2 DEF MainStep, SkipJas, JasScannerFails, AddJasTask, AddScaTask, StartRunner
  <2> QED
    BY <2>1, <2>2
<1>2. CASE CoordStep
  BY <1>2 DEF CoordStep, WaitSca, WaitJas, WaitScanners, CleanTempDir, Finalize, CloseQueue
<1>3. CASE SetupStep
  BY <1>3 DEF SetupStep, SetupFails, SetupDone, SetupReturns, SetupSignal,
              AddMissingModule, AddScanner, SendScanner
<1>4. ASSUME NEW x \in Tasks, Take(x)
      PROVE  RestInv'
  BY <1>4, HeadQueued, FirstPhaseType DEF Take
<1>5. ASSUME NEW x \in Tasks, Report(x)
      PROVE  RestInv'
  BY <1>5 DEF Report
<1>6. ASSUME NEW x \in ScaTasks, ScaStep(x)
      PROVE  RestInv'
  BY <1>6 DEF ScaStep, ScaLock, ScaScan, ScaSignal, Record
<1>7. ASSUME NEW x \in ScannerTasks, ScannerStep(x)
      PROVE  RestInv'
  BY <1>7 DEF ScannerStep, AwaitSca, ScannerEnds, ScannerRecords, ScannerSignal, Record
<1>8. CASE UNCHANGED vars
  BY <1>8 DEF vars
<1> QED
  BY <1>1, <1>2, <1>3, <1>4, <1>5, <1>6, <1>7, <1>8 DEF Next, Stay

\* The verdict comes after the last report.
LEMMA ProcessedStep ==
  ASSUME TypeOK, PhaseInv, StartInv, SetupInv, QueueInv, OutcomeInv, RestInv, ProcessedIsComplete, [Next]_vars
  PROVE  ProcessedIsComplete'
<1> USE Kinds DEF ProcessedIsComplete, RestInv, Returned, OutcomeInv, StartInv, SetupInv, PhaseInv, TypeOK, Running, Busy, Phases, outs
<1>1. CASE MainStep
  <2>1. CASE RunReturns
    <3>1. ASSUME main' = "processed", NEW x \in failed
          PROVE  plan.allowPartial = TRUE
      <4>1. <<x, plan.allowPartial>> \in errs
        BY RunEnds, <2>1
      <4>2. \A e \in errs : e[2]
        BY <2>1, <3>1 DEF RunReturns
      <4>3. plan.allowPartial
        BY <4>1, <4>2
      <4> QED
        BY <4>3, PlanParts
    <3> QED
      BY <2>1, <3>1 DEF RunReturns
  <2>2. CASE ~RunReturns
    BY <1>1, <2>2 DEF MainStep, SkipJas, JasScannerFails, AddJasTask, AddScaTask, StartRunner
  <2> QED
    BY <2>1, <2>2
<1>2. CASE CoordStep
  BY <1>2 DEF CoordStep, WaitSca, WaitJas, WaitScanners, CleanTempDir, Finalize, CloseQueue
<1>3. CASE SetupStep
  BY <1>3 DEF SetupStep, SetupFails, SetupDone, SetupReturns, SetupSignal,
              AddMissingModule, AddScanner, SendScanner
<1>4. ASSUME NEW x \in Tasks, Take(x)
      PROVE  ProcessedIsComplete'
  BY <1>4, HeadQueued, FirstPhaseType DEF Take
<1>5. ASSUME NEW x \in Tasks, Report(x)
      PROVE  ProcessedIsComplete'
  BY <1>5 DEF Report
<1>6. ASSUME NEW x \in ScaTasks, ScaStep(x)
      PROVE  ProcessedIsComplete'
  BY <1>6, OutcomeParts DEF ScaStep, ScaLock, ScaScan, ScaSignal, Record
<1>7. ASSUME NEW x \in ScannerTasks, ScannerStep(x)
      PROVE  ProcessedIsComplete'
  BY <1>7, OutcomeParts DEF ScannerStep, AwaitSca, ScannerEnds, ScannerRecords, ScannerSignal, Record
<1>8. CASE UNCHANGED vars
  BY <1>8 DEF vars
<1> QED
  BY <1>1, <1>2, <1>3, <1>4, <1>5, <1>6, <1>7, <1>8 DEF Next, Stay

\* A contextual scan starts at a zero ScaScansWg, and codes are never unset.
LEMMA ContextualStep ==
  ASSUME TypeOK, PhaseInv, StartInv, SetupInv, QueueInv, WaitGroupsExact, OutcomeInv, ContextualAfterSca, [Next]_vars
  PROVE  ContextualAfterSca'
<1> USE Kinds DEF ContextualAfterSca, OutcomeInv, StartInv, PhaseInv, TypeOK, PlannedSca, ScaPlanned, Requested, ScaOut, NoCode, wgs, outs
<1>1. CASE MainStep
  <2>1. CASE AddJasTask \/ \E x \in ScaTasks : AddScaTask(x)
    <3>1. \A x \in CaTasks : st'[x] \in {"none", "queued"}
      BY <2>1 DEF AddJasTask, AddScaTask
    <3> QED
      BY <3>1
  <2>2. CASE SkipJas \/ JasScannerFails \/ StartRunner \/ RunReturns
    BY <2>2 DEF SkipJas, JasScannerFails, StartRunner, RunReturns
  <2> QED
    BY <1>1, <2>1, <2>2 DEF MainStep
<1>2. CASE CoordStep
  BY <1>2, WaitGroupZero DEF CoordStep, WaitSca, WaitJas, WaitScanners, CleanTempDir, Finalize, CloseQueue
<1>3. CASE SetupStep
  BY <1>3, WaitGroupZero DEF SetupStep, SetupFails, SetupDone, SetupReturns, SetupSignal,
              AddMissingModule, AddScanner, SendScanner
<1>4. ASSUME NEW x \in Tasks, Take(x)
      PROVE  ContextualAfterSca'
  BY <1>4, HeadQueued, FirstPhaseType DEF Take
<1>5. ASSUME NEW x \in Tasks, Report(x)
      PROVE  ContextualAfterSca'
  BY <1>5 DEF Report
<1>6. ASSUME NEW x \in ScaTasks, ScaStep(x)
      PROVE  ContextualAfterSca'
  BY <1>6, WaitGroupZero, OutcomeParts DEF ScaStep, ScaLock, ScaScan, ScaSignal, Record
<1>7. ASSUME NEW x \in ScannerTasks, ScannerStep(x)
      PROVE  ContextualAfterSca'
  BY <1>7, WaitGroupZero, OutcomeParts DEF ScannerStep, AwaitSca, ScannerEnds, ScannerRecords, ScannerSignal, Record
<1>8. CASE UNCHANGED vars
  BY <1>8 DEF vars
<1> QED
  BY <1>1, <1>2, <1>3, <1>4, <1>5, <1>6, <1>7, <1>8 DEF Next, Stay

\* The channel is first in, first out, so a scanner task leaves it after the SCA tasks.
LEMMA DrainStep ==
  ASSUME TypeOK, PhaseInv, StartInv, SetupInv, QueueInv, OrderInv, DrainInv, [Next]_vars
  PROVE  DrainInv'
<1> USE Kinds DEF DrainInv, StartInv, SetupInv, PhaseInv, TypeOK
<1>1. CASE MainStep
  BY <1>1 DEF MainStep, SkipJas, JasScannerFails, AddJasTask, AddScaTask,
              StartRunner, RunReturns
<1>2. CASE CoordStep
  BY <1>2 DEF CoordStep, WaitSca, WaitJas, WaitScanners, CleanTempDir, Finalize, CloseQueue
<1>3. CASE SetupStep
  BY <1>3 DEF SetupStep, SetupFails, SetupDone, SetupReturns, SetupSignal,
              AddMissingModule, AddScanner, SendScanner
<1>4. ASSUME NEW x \in Tasks, Take(x)
      PROVE  DrainInv'
  <2>1. CASE x \in ScannerTasks
    <3>1. SUFFICES ASSUME NEW y \in ScaTasks, st'[y] = "queued"
                   PROVE  FALSE
      OBVIOUS
    <3>2. st[y] = "queued" /\ y # x
      BY <1>4, <2>1, <3>1 DEF Take
    <3>3. PICK j \in 1 .. Len(queue) : queue[j] = y
      BY <3>2 DEF QueueInv
    <3>4. 1 \in 1 .. Len(queue) /\ queue[1] = x
      BY <1>4 DEF Take
    <3>5. 1 < j
      BY <3>2, <3>3, <3>4
    <3> QED
      BY <2>1, <3>3, <3>4, <3>5 DEF OrderInv
  <2>2. CASE x \notin ScannerTasks
    BY <1>4, <2>2, FirstPhaseType DEF Take
  <2> QED
    BY <2>1, <2>2
<1>5. ASSUME NEW x \in Tasks, Report(x)
      PROVE  DrainInv'
  BY <1>5 DEF Report
<1>6. ASSUME NEW x \in ScaTasks, ScaStep(x)
      PROVE  DrainInv'
  BY <1>6 DEF ScaStep, ScaLock, ScaScan, ScaSignal, Record
<1>7. ASSUME NEW x \in ScannerTasks, ScannerStep(x)
      PROVE  DrainInv'
  BY <1>7 DEF ScannerStep, AwaitSca, ScannerEnds, ScannerRecords, ScannerSignal, Record
<1>8. CASE UNCHANGED vars
  BY <1>8 DEF vars
<1> QED
  BY <1>1, <1>2, <1>3, <1>4, <1>5, <1>6, <1>7, <1>8 DEF Next, Stay

-----------------------------------------------------------------------------
\* What was planned, and what is accounted for.

\* Nothing is taken back: the plan stays, errors and failures are only added,
\* and a task that was added stays added.
LEMMA Grows ==
  ASSUME TypeOK, PhaseInv, StartInv, [Next]_vars
  PROVE  /\ plan' = plan
         /\ errs \subseteq errs'
         /\ failed \subseteq failed'
         /\ \A x \in Tasks : st[x] # "none" => st'[x] # "none"
<1>1. plan' = plan /\ errs \subseteq errs' /\ failed \subseteq failed'
  BY DEF Next, Stay, vars, wgs, outs, MainStep, SkipJas, JasScannerFails, AddJasTask,
         AddScaTask, StartRunner, RunReturns, CoordStep, WaitSca, WaitJas,
         WaitScanners, CleanTempDir, Finalize, CloseQueue, EndError, SetupStep,
         SetupFails, SetupDone, SetupReturns, SetupSignal, AddMissingModule,
         AddScanner, SendScanner, Take, Report, ScaStep, ScaLock, ScaScan,
         ScaSignal, ScannerStep, AwaitSca, ScannerEnds, ScannerRecords,
         ScannerSignal, Record
<1>2. ASSUME NEW x \in Tasks, st[x] # "none"
      PROVE  st'[x] # "none"
  <2>1. ASSUME NEW y \in Tasks, Sends(y)
        PROVE  st'[x] # "none"
    BY <1>2, <2>1 DEF Sends, TypeOK
  <2>2. ASSUME NEW y \in Tasks, Receives(y)
        PROVE  st'[x] # "none"
    BY <1>2, <2>2, FirstPhaseType DEF Receives, TypeOK
  <2>3. ASSUME NEW y \in Tasks, NEW p \in Phases, Moves(y, p)
        PROVE  st'[x] # "none"
    BY <1>2, <2>3 DEF Moves, TypeOK
  <2> QED
    BY <1>2, <2>1, <2>2, <2>3, Effects
<1> QED
  BY <1>1, <1>2

\* What the plan asks for does not change.
LEMMA PlanFixed ==
  ASSUME plan' = plan
  PROVE  PlannedSca' = PlannedSca /\ PlannedScanners' = PlannedScanners
  BY DEF PlannedSca, PlannedScanners, ScaPlanned, ScannerPlanned, Requested

\* The set-up task does not forget a target it has dealt with.
LEMMA TargetsKept ==
  ASSUME TypeOK, PhaseInv, StartInv, [Next]_vars, NEW t \in Int, TargetsDone(t)
  PROVE  TargetsDone(t)'
<1>1. /\ plan' = plan /\ errs \subseteq errs'
      /\ \A x \in ScannerTasks : st[x] # "none" => st'[x] # "none"
  BY Grows, Kinds
<1>2. \A u \in plan.noModule : MissingModule(u)' = MissingModule(u)
  BY <1>1 DEF MissingModule
<1> QED
  BY <1>1, <1>2, PlanFixed, Kinds DEF TargetsDone

\* A task is there because the plan asks for it, and a status code because its
\* scan ran; a failed set-up leaves no scanner task behind.
LEMMA PlannedStep ==
  ASSUME TypeOK, PhaseInv, StartInv, SetupInv, QueueInv, OutcomeInv, PlannedInv,
         [Next]_vars
  PROVE  PlannedInv'
<1>0. PlannedSca' = PlannedSca /\ PlannedScanners' = PlannedScanners
  BY Grows, PlanFixed
<1> USE Kinds, <1>0 DEF PlannedInv, SetupInv, StartInv, PhaseInv, TypeOK, NoCode, wgs, outs
<1>1. CASE MainStep
  BY <1>1 DEF MainStep, SkipJas, JasScannerFails, AddJasTask, AddScaTask,
              StartRunner, RunReturns
<1>2. CASE CoordStep
  BY <1>2 DEF CoordStep, WaitSca, WaitJas, WaitScanners, CleanTempDir, Finalize, CloseQueue
<1>3. CASE SetupStep
  <2>1. CASE SetupFails
    BY <2>1 DEF SetupFails
  <2>2. CASE SetupDone \/ SetupReturns \/ SetupSignal
    BY <2>2 DEF SetupDone, SetupReturns, SetupSignal
  <2>3. ASSUME NEW x \in ScannerTasks, AddScanner(x) \/ SendScanner(x)
        PROVE  PlannedInv'
    <3>1. /\ x \in PlannedScanners /\ JasTask \notin failed
          /\ failed' = failed /\ code' = code
          /\ code[x] = NoCode
      BY <2>3 DEF OutcomeInv, AddScanner, SendScanner
    <3>2. st' = [st EXCEPT ![x] = st'[x]]
      BY <2>3 DEF AddScanner, SendScanner
    <3> QED
      BY <3>1, <3>2
  <2>4. ASSUME NEW t \in Targets, AddMissingModule(t)
        PROVE  PlannedInv'
    BY <2>4 DEF AddMissingModule
  <2> QED
    BY <1>3, <2>1, <2>2, <2>3, <2>4 DEF SetupStep
<1>4. ASSUME NEW x \in Tasks, Take(x)
      PROVE  PlannedInv'
  BY <1>4, HeadQueued, FirstPhaseType DEF Take
<1>5. ASSUME NEW x \in Tasks, Report(x)
      PROVE  PlannedInv'
  BY <1>5 DEF Report
<1>6. ASSUME NEW x \in ScaTasks, ScaStep(x)
      PROVE  PlannedInv'
  BY <1>6, OutcomeParts DEF ScaStep, ScaLock, ScaScan, ScaSignal, Record
<1>7. ASSUME NEW x \in ScannerTasks, ScannerStep(x)
      PROVE  PlannedInv'
  BY <1>7, OutcomeParts DEF ScannerStep, AwaitSca, ScannerEnds, ScannerRecords, ScannerSignal, Record
<1>8. CASE UNCHANGED vars
  BY <1>8 DEF vars
<1> QED
  BY <1>1, <1>2, <1>3, <1>4, <1>5, <1>6, <1>7, <1>8 DEF Next, Stay

\* The set-up task was added if JAS has a scanner, and its function ends with an
\* error or with every target dealt with.
LEMMA JasStep ==
  ASSUME TypeOK, PhaseInv, StartInv, SetupInv, QueueInv, JasInv, [Next]_vars
  PROVE  JasInv'
<1>0. /\ plan' = plan /\ failed \subseteq failed'
      /\ TargetsDone(NumTargets + 1) => TargetsDone(NumTargets + 1)'
  BY Grows, TargetsKept, AuditAssumption
<1> USE Kinds, <1>0 DEF JasInv, StartInv, PhaseInv, TypeOK, Returned
<1>1. CASE MainStep
  <2>1. CASE AddJasTask
    BY <2>1 DEF AddJasTask
  <2>2. CASE SkipJas \/ JasScannerFails
    BY <2>2 DEF SkipJas, JasScannerFails, PlanType
  <2>3. CASE StartRunner \/ RunReturns \/ \E x \in ScaTasks : AddScaTask(x)
    BY <2>3 DEF StartRunner, RunReturns, AddScaTask
  <2> QED
    BY <1>1, <2>1, <2>2, <2>3 DEF MainStep
<1>2. CASE CoordStep
  BY <1>2 DEF CoordStep, WaitSca, WaitJas, WaitScanners, CleanTempDir, Finalize, CloseQueue
<1>3. CASE SetupStep
  <2>1. CASE SetupFails
    BY <2>1 DEF SetupFails
  <2>2. CASE SetupDone
    BY <2>2 DEF SetupDone
  <2>3. CASE SetupReturns
    BY <2>3 DEF SetupReturns
  <2>4. CASE SetupSignal
    BY <2>4 DEF SetupSignal
  <2>5. ASSUME NEW x \in ScannerTasks, AddScanner(x) \/ SendScanner(x)
        PROVE  JasInv'
    BY <2>5 DEF AddScanner, SendScanner
  <2>6. ASSUME NEW t \in Targets, AddMissingModule(t)
        PROVE  JasInv'
    BY <2>6 DEF AddMissingModule
  <2> QED
    BY <1>3, <2>1, <2>2, <2>3, <2>4, <2>5, <2>6 DEF SetupStep
<1>4. ASSUME NEW x \in Tasks, Take(x)
      PROVE  JasInv'
  BY <1>4, HeadQueued, FirstPhaseType DEF Take
<1>5. ASSUME NEW x \in Tasks, Report(x)
      PROVE  JasInv'
  BY <1>5 DEF Report
<1>6. ASSUME NEW x \in ScaTasks, ScaStep(x)
      PROVE  JasInv'
  BY <1>6 DEF ScaStep, ScaLock, ScaScan, ScaSignal, Record
<1>7. ASSUME NEW x \in ScannerTasks, ScannerStep(x)
      PROVE  JasInv'
  BY <1>7 DEF ScannerStep, AwaitSca, ScannerEnds, ScannerRecords, ScannerSignal, Record
<1>8. CASE UNCHANGED vars
  BY <1>8 DEF vars
<1> QED
  BY <1>1, <1>2, <1>3, <1>4, <1>5, <1>6, <1>7, <1>8 DEF Next, Stay

-----------------------------------------------------------------------------
\* The inductive invariant.

\* The inductive invariant holds before the main goroutine does anything.
LEMMA IndInit == Init => IndInv
<1> SUFFICES ASSUME Init
             PROVE  IndInv
  OBVIOUS
<1>1. TypeOK
  BY TypeInit
<1>2. WaitGroupsExact
  <2>1. ScaOut = {} /\ JasOut = {} /\ ScannersOut = {}
    BY Kinds DEF Init, ScaOut, JasOut, ScannersOut
  <2> QED
    BY <2>1, FS_EmptySet DEF Init, WaitGroupsExact
<1>3. QueueInv /\ OrderInv
  BY DEF Init, QueueInv, OrderInv
<1>4. PhaseInv /\ StartInv /\ SetupInv /\ DrainInv
  BY Kinds DEF Init, PhaseInv, StartInv, SetupInv, DrainInv
<1>5. CoordInv /\ RestInv
  BY DEF Init, CoordInv, RestInv, Returned
<1>6. OutcomeInv /\ ContextualAfterSca /\ ProcessedIsComplete
  BY Kinds DEF Init, OutcomeInv, ContextualAfterSca, ProcessedIsComplete
<1>7. PlannedInv /\ JasInv
  BY Kinds DEF Init, PlannedInv, JasInv, Returned
<1> QED
  BY <1>1, <1>2, <1>3, <1>4, <1>5, <1>6, <1>7 DEF IndInv

\* Every step of every goroutine keeps the inductive invariant.
LEMMA IndStep == IndInv /\ [Next]_vars => IndInv'
  BY TypeStep, WaitGroupStep, QueueStep, OrderStep, PhaseStep, StartStep,
     SetupInvStep, DrainStep, CoordInvStep, OutcomeStep, RestStep,
     PlannedStep, JasStep, ContextualStep, ProcessedStep DEF IndInv

\* The conjunction of the named parts is an invariant of the scan phase.
THEOREM Invariance == Spec => []IndInv
  BY IndInit, IndStep, PTL DEF Spec

-----------------------------------------------------------------------------
\* What follows from it.

\* Every variable keeps its type; in particular no wait group goes negative,
\* which Go answers with a panic.
THEOREM TypeCorrect == Spec => []TypeOK
<1>1. IndInv => TypeOK
  BY DEF IndInv
<1> QED
  BY <1>1, Invariance, PTL

\* The wait groups count exactly the tasks whose Done is still due.
THEOREM WaitGroupsCorrect == Spec => []WaitGroupsExact
<1>1. IndInv => WaitGroupsExact
  BY DEF IndInv
<1> QED
  BY <1>1, Invariance, PTL

\* The coordinator never removes the directory under a running scanner.
THEOREM ScannersKeepDir == Spec => []ScannersHaveDir
<1>1. IndInv => ScannersHaveDir
  <2>1. SUFFICES ASSUME IndInv, NEW x \in ScannerTasks, st[x] \in {"await", "scan"}
                 PROVE  tempDir = "exists"
    BY DEF ScannersHaveDir
  <2>2. scannersWg # 0
    BY <2>1, WaitGroupZero DEF IndInv, ScannersOut
  <2>3. coord \in {"off", "sca", "jas", "scanners"}
    BY <2>1, <2>2 DEF IndInv, CoordInv
  <2>4. st[JasTask] # "none"
    BY <2>1 DEF IndInv, SetupInv
  <2> QED
    BY <2>1, <2>3, <2>4 DEF IndInv, CoordInv, SetupInv, TypeOK
<1> QED
  BY <1>1, Invariance, PTL

\* onScanEnd runs after every task has returned and the channel is empty.
THEOREM EndComesLast == Spec => []EndAfterScans
<1>1. IndInv => EndAfterScans
  <2>1. SUFFICES ASSUME IndInv, coord \in {"cleanup", "finalize", "close", "done"}
                 PROVE  /\ queue = <<>>
                        /\ \A x \in Tasks : st[x] \in {"none", "report", "done"}
                        /\ \A x \in PlannedSca : code[x] # NoCode
    BY DEF EndAfterScans
  <2>2. ScaOut = {} /\ JasOut = {} /\ ScannersOut = {}
    BY <2>1, WaitGroupZero DEF IndInv, CoordInv
  <2>3. \A x \in Tasks : st[x] \in {"none", "report", "done"}
    BY <2>1, <2>2, Kinds DEF IndInv, PhaseInv, ScaOut, JasOut, ScannersOut
  <2>4. queue = <<>>
    <3>1. SUFFICES ASSUME queue # <<>>
                   PROVE  FALSE
      OBVIOUS
    <3>2. 1 \in 1 .. Len(queue) /\ queue[1] \in Tasks
      BY <2>1, <3>1 DEF IndInv, TypeOK
    <3> QED
      BY <2>1, <2>3, <3>2 DEF IndInv, QueueInv
  <2>5. \A x \in PlannedSca : st[x] # "none"
    BY <2>1 DEF IndInv, StartInv
  <2> QED
    BY <2>1, <2>3, <2>4, <2>5, Kinds DEF IndInv, OutcomeInv
<1> QED
  BY <1>1, Invariance, PTL

\* Contextual analysis reads the CVEs of finished SCA scans only.
THEOREM ContextualReadsFinal == Spec => []ContextualAfterSca
<1>1. IndInv => ContextualAfterSca
  BY DEF IndInv
<1> QED
  BY <1>1, Invariance, PTL

\* A contextual task that holds a worker while it waits starves no SCA task.
THEOREM NoStarvation == Spec => []NoScaBehindContextual
<1>1. IndInv => NoScaBehindContextual
  <2>1. SUFFICES ASSUME IndInv, NEW x \in CaTasks, st[x] = "await",
                        NEW y \in PlannedSca
                 PROVE  st[y] \notin {"none", "queued"}
    BY DEF NoScaBehindContextual
  <2>2. st[y] # "queued"
    BY <2>1, Kinds DEF IndInv, DrainInv
  <2>3. st[y] # "none"
    BY <2>1, Kinds DEF IndInv, StartInv
  <2> QED
    BY <2>2, <2>3
<1> QED
  BY <1>1, Invariance, PTL

\* Without partial results, a command that goes on had no failure at all.
THEOREM VerdictComplete == Spec => []ProcessedIsComplete
<1>1. IndInv => ProcessedIsComplete
  BY DEF IndInv
<1> QED
  BY <1>1, Invariance, PTL

\* When the run returns, every planned scan has its status code, unless JAS as
\* a whole was given up, and every failure is listed with its Skip flag.
THEOREM EverythingAccounted == Spec => []OutcomesAccounted
<1>1. IndInv => OutcomesAccounted
  <2>1. SUFFICES ASSUME IndInv, Returned
                 PROVE  /\ \A x \in PlannedSca : code[x] # NoCode
                        /\ JasGivenUp \/ \A x \in PlannedScanners : code[x] # NoCode
                        /\ JasGivenUp \/ \A t \in plan.noModule : MissingModule(t) \in errs
                        /\ \A x \in failed : <<x, plan.allowPartial>> \in errs
    BY DEF OutcomesAccounted
  <2>2. \A x \in Tasks : st[x] \in {"none", "done"}
    BY <2>1 DEF IndInv, RestInv
  <2>3. \A x \in failed : x \in Tasks /\ <<x, plan.allowPartial>> \in errs
    BY <2>1, <2>2 DEF IndInv, OutcomeInv, TypeOK
  <2>4. \A x \in PlannedSca : code[x] # NoCode
    BY <2>1, <2>2, Kinds DEF IndInv, StartInv, OutcomeInv, Returned
  <2>5. ASSUME ~JasGivenUp
        PROVE  TargetsDone(NumTargets + 1)
    <3>1. st[JasTask] # "none"
      BY <2>1, <2>5 DEF IndInv, JasInv, JasGivenUp, Returned
    <3>2. JasTask \notin failed
      BY <2>3, <2>5 DEF JasGivenUp
    <3> QED
      BY <2>1, <2>2, <3>1, <3>2, Kinds DEF IndInv, JasInv
  <2>6. ASSUME TargetsDone(NumTargets + 1), NEW x \in PlannedScanners
        PROVE  code[x] # NoCode
    <3>1. x[2] \in Targets /\ x \in Tasks /\ x \in ScanTasks
      BY Kinds DEF ScannerTasks
    <3>2. x[2] < NumTargets + 1
      BY <3>1, AuditAssumption DEF Targets
    <3>3. st[x] # "none"
      BY <2>6, <3>2 DEF TargetsDone
    <3> QED
      BY <2>1, <2>2, <3>1, <3>3 DEF IndInv, OutcomeInv
  <2>7. ASSUME TargetsDone(NumTargets + 1), NEW t \in plan.noModule
        PROVE  MissingModule(t) \in errs
    <3>1. t \in Targets
      BY <2>1, PlanParts DEF IndInv, TypeOK
    <3>2. t < NumTargets + 1
      BY <3>1, AuditAssumption DEF Targets
    <3> QED
      BY <2>7, <3>2 DEF TargetsDone
  <2> QED
    BY <2>3, <2>4, <2>5, <2>6, <2>7
<1> QED
  BY <1>1, Invariance, PTL

\* The wait group of the scanners is not reused while it is waited for.
THEOREM NoLateAdd == Spec => NoLateScanner
<1>1. ASSUME IndInv, [Next]_vars,
             coord \in {"scanners", "cleanup", "finalize", "close", "done"}
      PROVE  scannersWg' <= scannersWg
  <2>1. jasWg = 0
    BY <1>1 DEF IndInv, CoordInv
  <2>2. st[JasTask] # "loop"
    BY <1>1, <2>1, WaitGroupZero DEF IndInv, JasOut
  <2>3. scannersWg \in Nat
    BY <1>1 DEF IndInv, TypeOK
  <2>4. scannersWg' = scannersWg \/ scannersWg' = scannersWg - 1
    BY <1>1, <2>2
       DEF Next, Stay, vars, wgs, MainStep, SkipJas, JasScannerFails, AddJasTask,
           AddScaTask, StartRunner, RunReturns, CoordStep, WaitSca, WaitJas,
           WaitScanners, CleanTempDir, Finalize, CloseQueue, SetupStep, SetupFails,
           SetupDone, SetupReturns, SetupSignal, AddMissingModule, AddScanner,
           SendScanner, Take, Report, ScaStep, ScaLock, ScaScan, ScaSignal,
           ScannerStep, AwaitSca, ScannerEnds, ScannerRecords, ScannerSignal
  <2> QED
    BY <2>3, <2>4
<1> QED
  BY <1>1, Invariance, PTL DEF Spec, NoLateScanner

-----------------------------------------------------------------------------
\* The refinement of AuditPromise.  A step that records a scan settles it, the
\* failing set-up gives JAS up, the clean-up ends the scans, the end of Run
\* decides; every other step of a goroutine is invisible or a failure.

Ended == coord \in {"finalize", "close", "done"}
Verdict == IF Returned THEN main ELSE "none"

\* What a scan that is wanted is.
LEMMA WantedParts ==
  ASSUME IndInv
  PROVE  /\ WantedScans \subseteq ScanTasks /\ SettledScans \subseteq ScanTasks
         /\ PlannedSca \subseteq WantedScans
         /\ WantedScans \cap ScaTasks = PlannedSca
  BY Kinds DEF WantedScans, SettledScans

\* A step that touches no plan, status code, failure or error, and neither ends
\* the scans nor returns, is invisible.
LEMMA Invisible ==
  ASSUME UNCHANGED <<plan, code, failed, errs>>, Ended' = Ended, Verdict' = Verdict
  PROVE  UNCHANGED Promise!pvars
<1>1. WantedScans' = WantedScans /\ SettledScans' = SettledScans /\ Fatal' = Fatal
  BY PlanFixed DEF WantedScans, SettledScans, Fatal
<1> QED
  BY <1>1 DEF Promise!pvars, Ended, Verdict

\* A scan that records its status code settles, and its failure is its own.
LEMMA SettleStep ==
  ASSUME IndInv, NEW x \in ScanTasks, NEW o \in Outcomes, Record(x, o),
         st[x] = (IF x \in ScaTasks THEN "scan" ELSE "record"),
         UNCHANGED <<plan, main, coord, errs>>
  PROVE  Promise!Settle(x)
<1> USE Kinds
<1>1. ~Ended
  BY WaitGroupZero DEF IndInv, CoordInv, ScaOut, ScannersOut, Ended, ScanTasks
<1>2. x \in WantedScans
  <2>1. CASE x \in ScaTasks
    BY <2>1 DEF IndInv, PlannedInv, WantedScans
  <2>2. CASE x \in ScannerTasks
    <3>1. st[JasTask] # "none"
      BY <2>2 DEF IndInv, SetupInv
    <3>2. main # "addJas"
      BY <3>1 DEF IndInv, StartInv
    <3> QED
      BY <2>2, <3>1, <3>2 DEF IndInv, PlannedInv, JasInv, WantedScans
  <2> QED
    BY <2>1, <2>2 DEF ScanTasks
<1>3. x \notin SettledScans
  BY DEF IndInv, PlannedInv, SettledScans
<1>4. x \in CaTasks => WantedScans \cap ScaTasks \subseteq SettledScans
  <2>1. ASSUME x \in CaTasks, NEW y \in PlannedSca
        PROVE  code[y] # NoCode
    BY <2>1 DEF IndInv, ContextualAfterSca
  <2> QED
    BY <2>1, WantedParts DEF SettledScans
<1>5. SettledScans' = SettledScans \cup {x}
  BY OutcomeParts DEF IndInv, TypeOK, Record, SettledScans, NoCode
<1>6. WantedScans' = WantedScans
  BY PlanFixed DEF Record, WantedScans
<1>7. Fatal' = (Fatal \/ (~plan.allowPartial /\ o[2])) /\ o[2] \in BOOLEAN
  BY OutcomeParts DEF Record, Fatal
<1>8. Ended' = Ended /\ Verdict' = Verdict
  BY DEF Ended, Verdict, Returned
<1> QED
  BY <1>1, <1>2, <1>3, <1>4, <1>5, <1>6, <1>7, <1>8
     DEF Promise!Settle, Promise!Blame, Ended, Verdict

\* Without an analyzer manager the scanners are given up before any of them ran.
LEMMA GiveUpStep ==
  ASSUME IndInv, SetupFails
  PROVE  Promise!GiveUpJas
<1> USE Kinds DEF SetupFails
<1>1. ~Ended
  BY WaitGroupZero DEF IndInv, CoordInv, JasOut, Ended
<1>2. SettledScans \subseteq ScaTasks
  BY DEF IndInv, SetupInv, PlannedInv, SettledScans, ScanTasks
<1>3. WantedScans' = PlannedSca
  BY PlanFixed DEF WantedScans
<1>4. Fatal' = (Fatal \/ ~plan.allowPartial)
  BY DEF Fatal
<1>5. SettledScans' = SettledScans /\ Ended' = Ended /\ Verdict' = Verdict
  BY DEF SettledScans, Ended, Verdict, Returned
<1> QED
  BY <1>1, <1>2, <1>3, <1>4, <1>5, WantedParts
     DEF Promise!GiveUpJas, Promise!Blame, Ended, Verdict

\* When the directory is cleaned up, exactly the wanted scans have settled.
LEMMA AllSettled ==
  ASSUME IndInv, coord = "cleanup"
  PROVE  SettledScans = WantedScans
<1> USE Kinds
<1>1. ScaOut = {} /\ JasOut = {} /\ ScannersOut = {}
  BY WaitGroupZero DEF IndInv, CoordInv
<1>2. \A x \in Tasks : st[x] \in {"none", "report", "done"}
  BY <1>1 DEF IndInv, PhaseInv, ScaOut, JasOut, ScannersOut
<1>3. main \notin {"addJas", "addSca"} /\ \A x \in PlannedSca : st[x] # "none"
  BY DEF IndInv, StartInv
<1>4. ASSUME NEW x \in WantedScans
      PROVE  x \in SettledScans
  <2>1. CASE x \in PlannedSca
    BY <1>2, <1>3, <2>1 DEF IndInv, OutcomeInv, SettledScans
  <2>2. CASE x \notin PlannedSca
    <3>1. x \in PlannedScanners /\ plan.jas /\ plan.scanner = "ok" /\ JasTask \notin failed
      BY <2>2 DEF WantedScans
    <3>2. TargetsDone(NumTargets + 1)
      BY <1>2, <1>3, <3>1 DEF IndInv, JasInv
    <3>3. x[2] < NumTargets + 1
      BY <3>1, AuditAssumption DEF ScannerTasks, Targets
    <3>4. st[x] # "none"
      BY <3>1, <3>2, <3>3 DEF TargetsDone
    <3> QED
      BY <1>2, <3>1, <3>4 DEF IndInv, OutcomeInv, SettledScans
  <2> QED
    BY <2>1, <2>2
<1>5. ASSUME NEW x \in SettledScans
      PROVE  x \in WantedScans
  <2>1. x \in ScanTasks /\ st[x] # "none"
    BY DEF IndInv, PlannedInv, SettledScans
  <2>2. CASE x \in ScaTasks
    BY <2>1, <2>2 DEF IndInv, PlannedInv, WantedScans
  <2>3. CASE x \in ScannerTasks
    <3>1. st[JasTask] # "none"
      BY <2>1, <2>3 DEF IndInv, SetupInv
    <3> QED
      BY <1>3, <2>1, <2>3, <3>1 DEF IndInv, PlannedInv, JasInv, WantedScans
  <2> QED
    BY <2>1, <2>2, <2>3 DEF ScanTasks
<1> QED
  BY <1>4, <1>5

\* An error of onScanEnd is fatal or there is none.
LEMMA EndErrorFatal ==
  ASSUME NEW o \in {"cleanup", "finalize"}, EndError(o) \/ errs' = errs,
         UNCHANGED <<plan, failed>>
  PROVE  \E b \in BOOLEAN : Fatal' = (Fatal \/ b)
<1>1. CASE errs' = errs
  <2>1. Fatal' = (Fatal \/ FALSE)
    BY <1>1 DEF Fatal
  <2> QED
    BY <2>1
<1>2. CASE errs' = errs \cup {<<<<o, 0>>, FALSE>>}
  <2>1. ~<<<<o, 0>>, FALSE>>[2]
    OBVIOUS
  <2>2. Fatal' = (Fatal \/ TRUE)
    BY <1>2, <2>1 DEF Fatal
  <2> QED
    BY <2>2
<1> QED
  BY <1>1, <1>2 DEF EndError

\* An error with the Skip flag the user asked for is fatal if that is off.
LEMMA ListedFatal ==
  ASSUME IndInv, NEW o, errs' = errs \cup {<<o, plan.allowPartial>>},
         UNCHANGED <<plan, failed>>
  PROVE  \E b \in BOOLEAN : Fatal' = (Fatal \/ b)
<1> DEFINE e == <<o, plan.allowPartial>>
<1>1. CASE plan.allowPartial
  <2>1. e[2]
    BY <1>1
  <2>2. (\E d \in errs' : ~d[2]) <=> (\E d \in errs : ~d[2])
    BY <2>1
  <2>3. Fatal' = (Fatal \/ FALSE)
    BY <2>2 DEF Fatal
  <2> QED
    BY <2>3
<1>2. CASE ~plan.allowPartial
  <2>1. ~e[2] /\ e \in errs'
    BY <1>2
  <2>2. Fatal' = (Fatal \/ TRUE)
    BY <2>1 DEF Fatal
  <2> QED
    BY <2>2
<1> QED
  BY <1>1, <1>2

\* The steps of the coordinator: the clean-up ends the scans, finalising may fail.
LEMMA PromiseCoord ==
  ASSUME IndInv, CoordStep
  PROVE  [Promise!Next]_(Promise!pvars)
<1>1. CASE WaitSca \/ WaitJas \/ WaitScanners \/ CloseQueue
  BY <1>1, Invisible DEF WaitSca, WaitJas, WaitScanners, CloseQueue, outs, Ended, Verdict, Returned
<1>2. CASE CleanTempDir
  <2>1. /\ UNCHANGED <<plan, main, code, failed>>
        /\ EndError("cleanup") \/ errs' = errs
        /\ coord = "cleanup" /\ coord' = "finalize"
    BY <1>2 DEF CleanTempDir
  <2>2. \E b \in BOOLEAN : Fatal' = (Fatal \/ b)
    BY <2>1, EndErrorFatal
  <2>3. WantedScans' = WantedScans /\ SettledScans' = SettledScans
    BY <2>1, PlanFixed DEF WantedScans, SettledScans
  <2>4. Promise!End
    BY <2>1, <2>2, <2>3, AllSettled DEF Promise!End, Returned
  <2> QED
    BY <2>4 DEF Promise!Next
<1>3. CASE Finalize
  <2>1. /\ UNCHANGED <<plan, main, code, failed>>
        /\ EndError("finalize")
        /\ coord = "finalize" /\ coord' = "close"
    BY <1>3 DEF Finalize
  <2>2. \E b \in BOOLEAN : Fatal' = (Fatal \/ b)
    BY <2>1, EndErrorFatal
  <2>3. WantedScans' = WantedScans /\ SettledScans' = SettledScans
    BY <2>1, PlanFixed DEF WantedScans, SettledScans
  <2>4. ~Returned
    BY <2>1 DEF IndInv, JasInv
  <2>5. Promise!Fail
    BY <2>1, <2>2, <2>3, <2>4 DEF Promise!Fail, Returned
  <2> QED
    BY <2>5 DEF Promise!Next
<1> QED
  BY <1>1, <1>2, <1>3 DEF CoordStep

\* A failure is read from the errors when Run returns: the verdict is the one
\* the recorded failures call for.
LEMMA DecideStep ==
  ASSUME IndInv, RunReturns
  PROVE  Promise!Decide
<1>1. Fatal = (\E e \in errs : ~e[2])
  <2>1. ASSUME ~plan.allowPartial, NEW x \in failed
        PROVE  \E e \in errs : ~e[2]
    <3>1. x \in Tasks /\ st[x] = "done"
      BY RunEnds DEF IndInv, OutcomeInv, TypeOK
    <3>2. <<x, plan.allowPartial>> \in errs
      BY <3>1 DEF IndInv, OutcomeInv
    <3>3. ~<<x, plan.allowPartial>>[2]
      BY <2>1
    <3> QED
      BY <3>2, <3>3
  <2> QED
    BY <2>1 DEF Fatal
<1>2. UNCHANGED <<plan, code, failed, errs, coord>> /\ coord = "done" /\ main = "run"
  BY DEF RunReturns, outs
<1>3. main' = IF Fatal THEN "aborted" ELSE "processed"
  BY <1>1 DEF RunReturns
<1>4. WantedScans' = WantedScans /\ SettledScans' = SettledScans /\ Fatal' = Fatal
  BY <1>2, PlanFixed DEF WantedScans, SettledScans, Fatal
<1> QED
  BY <1>2, <1>3, <1>4 DEF Promise!Decide, Returned

\* The steps of RunAudit, before the runner starts and after it returns.
LEMMA PromiseMain ==
  ASSUME IndInv, MainStep
  PROVE  [Promise!Next]_(Promise!pvars)
<1>1. CASE SkipJas \/ AddJasTask \/ StartRunner \/ \E x \in ScaTasks : AddScaTask(x)
  BY <1>1, Invisible
     DEF SkipJas, AddJasTask, StartRunner, AddScaTask, outs, Ended, Verdict, Returned,
         IndInv, StartInv
<1>2. CASE JasScannerFails
  <2>1. /\ UNCHANGED <<plan, code, failed, coord>>
        /\ main = "addJas" /\ main' = "addSca"
        /\ errs' = errs \cup {<<<<"scanner", 0>>, plan.allowPartial>>}
    BY <1>2 DEF JasScannerFails
  <2>2. \E b \in BOOLEAN : Fatal' = (Fatal \/ b)
    BY <2>1, ListedFatal
  <2>3. WantedScans' = WantedScans /\ SettledScans' = SettledScans
    BY <2>1, PlanFixed DEF WantedScans, SettledScans
  <2>4. Promise!Fail
    BY <2>1, <2>2, <2>3 DEF Promise!Fail, Returned
  <2> QED
    BY <2>4 DEF Promise!Next
<1>3. CASE RunReturns
  BY <1>3, DecideStep DEF Promise!Next
<1> QED
  BY <1>1, <1>2, <1>3 DEF MainStep

\* The steps of the JAS set-up task.
LEMMA PromiseSetup ==
  ASSUME IndInv, SetupStep
  PROVE  [Promise!Next]_(Promise!pvars)
<1>1. CASE SetupFails
  BY <1>1, GiveUpStep DEF Promise!Next
<1>2. CASE \/ SetupDone \/ SetupReturns \/ SetupSignal
           \/ \E x \in ScannerTasks : AddScanner(x) \/ SendScanner(x)
  BY <1>2, Invisible
     DEF SetupDone, SetupReturns, SetupSignal, AddScanner, SendScanner, outs, Ended,
         Verdict, Returned
<1>3. ASSUME NEW t \in Targets, AddMissingModule(t)
      PROVE  [Promise!Next]_(Promise!pvars)
  <2>1. /\ UNCHANGED <<plan, main, coord, code, failed>>
        /\ errs' = errs \cup {<<<<"module", t>>, plan.allowPartial>>}
    BY <1>3 DEF AddMissingModule, MissingModule
  <2>2. ~Returned
    BY <1>3, Kinds DEF IndInv, RestInv, AddMissingModule
  <2>3. \E b \in BOOLEAN : Fatal' = (Fatal \/ b)
    BY <2>1, ListedFatal
  <2>4. WantedScans' = WantedScans /\ SettledScans' = SettledScans
    BY <2>1, PlanFixed DEF WantedScans, SettledScans
  <2>5. Promise!Fail
    BY <2>1, <2>2, <2>3, <2>4 DEF Promise!Fail, Returned
  <2> QED
    BY <2>5 DEF Promise!Next
<1> QED
  BY <1>1, <1>2, <1>3 DEF SetupStep

\* Taking a task shows nothing; its reported error was counted when it failed.
LEMMA PromiseWorker ==
  ASSUME IndInv, NEW x \in Tasks, Take(x) \/ Report(x)
  PROVE  UNCHANGED Promise!pvars
<1>1. CASE Take(x)
  BY <1>1, Invisible DEF Take, outs, Ended, Verdict, Returned
<1>2. CASE Report(x)
  <2>1. UNCHANGED <<plan, main, coord, code, failed>>
    BY <1>2 DEF Report
  <2>2. Fatal' = Fatal
    <3>1. CASE x \in failed
      BY <1>2, <2>1, <3>1 DEF Report, Fatal
    <3>2. CASE x \notin failed
      BY <1>2, <2>1, <3>2 DEF Report, Fatal
    <3> QED
      BY <3>1, <3>2
  <2>3. WantedScans' = WantedScans /\ SettledScans' = SettledScans
    BY <2>1, PlanFixed DEF WantedScans, SettledScans
  <2> QED
    BY <2>1, <2>2, <2>3 DEF Promise!pvars, Returned
<1> QED
  BY <1>1, <1>2

\* Of the steps of a scan only the one that records is visible.
LEMMA PromiseScan ==
  ASSUME IndInv,
         NEW x \in ScanTasks,
         \/ x \in ScaTasks /\ ScaStep(x)
         \/ x \in ScannerTasks /\ ScannerStep(x)
  PROVE  [Promise!Next]_(Promise!pvars)
<1>1. CASE ScaScan(x) \/ ScannerRecords(x)
  <2>1. PICK o \in Outcomes : Record(x, o)
    BY <1>1 DEF ScaScan, ScannerRecords
  <2>2. /\ UNCHANGED <<plan, main, coord, errs>>
        /\ st[x] = (IF x \in ScaTasks THEN "scan" ELSE "record")
    BY <1>1, Kinds DEF ScaScan, ScannerRecords
  <2>3. Promise!Settle(x)
    BY <2>1, <2>2, SettleStep
  <2> QED
    BY <2>3 DEF Promise!Next
<1>2. CASE \/ ScaLock(x) \/ ScaSignal(x)
           \/ AwaitSca(x) \/ ScannerEnds(x) \/ ScannerSignal(x)
  BY <1>2, Invisible
     DEF ScaLock, ScaSignal, AwaitSca, ScannerEnds, ScannerSignal, outs, Ended,
         Verdict, Returned
<1> QED
  BY <1>1, <1>2 DEF ScaStep, ScannerStep

\* The scan phase starts as AuditPromise does.
LEMMA PromiseInit == Init => Promise!Init
<1> SUFFICES ASSUME Init
             PROVE  Promise!Init
  OBVIOUS
<1>1. SettledScans = {} /\ ~Fatal /\ WantedScans \subseteq ScanTasks
  BY Kinds DEF Init, SettledScans, Fatal, WantedScans
<1> QED
  BY <1>1 DEF Init, Promise!Init, Returned

\* Every step of every goroutine is a step of AuditPromise or invisible there.
LEMMA PromiseStep == IndInv /\ [Next]_vars => [Promise!Next]_(Promise!pvars)
<1> SUFFICES ASSUME IndInv, [Next]_vars
             PROVE  [Promise!Next]_(Promise!pvars)
  OBVIOUS
<1>1. CASE UNCHANGED vars
  BY <1>1, Invisible DEF vars, Ended, Verdict, Returned
<1> QED
  BY <1>1, PromiseMain, PromiseCoord, PromiseSetup, PromiseWorker, PromiseScan, Kinds
     DEF Next, Stay

\* The goroutines, wait groups, channel and lock of the scan phase together keep
\* the promise AuditPromise states: every wanted scan settles once, contextual
\* analysis last, the clean-up after the last scan, and the verdict counts every
\* failure that may not be skipped.
THEOREM PromiseKept == Spec => KeepsPromise
  BY PromiseInit, PromiseStep, Invariance, PTL DEF Spec, KeepsPromise, Promise!Spec
=============================================================================
