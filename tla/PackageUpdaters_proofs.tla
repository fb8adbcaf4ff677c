----------------------- MODULE PackageUpdaters_proofs -----------------------
(***************************************************************************)
(* Proofs about PackageUpdaters, for every fix of finitely many            *)
(* descriptors, and about PolicyReport, whose violations are what there is *)
(* to fix, for all targets and all responses of Xray.                      *)
(***************************************************************************)
EXTENDS PackageUpdaters, PolicyReport, FiniteSetTheorems, SequenceTheorems, WellFoundedInduction, TLAPS

\* The steps in which the head of the queue is being fixed.
Working == {"descriptor", "track", "enter", "get", "lock", "retry", "vendor", "undo", "leave"}

\* An enumeration of a set visits each element once.
LEMMA Enumerated ==
  ASSUME NEW S, IsFiniteSet(S), NEW s \in SetToSeqs(S)
  PROVE  /\ s \in Seq(S)
         /\ \A i, j \in 1 .. Len(s) : i # j => s[i] # s[j]
         /\ \A x \in S : \E i \in 1 .. Len(s) : s[i] = x
<1> DEFINE n == Cardinality(S)
<1>1. n \in Nat
  BY FS_CardinalityType
<1>2. s \in [1 .. n -> S] /\ \A i, j \in 1 .. n : i # j => s[i] # s[j]
  BY DEF SetToSeqs
<1>3. s \in Seq(S) /\ Len(s) = n
  BY <1>1, <1>2
<1>4. IsFiniteSet(1 .. n) /\ Cardinality(1 .. n) = n
  BY <1>1, FS_Interval
<1>5. s \in Injection(1 .. n, S)
  BY <1>2 DEF Injection, IsInjective
<1>6. s \in Surjection(1 .. n, S)
  BY <1>4, <1>5, FS_Injection
<1> QED BY <1>2, <1>3, <1>6 DEF Surjection

\* A finite set has an enumeration, and SetToSeq picks one.
LEMMA Picked ==
  ASSUME NEW S, IsFiniteSet(S)
  PROVE  SetToSeq(S) \in SetToSeqs(S)
<1> DEFINE n == Cardinality(S)
<1>1. PICK f \in [1 .. n -> S] : IsInjective(f)
  <2>1. ExistsBijection(1 .. n, S)
    BY FS_CardinalityType
  <2>2. PICK f \in Bijection(1 .. n, S) : TRUE
    BY <2>1 DEF ExistsBijection
  <2> QED BY <2>2 DEF Bijection, Injection
<1>2. SetToSeq(S) \in [1 .. n -> S] /\ IsInjective(SetToSeq(S))
  BY <1>1 DEF SetToSeq
<1> QED BY <1>2 DEF SetToSeqs, IsInjective

-----------------------------------------------------------------------------
(* The head of the queue and the rest.                                     *)

\* The head is a target that does not come again.
LEMMA HeadKnown ==
  ASSUME UpdTypes, QueueInv, queue # <<>>
  PROVE  /\ Path = queue[1] /\ Path \in Targets /\ Path \in fix.evidence
         /\ Len(queue) \in Nat \ {0}
         /\ \A i \in 2 .. Len(queue) : queue[i] # Path /\ queue[i] \in fix.evidence
<1>1. queue \in Seq(fix.evidence) /\ queue \in Seq(Targets)
  BY DEF UpdTypes, QueueInv
<1>2. Len(queue) \in Nat \ {0} /\ Path = queue[1]
  BY <1>1 DEF Path
<1> QED BY <1>1, <1>2 DEF QueueInv

\* What a step leaves alone keeps its outcome.
LEMMA Kept ==
  ASSUME fix' = fix, NEW f, files'[f] = files[f], causes'[f] = causes[f]
  PROVE  (Untouched(f)' <=> Untouched(f)) /\ (Settled(f)' <=> Settled(f))
BY DEF Untouched, Settled

\* A step of the head that does not end it.
OnlyHead == \A f \in fix.evidence : f # Path => files'[f] = files[f] /\ causes'[f] = causes[f]

LEMMA TargetsStay ==
  ASSUME fix' = fix
  PROVE  Targets' = Targets
BY DEF Targets, Collected

LEMMA GoesOn ==
  ASSUME UpdTypes, QueueInv, step \in Working, fix' = fix, queue' = queue, OnlyHead, step' \in Working
  PROVE  QueueInv' /\ Path' = Path /\ queue # <<>>
<1>1. queue # <<>>
  BY DEF QueueInv, Working
<1>2. Targets' = Targets /\ Path' = Path
  BY TargetsStay DEF Path
<1>3. ASSUME NEW f \in fix.evidence, f # Path
      PROVE  (Untouched(f)' <=> Untouched(f)) /\ (Settled(f)' <=> Settled(f))
  BY <1>3, Kept DEF OnlyHead
<1>4. \A i \in 2 .. Len(queue) : Untouched(queue[i])'
  BY <1>1, <1>3, HeadKnown DEF QueueInv
<1>5. \A f \in fix.evidence \ Targets : Untouched(f)'
  BY <1>1, <1>3, HeadKnown DEF QueueInv
<1>6. ASSUME NEW f \in Targets, \A i \in 1 .. Len(queue) : queue[i] # f
      PROVE  Settled(f)'
  <2>1. f # Path /\ f \in fix.evidence
    BY <1>1, <1>6, HeadKnown DEF Targets, Collected
  <2>2. Settled(f)
    BY <1>6 DEF QueueInv, Working
  <2> QED BY <1>3, <2>1, <2>2
<1> QED BY <1>1, <1>2, <1>4, <1>5, <1>6 DEF QueueInv, Working

\* A step that ends it.
LEMMA Ends ==
  ASSUME UpdTypes, QueueInv, step \in Working, fix' = fix, OnlyHead, NextPath,
         NEW p, p = Path, Settled(p)'
  PROVE  QueueInv' /\ HeadInv' /\ queue' \in Seq(fix.evidence)
         /\ step' \in {"descriptor", "finish"} /\ (step' = "descriptor" => queue' # <<>>)
<1>1. queue # <<>>
  BY DEF QueueInv, Working
<1>2. Targets' = Targets
  BY TargetsStay
<1>3. /\ queue \in Seq(Targets) /\ queue \in Seq(fix.evidence)
      /\ \A i, j \in 1 .. Len(queue) : i # j => queue[i] # queue[j]
  BY DEF QueueInv, UpdTypes
<1>4. /\ queue' \in Seq(Targets) /\ queue' \in Seq(fix.evidence)
      /\ Len(queue') = Len(queue) - 1 /\ Len(queue) \in Nat \ {0}
      /\ \A i \in 1 .. Len(queue') : queue'[i] = queue[i + 1]
  BY <1>1, <1>3 DEF NextPath
<1>5. ASSUME NEW f \in fix.evidence, f # Path
      PROVE  (Untouched(f)' <=> Untouched(f)) /\ (Settled(f)' <=> Settled(f))
  BY <1>5, Kept DEF OnlyHead
<1>6. \A i, j \in 1 .. Len(queue') : i # j => queue'[i] # queue'[j]
  BY <1>3, <1>4
<1>7. \A i \in 1 .. Len(queue') : Untouched(queue[i])'
  <2> SUFFICES ASSUME NEW i \in 1 .. Len(queue'), NEW f, f = queue'[i] PROVE Untouched(f)'
    BY DEF Untouched
  <2>1. i + 1 \in 2 .. Len(queue) /\ f = queue[i + 1]
    BY <1>4
  <2>2. Untouched(f) /\ f # Path /\ f \in fix.evidence
    BY <1>1, <2>1, HeadKnown DEF QueueInv
  <2> QED BY <1>5, <2>2
<1>8. \A f \in fix.evidence \ Targets : Untouched(f)'
  BY <1>1, <1>5, HeadKnown DEF QueueInv
<1>9. ASSUME NEW f \in Targets, \A i \in 1 .. Len(queue') : queue'[i] # f
      PROVE  Settled(f)'
  <2>1. CASE f = Path
    BY <2>1
  <2>2. CASE f # Path
    <3>1. f \in fix.evidence
      BY DEF Targets, Collected
    <3>2. \A i \in 1 .. Len(queue) : queue[i] # f
      <4> SUFFICES ASSUME NEW i \in 1 .. Len(queue), i # 1 PROVE queue[i] # f
        BY <1>1, <2>2, HeadKnown
      <4>1. i - 1 \in 1 .. Len(queue') /\ queue'[i - 1] = queue[i]
        BY <1>4
      <4> QED BY <1>9, <4>1
    <3>3. Settled(f)
      BY <3>2 DEF QueueInv, Working
    <3> QED BY <1>5, <2>2, <3>1, <3>3
  <2> QED BY <2>1, <2>2
<1>10. step' \in {"descriptor", "finish"} /\ (step' = "finish" <=> queue' = <<>>)
  <2>1. Len(queue') = 0 <=> queue' = <<>>
    BY <1>4
  <2>2. Len(queue) = 1 <=> Len(queue') = 0
    BY <1>4
  <2> QED BY <2>1, <2>2 DEF NextPath
<1>11. QueueInv'
  BY <1>2, <1>4, <1>6, <1>7, <1>8, <1>9, <1>10 DEF QueueInv
<1>12. step' = "descriptor" => Untouched(Path)'
  <2>1. step' = "descriptor" => Path' = queue'[1] /\ 1 \in 1 .. Len(queue')
    BY <1>4, <1>10 DEF Path
  <2> QED BY <1>7, <2>1 DEF Untouched
<1>13. HeadInv'
  BY <1>10, <1>12 DEF HeadInv
<1> QED BY <1>4, <1>10, <1>11, <1>13

\* What a step may do to the files and causes: to those of the head only.
ChangesHead ==
    /\ files' = files \/ \E d, l \in Contents : Write(d, l)
    /\ causes' = causes \/ \E c \in FailureCauses : Blame(c)

LEMMA Effects ==
  ASSUME UpdTypes, QueueInv, step \in Working, ChangesHead
  PROVE  /\ OnlyHead
         /\ files' \in [fix.evidence -> [descriptor : Contents, lock : Contents]]
         /\ causes' \in [fix.evidence -> SUBSET FailureCauses]
         /\ \A d, l : Write(d, l) => files'[Path] = [descriptor |-> d, lock |-> l]
         /\ \A c : Blame(c) => causes'[Path] = causes[Path] \cup {c}
         /\ \A f \in fix.evidence : causes[f] \subseteq causes'[f]
<1>1. Path \in fix.evidence
  BY HeadKnown DEF QueueInv, Working
<1>2. /\ files \in [fix.evidence -> [descriptor : Contents, lock : Contents]]
      /\ causes \in [fix.evidence -> SUBSET FailureCauses]
  BY DEF UpdTypes
<1>3. ASSUME NEW d \in Contents, NEW l \in Contents, Write(d, l)
      PROVE  /\ files' \in [fix.evidence -> [descriptor : Contents, lock : Contents]]
             /\ \A f \in fix.evidence : f # Path => files'[f] = files[f]
  BY <1>1, <1>2, <1>3 DEF Write
<1>4. ASSUME NEW c \in FailureCauses, Blame(c)
      PROVE  /\ causes' \in [fix.evidence -> SUBSET FailureCauses]
             /\ \A f \in fix.evidence : causes[f] \subseteq causes'[f] /\ (f # Path => causes'[f] = causes[f])
  BY <1>1, <1>2, <1>4 DEF Blame
<1>5. \A d, l : Write(d, l) => files'[Path] = [descriptor |-> d, lock |-> l]
  BY <1>1, <1>2 DEF Write
<1>6. \A c : Blame(c) => causes'[Path] = causes[Path] \cup {c}
  BY <1>1, <1>2 DEF Blame
<1> QED BY <1>2, <1>3, <1>4, <1>5, <1>6 DEF ChangesHead, OnlyHead

\* A step after which the head is still being fixed, and one that ends it.
LEMMA InTurn ==
  ASSUME UpdInv, step \in Working, fix' = fix, queue' = queue, ChangesHead,
         step' \in Working, HeadInv', DirectoryInv', cwd' \in {Root} \cup fix.evidence
  PROVE  UpdInv'
<1>1. QueueInv' /\ queue # <<>>
  BY GoesOn, Effects DEF UpdInv
<1>2. UpdTypes'
  BY <1>1, Effects DEF UpdInv, UpdTypes, Working
<1> QED BY <1>1, <1>2 DEF UpdInv

LEMMA AtEnd ==
  ASSUME UpdInv, step \in Working, fix' = fix, NextPath, ChangesHead,
         NEW p, p = Path, Settled(p)', DirectoryInv', cwd' \in {Root} \cup fix.evidence
  PROVE  UpdInv'
<1>1. /\ QueueInv' /\ HeadInv' /\ queue' \in Seq(fix.evidence)
      /\ step' \in {"descriptor", "finish"} /\ (step' = "descriptor" => queue' # <<>>)
  BY Ends, Effects DEF UpdInv
<1>2. UpdTypes'
  BY <1>1, Effects DEF UpdInv, UpdTypes
<1> QED BY <1>1, <1>2 DEF UpdInv

\* The process stays where it is: at Root or where a failing return left it.
LEMMA StaysThere ==
  ASSUME UpdInv, step \in Working, fix' = fix, ChangesHead, cwd' = cwd, step' # "fixed",
         step \in {"descriptor", "enter"} \/ (step = "track" /\ fix.tech # "go")
  PROVE  DirectoryInv'
<1>1. cwd = Root \/ \E f \in fix.evidence : "leave" \in causes[f]
  BY DEF UpdInv, DirectoryInv
<1>2. \A f \in fix.evidence : causes[f] \subseteq causes'[f]
  BY Effects DEF UpdInv
<1> QED BY <1>1, <1>2 DEF DirectoryInv

\* What the head has between two steps.
LEMMA HeadNow ==
  ASSUME UpdInv, step \in Working
  PROVE  /\ Path \in fix.evidence /\ queue # <<>> /\ Len(queue) \in Nat \ {0}
         /\ causes[Path] \in SUBSET FailureCauses /\ cwd \in {Root} \cup fix.evidence
         /\ Content.descriptor \in Contents /\ Content.lock \in Contents
<1>1. queue # <<>>
  BY DEF UpdInv, QueueInv, Working
<1> QED BY <1>1, HeadKnown DEF UpdInv, UpdTypes, Content

\* What the head has after it was written or blamed.
LEMMA Written ==
  ASSUME UpdInv, step \in Working, NEW p, p = Path, NEW d \in Contents, NEW l \in Contents, Write(d, l)
  PROVE  files'[p].descriptor = d /\ files'[p].lock = l
<1>1. p \in fix.evidence /\ files \in [fix.evidence -> [descriptor : Contents, lock : Contents]]
  BY HeadNow DEF UpdInv, UpdTypes
<1> QED BY <1>1 DEF Write

LEMMA Blamed ==
  ASSUME UpdInv, step \in Working, NEW p, p = Path, NEW c, Blame(c)
  PROVE  causes'[p] = causes[p] \cup {c}
<1>1. p \in fix.evidence /\ causes \in [fix.evidence -> SUBSET FailureCauses]
  BY HeadNow DEF UpdInv, UpdTypes
<1> QED BY <1>1 DEF Blame

-----------------------------------------------------------------------------
(* The actions.                                                            *)

LEMMA InitInv == UpdInit => UpdInv
<1> SUFFICES ASSUME UpdInit PROVE UpdInv
  OBVIOUS
<1>1. UpdTypes
  BY DEF UpdInit, UpdTypes, Contents, FailureCauses
<1>2. \A f \in fix.evidence : Untouched(f)
  BY DEF UpdInit, Untouched
<1>3. QueueInv
  BY <1>2 DEF UpdInit, QueueInv, Targets
<1> QED BY <1>1, <1>3 DEF UpdInit, UpdInv, HeadInv, DirectoryInv

\* The file could not be read, or is none the package can be fixed in.
LEMMA DescriptorFailsStep == ASSUME UpdInv, DescriptorFails PROVE UpdInv'
<1>1. PICK p : p = Path
  OBVIOUS
<1>2. /\ step = "descriptor" /\ Blame("read") /\ NextPath /\ UNCHANGED <<fix, files, cwd>>
  BY DEF DescriptorFails
<1>3. step \in Working /\ ChangesHead
  BY <1>2 DEF Working, ChangesHead, FailureCauses
<1>4. Untouched(p)
  BY <1>1, <1>2 DEF UpdInv, HeadInv
<1>5. files'[p] = files[p] /\ causes'[p] = {"read"}
  BY <1>1, <1>2, <1>3, <1>4, Effects DEF UpdInv, Untouched
<1>6. Settled(p)'
  BY <1>2, <1>4, <1>5 DEF Settled, Untouched
<1>7. DirectoryInv'
  BY <1>2, <1>3, StaysThere DEF NextPath
<1> QED BY <1>1, <1>2, <1>3, <1>6, <1>7, HeadNow, AtEnd

\* The descriptor is written, or it is not and that is the end of it.
LEMMA WriteDescriptorStep == ASSUME UpdInv, WriteDescriptor PROVE UpdInv'
<1>1. PICK p : p = Path
  OBVIOUS
<1>2. /\ step = "descriptor" /\ UNCHANGED <<fix, cwd>>
      /\ fix.tech \in Npms \cup {"maven", "docker", "pip"}
  BY DEF WriteDescriptor, DescriptorReads
<1>3. /\ causes[p] = {} /\ step \in Working
      /\ Content.lock \in Contents /\ Contents = {"old", "new", "half"}
      /\ cwd \in {Root} \cup fix.evidence
  BY <1>1, <1>2, HeadNow DEF UpdInv, HeadInv, Working, Contents, Untouched
<1>4. CASE /\ Write("new", Content.lock) /\ causes' = causes
           /\ IF fix.tech \in Npms THEN step' = "track" /\ queue' = queue ELSE NextPath
  <2>1. ChangesHead
    BY <1>3, <1>4 DEF ChangesHead
  <2>2. files'[p].descriptor = "new" /\ causes'[p] = {}
    BY <1>1, <1>3, <1>4, Written
  <2>3. DirectoryInv'
    BY <1>2, <1>3, <1>4, <2>1, StaysThere DEF NextPath
  <2>4. CASE fix.tech \in Npms
    <3>1. step' = "track" /\ queue' = queue /\ Path' = Path
      BY <1>4, <2>4 DEF Path
    <3>2. HeadInv'
      BY <1>1, <1>2, <2>2, <2>4, <3>1 DEF HeadInv, Npms, Content
    <3> QED BY <1>2, <1>3, <2>1, <2>3, <3>1, <3>2, InTurn DEF Working
  <2>5. CASE fix.tech \notin Npms
    <3>1. Settled(p)'
      BY <1>2, <2>2, <2>5 DEF Settled
    <3> QED BY <1>1, <1>2, <1>3, <1>4, <2>1, <2>3, <2>5, <3>1, AtEnd
  <2> QED BY <2>4, <2>5
<1>5. ASSUME NEW d \in {"old", "half"}, Write(d, Content.lock), Blame("write"), NextPath
      PROVE  UpdInv'
  <2>1. ChangesHead
    BY <1>3, <1>5 DEF ChangesHead, FailureCauses
  <2>2. causes'[p] = {"write"}
    BY <1>1, <1>3, <1>5, Blamed
  <2>3. DirectoryInv'
    BY <1>2, <1>3, <1>5, <2>1, StaysThere DEF NextPath
  <2>4. Settled(p)'
    BY <2>2 DEF Settled
  <2> QED BY <1>1, <1>2, <1>3, <1>5, <2>1, <2>3, <2>4, AtEnd
<1> QED BY <1>4, <1>5 DEF WriteDescriptor

\* What poetry or pipenv left stays, with the cause.
LEMMA RunPythonManagerStep == ASSUME UpdInv, RunPythonManager PROVE UpdInv'
<1>1. PICK p : p = Path
  OBVIOUS
<1>2. step = "descriptor" /\ UNCHANGED <<fix, cwd>> /\ fix.tech \in {"poetry", "pipenv"} /\ NextPath
  BY DEF RunPythonManager, DescriptorReads
<1>3. causes[p] = {} /\ step \in Working /\ cwd \in {Root} \cup fix.evidence
  BY <1>1, <1>2, HeadNow DEF UpdInv, HeadInv, Working, Untouched
<1>4. ChangesHead
  BY DEF RunPythonManager, ChangesHead, Contents, FailureCauses
<1>5. Settled(p)'
  <2>1. CASE Write("new", "new") /\ causes' = causes
    <3>1. files'[p].descriptor = "new"
      BY <1>1, <1>3, <2>1, Written DEF Contents
    <3> QED BY <1>2, <1>3, <2>1, <3>1 DEF Settled, Npms
  <2>2. CASE Blame("tool")
    <3>1. causes'[p] = {"tool"}
      BY <1>1, <1>3, <2>2, Blamed
    <3> QED BY <1>2, <3>1 DEF Settled, Pythons
  <2> QED BY <2>1, <2>2 DEF RunPythonManager
<1>6. DirectoryInv'
  BY <1>2, <1>3, <1>4, StaysThere DEF NextPath
<1> QED BY <1>1, <1>2, <1>3, <1>4, <1>5, <1>6, AtEnd

LEMMA BackupStep == ASSUME UpdInv, BackupModuleFiles PROVE UpdInv'
<1>1. /\ step = "descriptor" /\ fix.tech = "go" /\ step' = "enter"
      /\ UNCHANGED <<fix, queue, files, cwd, causes>>
  BY DEF BackupModuleFiles, DescriptorReads
<1>2. step \in Working /\ step' \in Working /\ ChangesHead
  BY <1>1 DEF Working, ChangesHead
<1>3. Untouched(Path) /\ Path' = Path
  BY <1>1 DEF UpdInv, HeadInv, Path
<1>4. Untouched(Path)'
  BY <1>1, <1>3 DEF Untouched
<1>5. HeadInv'
  BY <1>1, <1>4 DEF HeadInv, Npms
<1>6. DirectoryInv'
  BY <1>1, <1>2, StaysThere
<1> QED BY <1>1, <1>2, <1>5, <1>6, HeadNow, InTurn

\* A lock file git does not know is not regenerated.
LEMMA TrackedStep == ASSUME UpdInv, IsFileTrackedByGit PROVE UpdInv'
<1>1. PICK p : p = Path
  OBVIOUS
<1>2. step = "track" /\ UNCHANGED <<fix, files, cwd, causes>>
  BY DEF IsFileTrackedByGit
<1>3. /\ fix.tech \in Npms \cup {"go"} /\ causes[p] = {} /\ files[p].descriptor = "new"
      /\ fix.tech = "go" => files[p].lock = "new"
  BY <1>1, <1>2 DEF UpdInv, HeadInv, Content
<1>4. step \in Working /\ ChangesHead /\ cwd \in {Root} \cup fix.evidence
  BY <1>2, HeadNow DEF Working, ChangesHead
<1>5. CASE SeemsTracked \/ fix.tech = "go"
  <2>1. /\ queue' = queue /\ Path' = Path
        /\ step' = IF SeemsTracked THEN (IF fix.tech = "go" THEN "lock" ELSE "enter") ELSE "leave"
    BY <1>5 DEF IsFileTrackedByGit, Path
  <2>2. fix.tech = "go" => Settled(Path)'
    BY <1>1, <1>2, <1>3, <2>1 DEF Settled
  <2>3. HeadInv'
    BY <1>1, <1>2, <1>3, <1>5, <2>1, <2>2 DEF HeadInv, Content
  <2>4. DirectoryInv'
    <3>1. CASE fix.tech = "go"
      BY <2>1, <3>1 DEF DirectoryInv
    <3>2. CASE fix.tech # "go"
      BY <1>2, <1>4, <1>5, <2>1, <3>2, StaysThere
    <3> QED BY <3>1, <3>2
  <2> QED BY <1>2, <1>4, <2>1, <2>3, <2>4, InTurn DEF Working
<1>6. CASE ~SeemsTracked /\ fix.tech # "go"
  <2>1. NextPath /\ ~p.tracked
    BY <1>1, <1>6 DEF IsFileTrackedByGit, SeemsTracked
  <2>2. Settled(p)'
    BY <1>2, <1>3, <2>1 DEF Settled
  <2>3. DirectoryInv'
    BY <1>2, <1>4, <1>6, <2>1, StaysThere DEF NextPath
  <2> QED BY <1>1, <1>2, <1>4, <2>1, <2>2, <2>3, AtEnd
<1> QED BY <1>5, <1>6

LEMMA EnterFailsStep == ASSUME UpdInv, EnterFails PROVE UpdInv'
<1>1. PICK p : p = Path
  OBVIOUS
<1>2. step = "enter" /\ Blame("enter") /\ NextPath /\ UNCHANGED <<fix, files, cwd>>
  BY DEF EnterFails
<1>3. step \in Working /\ ChangesHead /\ cwd \in {Root} \cup fix.evidence
  BY <1>2, HeadNow DEF Working, ChangesHead, FailureCauses
<1>4. causes'[p] = causes[p] \cup {"enter"}
  BY <1>1, <1>2, <1>3, Blamed
<1>5. Settled(p)'
  BY <1>4 DEF Settled
<1>6. DirectoryInv'
  BY <1>2, <1>3, StaysThere DEF NextPath
<1> QED BY <1>1, <1>2, <1>3, <1>5, <1>6, AtEnd

LEMMA EnterStep == ASSUME UpdInv, Enter PROVE UpdInv'
<1>1. /\ step = "enter" /\ UNCHANGED <<fix, queue, files, causes>> /\ cwd' = Path /\ Path' = Path
      /\ step' = IF fix.tech = "go" THEN "get" ELSE "lock"
  BY DEF Enter, Path
<1>2. step \in Working /\ step' \in Working /\ ChangesHead
  BY <1>1 DEF Working, ChangesHead
<1>3. /\ fix.tech \in Npms \cup {"go"}
      /\ fix.tech = "go" => Untouched(Path)
      /\ fix.tech # "go" => causes[Path] = {} /\ Content.descriptor = "new"
  BY <1>1 DEF UpdInv, HeadInv
<1>4. fix.tech = "go" => Untouched(Path)'
  BY <1>1, <1>3 DEF Untouched
<1>5. HeadInv'
  BY <1>1, <1>3, <1>4 DEF HeadInv, Content
<1>6. DirectoryInv'
  BY <1>1 DEF DirectoryInv
<1> QED BY <1>1, <1>2, <1>5, <1>6, HeadNow, InTurn

LEMMA GoGetStep == ASSUME UpdInv, GoGet PROVE UpdInv'
<1>1. PICK p : p = Path
  OBVIOUS
<1>2. step = "get" /\ UNCHANGED <<fix, queue, cwd>> /\ Path' = Path
  BY DEF GoGet, Path
<1>3. fix.tech = "go" /\ causes[p] = {} /\ step \in Working /\ cwd \in {Root} \cup fix.evidence
  BY <1>1, <1>2, HeadNow DEF UpdInv, HeadInv, Working, Untouched
<1>4. ChangesHead
  BY DEF GoGet, ChangesHead, Contents, FailureCauses
<1>5. CASE Write("new", "new") /\ step' = "track" /\ causes' = causes
  <2>1. files'[p].descriptor = "new" /\ files'[p].lock = "new"
    BY <1>1, <1>3, <1>5, Written DEF Contents
  <2>2. HeadInv'
    BY <1>1, <1>2, <1>3, <1>5, <2>1 DEF HeadInv, Content
  <2>3. DirectoryInv'
    BY <1>2, <1>3, <1>5 DEF DirectoryInv
  <2> QED BY <1>2, <1>3, <1>4, <1>5, <2>2, <2>3, InTurn DEF Working
<1>6. CASE step' = "undo" /\ Blame("tool")
  <2>1. causes'[p] = {"tool"}
    BY <1>1, <1>3, <1>6, Blamed
  <2>2. HeadInv'
    BY <1>1, <1>2, <1>3, <1>6, <2>1 DEF HeadInv
  <2>3. DirectoryInv'
    BY <1>6 DEF DirectoryInv
  <2> QED BY <1>2, <1>3, <1>4, <1>6, <2>2, <2>3, InTurn DEF Working
<1> QED BY <1>5, <1>6 DEF GoGet

\* A run of the package manager: both files are new, or the fix is undone.
LEMMA Regeneration ==
  ASSUME UpdInv, step \in {"lock", "retry"}, Regenerates \/ BreaksOff, UNCHANGED <<fix, queue, cwd>>
  PROVE  UpdInv'
<1>1. PICK p : p = Path
  OBVIOUS
<1>2. /\ fix.tech \in Npms \cup {"go"} /\ causes[p] = {} /\ step \in Working /\ Path' = Path
      /\ cwd \in {Root} \cup fix.evidence
  BY <1>1, HeadNow DEF UpdInv, HeadInv, Working, Path
<1>3. ChangesHead
  BY DEF Regenerates, BreaksOff, ChangesHead, Contents, FailureCauses
<1>4. CASE Regenerates
  <2>1. files'[p].descriptor = "new" /\ files'[p].lock = "new" /\ step' = "leave" /\ causes' = causes
    BY <1>1, <1>2, <1>4, Written DEF Contents, Regenerates
  <2>2. Settled(Path)'
    BY <1>1, <1>2, <2>1 DEF Settled
  <2>3. HeadInv' /\ DirectoryInv'
    BY <1>2, <2>1, <2>2 DEF HeadInv, DirectoryInv
  <2> QED BY <1>2, <1>3, <2>1, <2>3, InTurn DEF Working
<1>5. CASE BreaksOff
  <2>1. causes'[p] = {"tool"} /\ step' = "undo"
    BY <1>1, <1>2, <1>5, Blamed DEF BreaksOff
  <2>2. HeadInv' /\ DirectoryInv'
    BY <1>1, <1>2, <2>1 DEF HeadInv, DirectoryInv
  <2> QED BY <1>2, <1>3, <2>1, <2>2, InTurn DEF Working
<1> QED BY <1>4, <1>5

LEMMA InstallStep ==
  ASSUME UpdInv, NpmInstall \/ PnpmInstall \/ TidyLockFiles
  PROVE  UpdInv'
<1>1. PICK p : p = Path
  OBVIOUS
<1>2. step \in {"lock", "retry"} /\ UNCHANGED <<fix, queue, cwd>>
  BY DEF NpmInstall, PnpmInstall, TidyLockFiles
<1>3. /\ causes[p] = {} /\ step \in Working /\ Path' = Path
      /\ cwd \in {Root} \cup fix.evidence
  BY <1>1, <1>2, HeadNow DEF UpdInv, HeadInv, Working, Path
<1>4. CASE fix.tech = "npm" /\ step' = "retry" /\ Write("new", "old") /\ causes' = causes
  <2>1. files'[p].descriptor = "new"
    BY <1>1, <1>3, <1>4, Written DEF Contents
  <2>2. HeadInv' /\ DirectoryInv'
    BY <1>1, <1>2, <1>3, <1>4, <2>1 DEF HeadInv, DirectoryInv, Content, Npms
  <2>3. ChangesHead
    BY <1>4 DEF ChangesHead, Contents
  <2> QED BY <1>2, <1>3, <1>4, <2>2, <2>3, InTurn DEF Working
<1>5. CASE fix.tech = "go" /\ step' = "vendor" /\ Write("new", "new") /\ causes' = causes
  <2>1. files'[p].descriptor = "new" /\ files'[p].lock = "new"
    BY <1>1, <1>3, <1>5, Written DEF Contents
  <2>2. HeadInv' /\ DirectoryInv'
    BY <1>1, <1>2, <1>3, <1>5, <2>1 DEF HeadInv, DirectoryInv, Content
  <2>3. ChangesHead
    BY <1>5 DEF ChangesHead, Contents
  <2> QED BY <1>2, <1>3, <1>5, <2>2, <2>3, InTurn DEF Working
<1>6. CASE Regenerates \/ BreaksOff
  BY <1>2, <1>6, Regeneration
<1> QED BY <1>4, <1>5, <1>6 DEF NpmInstall, PnpmInstall, TidyLockFiles

LEMMA VendorStep == ASSUME UpdInv, UpdateVendor PROVE UpdInv'
<1>1. PICK p : p = Path
  OBVIOUS
<1>2. step = "vendor" /\ UNCHANGED <<fix, queue, files, cwd>> /\ Path' = Path
  BY DEF UpdateVendor, Path
<1>3. /\ fix.tech = "go" /\ causes[p] = {} /\ files[p].descriptor = "new" /\ files[p].lock = "new"
      /\ step \in Working /\ cwd \in {Root} \cup fix.evidence
  BY <1>1, <1>2, HeadNow DEF UpdInv, HeadInv, Working, Content
<1>4. ChangesHead
  BY <1>2 DEF UpdateVendor, ChangesHead, FailureCauses
<1>5. CASE step' = "leave" /\ causes' = causes
  <2>1. Settled(Path)'
    BY <1>1, <1>2, <1>3, <1>5 DEF Settled
  <2>2. HeadInv' /\ DirectoryInv'
    BY <1>2, <1>3, <1>5, <2>1 DEF HeadInv, DirectoryInv
  <2> QED BY <1>2, <1>3, <1>4, <1>5, <2>2, InTurn DEF Working
<1>6. CASE step' = "undo" /\ Blame("tool")
  <2>1. causes'[p] = {"tool"}
    BY <1>1, <1>3, <1>6, Blamed
  <2>2. HeadInv' /\ DirectoryInv'
    BY <1>1, <1>2, <1>3, <1>6, <2>1 DEF HeadInv, DirectoryInv
  <2> QED BY <1>2, <1>3, <1>4, <1>6, <2>2, InTurn DEF Working
<1> QED BY <1>5, <1>6 DEF UpdateVendor

\* The descriptor is put back, and so is go.sum, or the cause says that it is not.
LEMMA UndoStep == ASSUME UpdInv, Undo PROVE UpdInv'
<1>1. PICK p : p = Path
  OBVIOUS
<1>2. step = "undo" /\ step' = "leave" /\ UNCHANGED <<fix, queue, cwd>> /\ Path' = Path
  BY DEF Undo, Path
<1>3. /\ fix.tech \in Npms \cup {"go"} /\ causes[p] = {"tool"} /\ Content.lock \in Contents
      /\ step \in Working /\ cwd \in {Root} \cup fix.evidence
  BY <1>1, <1>2, HeadNow DEF UpdInv, HeadInv, Working
<1>4. ChangesHead /\ Settled(p)'
  <2>1. CASE files' = [files EXCEPT ![Path] = Restored(Content)] /\ causes' = causes
    <3> DEFINE lock == IF fix.tech = "go" THEN "old" ELSE Content.lock
    <3>1. Write("old", lock) /\ lock \in Contents /\ "old" \in Contents
      BY <1>3, <2>1 DEF Write, Restored, Contents
    <3> HIDE DEF lock
    <3>2. files'[p].descriptor = "old" /\ files'[p].lock = lock
      BY <1>1, <1>3, <3>1, Written
    <3>3. ChangesHead
      BY <2>1, <3>1 DEF ChangesHead
    <3>4. Settled(p)'
      BY <1>2, <1>3, <2>1, <3>2 DEF Settled, lock
    <3> QED BY <3>3, <3>4
  <2>2. CASE Blame("undo") /\ files' = files
    <3>1. causes'[p] = {"tool", "undo"}
      BY <1>1, <1>3, <2>2, Blamed
    <3> QED BY <2>2, <3>1 DEF Settled, ChangesHead, FailureCauses
  <2> QED BY <2>1, <2>2 DEF Undo
<1>5. Settled(Path)'
  BY <1>1, <1>2, <1>4 DEF Settled
<1>6. HeadInv' /\ DirectoryInv'
  BY <1>2, <1>3, <1>5 DEF HeadInv, DirectoryInv
<1> QED BY <1>2, <1>3, <1>4, <1>6, InTurn DEF Working

\* The way back; from a return that fails on, the process is elsewhere.
LEMMA LeaveStep == ASSUME UpdInv, Leave PROVE UpdInv'
<1>1. PICK p : p = Path
  OBVIOUS
<1>2. step = "leave" /\ NextPath /\ UNCHANGED <<fix, files>>
  BY DEF Leave
<1>3. Settled(p) /\ step \in Working /\ p \in fix.evidence /\ cwd \in {Root} \cup fix.evidence
  BY <1>1, <1>2, HeadNow DEF UpdInv, HeadInv, Working
<1>4. CASE cwd' = Root /\ causes' = causes
  <2>1. Settled(p)'
    BY <1>2, <1>3, <1>4 DEF Settled
  <2>2. ChangesHead /\ DirectoryInv'
    BY <1>2, <1>4 DEF ChangesHead, DirectoryInv, NextPath
  <2> QED BY <1>1, <1>2, <1>3, <1>4, <2>1, <2>2, AtEnd
<1>5. CASE Blame("leave") /\ cwd' = cwd
  <2>1. causes'[p] = causes[p] \cup {"leave"}
    BY <1>1, <1>3, <1>5, Blamed
  <2>2. Settled(p)'
    BY <2>1 DEF Settled
  <2>3. ChangesHead /\ DirectoryInv'
    BY <1>2, <1>3, <1>5, <2>1 DEF ChangesHead, FailureCauses, DirectoryInv, NextPath
  <2> QED BY <1>1, <1>2, <1>3, <1>5, <2>2, <2>3, AtEnd
<1> QED BY <1>4, <1>5 DEF Leave

LEMMA FinishStep == ASSUME UpdInv, Finish PROVE UpdInv'
<1>1. /\ step = "finish" /\ UNCHANGED <<fix, queue, files, cwd, causes>>
      /\ step' = IF \E f \in fix.evidence : causes[f] # {} THEN "failed" ELSE "fixed"
  BY DEF Finish
<1>2. queue = <<>> /\ (cwd = Root \/ \E f \in fix.evidence : "leave" \in causes[f])
  BY <1>1 DEF UpdInv, QueueInv, DirectoryInv
<1>3. Targets' = Targets /\ \A f : (Untouched(f)' <=> Untouched(f)) /\ (Settled(f)' <=> Settled(f))
  BY <1>1, Kept, TargetsStay
<1>4. QueueInv'
  BY <1>1, <1>2, <1>3 DEF UpdInv, QueueInv
<1>5. UpdTypes' /\ HeadInv' /\ DirectoryInv'
  BY <1>1, <1>2 DEF UpdInv, UpdTypes, HeadInv, DirectoryInv
<1> QED BY <1>4, <1>5 DEF UpdInv

\* The queue visits every target.
LEMMA StartStep ==
  ASSUME UpdInv, \A f \in Fixes : IsFiniteSet(f.evidence), UpdateDependency
  PROVE  UpdInv'
<1>1. step = "start" /\ UNCHANGED <<fix, files, cwd, causes>>
  BY DEF UpdateDependency
<1>2. queue = <<>> /\ (cwd = Root \/ \E f \in fix.evidence : "leave" \in causes[f])
      /\ \A f \in fix.evidence : Untouched(f)
  BY <1>1 DEF UpdInv, QueueInv, DirectoryInv
<1>3. Targets' = Targets /\ \A f : (Untouched(f)' <=> Untouched(f)) /\ (Settled(f)' <=> Settled(f))
  BY <1>1, Kept, TargetsStay
<1>4. CASE step' = "unsupported" /\ queue' = queue
  BY <1>1, <1>2, <1>3, <1>4 DEF UpdInv, QueueInv, UpdTypes, HeadInv, DirectoryInv
<1>5. CASE /\ queue' \in IF fix.tech \in Pythons THEN {SetToSeq(fix.evidence)} ELSE SetToSeqs(Collected)
           /\ step' = IF queue' = <<>> THEN "failed" ELSE "descriptor"
  <2>1. Targets \subseteq fix.evidence /\ IsFiniteSet(Targets) /\ IsFiniteSet(fix.evidence)
    <3>1. Targets \subseteq fix.evidence
      BY DEF Targets, Collected
    <3>2. IsFiniteSet(fix.evidence)
      BY DEF UpdInv, UpdTypes
    <3> QED BY <3>1, <3>2, FS_Subset
  <2>2. queue' \in SetToSeqs(Targets)
    BY <1>5, <2>1, Picked DEF Targets
  <2>3. /\ queue' \in Seq(Targets) /\ queue' \in Seq(fix.evidence)
        /\ \A i, j \in 1 .. Len(queue') : i # j => queue'[i] # queue'[j]
        /\ \A f \in Targets : \E i \in 1 .. Len(queue') : queue'[i] = f
    <3>1. queue' \in Seq(Targets)
      BY <2>1, <2>2, Enumerated
    <3>2. queue' \in Seq(fix.evidence)
      BY <2>1, <3>1
    <3> QED BY <2>1, <2>2, <3>1, <3>2, Enumerated
  <2>4. step' \in {"failed", "descriptor"} /\ (step' = "failed" <=> queue' = <<>>)
    BY <1>5
  <2>5. \A i \in 1 .. Len(queue') : Untouched(queue[i])'
    <3> SUFFICES ASSUME NEW i \in 1 .. Len(queue'), NEW f, f = queue'[i] PROVE Untouched(f)'
      BY DEF Untouched
    <3>1. f \in fix.evidence
      BY <2>3
    <3> QED BY <1>2, <1>3, <3>1
  <2>6. QueueInv'
    BY <1>1, <1>2, <1>3, <2>3, <2>4, <2>5 DEF QueueInv
  <2>7. HeadInv'
    <3>1. step' = "descriptor" => Path' = queue'[1] /\ 1 \in 1 .. Len(queue')
      BY <2>3, <2>4 DEF Path
    <3>2. step' = "descriptor" => Untouched(Path)'
      BY <2>5, <3>1 DEF Untouched
    <3> QED BY <2>4, <3>2 DEF HeadInv
  <2>8. DirectoryInv'
    BY <1>1, <1>2, <2>4 DEF DirectoryInv
  <2>9. UpdTypes'
    BY <1>1, <2>3, <2>4 DEF UpdInv, UpdTypes
  <2> QED BY <2>6, <2>7, <2>8, <2>9 DEF UpdInv
<1> QED BY <1>4, <1>5 DEF UpdateDependency

LEMMA Unmoved == ASSUME UpdInv, UNCHANGED updVars PROVE UpdInv'
<1>1. UNCHANGED <<fix, queue, files, cwd, step, causes>>
  BY DEF updVars
<1>2. Targets' = Targets /\ \A f : (Untouched(f)' <=> Untouched(f)) /\ (Settled(f)' <=> Settled(f))
  BY <1>1, Kept, TargetsStay
<1>3. Path' = Path /\ Content' = Content
      /\ (Untouched(Path)' <=> Untouched(Path)) /\ (Settled(Path)' <=> Settled(Path))
  BY <1>1 DEF Path, Content, Untouched, Settled
<1>4. QueueInv'
  BY <1>1, <1>2 DEF UpdInv, QueueInv, Untouched
<1>5. HeadInv'
  BY <1>1, <1>3 DEF UpdInv, HeadInv
<1>6. UpdTypes' /\ DirectoryInv'
  BY <1>1 DEF UpdInv, UpdTypes, DirectoryInv
<1> QED BY <1>4, <1>5, <1>6 DEF UpdInv

-----------------------------------------------------------------------------
(* The theorems.                                                           *)

\* The invariant behind FixedOrUndone: targets are visited once, and each is
\* untouched, in the hands of the updater, or settled.
THEOREM UpdatersInvariant ==
  ASSUME \A f \in Fixes : IsFiniteSet(f.evidence)
  PROVE  UpdSpec => []UpdInv
<1>1. UpdInv /\ [UpdNext]_updVars => UpdInv'
  BY StartStep, DescriptorFailsStep, WriteDescriptorStep, RunPythonManagerStep, BackupStep,
     TrackedStep, EnterFailsStep, EnterStep, GoGetStep, InstallStep, VendorStep, UndoStep, LeaveStep,
     FinishStep, Unmoved DEF UpdNext
<1> QED BY <1>1, InitInv, PTL DEF UpdSpec

\* A fix without an error moved every collected descriptor, and its lock file if
\* git knows it, and came back; a descriptor whose lock file could not be made is
\* put back unless putting it back failed; other files are never touched.
THEOREM FixesAreWhole ==
  ASSUME \A f \in Fixes : IsFiniteSet(f.evidence)
  PROVE  UpdSpec => []FixedOrUndone
<1>1. UpdInv => FixedOrUndone
  <2> SUFFICES ASSUME UpdInv PROVE FixedOrUndone
    OBVIOUS
  <2>1. step \in {"fixed", "failed", "unsupported"} => queue = <<>>
    BY DEF UpdInv, QueueInv
  <2>2. step \in {"fixed", "failed"} => \A f \in Targets : Settled(f)
    BY <2>1 DEF UpdInv, QueueInv
  <2>3. step = "unsupported" => \A f \in fix.evidence : Untouched(f)
    BY DEF UpdInv, QueueInv
  <2>4. \A f \in fix.evidence \ Targets : Untouched(f)
    BY DEF UpdInv, QueueInv
  <2>5. Collected \subseteq Targets /\ Targets \subseteq fix.evidence
        /\ (fix.tech \notin Pythons => Targets = Collected)
    BY DEF Targets, Collected
  <2>6. step = "fixed" => cwd = Root /\ \A f \in fix.evidence : causes[f] = {}
    BY DEF UpdInv, DirectoryInv
  <2>7. step = "fixed" => \A f \in Collected :
           /\ files[f].descriptor = "new"
           /\ fix.tech \in Npms \cup {"go"} /\ f.tracked => files[f].lock = "new"
    BY <2>2, <2>5, <2>6 DEF Settled
  <2>8. ASSUME step \in {"fixed", "failed", "unsupported"}, fix.tech \notin Pythons, NEW f \in fix.evidence
        PROVE  /\ f \notin Collected => files[f] = [descriptor |-> "old", lock |-> "old"]
               /\ causes[f] # {} /\ causes[f] \subseteq {"read", "tool"} =>
                     /\ files[f].descriptor = "old"
                     /\ fix.tech = "go" => files[f].lock = "old"
    <3>1. f \notin Collected => files[f] = [descriptor |-> "old", lock |-> "old"]
      BY <2>4, <2>5, <2>8 DEF Untouched
    <3>2. Untouched(f) \/ Settled(f)
      BY <2>2, <2>3, <2>4, <2>8
    <3> QED BY <2>8, <3>1, <3>2 DEF Untouched, Settled
  <2> QED BY <2>6, <2>7, <2>8 DEF FixedOrUndone
<1> QED BY <1>1, UpdatersInvariant, PTL

-----------------------------------------------------------------------------
(* PolicyReport: the rows of the report.                                    *)

\* A finite sequence without its head.
LEMMA HeadFacts ==
  ASSUME NEW s, IsSequence(s), s # <<>>
  PROVE  /\ Len(s) \in Nat \ {0} /\ DOMAIN s = 1 .. Len(s) /\ Head(s) = s[1]
         /\ Len(Tail(s)) = Len(s) - 1 /\ DOMAIN Tail(s) = 1 .. Len(s) - 1
         /\ \A i \in 1 .. Len(s) - 1 : Tail(s)[i] = s[i + 1]
         /\ IsSequence(Tail(s))
<1> DEFINE S == {s[i] : i \in DOMAIN s}
<1>0. s \in Seq(S)
  BY DEF IsSequence
<1> HIDE DEF S
<1>1. Len(s) \in Nat \ {0} /\ DOMAIN s = 1 .. Len(s)
  BY <1>0, EmptySeq, LenProperties
<1>2. Head(s) = s[1] /\ Tail(s) \in Seq(S) /\ Len(Tail(s)) = Len(s) - 1
  BY <1>0, HeadTailProperties
<1>3. \A i \in 1 .. Len(Tail(s)) : Tail(s)[i] = s[i + 1]
  BY <1>0, HeadTailProperties
<1>4. DOMAIN Tail(s) = 1 .. Len(Tail(s))
  BY <1>2, LenProperties
<1> DEFINE T == Tail(s)
<1>5. T \in Seq({T[i] : i \in DOMAIN T})
  <2>1. T \in [1 .. Len(T) -> S] /\ Len(T) \in Nat
    BY <1>2, LenProperties
  <2>2. T \in [1 .. Len(T) -> {T[i] : i \in DOMAIN T}]
    BY <2>1
  <2> HIDE DEF T
  <2> QED BY <2>1, <2>2
<1> QED BY <1>1, <1>2, <1>3, <1>4, <1>5 DEF IsSequence

\* A set of positions has a last one.
LEMMA LastOf ==
  ASSUME NEW n \in Nat, NEW S \in SUBSET (1 .. n), S # {}
  PROVE  \E i \in S : \A j \in S : j <= i
<1> DEFINE T == {n - i : i \in S}
<1>1. T \subseteq Nat /\ T # {}
  <2>1. PICK i \in S : TRUE
    OBVIOUS
  <2>2. n - i \in T
    BY <2>1
  <2>3. \A j \in S : n - j \in Nat
    OBVIOUS
  <2> QED BY <2>2, <2>3
<1>2. PICK x \in T : \A y \in T : ~(<<y, x>> \in OpToRel(<, Nat))
  BY <1>1, NatLessThanWellFounded, WFMin
<1>3. PICK i \in S : x = n - i
  OBVIOUS
<1>4. \A j \in S : j <= i
  <2> SUFFICES ASSUME NEW j \in S, ~(j <= i) PROVE FALSE
    OBVIOUS
  <2>1. n - j \in T /\ n - j \in Nat /\ x \in Nat /\ n - j < x
    BY <1>3
  <2>2. <<n - j, x>> \in OpToRel(<, Nat)
    BY <2>1 DEF OpToRel
  <2> QED BY <1>2, <2>1, <2>2
<1> QED BY <1>4

LEMMA CaseShape ==
  ASSUME case = NoCase \/ case \in Cases
  PROVE  IsSequence(case.targets) /\ IsSequence(case.response) /\ case.partial \in BOOLEAN /\ IsSequence(Items)
<1>1. IsSequence(<<>>)
  BY EmptySeq DEF IsSequence
<1>2. IsSequence(case.targets) /\ IsSequence(case.response) /\ case.partial \in BOOLEAN
  <2>1. CASE case = NoCase
    BY <1>1, <2>1 DEF NoCase
  <2>2. CASE case \in Cases
    BY <2>2, PolicyAssumption
  <2> QED BY <2>1, <2>2
<1> QED BY <1>1, <1>2 DEF Items

\* What a violation of Xray becomes, by its type.
LEMMA XrayRowsAre ==
  ASSUME NEW v
  PROVE  /\ v.type \in {"sast", "exposure"} => XrayRows(v) = FindingRows(v)
         /\ v.type = "security" => XrayRows(v) = CveRows(v)
         /\ v.type \in {"license", "opRisk"} => XrayRows(v) = ComponentRows(v)
         /\ v.type \notin {"sast", "exposure", "security", "license", "opRisk"} => XrayRows(v) = {}
<1>1. CASE v.type \in {"sast", "exposure"}
  <2>1. v.type # "security" /\ v.type \notin {"license", "opRisk"}
    BY <1>1
  <2>2. XrayRows(v) = FindingRows(v)
    BY <1>1, <2>1, Zenon DEF XrayRows
  <2> QED BY <1>1, <2>1, <2>2
<1>2. CASE v.type = "security"
  <2>1. v.type \notin {"sast", "exposure"} /\ v.type \notin {"license", "opRisk"}
    BY <1>2
  <2>2. XrayRows(v) = CveRows(v)
    BY <1>2, <2>1, Zenon DEF XrayRows
  <2> QED BY <1>2, <2>1, <2>2
<1>3. CASE v.type \in {"license", "opRisk"}
  <2>1. v.type \notin {"sast", "exposure"} /\ v.type # "security"
    BY <1>3
  <2>2. XrayRows(v) = ComponentRows(v)
    BY <1>3, <2>1, Zenon DEF XrayRows
  <2> QED BY <1>3, <2>1, <2>2
<1>4. CASE v.type \notin {"sast", "exposure"} /\ v.type # "security" /\ v.type \notin {"license", "opRisk"}
  <2>1. XrayRows(v) = {}
    BY <1>4, Zenon DEF XrayRows
  <2> QED BY <1>4, <2>1
<1> QED BY <1>1, <1>2, <1>3, <1>4

\* A row is not applicable only if a target says so of its vulnerability.
LEMMA XrayRowsSay ==
  ASSUME NEW v, NEW r \in XrayRows(v), r.applicability = "notApplicable"
  PROVE  NotApplicableSomewhere(r.cve)
<1>1. CASE v.type = "security"
  <2>1. r \in CveRows(v)
    BY <1>1, XrayRowsAre
  <2>2. PICK x \in v.cves \X OrNone(Infected(v)) \X DOMAIN case.targets :
          r = Row(v, x[1], x[2], case.targets[x[3]].applicability[x[1]])
    BY <2>1 DEF CveRows
  <2>3. r.cve = x[1] /\ r.applicability = case.targets[x[3]].applicability[x[1]] /\ x[3] \in DOMAIN case.targets
    BY <2>2 DEF Row
  <2> QED BY <2>3 DEF NotApplicableSomewhere
<1>2. CASE v.type # "security"
  <2>1. r \in FindingRows(v) \/ r \in ComponentRows(v)
    BY <1>2, XrayRowsAre
  <2>2. r.applicability = "none"
    BY <2>1 DEF FindingRows, ComponentRows, Row
  <2> QED BY <2>2
<1> QED BY <1>1, <1>2

LEMMA LocalRowsSay ==
  ASSUME NEW i \in DOMAIN case.targets, NEW v, NEW r \in LocalRows(case.targets[i], v),
         r.applicability = "notApplicable"
  PROVE  NotApplicableSomewhere(r.cve)
<1> DEFINE t == case.targets[i]
           security == {Row(v, x[1], x[2], IF x[1] = NoOne THEN "none" ELSE t.applicability[x[1]]) :
                          x \in OrNone(v.cves) \X OrNone(v.comps)}
<1>1. \/ r \in security
      \/ \E C : r \in {Row(v, NoOne, c, "none") : c \in C}
  <2>1. CASE v.sound /\ v.type = "security"
    <3>1. v.type # "license" /\ v.type # "opRisk"
      BY <2>1
    <3>2. LocalRows(t, v) = security
      BY <2>1, <3>1, Zenon DEF LocalRows
    <3> QED BY <3>2
  <2>2. CASE v.sound /\ v.type = "license"
    <3>1. v.type # "security" /\ v.type # "opRisk"
      BY <2>2
    <3>2. LocalRows(t, v) = {Row(v, NoOne, c, "none") : c \in IF v.comps = {} THEN {NoOne} ELSE v.comps \ {"root"}}
      BY <2>2, <3>1, Zenon DEF LocalRows
    <3> QED BY <3>2
  <2>3. CASE v.sound /\ v.type = "opRisk"
    <3>1. v.type # "security" /\ v.type # "license"
      BY <2>3
    <3>2. LocalRows(t, v) = {Row(v, NoOne, c, "none") : c \in OrNone(v.comps)}
      BY <2>3, <3>1, Zenon DEF LocalRows
    <3> QED BY <3>2
  <2>4. CASE ~(v.sound /\ v.type = "security") /\ ~(v.sound /\ v.type = "license") /\ ~(v.sound /\ v.type = "opRisk")
    <3>1. LocalRows(t, v) = {}
      BY <2>4, Zenon DEF LocalRows
    <3> QED BY <3>1
  <2> QED BY <2>1, <2>2, <2>3, <2>4
<1>2. CASE r \in security
  <2>1. PICK x \in OrNone(v.cves) \X OrNone(v.comps) :
          r = Row(v, x[1], x[2], IF x[1] = NoOne THEN "none" ELSE t.applicability[x[1]])
    BY <1>2
  <2>2. r.cve = x[1] /\ r.applicability = t.applicability[x[1]]
    BY <2>1 DEF Row
  <2> QED BY <2>2 DEF NotApplicableSomewhere
<1>3. CASE \E C : r \in {Row(v, NoOne, c, "none") : c \in C}
  BY <1>3 DEF Row
<1> QED BY <1>1, <1>2, <1>3

\* The other rows of a target have no applicability.
LEMMA OtherRowsSay ==
  ASSUME NEW t, NEW rows, NEW r \in Unlicensed(t, rows) \cup FindingsRows(t)
  PROVE  r.applicability = "none"
BY DEF Unlicensed, FindingsRows, Row

\* The rows follow from the case: they are the same while it is.
LEMMA SameRows ==
  ASSUME case' = case
  PROVE  /\ Items' = Items
         /\ \A v : XrayRows(v)' = XrayRows(v)
         /\ \A cve : NotApplicableSomewhere(cve)' <=> NotApplicableSomewhere(cve)
<1>1. Items' = Items
  BY DEF Items
<1>2. ASSUME NEW v PROVE XrayRows(v)' = XrayRows(v)
  <2>1. Infected(v)' = Infected(v)
    BY DEF Infected, Listed
  <2>2. CveRows(v)' = CveRows(v)
    BY <2>1 DEF CveRows, Located, About, LastToList, Listing
  <2>3. ComponentRows(v)' = ComponentRows(v) /\ FindingRows(v)' = FindingRows(v)
    BY <2>1 DEF ComponentRows, FindingRows
  <2> QED BY <2>2, <2>3, Zenon DEF XrayRows
<1>3. ASSUME NEW cve PROVE NotApplicableSomewhere(cve)' <=> NotApplicableSomewhere(cve)
  BY DEF NotApplicableSomewhere
<1> QED BY <1>1, <1>2, <1>3

-----------------------------------------------------------------------------
(* PolicyReport: its invariant.                                             *)

LEMMA PolicyInvInit == PolicyInit => PolicyInv
<1> SUFFICES ASSUME PolicyInit PROVE PolicyInv
  OBVIOUS
<1>1. IsSequence(<<>>)
  BY EmptySeq DEF IsSequence
<1>2. PolicyTypeOK
  <2>1. xray = [overall |-> "", violations |-> ""]
    BY DEF PolicyInit
  <2>2. DOMAIN xray = {"overall", "violations"} /\ xray.overall = "" /\ xray.violations = ""
    BY <2>1
  <2>3. xray = [x \in {"overall", "violations"} |-> xray[x]]
    BY <2>1, Zenon
  <2>4. xray \in [{"overall", "violations"} -> Statuses]
    BY <2>2, <2>3 DEF Statuses
  <2> QED BY <1>1, <2>4 DEF PolicyInit, PolicyTypeOK
<1>3. ReadInv /\ ItemsInv /\ RowsInv /\ VerdictInv
  BY DEF PolicyInit, ReadInv, ItemsInv, RowsInv, VerdictInv
<1> QED BY <1>2, <1>3 DEF PolicyInv

\* A step that keeps the case and the remaining items keeps how far it is.
LEMMA SameItems ==
  ASSUME case' = case, remaining' = remaining
  PROVE  Dealt' = Dealt
BY SameRows DEF Dealt

\* A command begins.
LEMMA BeginKeeps ==
  ASSUME PolicyInv, NEW c \in Cases, BeginProcessing(c)
  PROVE  PolicyInv'
BY DEF PolicyInv, BeginProcessing, PolicyTypeOK, ReadInv, ItemsInv, RowsInv, VerdictInv

\* A step of Xray: what is final stays so.
LEMMA XrayKeeps ==
  ASSUME PolicyInv, NEW p \in {"overall", "violations"}, XrayMoves(p)
  PROVE  PolicyInv'
<1> USE DEF PolicyInv
<1>1. UNCHANGED <<case, moment, remaining, report, genErr, errors, status, dropped, verdict>>
      /\ ~IsScanCompleted(xray[p])
  BY DEF XrayMoves
<1>2. PICK s \in {"pending", "inProgress", "done", "partial"} : xray' = [xray EXCEPT ![p] = s]
  BY DEF XrayMoves
<1>3. PolicyTypeOK'
  BY <1>1, <1>2 DEF PolicyTypeOK, Statuses
<1>4. ReadInv'
  BY <1>1, <1>2 DEF ReadInv, PolicyTypeOK
<1>5. ItemsInv'
  BY <1>1, SameRows, SameItems DEF ItemsInv
<1>6. RowsInv'
  BY <1>1, SameRows DEF RowsInv, Skippable, ShouldSkipNotApplicable
<1>7. VerdictInv'
  BY <1>1 DEF VerdictInv, FailsBuild, ShouldFailBuild
<1> QED BY <1>3, <1>4, <1>5, <1>6, <1>7

\* The results are uploaded: all the items are left.
LEMMA UploadKeeps ==
  ASSUME PolicyInv, Upload
  PROVE  PolicyInv'
<1> USE DEF PolicyInv
<1>1. /\ moment = "upload" /\ remaining' = Items
      /\ UNCHANGED <<case, xray, report, genErr, errors, status, dropped, verdict>>
      /\ moment' = IF case.upload /\ case.git THEN "route" ELSE AfterUpload
  BY DEF Upload
<1>2. moment' \in {"route", "wait", "convert", "verdict"}
  BY <1>1 DEF AfterUpload
<1>3. IsSequence(Items) /\ Items' = Items
  BY <1>1, CaseShape, SameRows DEF PolicyTypeOK
<1>4. Len(Items) \in Nat /\ DOMAIN Items = 1 .. Len(Items)
  BY <1>3, LenProperties DEF IsSequence
<1>5. PolicyTypeOK'
  BY <1>1, <1>2, <1>3 DEF PolicyTypeOK
<1>6. ReadInv'
  BY <1>1, <1>2 DEF ReadInv, AfterUpload
<1>7. ItemsInv'
  <2>1. Dealt' = 0
    BY <1>1, <1>3, <1>4 DEF Dealt
  <2>2. status' = "none"
    BY <1>1 DEF VerdictInv
  <2>3. moment' \in {"wait", "convert"} => case'.context
    BY <1>1 DEF AfterUpload
  <2>4. \A i \in DOMAIN remaining' : remaining'[i] = Items'[Dealt' + i]
    BY <2>1, <1>1, <1>3, <1>4
  <2> QED BY <2>1, <2>2, <2>3, <2>4, <1>1, <1>2, <1>3, <1>4 DEF ItemsInv
<1>8. RowsInv'
  BY <1>1, <1>2, SameRows DEF RowsInv, Skippable, ShouldSkipNotApplicable
<1>9. VerdictInv'
  BY <1>1, <1>2 DEF VerdictInv, AfterUpload, FailsBuild, ShouldFailBuild
<1> QED BY <1>5, <1>6, <1>7, <1>8, <1>9

\* Nothing is uploaded: the violations are not read.
LEMMA UploadFailsKeeps ==
  ASSUME PolicyInv, UploadFails
  PROVE  PolicyInv'
<1> USE DEF PolicyInv
<1>1. /\ moment = "upload" /\ moment' = "verdict" /\ errors' = errors \cup {<<"upload", FALSE>>}
      /\ UNCHANGED <<case, xray, remaining, report, genErr, status, dropped, verdict>>
  BY DEF UploadFails
<1>2. PolicyTypeOK' /\ ReadInv'
  BY <1>1 DEF PolicyTypeOK, ReadInv
<1>3. ItemsInv'
  BY <1>1 DEF ItemsInv, VerdictInv
<1>4. RowsInv'
  BY <1>1, SameRows DEF RowsInv, Skippable, ShouldSkipNotApplicable
<1>5. VerdictInv'
  BY <1>1 DEF VerdictInv
<1> QED BY <1>2, <1>3, <1>4, <1>5

\* The steps that wait for Xray, or give up.
LEMMA WaitingKeeps ==
  ASSUME PolicyInv, RouteKnown \/ WaitEnds \/ FetchViolations
  PROVE  PolicyInv'
<1> USE DEF PolicyInv
<1>1. /\ \/ moment = "route" /\ moment' = AfterUpload
         \/ moment = "wait" /\ moment' = "fetch" /\ Arrived
         \/ moment = "fetch" /\ moment' = "convert"
      /\ UNCHANGED <<case, xray, remaining, report, genErr, errors, status, dropped, verdict>>
  BY DEF RouteKnown, WaitEnds, FetchViolations
<1>2. moment' \in {"wait", "fetch", "convert", "verdict"}
  BY <1>1 DEF AfterUpload
<1>3. PolicyTypeOK'
  BY <1>1, <1>2 DEF PolicyTypeOK
<1>4. ReadInv'
  BY <1>1, <1>2 DEF ReadInv, AfterUpload, Arrived
<1>5. ItemsInv'
  <2>1. status' = "none"
    BY <1>1 DEF VerdictInv
  <2>2. moment' \in {"wait", "fetch", "convert"} => case'.context
    BY <1>1 DEF AfterUpload, ItemsInv
  <2> QED BY <2>1, <2>2, <1>1, <1>2, SameRows, SameItems DEF ItemsInv
<1>6. RowsInv'
  BY <1>1, <1>2, SameRows DEF RowsInv, Skippable, ShouldSkipNotApplicable
<1>7. VerdictInv'
  BY <1>1, <1>2 DEF VerdictInv, AfterUpload, FailsBuild, ShouldFailBuild
<1> QED BY <1>3, <1>4, <1>5, <1>6, <1>7

LEMMA GenerateFailsKeeps ==
  ASSUME PolicyInv, GenerateFails
  PROVE  PolicyInv'
<1> USE DEF PolicyInv
<1>1. /\ moment \in {"wait", "fetch"} /\ moment' = "enrich" /\ genErr' = TRUE /\ remaining' = <<>>
      /\ UNCHANGED <<case, xray, report, errors, status, dropped, verdict>>
  BY DEF GenerateFails
<1>2. IsSequence(<<>>)
  BY EmptySeq DEF IsSequence
<1>3. PolicyTypeOK' /\ ReadInv'
  BY <1>1, <1>2 DEF PolicyTypeOK, ReadInv
<1>4. ItemsInv'
  BY <1>1 DEF ItemsInv
<1>5. RowsInv'
  BY <1>1, SameRows DEF RowsInv, Skippable, ShouldSkipNotApplicable
<1>6. VerdictInv'
  BY <1>1 DEF VerdictInv, FailsBuild, ShouldFailBuild
<1> QED BY <1>3, <1>4, <1>5, <1>6

\* The next item is the one after those that have been dealt with.
LEMMA NextItem ==
  ASSUME PolicyInv, moment = "convert", remaining # <<>>, case' = case, remaining' = Tail(remaining)
  PROVE  /\ Head(remaining) = Items[Dealt + 1] /\ Dealt + 1 \in DOMAIN Items
         /\ IsSequence(remaining') /\ Items' = Items /\ Dealt' = Dealt + 1 /\ Dealt \in Nat
         /\ Len(remaining') <= Len(Items)
         /\ \A i \in DOMAIN remaining' : remaining'[i] = Items[Dealt + 1 + i]
<1>1. IsSequence(remaining) /\ IsSequence(Items)
  BY CaseShape DEF PolicyInv, PolicyTypeOK
<1>2. Len(Items) \in Nat /\ DOMAIN Items = 1 .. Len(Items)
  BY <1>1, LenProperties DEF IsSequence
<1>3. /\ Len(remaining) \in Nat \ {0} /\ DOMAIN remaining = 1 .. Len(remaining) /\ Head(remaining) = remaining[1]
      /\ Len(Tail(remaining)) = Len(remaining) - 1 /\ DOMAIN Tail(remaining) = 1 .. Len(remaining) - 1
      /\ \A i \in 1 .. Len(remaining) - 1 : Tail(remaining)[i] = remaining[i + 1]
      /\ IsSequence(Tail(remaining))
  BY <1>1, HeadFacts
<1>4. Len(remaining) <= Len(Items) /\ \A i \in DOMAIN remaining : remaining[i] = Items[Dealt + i]
  BY DEF PolicyInv, ItemsInv
<1>5. Items' = Items
  BY SameRows
<1>6. Dealt \in Nat /\ Dealt + 1 \in 1 .. Len(Items) /\ Dealt' = Dealt + 1
  BY <1>2, <1>3, <1>4, <1>5 DEF Dealt
<1>7. Head(remaining) = Items[Dealt + 1]
  BY <1>3, <1>4
<1>8. ASSUME NEW i \in DOMAIN remaining' PROVE remaining'[i] = Items[Dealt + 1 + i]
  <2>1. i \in 1 .. Len(remaining) - 1 /\ i + 1 \in DOMAIN remaining /\ remaining'[i] = remaining[i + 1]
    BY <1>3
  <2>2. remaining[i + 1] = Items[Dealt + (i + 1)]
    BY <1>4, <2>1
  <2>3. Dealt + (i + 1) = Dealt + 1 + i
    BY <1>6, <2>1
  <2> QED BY <2>1, <2>2, <2>3
<1> QED BY <1>2, <1>3, <1>4, <1>5, <1>6, <1>7, <1>8

\* A violation of Xray is converted.
LEMMA ConvertXrayKeeps ==
  ASSUME PolicyInv, ConvertXray
  PROVE  PolicyInv'
<1> USE DEF PolicyInv
<1>1. /\ moment = "convert" /\ case.enforcer /\ remaining # <<>> /\ remaining' = Tail(remaining)
      /\ report' = report \cup XrayRows(Head(remaining))
      /\ genErr' = (genErr \/ Head(remaining).type = "unknown")
      /\ UNCHANGED <<case, xray, moment, errors, status, dropped, verdict>>
  BY DEF ConvertXray
<1>2. /\ Head(remaining) = Items[Dealt + 1] /\ Dealt + 1 \in DOMAIN Items
      /\ IsSequence(remaining') /\ Items' = Items /\ Dealt' = Dealt + 1 /\ Dealt \in Nat
      /\ Len(remaining') <= Len(Items)
      /\ \A i \in DOMAIN remaining' : remaining'[i] = Items[Dealt + 1 + i]
  BY <1>1, NextItem
<1>3. genErr' \in BOOLEAN /\ (genErr => genErr')
  BY <1>1 DEF PolicyTypeOK
<1>4. PolicyTypeOK'
  BY <1>1, <1>2, <1>3 DEF PolicyTypeOK
<1>5. ReadInv'
  BY <1>1, <1>3 DEF ReadInv
<1>6. ItemsInv'
  <2>1. case'.context
    BY <1>1 DEF ItemsInv
  <2>2. \A i \in DOMAIN remaining' : remaining'[i] = Items'[Dealt' + i]
    BY <1>2
  <2>3. ASSUME NEW i \in 1 .. Dealt' PROVE XrayRows(Items[i])' \subseteq report'
    <3>1. XrayRows(Items[i])' = XrayRows(Items[i])
      BY <1>1, SameRows
    <3>2. CASE i = Dealt + 1
      BY <3>1, <3>2, <1>1, <1>2
    <3>3. CASE i # Dealt + 1
      <4>1. i \in 1 .. Dealt
        BY <3>3, <1>2
      <4> QED BY <4>1, <3>1, <1>1, <1>2 DEF ItemsInv
    <3> QED BY <3>2, <3>3
  <2> QED BY <2>1, <2>2, <2>3, <1>1, <1>2 DEF ItemsInv
<1>7. RowsInv'
  <2>1. ASSUME NEW r \in report' \cup dropped', r.applicability = "notApplicable"
        PROVE  NotApplicableSomewhere(r.cve)'
    <3>1. NotApplicableSomewhere(r.cve)
      BY <1>1, <2>1, XrayRowsSay DEF RowsInv
    <3> QED BY <3>1, <1>1, SameRows
  <2> QED BY <2>1, <1>1 DEF RowsInv, Skippable, ShouldSkipNotApplicable
<1>8. VerdictInv'
  BY <1>1 DEF VerdictInv
<1> QED BY <1>4, <1>5, <1>6, <1>7, <1>8

\* The violations of a target are converted.
LEMMA ConvertTargetKeeps ==
  ASSUME PolicyInv, ConvertTarget
  PROVE  PolicyInv'
<1> USE DEF PolicyInv
<1> DEFINE t == Head(remaining)
           rows == report \cup UNION {LocalRows(t, v) : v \in t.sca}
<1>1. /\ moment = "convert" /\ ~case.enforcer /\ remaining # <<>> /\ remaining' = Tail(remaining)
      /\ report' = rows \cup Unlicensed(t, rows) \cup FindingsRows(t)
      /\ genErr' = (genErr \/ \E v \in t.sca : ~v.sound)
      /\ UNCHANGED <<case, xray, moment, errors, status, dropped, verdict>>
  BY DEF ConvertTarget
<1>2. /\ t = Items[Dealt + 1] /\ Dealt + 1 \in DOMAIN Items
      /\ IsSequence(remaining') /\ Items' = Items /\ Dealt' = Dealt + 1 /\ Dealt \in Nat
      /\ Len(remaining') <= Len(Items)
      /\ \A i \in DOMAIN remaining' : remaining'[i] = Items[Dealt + 1 + i]
  BY <1>1, NextItem
<1>3. genErr' \in BOOLEAN
  BY <1>1 DEF PolicyTypeOK
<1>4. PolicyTypeOK'
  BY <1>1, <1>2, <1>3 DEF PolicyTypeOK
<1>5. ReadInv'
  BY <1>1 DEF ReadInv
<1>6. case.context
  BY <1>1 DEF ItemsInv
<1>7. ItemsInv'
  <2>1. \A i \in DOMAIN remaining' : remaining'[i] = Items'[Dealt' + i]
    BY <1>2
  <2> QED BY <2>1, <1>1, <1>2, <1>6 DEF ItemsInv
<1>8. RowsInv'
  <2>1. ASSUME NEW r \in report' \cup dropped', r.applicability = "notApplicable"
        PROVE  NotApplicableSomewhere(r.cve)'
    <3>1. PICK i \in DOMAIN case.targets : t = case.targets[i]
      BY <1>1, <1>2, <1>6 DEF Items
    <3>2. NotApplicableSomewhere(r.cve)
      <4>1. CASE r \in report \cup dropped
        BY <4>1, <2>1 DEF RowsInv
      <4>2. CASE r \in Unlicensed(t, rows) \cup FindingsRows(t)
        BY <4>2, <2>1, OtherRowsSay
      <4>3. CASE \E v \in t.sca : r \in LocalRows(t, v)
        BY <3>1, <4>3, <2>1, LocalRowsSay
      <4> QED BY <4>1, <4>2, <4>3, <2>1, <1>1
    <3> QED BY <3>2, <1>1, SameRows
  <2> QED BY <2>1, <1>1 DEF RowsInv, Skippable, ShouldSkipNotApplicable
<1>9. VerdictInv'
  BY <1>1 DEF VerdictInv
<1> QED BY <1>4, <1>5, <1>7, <1>8, <1>9

\* All the items are converted: what they say is reported.
LEMMA ConvertedKeeps ==
  ASSUME PolicyInv, Converted
  PROVE  PolicyInv'
<1> USE DEF PolicyInv
<1>1. /\ moment = "convert" /\ remaining = <<>> /\ moment' = "enrich"
      /\ UNCHANGED <<case, xray, remaining, report, genErr, errors, status, dropped, verdict>>
  BY DEF Converted
<1>2. PolicyTypeOK' /\ ReadInv'
  BY <1>1 DEF PolicyTypeOK, ReadInv
<1>3. ItemsInv'
  <2>1. IsSequence(case.response) /\ case.context
    BY <1>1, CaseShape DEF PolicyTypeOK, ItemsInv
  <2>2. Len(case.response) \in Nat /\ DOMAIN case.response = 1 .. Len(case.response)
    BY <2>1, LenProperties DEF IsSequence
  <2>3. ASSUME case.enforcer, case.repo, NEW i \in DOMAIN case.response
        PROVE  XrayRows(case.response[i])' \subseteq report' \cup dropped'
    <3>1. Items = case.response
      BY <2>1, <2>3 DEF Items
    <3>2. Dealt = Len(case.response)
      BY <1>1, <2>2, <3>1 DEF Dealt
    <3>3. XrayRows(case.response[i]) \subseteq report
      BY <1>1, <2>2, <2>3, <3>1, <3>2 DEF ItemsInv
    <3> QED BY <3>3, <1>1, SameRows
  <2> QED BY <2>1, <2>3, <1>1 DEF ItemsInv
<1>4. RowsInv'
  BY <1>1, SameRows DEF RowsInv, Skippable, ShouldSkipNotApplicable
<1>5. VerdictInv'
  BY <1>1 DEF VerdictInv
<1> QED BY <1>2, <1>3, <1>4, <1>5

\* The rows that may be skipped are dropped.
LEMMA EnrichKeeps ==
  ASSUME PolicyInv, Enrich
  PROVE  PolicyInv'
<1> USE DEF PolicyInv
<1>1. /\ moment = "enrich" /\ moment' = "verdict"
      /\ report' = report \ NotApplicableRows(report) /\ dropped' = NotApplicableRows(report)
      /\ status' = (IF genErr THEN "failed" ELSE "ok")
      /\ errors' = IF genErr THEN errors \cup {<<"violations", case.partial>>} ELSE errors
      /\ UNCHANGED <<case, xray, remaining, genErr, verdict>>
  BY DEF Enrich
<1>2. report' \cup dropped' = report /\ dropped = {}
  BY <1>1 DEF NotApplicableRows, VerdictInv
<1>3. PolicyTypeOK' /\ ReadInv'
  BY <1>1 DEF PolicyTypeOK, ReadInv
<1>4. ItemsInv'
  BY <1>1, <1>2, SameRows DEF ItemsInv
<1>5. RowsInv'
  <2>1. \A r \in report' \cup dropped' : r.applicability = "notApplicable" => NotApplicableSomewhere(r.cve)'
    BY <1>1, <1>2, SameRows DEF RowsInv
  <2>2. \A r \in dropped' : r.type = "security" /\ Skippable(r)
    BY <1>1 DEF NotApplicableRows
  <2> QED BY <2>1, <2>2, <1>1 DEF RowsInv, Skippable, ShouldSkipNotApplicable
<1>6. VerdictInv'
  BY <1>1 DEF VerdictInv
<1> QED BY <1>3, <1>4, <1>5, <1>6

\* The command ends.
LEMMA ConcludeKeeps ==
  ASSUME PolicyInv, Conclude
  PROVE  PolicyInv'
<1> USE DEF PolicyInv
<1>1. /\ moment = "verdict" /\ moment' = "done"
      /\ verdict' = IF \E e \in errors : ~e[2] THEN "error"
                    ELSE IF case.fail /\ FailsBuild THEN "failBuild" ELSE "ok"
      /\ UNCHANGED <<case, xray, remaining, report, genErr, errors, status, dropped>>
  BY DEF Conclude
<1>2. PolicyTypeOK' /\ ReadInv'
  BY <1>1 DEF PolicyTypeOK, ReadInv
<1>3. ItemsInv'
  BY <1>1, SameRows DEF ItemsInv
<1>4. RowsInv'
  BY <1>1, SameRows DEF RowsInv, Skippable, ShouldSkipNotApplicable
<1>5. verdict' = "ok" => (\A e \in errors : e[2]) /\ ~(case.fail /\ FailsBuild)
  BY <1>1, Zenon
<1>6. FailsBuild' <=> FailsBuild
  BY <1>1 DEF FailsBuild, ShouldFailBuild
<1>7. VerdictInv'
  BY <1>1, <1>5, <1>6 DEF VerdictInv
<1> QED BY <1>2, <1>3, <1>4, <1>7

LEMMA PolicyStutters ==
  ASSUME PolicyInv, UNCHANGED prVars
  PROVE  PolicyInv'
<1> USE DEF PolicyInv, prVars
<1>1. PolicyTypeOK' /\ ReadInv'
  BY DEF PolicyTypeOK, ReadInv
<1>2. ItemsInv'
  BY SameRows, SameItems DEF ItemsInv
<1>3. RowsInv'
  BY SameRows DEF RowsInv, Skippable, ShouldSkipNotApplicable
<1>4. VerdictInv'
  BY DEF VerdictInv, FailsBuild, ShouldFailBuild
<1> QED BY <1>1, <1>2, <1>3, <1>4

LEMMA PolicyStep == PolicyInv /\ [PolicyNext]_prVars => PolicyInv'
<1> SUFFICES ASSUME PolicyInv, [PolicyNext]_prVars PROVE PolicyInv'
  OBVIOUS
<1>1. CASE UNCHANGED prVars
  BY <1>1, PolicyStutters
<1>2. CASE PolicyNext
  BY <1>2, BeginKeeps, XrayKeeps, UploadKeeps, UploadFailsKeeps, WaitingKeeps, GenerateFailsKeeps,
     ConvertXrayKeeps, ConvertTargetKeeps, ConvertedKeeps, EnrichKeeps, ConcludeKeeps DEF PolicyNext
<1> QED BY <1>1, <1>2

\* The items that were dealt with are in the report, what is dropped may be
\* skipped, and the status and the errors tell why violations are missing: in
\* every state of the command, whatever the targets and the response are.
THEOREM PolicyInvariant == PolicySpec => []PolicyInv
BY PolicyInvInit, PolicyStep, PTL DEF PolicySpec

\* A violation of Xray that concerns something that was found has its row.
LEMMA ToldByRows ==
  ASSUME case = NoCase \/ case \in Cases, NEW v, XrayRows(v) \subseteq report \cup dropped
  PROVE  /\ v.type \in {"license", "opRisk"} => \A c \in OrNone(Infected(v)) : Told(v, NoOne, c)
         /\ v.type = "security" => \A cve \in v.cves, c \in Infected(v) : Located(cve, c) => Told(v, cve, c)
<1>1. ASSUME v.type \in {"license", "opRisk"}, NEW c \in OrNone(Infected(v))
      PROVE  Told(v, NoOne, c)
  <2>1. Row(v, NoOne, c, "none") \in report \cup dropped
    BY <1>1, XrayRowsAre DEF ComponentRows
  <2> QED BY <2>1 DEF Told, Row
<1>2. ASSUME v.type = "security", NEW cve \in v.cves, NEW c \in Infected(v), Located(cve, c)
      PROVE  Told(v, cve, c)
  <2>1. IsSequence(case.targets)
    BY CaseShape
  <2>2. Len(case.targets) \in Nat /\ DOMAIN case.targets = 1 .. Len(case.targets)
    BY <2>1, LenProperties DEF IsSequence
  <2>3. Listing(cve) \in SUBSET (1 .. Len(case.targets)) /\ Listing(cve) # {}
    BY <1>2, <2>2 DEF Located, Listing
  <2>4. PICK i \in Listing(cve) : LastToList(i, cve)
    BY <2>2, <2>3, LastOf DEF LastToList
  <2>5. i \in DOMAIN case.targets /\ c \in OrNone(Infected(v))
    BY <2>4 DEF Listing, OrNone
  <2> DEFINE x == <<cve, c, i>>
             r == Row(v, cve, c, case.targets[i].applicability[cve])
  <2>6. x \in {y \in v.cves \X OrNone(Infected(v)) \X DOMAIN case.targets :
                 Located(y[1], y[2]) /\ LastToList(y[3], y[1])}
    BY <1>2, <2>4, <2>5
  <2>7. r \in CveRows(v)
    BY <2>6 DEF CveRows
  <2>8. r \in report \cup dropped
    BY <1>2, <2>7, XrayRowsAre
  <2>9. r.id = v.id /\ r.cve = cve /\ r.comp = c
    BY DEF Row
  <2> QED BY <2>8, <2>9 DEF Told
<1> QED BY <1>1, <1>2

\* The report is faithful: Xray's violations are read when they are final,
\* those that concern something the scans found are reported or dropped because
\* a target says that they do not apply and all their policies skip that, what
\* is dropped would not have failed the build, and a command ends well only if
\* nothing it knows fails the build or the user accepts partial results.
THEOREM ViolationsAreReported == PolicySpec => []ReportFaithful
<1>1. PolicyInv => ReportFaithful
  <2> SUFFICES ASSUME PolicyInv PROVE ReportFaithful
    OBVIOUS
  <2> USE DEF PolicyInv
  <2>1. ReadWhenFinal
    BY DEF ReadWhenFinal, ReadInv
  <2>2. NothingDropped
    BY ToldByRows DEF NothingDropped, ItemsInv, PolicyTypeOK
  <2>3. DroppedForAReason
    BY DEF DroppedForAReason, RowsInv, Skippable, ShouldSkipNotApplicable
  <2>4. FilterNeverDecides
    BY DEF FilterNeverDecides, ShouldFailBuild, RowsInv, Skippable, ShouldSkipNotApplicable
  <2>5. SuccessIsDeserved
    <3> SUFFICES ASSUME verdict = "ok", case.fail, case.context
                 PROVE  \/ status = "failed" /\ case.partial
                        \/ \A r \in report \cup dropped : ~ShouldFailBuild(r)
      BY DEF SuccessIsDeserved
    <3>1. moment = "done" /\ (\A e \in errors : e[2]) /\ ~FailsBuild
      BY DEF VerdictInv
    <3>2. CASE status = "none"
      <4>1. <<"upload", FALSE>> \in errors
        BY <3>1, <3>2 DEF VerdictInv
      <4> QED BY <3>1, <4>1
    <3>3. CASE status = "failed"
      <4>1. <<"violations", case.partial>> \in errors
        BY <3>1, <3>3 DEF VerdictInv
      <4>2. <<"violations", case.partial>>[2]
        BY <3>1, <4>1
      <4> QED BY <3>3, <4>2
    <3>4. CASE status = "ok"
      BY <2>4, <3>1, <3>4 DEF FailsBuild, FilterNeverDecides
    <3> QED BY <3>2, <3>3, <3>4 DEF PolicyTypeOK
  <2> QED BY <2>1, <2>2, <2>3, <2>4, <2>5 DEF ReportFaithful
<1> QED BY <1>1, PolicyInvariant, PTL

=============================================================================
