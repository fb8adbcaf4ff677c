------------------------ MODULE CurationAudit_proofs ------------------------
(***************************************************************************)
(* Proofs about CurationAudit, for any number of working directories, any  *)
(* lists of technologies and any names of reports, about CurationFallback, *)
(* for any packages, log entries and pins, and about TechDetection, for    *)
(* any trees of directories.                                               *)
(***************************************************************************)
EXTENDS CurationAudit, CurationFallback, TechDetection, FiniteSetTheorems,
        SequenceTheorems, WellFoundedInduction, TLAPS

-----------------------------------------------------------------------------
(* The key of a report.                                                    *)

\* A set of numbers that is not empty has a least one.
LEMMA LeastNumber ==
    ASSUME NEW S \in SUBSET Nat, S # {}
    PROVE  \E i \in S : \A j \in S : ~(j < i)
<1> DEFINE R == OpToRel(<, Nat)
<1>1. PICK i \in S : \A j \in S : ~(<<j, i>> \in R)
  BY NatLessThanWellFounded, WFMin
<1>2. \A j \in S : <<j, i>> \in R <=> j < i
  BY DEF OpToRel
<1> QED BY <1>1, <1>2

\* uniqueReportKey: among one number more than there are reports, one is free.
LEMMA NumberFree ==
    ASSUME ReportsInv, stored \in Nat, NEW key, NEW tech
    PROVE  \E i \in 2 .. (stored + 2) : Free(<<key, tech, i>>)
<1> SUFFICES ASSUME \A i \in 2 .. (stored + 2) : <<key, tech, i>> \in DOMAIN results
             PROVE  FALSE
  BY DEF Free
<1> DEFINE I == 2 .. (stored + 2)
           f == [i \in I |-> <<key, tech, i>>]
<1>1. f \in [I -> DOMAIN results]
  OBVIOUS
<1>2. \A i, j \in I : f[i] = f[j] => i = j
  OBVIOUS
<1>3. f \in Injection(I, DOMAIN results)
  BY <1>1, <1>2 DEF Injection, IsInjective
<1>4. Cardinality(I) <= Cardinality(DOMAIN results)
  BY <1>3, FS_Injection DEF ReportsInv
<1>5. Cardinality(I) = stored + 1
  <2>1. 2 \in Int /\ stored + 2 \in Int /\ ~(2 > stored + 2) /\ (stored + 2) - 2 + 1 = stored + 1
    OBVIOUS
  <2> QED BY <2>1, FS_Interval
<1> QED BY <1>4, <1>5 DEF ReportsInv, NoReportLost

\* The key that a report is stored under is nobody else's.
LEMMA KeyFresh ==
    ASSUME ReportsInv, stored \in Nat, NEW key, NEW tech
    PROVE  UniqueKey(key, tech) \notin DOMAIN results
<1>1. CASE Free(<<key>>) \/ Free(<<key, tech>>)
  BY <1>1 DEF UniqueKey, Free
<1>2. CASE ~Free(<<key>>) /\ ~Free(<<key, tech>>)
  <2> DEFINE S == {i \in 2 .. (stored + 2) : Free(<<key, tech, i>>)}
             Least(i) == Free(<<key, tech, i>>) /\ \A j \in 2 .. (i - 1) : ~Free(<<key, tech, j>>)
             n == CHOOSE i \in 2 .. (stored + 2) : Least(i)
  <2>1. PICK i \in S : \A j \in S : ~(j < i)
    <3>1. S \in SUBSET Nat /\ S # {}
      BY NumberFree
    <3> HIDE DEF S
    <3> QED BY <3>1, LeastNumber
  <2>2. \A j \in 2 .. (i - 1) : ~Free(<<key, tech, j>>)
    BY <2>1
  <2>3. Least(n)
    BY <2>1, <2>2
  <2>4. UniqueKey(key, tech) = <<key, tech, n>>
    BY <1>2 DEF UniqueKey
  <2> HIDE DEF n
  <2> QED BY <2>3, <2>4 DEF Free
<1> QED BY <1>1, <1>2

\* Storing a report keeps the others.
LEMMA ReportAdded ==
    ASSUME ReportsInv, stored \in Nat, NEW key, NEW r, AddReport(key, r)
    PROVE  /\ ReportsInv' /\ stored' \in Nat
           /\ DOMAIN results \subseteq DOMAIN results'
<1> DEFINE k == UniqueKey(key, Tech)
<1>1. k \notin DOMAIN results
  BY KeyFresh
<1>2. DOMAIN results' = DOMAIN results \cup {k}
  BY DEF AddReport
<1>3. stored' = stored + 1
  BY DEF AddReport
<1> HIDE DEF k
<1>4. /\ IsFiniteSet(DOMAIN results \cup {k})
      /\ Cardinality(DOMAIN results \cup {k}) = stored + 1
  BY <1>1, FS_AddElement DEF ReportsInv, NoReportLost
<1> QED BY <1>2, <1>3, <1>4 DEF ReportsInv, NoReportLost

-----------------------------------------------------------------------------
(* The invariant.                                                          *)

\* The technology at the head of the list is an audit of this directory.
LEMMA HeadIsAudit ==
    ASSUME AuditInv, techs # <<>>, pc \in {"tech", "tree", "resolve", "fetch"}
    PROVE  /\ This \in Audits /\ This[1] = dir /\ This # NoConfig
           /\ Tail(techs) \in Seq(Technologies)
<1>1. /\ techs \in Seq(Technologies) /\ dir \in 1 .. Dirs
      /\ NoConfig \notin (1 .. Dirs) \X Technologies
  BY CurationAssumption DEF AuditInv, CurationTypeOK, AuditingInv
<1>2. Head(techs) \in Technologies /\ Tail(techs) \in Seq(Technologies)
  BY <1>1
<1> QED BY <1>1, <1>2 DEF This, Tech, Audits

LEMMA InitInv == CurationInit => AuditInv
<1> SUFFICES ASSUME CurationInit PROVE AuditInv
  OBVIOUS
<1> USE CurationAssumption DEF CurationInit
<1>1. CurationTypeOK
  BY DEF CurationTypeOK, Options, NoOptions
<1>2. AuditingInv /\ ConnectionInv /\ ErrorInv /\ ForeignOnlyAfterFailure
  BY DEF AuditingInv, ConnectionInv, ErrorInv, ForeignOnlyAfterFailure
<1>3. DOMAIN results = {}
  OBVIOUS
<1>4. ReportsInv
  BY <1>3, FS_EmptySet DEF ReportsInv, NoReportLost
<1> QED BY <1>1, <1>2, <1>4 DEF AuditInv

\* Where the command is, and that something is left to audit there.
LEMMA AuditingStep ==
    ASSUME AuditInv, CurationNext
    PROVE  AuditingInv'
<1> USE CurationAssumption DEF AuditInv, AuditingInv, CurationTypeOK
<1>1. CASE \E o \in Options : Begin(o)
  BY <1>1 DEF Begin
<1>2. CASE ChdirFails
  BY <1>2 DEF ChdirFails
<1>3. CASE FlagsRefused
  BY <1>3 DEF FlagsRefused
<1>4. CASE LeaveDir
  BY <1>4 DEF LeaveDir
<1>5. CASE \E ts \in TechLists : EnterDir(ts)
  BY <1>5 DEF EnterDir
<1>6. CASE Unsupported
  BY <1>6 DEF Unsupported
<1>7. CASE SupportChecked
  BY <1>7 DEF SupportChecked, GetAuth, SetRepo
<1>8. CASE AuthFails
  BY <1>8 DEF AuthFails, Failed, Lenient
<1>9. CASE GateFails
  BY <1>9 DEF GateFails, GetAuth, SetRepo
<1>10. CASE NativeRefused
  BY <1>10 DEF NativeRefused, Failed, Lenient
<1>11. CASE PrepareTree
  BY <1>11 DEF PrepareTree, GetAuth, SetRepo
<1>12. CASE PrepareFails
  BY <1>12 DEF PrepareFails, Failed, Lenient
<1>13. CASE TreeFails
  BY <1>13 DEF TreeFails, Failed, Lenient
<1>14. CASE TreeBuilt
  BY <1>14 DEF TreeBuilt, GetAuth, SetRepo
<1>15. CASE FetchRefused
  BY <1>15 DEF FetchRefused, Failed, Lenient
<1>16. CASE \E key \in Keys : NothingToAudit(key)
  BY <1>16 DEF NothingToAudit, Succeeded
<1>17. CASE \E key \in Keys : Fallback(key)
  BY <1>17 DEF Fallback, Succeeded
<1>18. CASE \E key \in Keys, waiver \in BOOLEAN : FetchFails(key, waiver)
  BY <1>18 DEF FetchFails, Failed, Lenient
<1>19. CASE \E key \in Keys, waiver \in BOOLEAN : Fetched(key, waiver)
  BY <1>19 DEF Fetched, Succeeded
<1>20. CASE StartPrinting
  BY <1>20 DEF StartPrinting
<1>21. CASE EndRun
  BY <1>21 DEF EndRun
<1>22. CASE \E k \in DOMAIN results : PrintReport(k)
  BY <1>22 DEF PrintReport
<1>23. CASE \E k \in DOMAIN results : AskWaiver(k)
  BY <1>23 DEF AskWaiver
<1> QED BY <1>1, <1>2, <1>3, <1>4, <1>5, <1>6, <1>7, <1>8, <1>9, <1>10, 
          <1>11, <1>12, <1>13, <1>14, <1>15, <1>16, <1>17, <1>18, <1>19, 
          <1>20, <1>21, <1>22, <1>23 DEF CurationNext

\* Every report has a key of its own, and none disappears.
LEMMA ReportsStep ==
    ASSUME AuditInv, CurationNext
    PROVE  ReportsInv' /\ stored' \in Nat /\ DOMAIN results \subseteq DOMAIN results'
<1>1. ReportsInv /\ stored \in Nat
  BY DEF AuditInv, CurationTypeOK
<1>2. CASE UNCHANGED <<results, stored>>
  BY <1>1, <1>2 DEF ReportsInv, NoReportLost
<1>3. CASE \E key, r : AddReport(key, r)
  BY <1>1, <1>3, ReportAdded
<1>4. CASE \E key \in Keys : NothingToAudit(key) \/ Fallback(key)
  BY <1>2, <1>3, <1>4 DEF NothingToAudit, Fallback
<1>5. CASE \E key \in Keys, waiver \in BOOLEAN : FetchFails(key, waiver) \/ Fetched(key, waiver)
  BY <1>3, <1>5 DEF FetchFails, Fetched
<1>6. CASE \/ \E o \in Options : Begin(o)
           \/ ChdirFails \/ FlagsRefused \/ LeaveDir \/ \E ts \in TechLists : EnterDir(ts)
           \/ Unsupported \/ SupportChecked \/ AuthFails \/ GateFails
           \/ NativeRefused \/ PrepareTree \/ PrepareFails
           \/ TreeFails \/ TreeBuilt \/ FetchRefused
           \/ StartPrinting \/ EndRun
           \/ \E k \in DOMAIN results : PrintReport(k) \/ AskWaiver(k)
  BY <1>2, <1>6 DEF Begin, ChdirFails, FlagsRefused, LeaveDir, EnterDir, Unsupported,
     SupportChecked, AuthFails, GateFails, NativeRefused, PrepareTree, PrepareFails, TreeFails,
     TreeBuilt, FetchRefused, StartPrinting, EndRun, PrintReport, AskWaiver
<1> QED BY <1>4, <1>5, <1>6 DEF CurationNext

\* The types of what a failed audit changes.
LEMMA FailedTypes ==
    ASSUME AuditInv, pc \in {"tech", "tree", "resolve", "fetch"}, techs # <<>>,
           NEW fatal \in BOOLEAN, Failed(fatal)
    PROVE  /\ dir' \in 0 .. (Dirs + 1) /\ techs' \in Seq(Technologies) /\ pc' \in {"enter", "tech"}
           /\ config' \in Audits \cup {NoConfig}
           /\ scanErr' \subseteq Audits \cup ((1 .. Dirs) \X {"flags"}) /\ skipped' \subseteq Audits
           /\ err' \subseteq scanErr' \cup {<<0, "chdir">>, <<0, "waiver">>}
<1>1. /\ This \in Audits /\ Tail(techs) \in Seq(Technologies)
      /\ dir \in 1 .. Dirs
  BY HeadIsAudit DEF AuditInv, AuditingInv
<1>2. CurationTypeOK
  BY DEF AuditInv
<1>3. CASE Lenient /\ ~fatal
  BY <1>1, <1>2, <1>3 DEF Failed, CurationTypeOK
<1>4. CASE ~(Lenient /\ ~fatal)
  <2>1. dir + 1 \in 0 .. (Dirs + 1)
    BY <1>1, CurationAssumption
  <2>2. /\ scanErr' = scanErr \cup {This} /\ err' = err \cup {This}
        /\ techs' = <<>> /\ dir' = dir + 1 /\ pc' = "enter"
        /\ config' = config /\ skipped' = skipped
    BY <1>4 DEF Failed
  <2>3. <<>> \in Seq(Technologies)
    OBVIOUS
  <2> QED BY <1>1, <1>2, <2>1, <2>2, <2>3 DEF CurationTypeOK
<1> QED BY <1>3, <1>4

\* The types: what is new in the variables is an audit of this directory.
LEMMA TypesStep ==
    ASSUME AuditInv, CurationNext
    PROVE  CurationTypeOK'
<1>1. stored' \in Nat /\ DOMAIN results \subseteq DOMAIN results'
  BY ReportsStep
<1> USE CurationAssumption DEF AuditInv, CurationTypeOK, AuditingInv, Audits
<1>2. CASE \E o \in Options : Begin(o)
  BY <1>2, <1>1, HeadIsAudit DEF Begin
<1>3. CASE ChdirFails
  BY <1>3, <1>1, HeadIsAudit DEF ChdirFails
<1>4. CASE FlagsRefused
  BY <1>4, <1>1, HeadIsAudit DEF FlagsRefused
<1>5. CASE LeaveDir
  BY <1>5, <1>1, HeadIsAudit DEF LeaveDir
<1>6. CASE \E ts \in TechLists : EnterDir(ts)
  BY <1>6, <1>1, HeadIsAudit DEF EnterDir
<1>7. CASE Unsupported
  BY <1>7, <1>1, HeadIsAudit DEF Unsupported
<1>8. CASE SupportChecked
  BY <1>8, <1>1, HeadIsAudit DEF SupportChecked, GetAuth, SetRepo
<1>9. CASE AuthFails
  BY <1>9, <1>1, FailedTypes DEF AuthFails
<1>10. CASE GateFails
  BY <1>10, <1>1, HeadIsAudit DEF GateFails, GetAuth, SetRepo
<1>11. CASE NativeRefused
  BY <1>11, <1>1, FailedTypes DEF NativeRefused
<1>12. CASE PrepareTree
  BY <1>12, <1>1, HeadIsAudit DEF PrepareTree, GetAuth, SetRepo
<1>13. CASE PrepareFails
  BY <1>13, <1>1, FailedTypes DEF PrepareFails
<1>14. CASE TreeFails
  BY <1>14, <1>1, FailedTypes DEF TreeFails
<1>15. CASE TreeBuilt
  BY <1>15, <1>1, HeadIsAudit DEF TreeBuilt, GetAuth, SetRepo
<1>16. CASE FetchRefused
  BY <1>16, <1>1, FailedTypes DEF FetchRefused
<1>17. CASE \E key \in Keys : NothingToAudit(key)
  BY <1>17, <1>1, HeadIsAudit DEF NothingToAudit, Succeeded
<1>18. CASE \E key \in Keys : Fallback(key)
  BY <1>18, <1>1, HeadIsAudit DEF Fallback, Succeeded
<1>19. CASE \E key \in Keys, waiver \in BOOLEAN : FetchFails(key, waiver)
  BY <1>19, <1>1, FailedTypes DEF FetchFails
<1>20. CASE \E key \in Keys, waiver \in BOOLEAN : Fetched(key, waiver)
  BY <1>20, <1>1, HeadIsAudit DEF Fetched, Succeeded
<1>21. CASE StartPrinting
  BY <1>21, <1>1, HeadIsAudit DEF StartPrinting
<1>22. CASE EndRun
  BY <1>22, <1>1, HeadIsAudit DEF EndRun
<1>23. CASE \E k \in DOMAIN results : PrintReport(k)
  BY <1>23, <1>1, HeadIsAudit DEF PrintReport
<1>24. CASE \E k \in DOMAIN results : AskWaiver(k)
  BY <1>24, <1>1, HeadIsAudit DEF AskWaiver
<1> QED BY <1>2, <1>3, <1>4, <1>5, <1>6, <1>7, <1>8, <1>9, <1>10, <1>11, 
          <1>12, <1>13, <1>14, <1>15, <1>16, <1>17, <1>18, <1>19, <1>20, 
          <1>21, <1>22, <1>23, <1>24 DEF CurationNext

\* A leftover connection names its directory.
LEMMA LeftoverPlaced ==
    ASSUME AuditInv, config \in scanErr
    PROVE  config[1] \in Nat /\ dir \in Nat
<1>1. PICK a \in (1 .. Dirs) \X (Technologies \cup {"flags"}) : a = config
  BY CurationAssumption DEF AuditInv, CurationTypeOK, Audits
<1>2. config[1] \in Nat
  BY <1>1, CurationAssumption
<1> QED BY <1>2, CurationAssumption DEF AuditInv, CurationTypeOK

\* A failed audit leaves its connection behind, for a later directory.
LEMMA FailedConnection ==
    ASSUME AuditInv, pc \in {"tech", "tree", "resolve", "fetch"}, techs # <<>>,
           NEW fatal \in BOOLEAN, Failed(fatal)
    PROVE  ConnectionInv'
<1>1. CASE Lenient /\ ~fatal
  BY <1>1 DEF Failed, ConnectionInv
<1>2. CASE ~(Lenient /\ ~fatal)
  <2>1. /\ scanErr' = scanErr \cup {This} /\ dir' = dir + 1 /\ pc' = "enter"
        /\ config' = config
    BY <1>2 DEF Failed
  <2>2. This[1] = dir /\ dir \in Nat
    BY HeadIsAudit, CurationAssumption DEF AuditInv, CurationTypeOK
  <2>3. config = NoConfig \/ (config \in scanErr /\ config[1] < dir) \/ config = This
    BY DEF AuditInv, ConnectionInv
  <2>4. config = NoConfig \/ (config \in scanErr' /\ config[1] < dir')
    <3>1. CASE config \in scanErr /\ config[1] < dir
      BY <3>1, <2>1, <2>2, LeftoverPlaced
    <3>2. CASE config = This
      BY <3>2, <2>1, <2>2
    <3> QED BY <2>3, <3>1, <3>2
  <2> QED BY <2>1, <2>4 DEF ConnectionInv
<1> QED BY <1>1, <1>2

\* Whose connection is kept.
LEMMA ConnectionStep ==
    ASSUME AuditInv, CurationNext
    PROVE  ConnectionInv'
<1> USE CurationAssumption DEF AuditInv, CurationTypeOK, AuditingInv, ConnectionInv
<1>1. CASE \E o \in Options : Begin(o)
  BY <1>1, LeftoverPlaced DEF Begin
<1>2. CASE ChdirFails
  BY <1>2, HeadIsAudit DEF ChdirFails, This, Tech
<1>3. CASE FlagsRefused
  BY <1>3, LeftoverPlaced DEF FlagsRefused
<1>4. CASE LeaveDir
  BY <1>4, LeftoverPlaced DEF LeaveDir
<1>5. CASE \E ts \in TechLists : EnterDir(ts)
  BY <1>5, HeadIsAudit DEF EnterDir, This, Tech
<1>6. CASE Unsupported
  BY <1>6, HeadIsAudit DEF Unsupported, This, Tech
<1>7. CASE SupportChecked
  BY <1>7, HeadIsAudit DEF SupportChecked, GetAuth, SetRepo, This, Tech
<1>8. CASE AuthFails
  BY <1>8, HeadIsAudit DEF AuthFails, Failed, Lenient, This, Tech
<1>9. CASE GateFails
  BY <1>9, HeadIsAudit, LeftoverPlaced DEF GateFails, GetAuth, SetRepo
<1>10. CASE NativeRefused
  BY <1>10, FailedConnection DEF NativeRefused
<1>11. CASE PrepareTree
  BY <1>11, HeadIsAudit DEF PrepareTree, GetAuth, SetRepo, This, Tech
<1>12. CASE PrepareFails
  BY <1>12, FailedConnection DEF PrepareFails
<1>13. CASE TreeFails
  BY <1>13, FailedConnection DEF TreeFails
<1>14. CASE TreeBuilt
  BY <1>14, HeadIsAudit DEF TreeBuilt, GetAuth, SetRepo, This, Tech
<1>15. CASE FetchRefused
  BY <1>15, FailedConnection DEF FetchRefused
<1>16. CASE \E key \in Keys : NothingToAudit(key)
  BY <1>16, HeadIsAudit DEF NothingToAudit, Succeeded, This, Tech
<1>17. CASE \E key \in Keys : Fallback(key)
  BY <1>17, HeadIsAudit DEF Fallback, Succeeded, This, Tech
<1>18. CASE \E key \in Keys, waiver \in BOOLEAN : FetchFails(key, waiver)
  BY <1>18, FailedConnection DEF FetchFails
<1>19. CASE \E key \in Keys, waiver \in BOOLEAN : Fetched(key, waiver)
  BY <1>19, HeadIsAudit DEF Fetched, Succeeded, This, Tech
<1>20. CASE StartPrinting
  BY <1>20, HeadIsAudit DEF StartPrinting, This, Tech
<1>21. CASE EndRun
  BY <1>21, HeadIsAudit DEF EndRun, This, Tech
<1>22. CASE \E k \in DOMAIN results : PrintReport(k)
  BY <1>22, HeadIsAudit DEF PrintReport, This, Tech
<1>23. CASE \E k \in DOMAIN results : AskWaiver(k)
  BY <1>23, HeadIsAudit DEF AskWaiver, This, Tech
<1> QED BY <1>1, <1>2, <1>3, <1>4, <1>5, <1>6, <1>7, <1>8, <1>9, <1>10, 
          <1>11, <1>12, <1>13, <1>14, <1>15, <1>16, <1>17, <1>18, <1>19, 
          <1>20, <1>21, <1>22, <1>23 DEF CurationNext

\* With whose connection requests are sent.
LEMMA ForeignStep ==
    ASSUME AuditInv, CurationNext
    PROVE  ForeignOnlyAfterFailure'
<1> USE DEF AuditInv, AuditingInv, ConnectionInv, ForeignOnlyAfterFailure
<1>1. CASE \E o \in Options : Begin(o)
  BY <1>1, HeadIsAudit DEF Begin
<1>2. CASE ChdirFails
  BY <1>2, HeadIsAudit DEF ChdirFails
<1>3. CASE FlagsRefused
  BY <1>3, HeadIsAudit DEF FlagsRefused
<1>4. CASE LeaveDir
  BY <1>4, HeadIsAudit DEF LeaveDir
<1>5. CASE \E ts \in TechLists : EnterDir(ts)
  BY <1>5, HeadIsAudit DEF EnterDir
<1>6. CASE Unsupported
  BY <1>6, HeadIsAudit DEF Unsupported
<1>7. CASE SupportChecked
  BY <1>7, HeadIsAudit DEF SupportChecked, GetAuth, SetRepo
<1>8. CASE AuthFails
  BY <1>8, HeadIsAudit DEF AuthFails, Failed, Lenient
<1>9. CASE GateFails
  BY <1>9, HeadIsAudit DEF GateFails, GetAuth, SetRepo
<1>10. CASE NativeRefused
  BY <1>10, HeadIsAudit DEF NativeRefused, Failed, Lenient
<1>11. CASE PrepareTree
  BY <1>11, HeadIsAudit DEF PrepareTree, GetAuth, SetRepo
<1>12. CASE PrepareFails
  BY <1>12, HeadIsAudit DEF PrepareFails, Failed, Lenient
<1>13. CASE TreeFails
  BY <1>13, HeadIsAudit DEF TreeFails, Failed, Lenient
<1>14. CASE TreeBuilt
  BY <1>14, HeadIsAudit DEF TreeBuilt, GetAuth, SetRepo
<1>15. CASE FetchRefused
  BY <1>15, HeadIsAudit DEF FetchRefused, Failed, Lenient, Probe
<1>16. CASE \E key \in Keys : NothingToAudit(key)
  BY <1>16, HeadIsAudit DEF NothingToAudit, Succeeded
<1>17. CASE \E key \in Keys : Fallback(key)
  BY <1>17, HeadIsAudit DEF Fallback, Succeeded
<1>18. CASE \E key \in Keys, waiver \in BOOLEAN : FetchFails(key, waiver)
  BY <1>18, HeadIsAudit DEF FetchFails, Failed, Lenient, Probe
<1>19. CASE \E key \in Keys, waiver \in BOOLEAN : Fetched(key, waiver)
  BY <1>19, HeadIsAudit DEF Fetched, Succeeded, Probe
<1>20. CASE StartPrinting
  BY <1>20, HeadIsAudit DEF StartPrinting
<1>21. CASE EndRun
  BY <1>21, HeadIsAudit DEF EndRun
<1>22. CASE \E k \in DOMAIN results : PrintReport(k)
  BY <1>22, HeadIsAudit DEF PrintReport
<1>23. CASE \E k \in DOMAIN results : AskWaiver(k)
  BY <1>23, HeadIsAudit DEF AskWaiver
<1> QED BY <1>1, <1>2, <1>3, <1>4, <1>5, <1>6, <1>7, <1>8, <1>9, <1>10, 
          <1>11, <1>12, <1>13, <1>14, <1>15, <1>16, <1>17, <1>18, <1>19, 
          <1>20, <1>21, <1>22, <1>23 DEF CurationNext

\* What becomes of the errors.
LEMMA ErrorStep ==
    ASSUME AuditInv, CurationNext
    PROVE  ErrorInv'
<1> USE DEF AuditInv, CurationTypeOK, ErrorInv
<1>1. CASE \E o \in Options : Begin(o)
  BY <1>1 DEF Begin
<1>2. CASE ChdirFails
  BY <1>2 DEF ChdirFails
<1>3. CASE FlagsRefused
  BY <1>3 DEF FlagsRefused
<1>4. CASE LeaveDir
  BY <1>4 DEF LeaveDir
<1>5. CASE \E ts \in TechLists : EnterDir(ts)
  BY <1>5 DEF EnterDir
<1>6. CASE Unsupported
  BY <1>6 DEF Unsupported
<1>7. CASE SupportChecked
  BY <1>7 DEF SupportChecked, GetAuth, SetRepo
<1>8. CASE AuthFails
  BY <1>8 DEF AuthFails, Failed, Lenient
<1>9. CASE GateFails
  BY <1>9 DEF GateFails, GetAuth, SetRepo
<1>10. CASE NativeRefused
  BY <1>10 DEF NativeRefused, Failed, Lenient
<1>11. CASE PrepareTree
  BY <1>11 DEF PrepareTree, GetAuth, SetRepo
<1>12. CASE PrepareFails
  BY <1>12 DEF PrepareFails, Failed, Lenient
<1>13. CASE TreeFails
  BY <1>13 DEF TreeFails, Failed, Lenient
<1>14. CASE TreeBuilt
  BY <1>14 DEF TreeBuilt, GetAuth, SetRepo
<1>15. CASE FetchRefused
  BY <1>15 DEF FetchRefused, Failed, Lenient
<1>16. CASE \E key \in Keys : NothingToAudit(key)
  BY <1>16 DEF NothingToAudit, Succeeded
<1>17. CASE \E key \in Keys : Fallback(key)
  BY <1>17 DEF Fallback, Succeeded
<1>18. CASE \E key \in Keys, waiver \in BOOLEAN : FetchFails(key, waiver)
  BY <1>18 DEF FetchFails, Failed, Lenient
<1>19. CASE \E key \in Keys, waiver \in BOOLEAN : Fetched(key, waiver)
  BY <1>19 DEF Fetched, Succeeded
<1>20. CASE StartPrinting
  BY <1>20 DEF StartPrinting, Waivable
<1>21. CASE EndRun
  BY <1>21 DEF EndRun, Waivable
<1>22. CASE \E k \in DOMAIN results : PrintReport(k)
  BY <1>22 DEF PrintReport, Waivable
<1>23. CASE \E k \in DOMAIN results : AskWaiver(k)
  BY <1>23 DEF AskWaiver, Waivable
<1> QED BY <1>1, <1>2, <1>3, <1>4, <1>5, <1>6, <1>7, <1>8, <1>9, <1>10, 
          <1>11, <1>12, <1>13, <1>14, <1>15, <1>16, <1>17, <1>18, <1>19, 
          <1>20, <1>21, <1>22, <1>23 DEF CurationNext

LEMMA StepInv == AuditInv /\ [CurationNext]_caVars => AuditInv'
<1> SUFFICES ASSUME AuditInv, [CurationNext]_caVars PROVE AuditInv'
  OBVIOUS
<1>1. CASE CurationNext
  BY <1>1, AuditingStep, ReportsStep, TypesStep, ConnectionStep, ForeignStep, ErrorStep
     DEF AuditInv
<1>2. CASE UNCHANGED caVars
  BY <1>2 DEF caVars, AuditInv, CurationTypeOK, AuditingInv, ReportsInv, NoReportLost, ConnectionInv,
     ErrorInv, ForeignOnlyAfterFailure, Waivable, This, Tech
<1> QED BY <1>1, <1>2

-----------------------------------------------------------------------------
(* The theorems.                                                           *)

\* The inductive invariant of Run over the directories and technologies,
\* types included.
THEOREM AuditInvariant == CurationSpec => []AuditInv
<1>1. CurationInit => AuditInv
  BY InitInv
<1>2. AuditInv /\ [CurationNext]_caVars => AuditInv'
  BY StepInv
<1> QED BY <1>1, <1>2, PTL DEF CurationSpec

\* No two audits share a key in the map of reports, requests are sent with the
\* connection of the audit they are for or of one that failed in an earlier
\* directory, and Run forgets an error only when a report could be asked a
\* waiver for.
THEOREM AuditsApart == CurationSpec => []AuditsKeepApart
<1>1. AuditInv => NoReportLost
  BY DEF AuditInv, ReportsInv
<1>2. AuditInv => ForeignOnlyAfterFailure
  BY DEF AuditInv
<1>3. AuditInv => ErrorLostOnlyToWaiver
  BY DEF AuditInv, ErrorInv, ErrorLostOnlyToWaiver
<1>4. AuditInv => AuditsKeepApart
  BY <1>1, <1>2, <1>3 DEF AuditsKeepApart
<1> QED BY <1>4, AuditInvariant, PTL

-----------------------------------------------------------------------------
(* CurationFallback: the lines of npm's log.                               *)

LEMMA FallbackInitInv == FallbackInit => FallbackInv
<1> SUFFICES ASSUME FallbackInit PROVE FallbackInv
  OBVIOUS
<1>1. Noticed = {}
  BY DEF FallbackInit, Noticed
<1>2. IsFiniteSet(Noticed) /\ Cardinality(Noticed) = 0
  BY <1>1, FS_EmptySet
<1>3. PendingInv
  BY <1>2 DEF FallbackInit, PendingInv
<1>4. FallbackTypeOK /\ NoticePaired /\ (phase = "probe" => todo \subseteq entries)
  BY DEF FallbackInit, FallbackTypeOK, NoticePaired
<1>5. EntriesInv
  BY DEF FallbackInit, EntriesInv
<1> QED BY <1>3, <1>4, <1>5 DEF FallbackInv

\* Notices that were made ambiguous are notices.
LEMMA AmbiguousNotices ==
    ASSUME NEW notices \in Seq([owner : Pkg, ambiguous : BOOLEAN])
    PROVE  /\ Ambiguous(notices) \in Seq([owner : Pkg, ambiguous : BOOLEAN])
           /\ Len(Ambiguous(notices)) = Len(notices)
           /\ \A i \in 1 .. Len(notices) : Ambiguous(notices)[i].ambiguous
<1>1. DOMAIN notices = 1 .. Len(notices) /\ Len(notices) \in Nat
  OBVIOUS
<1>2. ASSUME NEW i \in DOMAIN notices
      PROVE  [notices[i] EXCEPT !.ambiguous = TRUE] \in [owner : Pkg, ambiguous : BOOLEAN]
  <2>1. PICK n \in [owner : Pkg, ambiguous : BOOLEAN] : n = notices[i]
    BY <1>1, ElementOfSeq
  <2>2. [n EXCEPT !.ambiguous = TRUE] \in [owner : Pkg, ambiguous : BOOLEAN]
    OBVIOUS
  <2> QED BY <2>1, <2>2
<1>3. \A i \in DOMAIN notices : [notices[i] EXCEPT !.ambiguous = TRUE].ambiguous
  OBVIOUS
<1> QED BY <1>1, <1>2, <1>3 DEF Ambiguous

LEMMA NoticeKeeps ==
    ASSUME FallbackInv, NEW p \in Pkg, Notice(p)
    PROVE  FallbackTypeOK' /\ NoticePaired' /\ PendingInv'
<1> DEFINE notices == Ambiguous(pending)
           r == [owner |-> p, ambiguous |-> pending # <<>>]
<1>1. /\ line' = [line EXCEPT ![p] = "noticed"] /\ line[p] = "none"
      /\ pending' = Append(notices, r)
      /\ UNCHANGED <<phase, policyOf, entries, advised, root>>
  BY DEF Notice
<1>2. /\ line \in [Pkg -> {"none", "noticed", "forbidden", "plain"}]
      /\ pending \in Seq([owner : Pkg, ambiguous : BOOLEAN])
  BY DEF FallbackInv, FallbackTypeOK
<1>3. /\ notices \in Seq([owner : Pkg, ambiguous : BOOLEAN]) /\ Len(notices) = Len(pending)
      /\ \A i \in 1 .. Len(pending) : notices[i].ambiguous
  BY <1>2, AmbiguousNotices
<1> HIDE DEF notices
<1>4. r \in [owner : Pkg, ambiguous : BOOLEAN]
  OBVIOUS
<1>5. pending' \in Seq([owner : Pkg, ambiguous : BOOLEAN]) /\ Len(pending') = Len(pending) + 1
  BY <1>1, <1>3, <1>4
<1>6. \A q \in Pkg : q # p => line'[q] = line[q]
  BY <1>1, <1>2
<1>7. line'[p] = "noticed" /\ line' \in [Pkg -> {"none", "noticed", "forbidden", "plain"}]
  BY <1>1, <1>2
<1>8. (\A q \in Pkg : line'[q] # "plain") => \A q \in Pkg : line[q] # "plain"
  BY <1>1, <1>6
<1>9. FallbackTypeOK'
  BY <1>1, <1>5, <1>7 DEF FallbackInv, FallbackTypeOK
<1>10. NoticePaired'
  BY <1>1, <1>8 DEF FallbackInv, NoticePaired
<1>11. ASSUME \A q \in Pkg : line'[q] # "plain"
       PROVE  /\ IsFiniteSet(Noticed)' /\ Cardinality(Noticed)' = Len(pending')
              /\ \A i \in DOMAIN pending' : ~pending'[i].ambiguous => Noticed' = {pending'[i].owner}
  <2>1. IsFiniteSet(Noticed) /\ Cardinality(Noticed) = Len(pending)
    BY <1>8, <1>11 DEF FallbackInv, PendingInv
  <2>2. Noticed' = Noticed \cup {p} /\ p \notin Noticed
    BY <1>1, <1>6, <1>7 DEF Noticed
  <2>3. IsFiniteSet(Noticed') /\ Cardinality(Noticed') = Cardinality(Noticed) + 1
    BY <2>1, <2>2, FS_AddElement
  <2>4. ASSUME NEW i \in DOMAIN pending', ~pending'[i].ambiguous
        PROVE  Noticed' = {pending'[i].owner}
    <3>1. i \in 1 .. (Len(pending) + 1)
      BY <1>5
    <3>2. i = Len(pending) + 1
      BY <1>1, <1>2, <1>3, <2>4, <3>1
    <3>3. pending'[i] = r
      BY <1>1, <1>3, <3>2
    <3>4. pending = <<>>
      <4>1. r.ambiguous = (pending # <<>>)
        OBVIOUS
      <4> QED BY <2>4, <3>3, <4>1, Zenon
    <3>5. Noticed = {}
      BY <2>1, <3>4, FS_EmptySet
    <3> QED BY <2>2, <3>3, <3>5
  <2> QED BY <1>5, <2>1, <2>3, <2>4
<1> QED BY <1>9, <1>10, <1>11 DEF PendingInv

\* A 403 without a notice, or with one: the types.
LEMMA RecordTypes ==
    ASSUME FallbackInv, NEW p \in Pkg, Record(p)
    PROVE  /\ pending' \in Seq([owner : Pkg, ambiguous : BOOLEAN])
           /\ policyOf' \subseteq Pkg \X (Pkg \cup {"unknown"})
           /\ pending # <<>> => Paired(p) \in Pkg \cup {"unknown"}
<1>1. /\ pending \in Seq([owner : Pkg, ambiguous : BOOLEAN])
      /\ policyOf \subseteq Pkg \X (Pkg \cup {"unknown"})
  BY DEF FallbackInv, FallbackTypeOK
<1>2. CASE pending = <<>>
  BY <1>1, <1>2 DEF Record
<1>3. CASE pending # <<>>
  <2>1. /\ Head(pending) \in [owner : Pkg, ambiguous : BOOLEAN]
        /\ Tail(pending) \in Seq([owner : Pkg, ambiguous : BOOLEAN])
    BY <1>1, <1>3, HeadTailProperties
  <2>2. Paired(p) \in Pkg \cup {"unknown"}
    BY <2>1 DEF Paired
  <2> QED BY <1>1, <1>3, <2>1, <2>2 DEF Record
<1> QED BY <1>2, <1>3

LEMMA FetchKeeps ==
    ASSUME FallbackInv, NEW p \in Pkg, Fetch403(p)
    PROVE  FallbackTypeOK' /\ NoticePaired' /\ PendingInv'
<1>1. /\ line' = [line EXCEPT ![p] = "forbidden"] /\ line[p] = "noticed" /\ Record(p)
      /\ UNCHANGED <<phase, entries, advised, root>>
  BY DEF Fetch403
<1>2. /\ line \in [Pkg -> {"none", "noticed", "forbidden", "plain"}]
      /\ pending \in Seq([owner : Pkg, ambiguous : BOOLEAN])
  BY DEF FallbackInv, FallbackTypeOK
<1>3. \A q \in Pkg : q # p => line'[q] = line[q]
  BY <1>1, <1>2
<1>4. line'[p] = "forbidden" /\ line' \in [Pkg -> {"none", "noticed", "forbidden", "plain"}]
  BY <1>1, <1>2
<1>5. FallbackTypeOK'
  BY <1>1, <1>4, RecordTypes DEF FallbackInv, FallbackTypeOK
<1>6. ASSUME \A q \in Pkg : line'[q] # "plain"
      PROVE  /\ \A x \in policyOf' : x[2] \in {x[1], "unknown"}
             /\ IsFiniteSet(Noticed)' /\ Cardinality(Noticed)' = Len(pending')
             /\ \A i \in DOMAIN pending' : ~pending'[i].ambiguous => Noticed' = {pending'[i].owner}
  <2>1. \A q \in Pkg : line[q] # "plain"
    BY <1>1, <1>3, <1>6
  <2>2. /\ IsFiniteSet(Noticed) /\ Cardinality(Noticed) = Len(pending)
        /\ \A i \in DOMAIN pending : ~pending[i].ambiguous => Noticed = {pending[i].owner}
        /\ \A x \in policyOf : x[2] \in {x[1], "unknown"}
    BY <2>1 DEF FallbackInv, PendingInv, NoticePaired
  <2>3. Noticed' = Noticed \ {p} /\ p \in Noticed
    BY <1>1, <1>3, <1>4 DEF Noticed
  <2>4. IsFiniteSet(Noticed') /\ Cardinality(Noticed') = Cardinality(Noticed) - 1
    BY <2>2, <2>3, FS_RemoveElement
  <2>5. pending # <<>>
    BY <2>2, <2>3, FS_EmptySet
  <2>6. /\ pending' = Tail(pending)
        /\ policyOf' = {x \in policyOf : x[1] # p} \cup {<<p, Paired(p)>>}
    BY <1>1, <2>5 DEF Record
  <2>7. Len(pending') = Len(pending) - 1 /\ \A i \in 1 .. Len(pending') : pending'[i] = pending[i + 1]
    BY <1>2, <2>5, <2>6
  <2>8. Paired(p) \in {p, "unknown"}
    <3>1. CASE Head(pending).ambiguous
      BY <3>1 DEF Paired
    <3>2. CASE ~Head(pending).ambiguous
      <4>1. Head(pending) = pending[1] /\ 1 \in DOMAIN pending
        BY <1>2, <2>5
      <4>2. Noticed = {Head(pending).owner}
        BY <2>2, <3>2, <4>1
      <4> QED BY <2>3, <3>2, <4>2 DEF Paired
    <3> QED BY <3>1, <3>2
  <2>9. \A x \in policyOf' : x[2] \in {x[1], "unknown"}
    BY <2>2, <2>6, <2>8
  <2>10. ASSUME NEW i \in DOMAIN pending', ~pending'[i].ambiguous
         PROVE  FALSE
    <3>1. pending' \in Seq([owner : Pkg, ambiguous : BOOLEAN])
      BY <1>1, RecordTypes
    <3>2. i \in 1 .. Len(pending')
      BY <3>1
    <3>3. i + 1 \in DOMAIN pending /\ pending'[i] = pending[i + 1]
      BY <1>2, <2>7, <3>2
    <3>4. Noticed = {pending[i + 1].owner}
      BY <2>2, <2>10, <3>3
    <3>5. Cardinality(Noticed) = 1
      BY <3>4, FS_Singleton
    <3> QED BY <1>2, <2>2, <2>7, <3>2, <3>5
  <2> QED BY <1>2, <2>2, <2>4, <2>7, <2>9, <2>10
<1>7. NoticePaired'
  BY <1>6 DEF NoticePaired
<1>8. PendingInv'
  BY <1>6 DEF PendingInv
<1> QED BY <1>5, <1>7, <1>8

LEMMA PlainKeeps ==
    ASSUME FallbackInv, NEW p \in Pkg, Plain403(p)
    PROVE  FallbackTypeOK' /\ NoticePaired' /\ PendingInv'
<1>1. line' = [line EXCEPT ![p] = "plain"] /\ Record(p) /\ UNCHANGED <<phase, entries, advised, root>>
  BY DEF Plain403
<1>2. line' \in [Pkg -> {"none", "noticed", "forbidden", "plain"}] /\ line'[p] = "plain"
  BY <1>1 DEF FallbackInv, FallbackTypeOK
<1>3. FallbackTypeOK'
  BY <1>1, <1>2, RecordTypes DEF FallbackInv, FallbackTypeOK
<1> QED BY <1>2, <1>3 DEF NoticePaired, PendingInv

\* A step that reads no line of the log.
LEMMA LogKeeps ==
    ASSUME FallbackInv, UNCHANGED <<line, pending, policyOf>>
    PROVE  NoticePaired' /\ PendingInv'
<1>1. Noticed' = Noticed
  BY DEF Noticed
<1> QED BY <1>1 DEF FallbackInv, NoticePaired, PendingInv

-----------------------------------------------------------------------------
(* CurationFallback: the entries.                                          *)

\* Keys depend on the policies of the log only.
LEMMA KeysStay ==
    ASSUME UNCHANGED policyOf
    PROVE  \A e : KeyOf(e)' = KeyOf(e)
<1>1. \A e : Category(e)' = Category(e)
  BY Zenon DEF Category, Policies
<1>2. \A e : EffectiveVersion(e)' = EffectiveVersion(e)
  BY <1>1 DEF EffectiveVersion
<1> QED BY <1>2 DEF KeyOf

\* What is accounted for stays so.
LEMMA AccountedStays ==
    ASSUME UNCHANGED policyOf, NEW k, Accounted(k),
           blockedKeys \subseteq blockedKeys', cleanKeys \subseteq cleanKeys', advised \subseteq advised'
    PROVE  Accounted(k)'
BY KeysStay DEF Accounted

\* What the graph reaches depends on the entries and the keys.
LEMMA ReachedStays ==
    ASSUME UNCHANGED <<policyOf, entries>>, NEW from, root' = from
    PROVE  Reached(root)' = Reached(from)
<1>1. \A e : NodeOf(e)' = NodeOf(e)
  BY KeysStay DEF NodeOf
<1>2. Nodes' = Nodes
  BY <1>1 DEF Nodes
<1>3. \A keys : FollowsEdges(root, keys)' = FollowsEdges(from, keys)
  BY <1>1 DEF FollowsEdges
<1> QED BY <1>2, <1>3 DEF Reached

\* A package the log places below the project is reached by the graph built from
\* the project.
LEMMA InstalledIsReached ==
    ASSUME NEW e \in Installed, KeyOf(e) # Project
    PROVE  KeyOf(e) \in Reached(Project)
<1>1. SUFFICES ASSUME NEW keys \in SUBSET Nodes, FollowsEdges(Project, keys)
               PROVE  KeyOf(e) \in keys
  BY DEF Installed, Reached, Nodes, NodeOf
<1> DEFINE placed == {f \in entries : KeyOf(f) \in keys}
<1>2. ASSUME NEW f \in entries, PlacedBelow(f, placed)
      PROVE  f \in placed
  <2>1. CASE f.parent = Project
    BY <1>1, <2>1 DEF FollowsEdges, NodeOf
  <2>2. CASE \E g \in placed : g.version # NoVersion /\ f.parent = <<g.name, g.version>>
    <3>1. PICK g \in placed : g.version # NoVersion /\ f.parent = <<g.name, g.version>>
      BY <2>2
    <3>2. KeyOf(g) = f.parent
      BY <3>1 DEF KeyOf, EffectiveVersion, Category
    <3> QED BY <1>1, <3>1, <3>2 DEF FollowsEdges, NodeOf
  <2> QED BY <1>2, <2>1, <2>2 DEF PlacedBelow
<1>3. e \in placed
  BY <1>2 DEF Installed
<1> QED BY <1>3

\* One entry is dealt with.
LEMMA EntryKeeps ==
    ASSUME FallbackInv, NEW e \in Entry, e \in todo, phase = "probe",
           UNCHANGED <<phase, line, pending, policyOf, entries, root, rows>>,
           todo' = todo \ {e},
           blockedKeys \subseteq blockedKeys', cleanKeys \subseteq cleanKeys',
           advised \subseteq advised', advised' \subseteq advised \cup {e},
           seenKeys' \subseteq seenKeys \cup {KeyOf(e)}, Accounted(KeyOf(e))'
    PROVE  FallbackInv'
<1>1. \A k : Accounted(k) => Accounted(k)'
  BY AccountedStays
<1>2. \A f : KeyOf(f)' = KeyOf(f)
  BY KeysStay
<1>3. e \in entries
  BY DEF FallbackInv
<1>4. FallbackTypeOK'
  BY <1>3 DEF FallbackInv, FallbackTypeOK
<1>5. \A k \in seenKeys' : Accounted(k)'
  BY <1>1, <1>2 DEF FallbackInv, EntriesInv
<1>6. \A f \in entries \ todo' : Accounted(KeyOf(f))'
  BY <1>1, <1>2 DEF FallbackInv, EntriesInv
<1>7. EntriesInv'
  BY <1>5, <1>6 DEF EntriesInv
<1> QED BY <1>4, <1>7, LogKeeps DEF FallbackInv

LEMMA AdviseKeeps == ASSUME FallbackInv, NEW e \in Entry, AdviseRange(e) PROVE FallbackInv'
<1>1. KeyOf(e)' = KeyOf(e)
  BY KeysStay DEF AdviseRange
<1>2. Accounted(KeyOf(e))'
  BY <1>1 DEF AdviseRange, Accounted
<1> QED BY <1>2, EntryKeeps DEF AdviseRange, NextEntry

LEMMA DuplicateKeeps == ASSUME FallbackInv, NEW e \in Entry, SkipDuplicate(e) PROVE FallbackInv'
<1>1. Accounted(KeyOf(e))
  BY DEF SkipDuplicate, FallbackInv, EntriesInv
<1>2. KeyOf(e)' = KeyOf(e)
  BY KeysStay DEF SkipDuplicate
<1>3. Accounted(KeyOf(e))'
  BY <1>1, <1>2, AccountedStays DEF SkipDuplicate
<1> QED BY <1>3, EntryKeeps DEF SkipDuplicate, NextEntry

\* An entry whose key was not met before.
LEMMA FirstKeeps ==
    ASSUME FallbackInv, NEW e \in Entry,
           TakeFromLog(e) \/ ProbeBlocked(e) \/ ProbeFails(e) \/ ProbeClean(e)
    PROVE  FallbackInv'
<1>1. First(e)
  BY DEF TakeFromLog, ProbeBlocked, ProbeFails, ProbeClean
<1>2. /\ blockedKeys \subseteq blockedKeys' /\ cleanKeys \subseteq cleanKeys'
      /\ advised \subseteq advised' /\ advised' \subseteq advised \cup {e}
      /\ KeyOf(e) \in blockedKeys' \/ KeyOf(e) \in cleanKeys' \/ e \in advised'
  BY DEF TakeFromLog, ProbeBlocked, ProbeFails, ProbeClean
<1>3. KeyOf(e)' = KeyOf(e)
  BY <1>1, KeysStay DEF First
<1>4. Accounted(KeyOf(e))'
  BY <1>2, <1>3 DEF Accounted
<1> QED BY <1>1, <1>2, <1>4, EntryKeeps DEF First, NextEntry

\* While the log is read there are no entries yet.
LEMMA ReadKeeps ==
    ASSUME FallbackInv, NEW p \in Pkg, Notice(p) \/ Fetch403(p) \/ Plain403(p)
    PROVE  FallbackInv'
<1>1. FallbackTypeOK' /\ NoticePaired' /\ PendingInv'
  BY NoticeKeeps, FetchKeeps, PlainKeeps
<1>2. phase = "log" /\ UNCHANGED <<phase, entries, seenKeys>>
  BY DEF Notice, Fetch403, Plain403
<1>3. EntriesInv'
  BY <1>2 DEF FallbackInv, EntriesInv
<1> QED BY <1>1, <1>2, <1>3 DEF FallbackInv

LEMMA ParsedKeeps ==
    ASSUME FallbackInv, NEW logged \in SUBSET Entry, NEW connected \in BOOLEAN, LogParsed(logged, connected)
    PROVE  FallbackInv'
<1>1. /\ phase = "log" /\ entries' = logged /\ todo' = logged /\ phase' \in {"probe", "original"}
      /\ UNCHANGED <<line, pending, policyOf, seenKeys, advised, root>>
  BY DEF LogParsed
<1>2. entries = {} /\ seenKeys = {}
  BY <1>1 DEF FallbackInv, EntriesInv
<1>3. FallbackTypeOK'
  BY <1>1, <1>2 DEF FallbackInv, FallbackTypeOK
<1>4. EntriesInv'
  BY <1>1, <1>2 DEF EntriesInv
<1> QED BY <1>1, <1>3, <1>4, LogKeeps DEF FallbackInv

LEMMA ReportKeeps ==
    ASSUME FallbackInv, NEW identity \in {Project, Unversioned} \cup {e.parent : e \in entries},
           BuildReport(identity)
    PROVE  FallbackInv'
<1>1. /\ phase = "probe" /\ todo = {} /\ phase' \in {"original", "report"}
      /\ UNCHANGED <<line, pending, policyOf, entries, todo, seenKeys, blockedKeys, cleanKeys, advised>>
      /\ root' = identity /\ rows' = blockedKeys \cap Reached(identity)
  BY DEF BuildReport
<1>2. \A k : Accounted(k) => Accounted(k)'
  BY <1>1, AccountedStays
<1>3. \A e : KeyOf(e)' = KeyOf(e)
  BY <1>1, KeysStay
<1>4. rows' = blockedKeys' \cap Reached(root)'
  BY <1>1, ReachedStays
<1>5. EntriesInv'
  BY <1>1, <1>2, <1>3, <1>4 DEF FallbackInv, EntriesInv
<1>6. FallbackTypeOK'
  BY <1>1 DEF FallbackInv, FallbackTypeOK
<1> QED BY <1>1, <1>5, <1>6, LogKeeps DEF FallbackInv

\* The steps that deal with no entry.
LEMMA OtherKeeps ==
    ASSUME FallbackInv,
           \/ InstallFails \/ NothingLogged \/ PinsDone
           \/ \E pins \in SUBSET Pin, connected \in BOOLEAN : PipFails(pins, connected)
           \/ \E p \in Pin, answer \in {"unresolved", "noAnswer", "open", "forbidden"} : ProbePin(p, answer)
    PROVE  FallbackInv'
<1>1. /\ phase \in {"idle", "log", "pins"} /\ phase' \in {"log", "original", "pins", "report"}
      /\ UNCHANGED <<line, pending, policyOf, entries, seenKeys, blockedKeys, cleanKeys, advised, root>>
  BY DEF InstallFails, NothingLogged, PinsDone, PipFails, ProbePin
<1>2. entries = {} /\ seenKeys = {}
  BY <1>1 DEF FallbackInv, EntriesInv
<1>3. EntriesInv'
  BY <1>1, <1>2 DEF EntriesInv
<1>4. FallbackTypeOK'
  BY <1>1 DEF FallbackInv, FallbackTypeOK
<1> QED BY <1>1, <1>3, <1>4, LogKeeps DEF FallbackInv

LEMMA FallbackStep == FallbackInv /\ [FallbackNext]_cfVars => FallbackInv'
<1> SUFFICES ASSUME FallbackInv, [FallbackNext]_cfVars PROVE FallbackInv'
  OBVIOUS
<1>1. CASE FallbackNext
  BY <1>1, AdviseKeeps, DuplicateKeeps, FirstKeeps, ReadKeeps, ParsedKeeps, ReportKeeps, OtherKeeps
     DEF FallbackNext
<1>2. CASE UNCHANGED cfVars
  <2>1. UNCHANGED <<phase, line, pending, policyOf, entries, todo, seenKeys, blockedKeys, cleanKeys,
                    advised, root, rows>>
    BY <1>2 DEF cfVars
  <2>2. \A k : Accounted(k) => Accounted(k)'
    BY <2>1, AccountedStays
  <2>3. \A e : KeyOf(e)' = KeyOf(e)
    BY <2>1, KeysStay
  <2>4. Reached(root)' = Reached(root)
    BY <2>1, ReachedStays
  <2>5. EntriesInv'
    BY <2>1, <2>2, <2>3, <2>4 DEF FallbackInv, EntriesInv
  <2> QED BY <2>1, <2>5, LogKeeps DEF FallbackInv, FallbackTypeOK
<1> QED BY <1>1, <1>2

-----------------------------------------------------------------------------
(* CurationFallback: the theorems.                                         *)

\* The inductive invariant of the recovery from npm's log and pip's pins, types
\* included.
THEOREM FallbackInvariant == FallbackSpec => []FallbackInv
<1>1. FallbackInit => FallbackInv
  BY FallbackInitInv
<1>2. FallbackInv /\ [FallbackNext]_cfVars => FallbackInv'
  BY FallbackStep
<1> QED BY <1>1, <1>2, PTL DEF FallbackSpec

\* npm's debug log, whose lines of concurrent fetches mix, shows no package with
\* another's policy as long as every 403 has its notice; and in a report made of
\* it each package the log places below the project is found clean, warned about,
\* or in a row, when the report's graph is the project's.
THEOREM LogIsRecovered == FallbackSpec => []LogRecovered
<1>1. FallbackInv => LogRecovered
  <2> SUFFICES ASSUME FallbackInv PROVE LogRecovered
    OBVIOUS
  <2>1. NoticePaired
    BY DEF FallbackInv
  <2>2. ASSUME phase = "report", NEW e \in entries
        PROVE  \/ KeyOf(e) \in rows \cup cleanKeys
               \/ \E f \in advised : f.name = e.name /\ KeyOf(f) = KeyOf(e)
               \/ root # Project \/ KeyOf(e) = Project \/ e \notin Installed
    <3>1. Accounted(KeyOf(e)) /\ rows = blockedKeys \cap Reached(root)
      BY <2>2 DEF FallbackInv, EntriesInv
    <3>2. \A f : KeyOf(f) = KeyOf(e) => f.name = e.name
      BY DEF KeyOf
    <3>3. root = Project /\ KeyOf(e) # Project /\ e \in Installed => KeyOf(e) \in Reached(root)
      BY InstalledIsReached
    <3> QED BY <3>1, <3>2, <3>3 DEF Accounted
  <2> QED BY <2>1, <2>2 DEF LogRecovered, EntriesAccounted
<1> QED BY <1>1, FallbackInvariant, PTL
-----------------------------------------------------------------------------
(* TechDetection: a finite tree of directories.                             *)

Tree(l) ==
    /\ DOMAIN l \subseteq Seq(STRING) /\ IsFiniteSet(DOMAIN l)
    /\ <<>> \in DOMAIN l
    /\ \A d \in DOMAIN l : d # <<>> => Front(d) \in DOMAIN l

LEMMA PrefixIs ==
    ASSUME NEW d \in Seq(STRING), NEW e \in Seq(STRING)
    PROVE  IsPrefix(e, d) <=> Len(e) <= Len(d) /\ \A i \in 1 .. Len(e) : e[i] = d[i]
<1>1. Len(d) \in Nat /\ Len(e) \in Nat
  BY LenProperties
<1>2. \A s \in Seq(STRING) : Len(e) <= Len(s) =>
          /\ SubSeq(s, 1, Len(e)) \in Seq(STRING) /\ Len(SubSeq(s, 1, Len(e))) = Len(e)
          /\ \A i \in 1 .. Len(e) : SubSeq(s, 1, Len(e))[i] = s[i]
  <2> TAKE s \in Seq(STRING)
  <2> HAVE Len(e) <= Len(s)
  <2>1. Len(s) \in Nat /\ \A i \in 1 .. Len(e) : s[i] \in STRING
    BY <1>1, LenProperties
  <2>2. /\ SubSeq(s, 1, Len(e)) \in Seq(STRING)
        /\ Len(SubSeq(s, 1, Len(e))) = IF 1 <= Len(e) THEN Len(e) - 1 + 1 ELSE 0
        /\ \A i \in 1 .. Len(e) - 1 + 1 : SubSeq(s, 1, Len(e))[i] = s[1 + i - 1]
    BY <1>1, <2>1, SubSeqProperties
  <2>3. Len(e) - 1 + 1 = Len(e) /\ \A i \in 1 .. Len(e) : 1 + i - 1 = i
    BY <1>1
  <2> QED BY <1>1, <2>2, <2>3
<1>3. PICK a, b : a = SubSeq(e, 1, Len(e)) /\ b = SubSeq(d, 1, Len(e))
  OBVIOUS
<1>4. Len(e) <= Len(d) => /\ a \in Seq(STRING) /\ b \in Seq(STRING) /\ Len(a) = Len(e) /\ Len(b) = Len(e)
                          /\ \A i \in 1 .. Len(e) : a[i] = e[i] /\ b[i] = d[i]
  BY <1>1, <1>2, <1>3
<1>5. Len(e) <= Len(d) /\ (\A i \in 1 .. Len(e) : e[i] = d[i]) => a = b
  BY <1>4, SeqEqual
<1>6. Len(e) <= Len(d) /\ a = b => \A i \in 1 .. Len(e) : e[i] = d[i]
  BY <1>4
<1>7. IsPrefix(e, d) <=> Len(e) <= Len(d) /\ a = b
  BY <1>3 DEF IsPrefix
<1> QED BY <1>5, <1>6, <1>7

LEMMA BelowIs ==
    ASSUME NEW d \in Seq(STRING), NEW e \in Seq(STRING)
    PROVE  Below(d, e) <=> Len(e) < Len(d) /\ \A i \in 1 .. Len(e) : e[i] = d[i]
<1>1. Len(d) \in Nat /\ Len(e) \in Nat
  BY LenProperties
<1>2. Len(e) = Len(d) /\ (\A i \in 1 .. Len(e) : e[i] = d[i]) => e = d
  BY SeqEqual
<1>3. Below(d, e) <=> Len(e) <= Len(d) /\ (\A i \in 1 .. Len(e) : e[i] = d[i]) /\ e # d
  BY PrefixIs DEF Below, IsStrictPrefix
<1>4. e = d => Len(e) = Len(d)
  OBVIOUS
<1> QED BY <1>1, <1>2, <1>3, <1>4

LEMMA BelowFacts ==
    ASSUME NEW D \in SUBSET Seq(STRING)
    PROVE  /\ \A d, e \in D : Below(d, e) => Len(e) \in Nat /\ Len(d) \in Nat /\ Len(e) < Len(d)
           /\ \A d, e, f \in D : Below(d, e) /\ Below(e, f) => Below(d, f)
<1>1. \A d \in D : d \in Seq(STRING) /\ Len(d) \in Nat
  BY LenProperties
<1>2. \A d, e \in D : Below(d, e) => Len(e) \in Nat /\ Len(d) \in Nat /\ Len(e) < Len(d)
  BY <1>1, BelowIs
<1>3. ASSUME NEW d \in D, NEW e \in D, NEW f \in D, Below(d, e), Below(e, f) PROVE Below(d, f)
  <2>1. /\ Len(e) < Len(d) /\ Len(f) < Len(e) /\ Len(d) \in Nat /\ Len(e) \in Nat /\ Len(f) \in Nat
        /\ \A i \in 1 .. Len(e) : e[i] = d[i]
        /\ \A i \in 1 .. Len(f) : f[i] = e[i]
    BY <1>1, <1>3, BelowIs
  <2>2. Len(f) < Len(d) /\ \A i \in 1 .. Len(f) : f[i] = d[i]
    <3>1. \A i \in 1 .. Len(f) : i \in 1 .. Len(e)
      BY <2>1
    <3> QED BY <2>1, <3>1
  <2> QED BY <1>1, <2>2, BelowIs
<1> QED BY <1>2, <1>3

\* A directory but the first one lies right below another.
LEMMA ParentOf ==
    ASSUME Tree(layout), NEW d \in DOMAIN layout, d # <<>>
    PROVE  /\ Front(d) \in DOMAIN layout /\ d \in Children(Front(d)) /\ Below(d, Front(d))
           /\ Len(d) \in Nat /\ Len(Front(d)) = Len(d) - 1
<1>1. d \in Seq(STRING) /\ Front(d) \in DOMAIN layout /\ Front(d) \in Seq(STRING)
  BY DEF Tree
<1>2. Len(d) \in Nat \ {0}
  BY <1>1, EmptySeq, LenProperties
<1>3. PICK n : n = Len(d) - 1
  OBVIOUS
<1>4. n \in Nat /\ Len(d) = n + 1 /\ (1 <= n => n - 1 + 1 = n) /\ (~(1 <= n) => n = 0) /\ n - 1 + 1 = n
  BY <1>2, <1>3
<1>5. \A i \in 1 .. n : d[i] \in STRING
  BY <1>1, <1>4, LenProperties
<1>6. PICK f : f = Front(d)
  OBVIOUS
<1>7. f = SubSeq(d, 1, n)
  BY <1>3, <1>6 DEF Front
<1>8. Len(f) = n /\ \A i \in 1 .. n : f[i] = d[i]
  <2>1. /\ Len(f) = IF 1 <= n THEN n - 1 + 1 ELSE 0
        /\ \A i \in 1 .. n - 1 + 1 : f[i] = d[1 + i - 1]
    BY <1>4, <1>5, <1>7, SubSeqProperties
  <2>2. \A i \in 1 .. n : 1 + i - 1 = i
    BY <1>4
  <2> QED BY <1>4, <2>1, <2>2
<1>9. IsPrefix(f, d) /\ Below(d, f)
  BY <1>1, <1>4, <1>6, <1>8, PrefixIs, BelowIs
<1>10. d \in Children(f)
  BY <1>4, <1>8, <1>9 DEF Children
<1> QED BY <1>1, <1>2, <1>4, <1>6, <1>8, <1>9, <1>10

LEMMA ChildIsBelow ==
    ASSUME Tree(layout), NEW d \in DOMAIN layout, NEW e \in Children(d)
    PROVE  /\ e \in DOMAIN layout /\ Below(e, d) /\ Len(d) \in Nat /\ Len(e) \in Nat /\ Len(e) = Len(d) + 1
<1>1. d \in Seq(STRING) /\ e \in Seq(STRING) /\ e \in DOMAIN layout /\ Len(e) = Len(d) + 1 /\ IsPrefix(d, e)
  BY DEF Tree, Children
<1>2. Len(d) \in Nat /\ Len(e) \in Nat /\ Len(d) < Len(e)
  BY <1>1, LenProperties
<1>3. Below(e, d)
  BY <1>1, <1>2, PrefixIs, BelowIs
<1> QED BY <1>1, <1>2, <1>3

\* The tree is not deeper than some number.
LEMMA DepthBounded ==
    ASSUME Tree(layout)
    PROVE  \E n \in Nat : \A d \in DOMAIN layout : Len(d) \in Nat /\ Len(d) <= n
<1>1. \A d \in DOMAIN layout : Len(d) \in Nat
  <2>1. \A d \in DOMAIN layout : d \in Seq(STRING)
    BY DEF Tree
  <2> QED BY <2>1, LenProperties
<1>2. PICK m \in Nat : ExistsBijection(1 .. m, DOMAIN layout)
  BY FS_NatBijection DEF Tree
<1>3. PICK f \in [1 .. m -> DOMAIN layout] : \A d \in DOMAIN layout : \E i \in 1 .. m : f[i] = d
  BY <1>2 DEF ExistsBijection, Bijection, Surjection
<1> DEFINE Bounds(k, n) == \A i \in 1 .. k : Len(f[i]) <= n
           K == {k \in 0 .. m : ~(\E n \in Nat : Bounds(k, n))}
<1>4. ASSUME K # {} PROVE FALSE
  <2>1. PICK k \in K : \A j \in K : ~(j < k)
    <3>1. K \in SUBSET Nat
      OBVIOUS
    <3> HIDE DEF K
    <3> QED BY <1>4, <3>1, LeastNumber
  <2>2. k \in 0 .. m /\ ~(\E n \in Nat : Bounds(k, n))
    BY <2>1
  <2>3. k # 0
    <3>1. Bounds(0, 0)
      OBVIOUS
    <3> QED BY <2>2, <3>1
  <2>4. k - 1 \in 0 .. m /\ k - 1 < k /\ k \in 1 .. m
    BY <2>2, <2>3
  <2>5. k - 1 \notin K
    BY <2>1, <2>4
  <2>6. PICK n \in Nat : Bounds(k - 1, n)
    BY <2>4, <2>5
  <2>7. Len(f[k]) \in Nat
    BY <1>1, <2>4
  <2>8. PICK b \in Nat : n <= b /\ Len(f[k]) <= b
    <3>1. CASE n <= Len(f[k])
      BY <2>7, <3>1
    <3>2. CASE ~(n <= Len(f[k]))
      BY <2>7, <3>2
    <3> QED BY <3>1, <3>2
  <2>9. ASSUME NEW i \in 1 .. k PROVE Len(f[i]) <= b
    <3>1. i = k \/ i \in 1 .. k - 1
      BY <2>4
    <3>2. i \in 1 .. m
      BY <2>4
    <3>3. Len(f[i]) \in Nat
      BY <1>1, <3>2
    <3>4. i \in 1 .. k - 1 => Len(f[i]) <= n
      BY <2>6
    <3> QED BY <2>8, <3>1, <3>3, <3>4
  <2>10. Bounds(k, b)
    BY <2>9
  <2> QED BY <2>2, <2>10
<1>5. \E n \in Nat : Bounds(m, n)
  <2>1. m \in 0 .. m
    OBVIOUS
  <2>2. m \notin K
    BY <1>4
  <2> QED BY <2>1, <2>2
<1>6. PICK n \in Nat : Bounds(m, n)
  BY <1>5
<1>7. \A d \in DOMAIN layout : Len(d) <= n
  BY <1>3, <1>6
<1> QED BY <1>1, <1>7

\* What the list of a directory is made of, given those of its children.
NoTechOf(g, d) ==
    IF HasTech(d) THEN {}
    ELSE IF \A e \in Children(d) : g[e] # {} THEN {d}
    ELSE UNION {g[e] : e \in Children(d)}

LEMMA NoTechSame ==
    ASSUME NEW g, NEW h, NEW d, \A e \in Children(d) : g[e] = h[e]
    PROVE  NoTechOf(g, d) = NoTechOf(h, d)
<1>1. {g[e] : e \in Children(d)} = {h[e] : e \in Children(d)}
  OBVIOUS
<1>2. (\A e \in Children(d) : g[e] # {}) <=> \A e \in Children(d) : h[e] # {}
  OBVIOUS
<1> QED BY <1>1, <1>2 DEF NoTechOf

\* The walk from the deepest directories up ends: there is such a list.
LEMMA NoTechDefined ==
    ASSUME Tree(layout)
    PROVE  NoTechList = [d \in DOMAIN layout |-> NoTechOf(NoTechList, d)]
<1> DEFINE Solves(g, k) == \A d \in DOMAIN layout : Len(d) >= k => g[d] = NoTechOf(g, d)
           K == {k \in Nat : \E g : Solves(g, k)}
<1>1. \A d \in DOMAIN layout : Len(d) \in Nat
  BY DepthBounded
<1>2. K # {}
  <2>1. PICK n \in Nat : \A d \in DOMAIN layout : Len(d) \in Nat /\ Len(d) <= n
    BY DepthBounded
  <2>2. Solves(layout, n + 1)
    BY <2>1
  <2>3. n + 1 \in K
    BY <2>2
  <2> QED BY <2>3
<1>3. PICK k \in K : \A j \in K : ~(j < k)
  <2>1. K \in SUBSET Nat
    OBVIOUS
  <2> HIDE DEF K
  <2> QED BY <1>2, <2>1, LeastNumber
<1>4. PICK g : Solves(g, k)
  BY <1>3
<1>5. k \in Nat
  BY <1>3
<1>6. k = 0
  <2> SUFFICES ASSUME k # 0 PROVE FALSE
    OBVIOUS
  <2>1. k - 1 \in Nat /\ k - 1 < k
    BY <1>5
  <2>2. PICK h : h = [d \in DOMAIN layout |-> IF Len(d) >= k THEN g[d] ELSE NoTechOf(g, d)]
    OBVIOUS
  <2>3. ASSUME NEW d \in DOMAIN layout, Len(d) >= k - 1 PROVE h[d] = NoTechOf(h, d)
    <3>1. h[d] = NoTechOf(g, d)
      BY <1>4, <2>2
    <3>2. ASSUME NEW e \in Children(d) PROVE g[e] = h[e]
      <4>1. e \in DOMAIN layout /\ Len(e) >= k
        <5>1. e \in DOMAIN layout /\ Len(d) \in Nat /\ Len(e) = Len(d) + 1
          BY ChildIsBelow
        <5> QED BY <1>5, <2>3, <5>1
      <4> QED BY <2>2, <4>1
    <3>3. NoTechOf(g, d) = NoTechOf(h, d)
      BY <3>2, NoTechSame
    <3> QED BY <3>1, <3>3
  <2>4. Solves(h, k - 1)
    BY <2>3
  <2>5. k - 1 \in K
    BY <2>1, <2>4
  <2> QED BY <1>3, <2>1, <2>5
<1>7. PICK h : h = [d \in DOMAIN layout |-> g[d]]
  OBVIOUS
<1>8. ASSUME NEW d \in DOMAIN layout PROVE h[d] = NoTechOf(h, d)
  <2>1. Len(d) >= k
    BY <1>1, <1>6
  <2>2. h[d] = NoTechOf(g, d)
    BY <1>4, <1>7, <2>1
  <2>3. \A e \in Children(d) : g[e] = h[e]
    BY <1>7 DEF Children
  <2>4. NoTechOf(g, d) = NoTechOf(h, d)
    BY <2>3, NoTechSame
  <2> QED BY <2>2, <2>4
<1>9. h = [d \in DOMAIN layout |-> NoTechOf(h, d)]
  BY <1>7, <1>8
<1>10. \E f : f = [d \in DOMAIN layout |-> NoTechOf(f, d)]
  BY <1>9
<1> QED BY <1>10 DEF NoTechList, NoTechOf

LEMMA NoTechIs ==
    ASSUME Tree(layout), NEW d \in DOMAIN layout
    PROVE  NoTechList[d] = NoTechOf(NoTechList, d)
<1>1. PICK f : f = NoTechList
  OBVIOUS
<1>2. f = [e \in DOMAIN layout |-> NoTechOf(f, e)]
  BY <1>1, NoTechDefined
<1>3. f[d] = NoTechOf(f, d)
  BY <1>2
<1> QED BY <1>1, <1>3

\* A directory with an empty list has a technology, or something below it has.
LEMMA TechBelow ==
    ASSUME Tree(layout), NEW d \in DOMAIN layout, NoTechList[d] = {}
    PROVE  \E e \in DOMAIN layout : (e = d \/ Below(e, d)) /\ HasTech(e)
<1> DEFINE Good(x) == NoTechList[x] = {} => \E e \in DOMAIN layout : (e = x \/ Below(e, x)) /\ HasTech(e)
<1>1. PICK n \in Nat : \A x \in DOMAIN layout : Len(x) \in Nat /\ Len(x) <= n
  BY DepthBounded
<1> DEFINE K == {k \in Nat : \E x \in DOMAIN layout : Len(x) + k = n /\ ~Good(x)}
<1>2. ASSUME K # {} PROVE FALSE
  <2>1. PICK k \in K : \A j \in K : ~(j < k)
    <3>1. K \in SUBSET Nat
      OBVIOUS
    <3> HIDE DEF K
    <3> QED BY <1>2, <3>1, LeastNumber
  <2>2. PICK x \in DOMAIN layout : Len(x) + k = n /\ ~Good(x)
    BY <2>1
  <2>3. NoTechOf(NoTechList, x) = {} /\ ~HasTech(x)
    BY <2>2, NoTechIs
  <2>4. PICK e \in Children(x) : NoTechList[e] = {}
    BY <2>3 DEF NoTechOf
  <2>5. /\ e \in DOMAIN layout /\ Below(e, x) /\ Len(x) \in Nat /\ Len(e) \in Nat /\ Len(e) = Len(x) + 1
    BY ChildIsBelow
  <2>6. k - 1 \in Nat /\ k - 1 < k /\ Len(e) + (k - 1) = n
    BY <1>1, <2>2, <2>5
  <2>7. Good(e)
    BY <2>1, <2>5, <2>6
  <2>8. PICK f \in DOMAIN layout : (f = e \/ Below(f, e)) /\ HasTech(f)
    BY <2>4, <2>7
  <2>9. Below(f, x)
    BY <2>5, <2>8, BelowFacts DEF Tree
  <2> QED BY <2>2, <2>8, <2>9
<1>3. n - Len(d) \in Nat /\ Len(d) + (n - Len(d)) = n
  BY <1>1
<1>4. Good(d)
  BY <1>2, <1>3
<1> QED BY <1>4

\* A directory is covered from above, or its list becomes part of the result.
LEMMA NoTechRises ==
    ASSUME Tree(layout), NEW d \in DOMAIN layout
    PROVE  \/ \E e \in DOMAIN layout : (d = e \/ Below(d, e)) /\ (HasTech(e) \/ e \in NoTechList[<<>>])
           \/ NoTechList[d] \subseteq NoTechList[<<>>]
<1> DEFINE Higher(x) == \E e \in DOMAIN layout : (x = e \/ Below(x, e)) /\ (HasTech(e) \/ e \in NoTechList[<<>>])
           Good(x) == Higher(x) \/ NoTechList[x] \subseteq NoTechList[<<>>]
           K == {k \in Nat : \E x \in DOMAIN layout : Len(x) = k /\ ~Good(x)}
<1>1. \A x \in DOMAIN layout : Len(x) \in Nat
  BY DepthBounded
<1>2. ASSUME K # {} PROVE FALSE
  <2>1. PICK k \in K : \A j \in K : ~(j < k)
    <3>1. K \in SUBSET Nat
      OBVIOUS
    <3> HIDE DEF K
    <3> QED BY <1>2, <3>1, LeastNumber
  <2>2. PICK x \in DOMAIN layout : Len(x) = k /\ ~Good(x)
    BY <2>1
  <2>3. x # <<>>
    BY <2>2
  <2>4. PICK p : p = Front(x)
    OBVIOUS
  <2>5. /\ p \in DOMAIN layout /\ x \in Children(p) /\ Below(x, p)
        /\ Len(x) \in Nat /\ Len(p) = Len(x) - 1
    BY <2>3, <2>4, ParentOf
  <2>6. Len(p) \in Nat /\ Len(p) < k
    BY <1>1, <2>2, <2>5
  <2>7. Good(p)
    BY <2>1, <2>5, <2>6
  <2>8. CASE Higher(p)
    <3>1. PICK e \in DOMAIN layout : (p = e \/ Below(p, e)) /\ (HasTech(e) \/ e \in NoTechList[<<>>])
      BY <2>8
    <3>2. Below(x, e)
      BY <2>5, <3>1, BelowFacts DEF Tree
    <3> QED BY <2>2, <3>1, <3>2
  <2>9. CASE NoTechList[p] \subseteq NoTechList[<<>>]
    <3>1. NoTechList[p] = NoTechOf(NoTechList, p)
      BY <2>5, NoTechIs
    <3>2. HasTech(p) \/ NoTechList[p] = {p} \/ NoTechList[x] \subseteq NoTechList[p]
      BY <2>5, <3>1 DEF NoTechOf
    <3>3. HasTech(p) \/ p \in NoTechList[<<>>] => Higher(x)
      BY <2>5
    <3> QED BY <2>2, <2>9, <3>2, <3>3
  <2> QED BY <2>7, <2>8, <2>9
<1>3. Good(d)
  BY <1>1, <1>2
<1> QED BY <1>3

LEMMA AllCovered ==
    ASSUME Tree(layout), noTech = NoTechList[<<>>], NEW d \in DOMAIN layout
    PROVE  Covered(d)
<1>1. ASSUME NEW e \in DOMAIN layout, HasTech(e), d = e \/ Below(d, e) \/ Below(e, d) PROVE Covered(d)
  BY <1>1 DEF Covered, HasTech
<1>2. ASSUME NEW e \in NoTechList[<<>>], d = e \/ Below(d, e) PROVE Covered(d)
  BY <1>2 DEF Covered
<1>3. CASE NoTechList[d] \subseteq NoTechList[<<>>]
  <2>1. CASE NoTechList[d] = {}
    BY <1>1, <2>1, TechBelow
  <2>2. CASE NoTechList[d] = {d}
    BY <1>2, <1>3, <2>2
  <2>3. CASE NoTechList[d] \notin {{}, {d}}
    <3>1. NoTechOf(NoTechList, d) \notin {{}, {d}}
      BY <2>3, NoTechIs
    <3>2. PICK c \in Children(d) : NoTechList[c] = {}
      BY <3>1 DEF NoTechOf
    <3>3. c \in DOMAIN layout /\ Below(c, d)
      BY ChildIsBelow
    <3>4. PICK e \in DOMAIN layout : (e = c \/ Below(e, c)) /\ HasTech(e)
      BY <3>2, <3>3, TechBelow
    <3>5. Below(e, d)
      BY <3>3, <3>4, BelowFacts DEF Tree
    <3> QED BY <1>1, <3>4, <3>5
  <2> QED BY <2>1, <2>2, <2>3
<1> QED BY <1>1, <1>2, <1>3, NoTechRises

-----------------------------------------------------------------------------
(* TechDetection: what is folded into the topmost directories.              *)

LEMMA TopIs ==
    ASSUME NEW D \in SUBSET Seq(STRING), NEW d \in D
    PROVE  /\ Top(D, d) \in D /\ (Top(D, d) = d \/ Below(d, Top(D, d)))
           /\ \A o \in D : ~Below(Top(D, d), o)
<1> DEFINE E == {e \in D : e = d \/ Below(d, e)}
           K == {k \in Nat : \E e \in E : Len(e) = k}
<1>1. \A e \in D : Len(e) \in Nat
  BY LenProperties
<1>2. K # {}
  <2>1. Len(d) \in K
    BY <1>1
  <2> QED BY <2>1
<1>3. PICK k \in K : \A j \in K : ~(j < k)
  <2>1. K \in SUBSET Nat
    OBVIOUS
  <2> HIDE DEF K
  <2> QED BY <1>2, <2>1, LeastNumber
<1>4. PICK e \in E : Len(e) = k
  BY <1>3
<1>5. ASSUME NEW o \in D, Below(e, o) PROVE FALSE
  <2>1. Len(o) \in Nat /\ Len(o) < k
    BY <1>4, <1>5, BelowFacts
  <2>2. Below(d, o)
    BY <1>4, <1>5, BelowFacts
  <2>3. Len(o) \in K
    BY <2>1, <2>2
  <2> QED BY <1>3, <2>1, <2>3
<1>6. \E x \in D : (x = d \/ Below(d, x)) /\ \A o \in D : ~Below(x, o)
  BY <1>4, <1>5
<1> QED BY <1>6, Zenon DEF Top

\* The first result, by technology and directory, and what is left of it.
Mapped ==
    [t \in {u \in Requested : DirsOf(u) # {} \/ u \in setting.asked} |->
        [d \in DirsOf(t) |-> Located(d, FilesIn(d) \cap Descriptors[t])]]
Folded ==
    [t \in DOMAIN Mapped |-> IF t \in MultiModule \/ setting.clean THEN Cleaned(Mapped[t]) ELSE Mapped[t]]

\* Each descriptor is kept in the directory it is in, or in the topmost one.
LEMMA KeptOnce ==
    ASSUME Tree(layout), setting.recursive, found = Folded,
           NEW t \in DOMAIN found, NEW d \in DirsOf(t), NEW x \in Located(d, FilesIn(d) \cap Descriptors[t])
    PROVE  Cardinality(Keepers(t, x)) = 1
<1> DEFINE D == DirsOf(t)
           m == Mapped[t]
<1>1. t \in DOMAIN Mapped /\ found[t] = IF t \in MultiModule \/ setting.clean THEN Cleaned(m) ELSE m
  BY DEF Folded
<1>2. m = [e \in D |-> Located(e, FilesIn(e) \cap Descriptors[t])]
  BY <1>1 DEF Mapped
<1>3. D \in SUBSET Seq(STRING)
  BY DEF Tree, DirsOf, Scope
<1>4. \A e \in D : x \in m[e] <=> e = d
  BY <1>2 DEF Located
<1>5. \E e : Keepers(t, x) = {e}
  <2>1. CASE found[t] = m
    <3>1. Keepers(t, x) = {d}
      BY <1>2, <1>4, <2>1 DEF Keepers
    <3> QED BY <3>1
  <2>2. CASE found[t] = Cleaned(m)
    <3> DEFINE c == Cleaned(m)
               tops == {Top(D, e) : e \in D}
    <3>1. DOMAIN m = D
      BY <1>2
    <3>2. c = [e \in tops |-> UNION {m[z] : z \in {y \in D : Top(D, y) = e}}]
      BY <3>1 DEF Cleaned
    <3> HIDE DEF c, m
    <3>3. ASSUME NEW e \in tops PROVE x \in c[e] <=> e = Top(D, d)
      <4>1. c[e] = UNION {m[z] : z \in {y \in D : Top(D, y) = e}}
        BY <3>2
      <4>2. x \in c[e] <=> \E z \in D : Top(D, z) = e /\ x \in m[z]
        BY <4>1
      <4> QED BY <1>4, <4>2
    <3>4. Top(D, d) \in tops /\ DOMAIN c = tops
      BY <3>2
    <3>5. Keepers(t, x) = {e \in tops : x \in c[e]}
      BY <2>2, <3>4 DEF Keepers, c
    <3>6. Keepers(t, x) = {Top(D, d)}
      BY <3>3, <3>4, <3>5
    <3> QED BY <3>6
  <2> QED BY <1>1, <2>1, <2>2
<1> QED BY <1>5, FS_Singleton

\* Of the directories of a multi-module technology none lies in another.
LEMMA TopsApart ==
    ASSUME Tree(layout), setting.recursive, found = Folded,
           NEW t \in DOMAIN found \cap MultiModule, NEW d \in DOMAIN found[t], NEW e \in DOMAIN found[t]
    PROVE  ~Below(d, e)
<1> DEFINE D == DirsOf(t)
           m == Mapped[t]
<1>1. t \in DOMAIN Mapped /\ found[t] = Cleaned(m)
  BY DEF Folded
<1>2. DOMAIN m = D
  BY <1>1 DEF Mapped
<1>3. D \in SUBSET Seq(STRING)
  BY DEF Tree, DirsOf, Scope
<1>4. DOMAIN found[t] = {Top(D, z) : z \in D}
  BY <1>1, <1>2 DEF Cleaned
<1> HIDE DEF D
<1>5. \A z \in D : Top(D, z) \in D /\ \A o \in D : ~Below(Top(D, z), o)
  BY <1>3, TopIs
<1> QED BY <1>4, <1>5

LEMMA NothingIsForgotten ==
    ASSUME Tree(layout), setting.recursive, found = Folded, noTech = NoTechList[<<>>]
    PROVE  NothingForgotten
<1>1. \A d \in DOMAIN layout : Covered(d)
  BY AllCovered
<1>2. \A t \in DOMAIN found : \A d \in DirsOf(t) :
          \A x \in Located(d, FilesIn(d) \cap Descriptors[t]) : Cardinality(Keepers(t, x)) = 1
  BY KeptOnce
<1>3. \A t \in DOMAIN found \cap MultiModule : \A d, e \in DOMAIN found[t] : ~Below(d, e)
  BY TopsApart
<1> QED BY <1>1, <1>2, <1>3 DEF NothingForgotten

-----------------------------------------------------------------------------
(* TechDetection: the list of a curation audit.                             *)

Once(l) == \A i, j \in DOMAIN l : l[i] = l[j] => i = j
Exclusive(l) ==
    \A i, j \in DOMAIN l :
        i # j /\ {l[i], l[j]} \subseteq {"npm", "pnpm", "yarn"} => ".yarnrc" \in layout[setting.cwd]

LEMMA ListOfSet ==
    ASSUME NEW S, IsFiniteSet(S)
    PROVE  /\ SetToSeq(S) \in Seq(S) /\ Once(SetToSeq(S))
           /\ \A i \in DOMAIN SetToSeq(S) : SetToSeq(S)[i] \in S
<1>1. PICK n : n = Cardinality(S)
  OBVIOUS
<1>2. n \in Nat /\ ExistsBijection(1 .. n, S)
  BY <1>1, FS_CardinalityType
<1>3. \E f : f \in [1 .. n -> S] /\ IsInjective(f)
  BY <1>2 DEF ExistsBijection, Bijection, Injection
<1>4. PICK f : f = SetToSeq(S)
  OBVIOUS
<1>5. f \in [1 .. n -> S] /\ IsInjective(f)
  BY <1>1, <1>3, <1>4 DEF SetToSeq
<1>6. f \in Seq(S) /\ DOMAIN f = 1 .. n
  BY <1>2, <1>5
<1>7. Once(f) /\ \A i \in DOMAIN f : f[i] \in S
  BY <1>5 DEF Once, IsInjective
<1> QED BY <1>4, <1>6, <1>7

LEMMA FiniteTechs == IsFiniteSet(Techs)
<1>1. Techs = {"maven", "go", "npm", "pnpm", "yarn", "pip", "pipenv", "poetry", "uv"}
  BY DEF Techs, Indicators
<1>2. IsFiniteSet({"maven", "go", "npm", "pnpm", "yarn", "pip", "pipenv", "poetry", "uv"})
  <2>1. IsFiniteSet({}) /\ \A S, x : IsFiniteSet(S) => IsFiniteSet(S \cup {x})
    BY FS_EmptySet, FS_AddElement
  <2>2. IsFiniteSet({} \cup {"maven"} \cup {"go"} \cup {"npm"} \cup {"pnpm"} \cup {"yarn"} \cup {"pip"}
                    \cup {"pipenv"} \cup {"poetry"} \cup {"uv"})
    BY <2>1
  <2>3. {} \cup {"maven"} \cup {"go"} \cup {"npm"} \cup {"pnpm"} \cup {"yarn"} \cup {"pip"}
           \cup {"pipenv"} \cup {"poetry"} \cup {"uv"}
        = {"maven", "go", "npm", "pnpm", "yarn", "pip", "pipenv", "poetry", "uv"}
    OBVIOUS
  <2> QED BY <2>2, <2>3
<1> QED BY <1>1, <1>2

\* What one descriptor shows of the managers that read it.
LEMMA ShownManagers ==
    ASSUME ~setting.recursive, setting.asked = {}, found = Folded
    PROVE  /\ DOMAIN found \subseteq Techs
           /\ "npm" \in DOMAIN found /\ "yarn" \in DOMAIN found => ".yarnrc" \in layout[setting.cwd]
           /\ ~("npm" \in DOMAIN found /\ "pnpm" \in DOMAIN found)
           /\ ~("yarn" \in DOMAIN found /\ "pnpm" \in DOMAIN found)
           /\ "uv" \in DOMAIN found => "uv.lock" \in layout[setting.cwd]
<1> DEFINE c == setting.cwd
<1>1. DOMAIN found = {u \in Techs : DirsOf(u) # {}}
  BY DEF Folded, Mapped, Requested
<1>2. \A t \in DOMAIN found : FilesIn(c) \cap Indicators[t] # {} /\ FilesIn(c) \cap Exclude[t] = {}
  BY <1>1 DEF DirsOf, Scope, Indicates, Excluded
<1>3. /\ Indicators["pnpm"] = PnpmMarks /\ Indicators["yarn"] = YarnMarks /\ Indicators["uv"] = {"uv.lock"}
      /\ Exclude["npm"] = PnpmMarks \cup (YarnMarks \ {".yarnrc"})
      /\ Exclude["pnpm"] = YarnMarks \ {".yarnrc"} /\ Exclude["yarn"] = PnpmMarks
  BY DEF Indicators, Exclude
<1>4. FilesIn(c) \subseteq layout[c]
  BY DEF FilesIn
<1>5. DOMAIN found \subseteq Techs
  BY <1>1
<1>6. ASSUME "npm" \in DOMAIN found, "yarn" \in DOMAIN found PROVE ".yarnrc" \in layout[c]
  BY <1>2, <1>3, <1>4, <1>6
<1>7. ~("npm" \in DOMAIN found /\ "pnpm" \in DOMAIN found)
  BY <1>2, <1>3
<1>8. ~("yarn" \in DOMAIN found /\ "pnpm" \in DOMAIN found)
  BY <1>2, <1>3
<1>9. "uv" \in DOMAIN found => "uv.lock" \in layout[c]
  BY <1>2, <1>3, <1>4
<1> QED BY <1>5, <1>6, <1>7, <1>8, <1>9

\* A technology is taken out of the list, the others keep their order.
LEMMA WithoutIs ==
    ASSUME NEW S, list \in Seq(S), Once(list), NEW t
    PROVE  /\ Without(t) \in Seq(S) /\ Once(Without(t))
           /\ \A i \in DOMAIN Without(t) : Without(t)[i] # t
           /\ \E f \in [DOMAIN Without(t) -> DOMAIN list] :
                 /\ \A i, j \in DOMAIN Without(t) : f[i] = f[j] => i = j
                 /\ \A i \in DOMAIN Without(t) : Without(t)[i] = list[f[i]]
<1>1. Len(list) \in Nat /\ DOMAIN list = 1 .. Len(list)
  BY LenProperties
<1>2. CASE ~In(t)
  <2>1. PICK f : f = [i \in DOMAIN list |-> i]
    OBVIOUS
  <2>2. /\ f \in [DOMAIN list -> DOMAIN list]
        /\ \A i, j \in DOMAIN list : f[i] = f[j] => i = j
        /\ \A i \in DOMAIN list : list[i] = list[f[i]]
    BY <2>1
  <2>3. Without(t) = list
    BY <1>2 DEF Without
  <2>4. \A i \in DOMAIN list : list[i] # t
    BY <1>2 DEF In
  <2> QED BY <2>2, <2>3, <2>4
<1>3. CASE In(t)
  <2>1. PICK k, n : k = (CHOOSE i \in DOMAIN list : list[i] = t) /\ n = Len(list)
    OBVIOUS
  <2>2. k \in 1 .. n /\ list[k] = t /\ n \in Nat
    BY <1>1, <1>3, <2>1 DEF In
  <2>3. PICK a, b : a = SubSeq(list, 1, k - 1) /\ b = SubSeq(list, k + 1, n)
    OBVIOUS
  <2>4. Without(t) = a \o b
    BY <1>3, <2>1, <2>3 DEF Without, RemoveAt
  <2>5. /\ a \in Seq(S) /\ Len(a) = k - 1 /\ \A i \in 1 .. k - 1 : a[i] = list[i]
    <3>1. PICK h \in Nat : h = k - 1
      BY <2>2
    <3>2. \A i \in 1 .. h : list[i] \in S
      BY <1>1, <2>1, <2>2, <3>1
    <3>3. /\ a \in Seq(S) /\ Len(a) = IF 1 <= h THEN h - 1 + 1 ELSE 0
          /\ \A i \in 1 .. h - 1 + 1 : a[i] = list[1 + i - 1]
      BY <2>3, <3>1, <3>2, SubSeqProperties
    <3>4. Len(a) = h /\ \A i \in 1 .. h : a[i] = list[i]
      <4>1. h - 1 + 1 = h /\ \A i \in 1 .. h : 1 + i - 1 = i
        BY <3>1
      <4>2. Len(a) = h
        BY <3>1, <3>3, <4>1
      <4>3. \A i \in 1 .. h : a[i] = list[1 + i - 1]
        BY <3>3, <4>1
      <4> QED BY <4>1, <4>2, <4>3
    <3> QED BY <3>1, <3>3, <3>4
  <2>6. /\ b \in Seq(S) /\ Len(b) = n - k /\ \A i \in 1 .. n - k : b[i] = list[k + i]
    <3>1. \A i \in k + 1 .. n : list[i] \in S
      BY <1>1, <2>1, <2>2
    <3>2. /\ b \in Seq(S) /\ Len(b) = IF k + 1 <= n THEN n - (k + 1) + 1 ELSE 0
          /\ \A i \in 1 .. n - (k + 1) + 1 : b[i] = list[k + 1 + i - 1]
      BY <2>2, <2>3, <3>1, SubSeqProperties
    <3>3. n - (k + 1) + 1 = n - k /\ \A i \in 1 .. n - k : k + 1 + i - 1 = k + i
      BY <2>2
    <3> QED BY <2>2, <3>2, <3>3
  <2>7. PICK w : w = a \o b
    OBVIOUS
  <2>8. /\ w \in Seq(S) /\ Len(w) = n - 1
        /\ \A i \in 1 .. n - 1 : w[i] = IF i <= k - 1 THEN a[i] ELSE b[i - (k - 1)]
    <3>1. /\ w \in Seq(S) /\ Len(w) = k - 1 + (n - k)
          /\ \A i \in 1 .. k - 1 + (n - k) : w[i] = IF i <= k - 1 THEN a[i] ELSE b[i - (k - 1)]
      BY <2>5, <2>6, <2>7, ConcatProperties
    <3>2. k - 1 + (n - k) = n - 1
      BY <2>2
    <3> QED BY <3>1, <3>2
  <2>9. PICK f : f = [i \in 1 .. n - 1 |-> IF i <= k - 1 THEN i ELSE i + 1]
    OBVIOUS
  <2>10. DOMAIN w = 1 .. n - 1 /\ DOMAIN list = 1 .. n
    BY <1>1, <2>1, <2>8, LenProperties
  <2>11. /\ f \in [DOMAIN w -> DOMAIN list]
         /\ \A i, j \in DOMAIN w : f[i] = f[j] => i = j
         /\ \A i \in DOMAIN w : f[i] # k
    BY <2>2, <2>9, <2>10
  <2>12. ASSUME NEW i \in DOMAIN w PROVE w[i] = list[f[i]]
    <3>1. CASE i <= k - 1
      BY <2>2, <2>5, <2>8, <2>9, <2>10, <3>1
    <3>2. CASE ~(i <= k - 1)
      <4>1. i - (k - 1) \in 1 .. n - k /\ k + (i - (k - 1)) = i + 1
        BY <2>2, <2>10, <3>2
      <4>2. w[i] = b[i - (k - 1)] /\ f[i] = i + 1
        BY <2>8, <2>9, <2>10, <3>2
      <4> QED BY <2>6, <4>1, <4>2
    <3> QED BY <3>1, <3>2
  <2>13. Once(w) /\ \A i \in DOMAIN w : w[i] # t
    BY <2>2, <2>10, <2>11, <2>12 DEF Once
  <2>14. Without(t) = w
    BY <2>4, <2>7
  <2>15. \E g \in [DOMAIN w -> DOMAIN list] :
            /\ \A i, j \in DOMAIN w : g[i] = g[j] => i = j
            /\ \A i \in DOMAIN w : w[i] = list[g[i]]
    BY <2>11, <2>12
  <2> QED BY <2>8, <2>13, <2>14, <2>15, Zenon
<1> QED BY <1>2, <1>3

Has(l, t) == \E i \in DOMAIN l : l[i] = t
\* A list that is not done yet, and one that may be audited.
Listed(l) == (\E S : l \in Seq(S)) /\ Exclusive(l)
Promoted(l) == Listed(l) /\ ~(Has(l, "pip") /\ Has(l, "uv"))
UvIsLocked(l) == Has(l, "uv") => "uv.lock" \in layout[setting.cwd]

LEMMA MembersListed ==
    ASSUME ~setting.recursive, setting.asked = {}, found = Folded, PromoteMembers
    PROVE  Listed(list') /\ Once(list') /\ UvIsLocked(list')
<1> DEFINE shown == DOMAIN found
           T == IF "npm" \in shown /\ setting.cwd \in DOMAIN found.npm /\ Claimed
                THEN (shown \ {"npm"}) \cup {"yarn"} ELSE shown
<1>1. list' = SetToSeq(T)
  BY DEF PromoteMembers
<1>2. shown \subseteq Techs
  BY ShownManagers
<1>3. T \subseteq Techs
  <2>1. "yarn" \in Techs
    BY DEF Techs, Indicators
  <2> QED BY <1>2, <2>1
<1>4. IsFiniteSet(T)
  BY <1>3, FiniteTechs, FS_Subset
<1>5. /\ "npm" \in T /\ "yarn" \in T => ".yarnrc" \in layout[setting.cwd]
      /\ "npm" \in T => "pnpm" \notin T
      /\ "pnpm" \in T => "yarn" \notin T
      /\ "uv" \in T => "uv.lock" \in layout[setting.cwd]
  BY ShownManagers
<1> HIDE DEF T
<1>6. PICK l : l = list'
  OBVIOUS
<1>7. l \in Seq(T) /\ Once(l) /\ \A i \in DOMAIN l : l[i] \in T
  BY <1>1, <1>4, <1>6, ListOfSet
<1>8. Exclusive(l)
  <2> SUFFICES ASSUME NEW i \in DOMAIN l, NEW j \in DOMAIN l, i # j,
                      {l[i], l[j]} \subseteq {"npm", "pnpm", "yarn"}
               PROVE  ".yarnrc" \in layout[setting.cwd]
    BY DEF Exclusive
  <2>1. l[i] # l[j] /\ l[i] \in T /\ l[j] \in T
    BY <1>7 DEF Once
  <2> QED BY <1>5, <2>1
<1>9. UvIsLocked(l)
  BY <1>5, <1>7 DEF UvIsLocked, Has
<1> QED BY <1>6, <1>7, <1>8, <1>9 DEF Listed

\* npm's entry becomes one of the other two.
LEMMA RenameListed ==
    ASSUME Listed(list), NEW t \in {"pnpm", "yarn"}
    PROVE  /\ Listed(Rename("npm", t))
           /\ \A u \in {"pip", "uv"} : Has(Rename("npm", t), u) <=> Has(list, u)
           /\ Once(list) /\ ~Has(list, t) => Once(Rename("npm", t))
<1>1. PICK r : r = Rename("npm", t)
  OBVIOUS
<1>2. PICK S : list \in Seq(S)
  BY DEF Listed
<1>3. r = [i \in DOMAIN list |-> IF list[i] = "npm" THEN t ELSE list[i]]
  BY <1>1 DEF Rename
<1>4. DOMAIN r = DOMAIN list /\ \A i \in DOMAIN list : r[i] = IF list[i] = "npm" THEN t ELSE list[i]
  BY <1>3
<1>5. r \in Seq(S \cup {t})
  <2>1. PICK n \in Nat : list \in [1 .. n -> S]
    BY <1>2
  <2>2. r \in [1 .. n -> S \cup {t}]
    BY <1>3, <2>1
  <2> QED BY <2>2
<1>6. Exclusive(r)
  <2> SUFFICES ASSUME NEW i \in DOMAIN r, NEW j \in DOMAIN r, i # j,
                      {r[i], r[j]} \subseteq {"npm", "pnpm", "yarn"}
               PROVE  ".yarnrc" \in layout[setting.cwd]
    BY DEF Exclusive
  <2>1. {list[i], list[j]} \subseteq {"npm", "pnpm", "yarn"}
    BY <1>4
  <2> QED BY <1>4, <2>1 DEF Listed, Exclusive
<1>7. \A u \in {"pip", "uv"} : Has(r, u) <=> Has(list, u)
  BY <1>4 DEF Has
<1>8. Once(list) /\ ~Has(list, t) => Once(r)
  BY <1>4 DEF Once, Has
<1> QED BY <1>1, <1>5, <1>6, <1>7, <1>8 DEF Listed

\* A technology that is none of these changes nothing for them.
LEMMA AddListed ==
    ASSUME NEW l, Listed(l), NEW e, e \notin {"npm", "pnpm", "yarn"}
    PROVE  /\ Listed(Append(l, e)) /\ l \o <<e>> = Append(l, e) /\ l \o <<>> = l
           /\ \A u : Has(Append(l, e), u) <=> Has(l, u) \/ u = e
<1>1. PICK S : l \in Seq(S)
  BY DEF Listed
<1>2. l \in Seq(S \cup {e}) /\ e \in S \cup {e}
  BY <1>1
<1>3. PICK a, n : a = Append(l, e) /\ n = Len(l)
  OBVIOUS
<1>4. /\ a \in Seq(S \cup {e}) /\ Len(a) = n + 1 /\ n \in Nat
      /\ (\A i \in 1 .. n : a[i] = l[i]) /\ a[n + 1] = e
  BY <1>2, <1>3, AppendProperties, LenProperties
<1>5. DOMAIN a = 1 .. n + 1 /\ DOMAIN l = 1 .. n
  BY <1>1, <1>3, <1>4, LenProperties
<1>6. Exclusive(a)
  <2> SUFFICES ASSUME NEW i \in DOMAIN a, NEW j \in DOMAIN a, i # j,
                      {a[i], a[j]} \subseteq {"npm", "pnpm", "yarn"}
               PROVE  ".yarnrc" \in layout[setting.cwd]
    BY DEF Exclusive
  <2>1. i # n + 1 /\ j # n + 1
    BY <1>4
  <2>2. i \in DOMAIN l /\ j \in DOMAIN l
    BY <1>4, <1>5, <2>1
  <2>3. a[i] = l[i] /\ a[j] = l[j]
    BY <1>4, <1>5, <2>2
  <2> QED BY <2>2, <2>3 DEF Listed, Exclusive
<1>7. ASSUME NEW u PROVE Has(a, u) <=> Has(l, u) \/ u = e
  <2>1. n + 1 \in DOMAIN a /\ \A i \in DOMAIN l : i \in DOMAIN a /\ a[i] = l[i]
    BY <1>4, <1>5
  <2>2. \A i \in DOMAIN a : i \in DOMAIN l \/ i = n + 1
    BY <1>4, <1>5
  <2> QED BY <1>4, <2>1, <2>2 DEF Has
<1>8. l \o <<e>> = a
  BY <1>2, <1>3, AppendIsConcat
<1>9. l \o <<>> = l
  BY <1>1, ConcatEmptySeq
<1> QED BY <1>3, <1>4, <1>6, <1>7, <1>8, <1>9 DEF Listed

LEMMA WithoutListed ==
    ASSUME Listed(list), Once(list), NEW t
    PROVE  Listed(Without(t)) /\ ~Has(Without(t), t)
<1>1. PICK S : list \in Seq(S)
  BY DEF Listed
<1>2. PICK w : w = Without(t)
  OBVIOUS
<1>3. /\ w \in Seq(S) /\ \A i \in DOMAIN w : w[i] # t
  BY <1>1, <1>2, WithoutIs
<1>4. PICK f \in [DOMAIN w -> DOMAIN list] : /\ \A i, j \in DOMAIN w : f[i] = f[j] => i = j
                                             /\ \A i \in DOMAIN w : w[i] = list[f[i]]
  BY <1>1, <1>2, WithoutIs
<1>5. Exclusive(w)
  <2> SUFFICES ASSUME NEW i \in DOMAIN w, NEW j \in DOMAIN w, i # j,
                      {w[i], w[j]} \subseteq {"npm", "pnpm", "yarn"}
               PROVE  ".yarnrc" \in layout[setting.cwd]
    BY DEF Exclusive
  <2>1. f[i] \in DOMAIN list /\ f[j] \in DOMAIN list /\ f[i] # f[j]
    BY <1>4
  <2>2. w[i] = list[f[i]] /\ w[j] = list[f[j]]
    BY <1>4
  <2> QED BY <2>1, <2>2 DEF Listed, Exclusive
<1> QED BY <1>2, <1>3, <1>5 DEF Listed, Has

LEMMA PipPromoted ==
    ASSUME PromotePip, Listed(list), Once(list), UvIsLocked(list)
    PROVE  Promoted(list')
<1>1. PICK l : l = list'
  OBVIOUS
<1>2. \A t : In(t) <=> Has(list, t)
  BY DEF In, Has
<1>3. CASE ~In("pip")
  <2>1. l = list
    BY <1>1, <1>3 DEF PromotePip
  <2> QED BY <1>1, <1>2, <1>3, <2>1 DEF Promoted
<1>4. CASE In("pip") /\ Marked(setting.cwd, PipOnly)
  <2>1. l = Without("uv")
    BY <1>1, <1>4 DEF PromotePip
  <2> QED BY <1>1, <2>1, WithoutListed DEF Promoted
<1>5. CASE In("pip") /\ ~Marked(setting.cwd, PipOnly) /\ UvSign
  <2>1. l = IF In("uv") THEN Without("pip") ELSE Append(Without("pip"), "uv")
    BY <1>1, <1>5 DEF PromotePip
  <2>2. PICK w : w = Without("pip")
    OBVIOUS
  <2>3. Listed(w) /\ ~Has(w, "pip")
    BY <2>2, WithoutListed
  <2>4. Listed(Append(w, "uv")) /\ ~Has(Append(w, "uv"), "pip")
    BY <2>3, AddListed
  <2> QED BY <1>1, <2>1, <2>2, <2>3, <2>4 DEF Promoted
<1>6. CASE In("pip") /\ ~Marked(setting.cwd, PipOnly) /\ ~UvSign
  <2>1. l = list
    BY <1>1, <1>6 DEF PromotePip
  <2>2. ~Has(list, "uv")
    BY <1>6 DEF UvIsLocked, UvSign, Marked
  <2> QED BY <1>1, <2>1, <2>2 DEF Promoted
<1> QED BY <1>3, <1>4, <1>5, <1>6

LEMMA ExtraPromoted ==
    ASSUME AppendExtra, Promoted(list)
    PROVE  Promoted(list')
<1>1. PICK a, b : /\ a = IF "HF_ENDPOINT" \in setting.has /\ Marked(setting.cwd, {"main.py"})
                         THEN <<"huggingFace">> ELSE <<>>
                  /\ b = IF Marked(setting.cwd, {"Cargo.toml", "Cargo.lock"}) THEN <<"cargo">> ELSE <<>>
  OBVIOUS
<1>2. PICK l, m : l = list /\ m = l \o a
  OBVIOUS
<1>3. list' = m \o b
  BY <1>1, <1>2 DEF AppendExtra
<1>4. \A k : Promoted(k) => Promoted(k \o <<>>) /\ Promoted(k \o <<"huggingFace">>) /\ Promoted(k \o <<"cargo">>)
  <2> SUFFICES ASSUME NEW k, Promoted(k)
               PROVE  Promoted(k \o <<>>) /\ Promoted(k \o <<"huggingFace">>) /\ Promoted(k \o <<"cargo">>)
    OBVIOUS
  <2>1. ASSUME NEW e \in {"huggingFace", "cargo"}
        PROVE  Promoted(k \o <<e>>) /\ k \o <<>> = k
    <3>1. /\ Listed(Append(k, e)) /\ k \o <<e>> = Append(k, e) /\ k \o <<>> = k
          /\ \A u : Has(Append(k, e), u) <=> Has(k, u) \/ u = e
      BY AddListed DEF Promoted
    <3>2. PICK c : c = Append(k, e)
      OBVIOUS
    <3>3. Listed(c) /\ ~(Has(c, "pip") /\ Has(c, "uv"))
      BY <3>1, <3>2 DEF Promoted
    <3> QED BY <3>1, <3>2, <3>3 DEF Promoted
  <2> QED BY <2>1
<1>5. Promoted(m)
  BY <1>1, <1>2, <1>4
<1>6. Promoted(m \o b)
  BY <1>1, <1>4, <1>5
<1> QED BY <1>3, <1>6

-----------------------------------------------------------------------------
(* TechDetection: the invariant.                                            *)

\* Of jf audit: what was found so far is what the tree shows.
TreeInv ==
    /\ step # "idle" /\ setting.recursive => Tree(layout)
    /\ step = "clean" => found = Mapped
    /\ step = "noTech" => setting.recursive /\ found = Folded
    /\ step = "done" /\ setting.recursive => found = Folded /\ noTech = NoTechList[<<>>]
\* Of a curation audit: npm, pnpm and yarn exclude each other from the start, pip
\* and uv from promotePipToUv on, which relies on the lock file of uv.
ListInv ==
    /\ step = "members" => ~setting.recursive /\ found = Folded
    /\ step \in {"pnpm", "yarn", "pip", "extra", "resolve"} => ~setting.recursive
    /\ setting.asked = {} /\ step \in {"pnpm", "yarn", "pip"} =>
          Listed(list) /\ Once(list) /\ UvIsLocked(list)
    /\ setting.asked = {} /\ step \in {"extra", "resolve"} => Promoted(list)
    /\ setting.asked = {} /\ ~setting.recursive /\ step = "done" => Promoted(list)
DetectionInv ==
    /\ step \in {"idle", "map", "clean", "noTech", "members", "pnpm", "yarn", "pip", "extra",
                 "resolve", "done"}
    /\ step = "idle" => setting = NoSetting
    /\ TreeInv /\ ListInv

LEMMA Unmoved ==
    ASSUME layout' = layout, setting' = setting
    PROVE  /\ Tree(layout)' <=> Tree(layout)
           /\ Mapped' = Mapped /\ (found' = found => (found = Folded <=> (found = Folded)'))
           /\ Listed(list)' <=> Listed(list')
           /\ Once(list)' <=> Once(list')
           /\ UvIsLocked(list)' <=> UvIsLocked(list')
           /\ Promoted(list)' <=> Promoted(list')
<1>1. Tree(layout)' <=> Tree(layout)
  BY DEF Tree
<1>2. Mapped' = Mapped
  BY DEF Mapped, Requested, DirsOf, Scope, Located, Indicates, Describes, Excluded, FilesIn
<1>3. Folded' = Folded
  BY <1>2 DEF Folded, Cleaned, Top, Below
<1>4. Listed(list)' <=> Listed(list')
  BY DEF Listed, Exclusive
<1>5. Once(list)' <=> Once(list')
  BY DEF Once
<1>6. UvIsLocked(list)' <=> UvIsLocked(list')
  BY DEF UvIsLocked, Has
<1>7. Promoted(list)' <=> Promoted(list')
  BY <1>4 DEF Promoted, Has
<1> QED BY <1>1, <1>2, <1>3, <1>4, <1>5, <1>6, <1>7

\* The three promotions of npm.
LEMMA RenamePromoted ==
    ASSUME NEW t \in {"pnpm", "yarn"}, list' = list \/ list' = Rename("npm", t)
    PROVE  /\ Listed(list) /\ Once(list) /\ UvIsLocked(list) /\ (~In(t) \/ list' = list) =>
                 Listed(list') /\ Once(list') /\ UvIsLocked(list')
           /\ Promoted(list) => Promoted(list')
<1>1. PICK l : l = list'
  OBVIOUS
<1>2. PICK r : r = Rename("npm", t)
  OBVIOUS
<1>3. In(t) <=> Has(list, t)
  BY DEF In, Has
<1>4. Listed(list) => /\ Listed(r) /\ (Has(r, "pip") <=> Has(list, "pip")) /\ (Has(r, "uv") <=> Has(list, "uv"))
                      /\ Once(list) /\ ~Has(list, t) => Once(r)
  BY <1>2, RenameListed
<1>5. l = list \/ l = r
  BY <1>1, <1>2
<1> QED BY <1>1, <1>3, <1>4, <1>5 DEF UvIsLocked, Promoted

LEMMA DetectionStarts == DetectionInit => DetectionInv
BY DEF DetectionInit, DetectionInv, TreeInv, ListInv

LEMMA DetectionSteps == DetectionInv /\ [DetectionNext]_tdVars => DetectionInv'
<1> SUFFICES ASSUME DetectionInv, [DetectionNext]_tdVars PROVE DetectionInv'
  OBVIOUS
<1> USE DEF DetectionInv
<1>1. ASSUME step = "idle", NEW p \in Projects, BeginDetection(p[1], p[2]) PROVE DetectionInv'
  <2>1. layout' = p[1] /\ step' = "map"
    BY <1>1 DEF BeginDetection
  <2>2. Tree(p[1])
    BY ProjectsAssumption DEF Tree
  <2>3. Tree(layout)'
    BY <2>1, <2>2 DEF Tree
  <2> QED BY <2>1, <2>3 DEF TreeInv, ListInv
<1>2. CASE MapDirectories
  <2>1. step = "map" /\ step' = "clean" /\ layout' = layout /\ setting' = setting /\ found' = Mapped
    BY <1>2 DEF MapDirectories, Mapped
  <2> QED BY <2>1, Unmoved DEF TreeInv, ListInv
<1>3. CASE CleanSubDirectories
  <2>1. /\ step = "clean" /\ layout' = layout /\ setting' = setting
        /\ step' = IF setting.recursive THEN "noTech" ELSE "members"
    BY <1>3 DEF CleanSubDirectories
  <2>2. found' = Folded
    BY <1>3 DEF CleanSubDirectories, Folded, TreeInv
  <2>3. Folded' = Folded
    BY <2>1, Unmoved DEF Folded, Cleaned, Top, Below
  <2> QED BY <2>1, <2>2, <2>3, Unmoved DEF TreeInv, ListInv
<1>4. CASE AddNoTech
  <2>1. /\ step = "noTech" /\ step' = "done" /\ layout' = layout /\ setting' = setting /\ found' = found
        /\ noTech' = NoTechList[<<>>]
    BY <1>4 DEF AddNoTech
  <2>2. NoTechList' = NoTechList
    BY <2>1 DEF NoTechList, HasTech, Children
  <2>3. setting.recursive /\ found = Folded /\ Tree(layout)
    BY <2>1 DEF TreeInv
  <2> QED BY <2>1, <2>2, <2>3, Unmoved DEF TreeInv, ListInv
<1>5. CASE PromoteMembers
  <2>1. step = "members" /\ step' = "pnpm" /\ layout' = layout /\ setting' = setting /\ found' = found
    BY <1>5 DEF PromoteMembers, Then
  <2>2. setting.asked = {} => Listed(list') /\ Once(list') /\ UvIsLocked(list')
    BY <1>5, <2>1, MembersListed DEF ListInv
  <2> QED BY <2>1, <2>2, Unmoved DEF TreeInv, ListInv
<1>6. CASE PromotePnpm
  <2>1. step = "pnpm" /\ step' = "yarn" /\ layout' = layout /\ setting' = setting /\ found' = found
    BY <1>6 DEF PromotePnpm, Then
  <2>2. list' = list \/ (list' = Rename("npm", "pnpm") /\ ~In("pnpm"))
    BY <1>6 DEF PromotePnpm
  <2>3. setting.asked = {} => Listed(list') /\ Once(list') /\ UvIsLocked(list')
    BY <2>1, <2>2, RenamePromoted DEF ListInv
  <2> QED BY <2>1, <2>3, Unmoved DEF TreeInv, ListInv
<1>7. CASE PromoteYarn
  <2>1. step = "yarn" /\ step' = "pip" /\ layout' = layout /\ setting' = setting /\ found' = found
    BY <1>7 DEF PromoteYarn, Then
  <2>2. list' = list \/ (list' = Rename("npm", "yarn") /\ ~In("yarn"))
    BY <1>7 DEF PromoteYarn
  <2>3. setting.asked = {} => Listed(list') /\ Once(list') /\ UvIsLocked(list')
    BY <2>1, <2>2, RenamePromoted DEF ListInv
  <2> QED BY <2>1, <2>3, Unmoved DEF TreeInv, ListInv
<1>8. CASE PromotePip
  <2>1. step = "pip" /\ step' = "extra" /\ layout' = layout /\ setting' = setting /\ found' = found
    BY <1>8 DEF PromotePip, Then
  <2>2. setting.asked = {} => Promoted(list')
    BY <1>8, <2>1, PipPromoted DEF ListInv
  <2> QED BY <2>1, <2>2, Unmoved DEF TreeInv, ListInv
<1>9. CASE AppendExtra
  <2>1. step = "extra" /\ step' = "resolve" /\ layout' = layout /\ setting' = setting /\ found' = found
    BY <1>9 DEF AppendExtra, Then
  <2>2. setting.asked = {} => Promoted(list')
    BY <1>9, <2>1, ExtraPromoted DEF ListInv
  <2> QED BY <2>1, <2>2, Unmoved DEF TreeInv, ListInv
<1>10. CASE ResolveNpmYarn
  <2>1. step = "resolve" /\ step' = "done" /\ layout' = layout /\ setting' = setting /\ found' = found
    BY <1>10 DEF ResolveNpmYarn, Then
  <2>2. list' = list \/ list' = Rename("npm", "yarn")
    BY <1>10 DEF ResolveNpmYarn
  <2>3. setting.asked = {} => Promoted(list')
    BY <2>1, <2>2, RenamePromoted DEF ListInv
  <2>4. ~setting.recursive
    BY <2>1 DEF ListInv
  <2> QED BY <2>1, <2>3, <2>4, Unmoved DEF TreeInv, ListInv
<1>11. ASSUME NEW t \in {"uv", "huggingFace", "docker"}, NamedOnly(t) PROVE DetectionInv'
  <2>1. step = "idle" /\ step' = "done" /\ layout' = layout /\ setting' = setting
    BY <1>11 DEF NamedOnly, Then
  <2>2. PICK l : l = list' /\ l = <<t>>
    BY <1>11 DEF NamedOnly
  <2>3. l \in Seq({t}) /\ DOMAIN l = {1} /\ l[1] = t
    BY <2>2
  <2>4. Promoted(l)
    BY <2>3 DEF Promoted, Listed, Exclusive, Has
  <2>5. ~setting.recursive
    BY <2>1 DEF NoSetting
  <2> QED BY <2>1, <2>2, <2>4, <2>5, Unmoved DEF TreeInv, ListInv
<1>12. CASE UNCHANGED tdVars
  <2>1. /\ layout' = layout /\ setting' = setting /\ step' = step /\ found' = found
        /\ noTech' = noTech /\ list' = list
    BY <1>12 DEF tdVars
  <2>2. NoTechList' = NoTechList
    BY <2>1 DEF NoTechList, HasTech, Children
  <2>3. TreeInv' <=> TreeInv
    BY <2>1, <2>2, Unmoved DEF TreeInv
  <2>4. ListInv' <=> ListInv
    BY <2>1, Unmoved DEF ListInv
  <2> QED BY <2>1, <2>3, <2>4
<1> QED BY <1>1, <1>2, <1>3, <1>4, <1>5, <1>6, <1>7, <1>8, <1>9, <1>10, <1>11, <1>12, Zenon
     DEF DetectionNext

\* The detection never holds more or less than the tree shows, and the list of a
\* curation audit keeps the managers of one descriptor apart through every
\* promotion (DetectTechnologiesDescriptors, techsToAudit).
THEOREM DetectionInvariant == DetectionSpec => []DetectionInv
<1>1. DetectionInit => DetectionInv
  BY DetectionStarts
<1>2. DetectionInv /\ [DetectionNext]_tdVars => DetectionInv'
  BY DetectionSteps
<1> QED BY <1>1, <1>2, PTL DEF DetectionSpec

\* For every tree of directories and every setting, no directory and no
\* descriptor is left out of the detection, and a curation audit resolves a
\* project with one manager of each pair that reads its descriptor.
THEOREM ProjectIsCovered == DetectionSpec => []ProjectCovered
<1>1. DetectionInv => ProjectCovered
  <2> SUFFICES ASSUME DetectionInv PROVE ProjectCovered
    OBVIOUS
  <2>1. NothingForgotten
    <3>1. CASE step = "done" /\ setting.recursive
      BY <3>1, NothingIsForgotten DEF DetectionInv, TreeInv
    <3>2. CASE ~(step = "done" /\ setting.recursive)
      BY <3>2 DEF NothingForgotten
    <3> QED BY <3>1, <3>2
  <2>2. ManagersExclusive
    <3>1. step = "done" /\ ~setting.recursive /\ setting.asked = {} => Promoted(list)
      BY DEF DetectionInv, ListInv
    <3> QED BY <3>1 DEF ManagersExclusive, Promoted, Listed, Exclusive, Has, In
  <2> QED BY <2>1, <2>2 DEF ProjectCovered
<1>2. DetectionSpec => []DetectionInv
  BY DetectionInvariant
<1> QED BY <1>1, <1>2, PTL
=============================================================================
