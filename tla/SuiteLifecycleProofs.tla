------------------------ MODULE SuiteLifecycleProofs ------------------------
(***************************************************************************)
(* The safety invariants of SuiteLifecycle, for any number of processes,   *)
(* specs, archives and restarts.  WholeArchives and ArchivesAccountedFor   *)
(* are not inductive: they need to know what process 1 has done to the     *)
(* archives in each of its phases, and that it removes them alone.         *)
(***************************************************************************)
EXTENDS SuiteLifecycle, TLAPS

\* A process that may still come to a spec, or is about to leave.
Active == Phases \ (Gone \cup {"removing"})

\* Process 1 alone prepares and cleans up, and never waits for itself.
RolesInv ==
  /\ phase[Primary] # "waiting"
  /\ \A p \in Procs \ {Primary} : phase[p] \notin Preparing \cup {"removing"}

\* The result of BeforeSuite, and who may act on it.
ResultInv ==
  /\ phase[Primary] \in Preparing => suite = "pending"
  /\ \A p \in Procs : phase[p] \in InSpec \cup {"ready"} => suite = "ok"

\* Process 1's position in the list of archives.
PositionInv ==
  /\ phase[Primary] = "tools" => next = 1
  /\ phase[Primary] \in {"zipping", "writing", "gcloud"} =>
       \A z \in Zips : z < next => zip[z] = "complete"
  /\ phase[Primary] = "writing" => next <= NZips
  /\ phase[Primary] = "gcloud" => next = NZips + 1
  /\ phase[Primary] = "removing" => \A z \in OnDisk : z < next => z \in leftover

\* Once BeforeSuite has succeeded the archives stay whole until only
\* process 1, removing them, is left.
OkInv ==
  /\ suite = "ok" /\ (\E p \in Procs : phase[p] \in Active)
       => \A z \in Zips : zip[z] = "complete"
  /\ phase[Primary] = "removing" => \A q \in Procs \ {Primary} : phase[q] \in Gone

\* An archive that no death and no failed removal has left is one process 1 has made
\* in this run and not yet come to in AfterSuite.
CleanInv ==
  /\ phase[Primary] \in Gone \cup {"tools"} => OnDisk \subseteq leftover
  /\ phase[Primary] = "zipping" => \A z \in OnDisk : z >= next => z \in leftover
  /\ phase[Primary] = "writing" => \A z \in OnDisk : z > next => z \in leftover

\* A process inside a spec knows which one, and has its setup from BeforeEach on.
SetupInv ==
  \A p \in Procs :
    /\ phase[p] \in InSpec => current[p] \in Specs
    /\ phase[p] \in {"body", "quotas", "afterEach"} =>
         TestSetup[p] = IF current[p] \in NoCfSetup THEN None ELSE <<run, current[p]>>

\* The quota spec is taken once in a run, and while nothing was left behind its
\* organisation is there only under the process that is inside that spec.
QuotaInv ==
  /\ \A p \in Procs : current[p] = QuotaSpec => QuotaSpec \notin todo
  /\ \A p, q \in Procs : current[p] = QuotaSpec /\ current[q] = QuotaSpec => p = q
  /\ \A p \in Procs : phase[p] = "quotas" => current[p] = QuotaSpec
  /\ quotaLeft \/ quotaOrg = "absent" \/ \E p \in Procs : phase[p] = "quotas"

IInv ==
  /\ TypeOK
  /\ RolesInv
  /\ ResultInv
  /\ PositionInv
  /\ OkInv
  /\ CleanInv
  /\ SetupInv
  /\ QuotaInv

-----------------------------------------------------------------------------
\* Every variable keeps its type (TypeOK) in every step of the suite; next stays in
\* range because process 1 only writes an archive of the list (PositionInv), and
\* TestSetup because BeforeEach runs for some spec (SetupInv).
LEMMA TypeStep == TypeOK /\ PositionInv /\ SetupInv /\ [Next]_vars => TypeOK'
<1> SUFFICES ASSUME TypeOK, PositionInv, SetupInv, [Next]_vars PROVE TypeOK'
  OBVIOUS
<1> USE ProcsAssumption, SpecsAssumption, BoundsAssumption
<1> USE DEF TypeOK, Goto, FailSuite, Zips, Org, Phases, Preparing, InSpec, Gone,
            fileVars, quotaVars, cfVars, specVars
<1>1. CASE Restart
  BY <1>1 DEF Restart, FreshPhase
<1>2. CASE CheckTools
  BY <1>2 DEF CheckTools
<1>3. CASE StartZip
  BY <1>3 DEF StartZip
<1>4. CASE FinishZip
  <2>1. next' \in 1..(NZips + 1) /\ next \in Int
    BY <1>4 DEF FinishZip, PositionInv
  <2>2. QED  BY <1>4, <2>1 DEF FinishZip
<1>5. CASE AllZipped
  BY <1>5 DEF AllZipped
<1>6. CASE EndBeforeSuite
  BY <1>6 DEF EndBeforeSuite
<1>7. CASE RemoveZip
  <2>1. next \in Zips /\ next' \in 1..(NZips + 1)
    BY <1>7 DEF RemoveZip
  <2>2. UNCHANGED <<run, phase, suite, todo, current, TestSetup, orgs, lost, quotaOrg, quotaLeft>>
    BY <1>7 DEF RemoveZip
  <2>3. zip' \in [Zips -> {"absent", "partial", "complete"}] /\ leftover' \subseteq Zips
    BY <1>7, <2>1 DEF RemoveZip
  <2>4. QED
    BY <2>1, <2>2, <2>3
<1>8. CASE EndAfterSuite
  BY <1>8 DEF EndAfterSuite
<1>9. ASSUME NEW p \in Procs, ProcStep(p) PROVE TypeOK'
  <2>1. CASE LeaveBeforeSuite(p)
    BY <2>1 DEF LeaveBeforeSuite
  <2>2. CASE TakeSpec(p)
    BY <2>2 DEF TakeSpec
  <2>3. CASE BeforeEach(p)
    <3>1. <<run, current[p]>> \in Org
      BY <2>3 DEF BeforeEach, SetupInv
    <3>2. TestSetup' \in [Procs -> Org \cup {None}] /\ orgs' \subseteq Org
      BY <2>3, <3>1 DEF BeforeEach
    <3>3. phase' \in [Procs -> Phases]
      BY <2>3 DEF BeforeEach
    <3>4. QED
      BY <2>3, <3>2, <3>3 DEF BeforeEach
  <2>4. CASE RunBody(p)
    BY <2>4 DEF RunBody
  <2>5. CASE StartQuotas(p)
    BY <2>5 DEF StartQuotas
  <2>6. CASE EndQuotas(p)
    BY <2>6 DEF EndQuotas
  <2>7. CASE AfterEach(p)
    BY <2>7 DEF AfterEach
  <2>8. CASE NoSpecLeft(p)
    BY <2>8 DEF NoSpecLeft
  <2>9. CASE LeaveAfterSuite(p)
    BY <2>9 DEF LeaveAfterSuite
  <2>10. QED
    BY <1>9, <2>1, <2>2, <2>3, <2>4, <2>5, <2>6, <2>7, <2>8, <2>9 DEF ProcStep
<1>10. ASSUME NEW p \in Procs, Die(p) PROVE TypeOK'
  BY <1>10 DEF Die, OnDisk
<1>11. CASE UNCHANGED vars
  BY <1>11 DEF vars
<1>12. QED
  BY <1>1, <1>2, <1>3, <1>4, <1>5, <1>6, <1>7, <1>8, <1>9, <1>10, <1>11
     DEF Next, PrimaryStep

\* The archives: every step keeps what process 1 knows of them in each phase.
LEMMA ArchiveStep ==
  IInv /\ [Next]_vars => RolesInv' /\ ResultInv' /\ PositionInv' /\ OkInv' /\ CleanInv'
<1> SUFFICES ASSUME IInv, [Next]_vars
             PROVE  RolesInv' /\ ResultInv' /\ PositionInv' /\ OkInv' /\ CleanInv'
  OBVIOUS
<1> USE ProcsAssumption, BoundsAssumption
<1> USE DEF IInv, TypeOK, RolesInv, ResultInv, PositionInv, OkInv, CleanInv, Goto,
            FailSuite, Zips, OnDisk, Phases, Preparing, InSpec, Gone, Active, fileVars, quotaVars
<1>1. CASE Restart
  BY <1>1 DEF Restart, FreshPhase
<1>2. CASE CheckTools
  BY <1>2 DEF CheckTools
<1>3. CASE StartZip
  BY <1>3 DEF StartZip
<1>4. CASE FinishZip
  BY <1>4 DEF FinishZip
<1>5. CASE AllZipped
  BY <1>5 DEF AllZipped
<1>6. CASE EndBeforeSuite
  BY <1>6 DEF EndBeforeSuite
<1>7. CASE RemoveZip
  BY <1>7 DEF RemoveZip
<1>8. CASE EndAfterSuite
  BY <1>8 DEF EndAfterSuite
<1>9. ASSUME NEW p \in Procs, ProcStep(p)
      PROVE  RolesInv' /\ ResultInv' /\ PositionInv' /\ OkInv' /\ CleanInv'
  <2>1. CASE LeaveBeforeSuite(p)
    BY <2>1 DEF LeaveBeforeSuite
  <2>2. CASE TakeSpec(p)
    BY <2>2 DEF TakeSpec
  <2>3. CASE BeforeEach(p)
    BY <2>3 DEF BeforeEach
  <2>4. CASE RunBody(p)
    BY <2>4 DEF RunBody
  <2>5. CASE StartQuotas(p)
    BY <2>5 DEF StartQuotas
  <2>6. CASE EndQuotas(p)
    BY <2>6 DEF EndQuotas
  <2>7. CASE AfterEach(p)
    BY <2>7 DEF AfterEach
  <2>8. CASE NoSpecLeft(p)
    BY <2>8 DEF NoSpecLeft
  <2>9. CASE LeaveAfterSuite(p)
    BY <2>9 DEF LeaveAfterSuite
  <2>10. QED
    BY <1>9, <2>1, <2>2, <2>3, <2>4, <2>5, <2>6, <2>7, <2>8, <2>9 DEF ProcStep
<1>10. ASSUME NEW p \in Procs, Die(p)
       PROVE  RolesInv' /\ ResultInv' /\ PositionInv' /\ OkInv' /\ CleanInv'
  BY <1>10 DEF Die
<1>11. CASE UNCHANGED vars
  BY <1>11 DEF vars
<1>12. QED
  BY <1>1, <1>2, <1>3, <1>4, <1>5, <1>6, <1>7, <1>8, <1>9, <1>10, <1>11
     DEF Next, PrimaryStep

\* The setups: a process keeps the spec it is at, and the setup BeforeEach gave it.
LEMMA SetupStep == TypeOK /\ SetupInv /\ [Next]_vars => SetupInv'
<1> SUFFICES ASSUME TypeOK, SetupInv, [Next]_vars PROVE SetupInv'
  OBVIOUS
<1> USE ProcsAssumption
<1> USE DEF TypeOK, SetupInv, Goto, FailSuite, InSpec, Gone, specVars, quotaVars
<1>1. CASE Restart
  BY <1>1 DEF Restart, FreshPhase
<1>2. CASE PrimaryStep
  BY <1>2 DEF PrimaryStep, CheckTools, StartZip, FinishZip, AllZipped, EndBeforeSuite,
              RemoveZip, EndAfterSuite
<1>3. ASSUME NEW p \in Procs, ProcStep(p) PROVE SetupInv'
  <2>1. CASE LeaveBeforeSuite(p) \/ RunBody(p) \/ NoSpecLeft(p) \/ LeaveAfterSuite(p)
    BY <2>1 DEF LeaveBeforeSuite, RunBody, NoSpecLeft, LeaveAfterSuite
  <2>2. CASE TakeSpec(p)
    BY <2>2, SpecsAssumption DEF TakeSpec
  <2>3. CASE BeforeEach(p)
    BY <2>3 DEF BeforeEach
  <2>4. CASE StartQuotas(p) \/ EndQuotas(p)
    BY <2>4 DEF StartQuotas, EndQuotas
  <2>5. CASE AfterEach(p)
    BY <2>5 DEF AfterEach
  <2>6. QED
    BY <1>3, <2>1, <2>2, <2>3, <2>4, <2>5 DEF ProcStep
<1>4. ASSUME NEW p \in Procs, Die(p) PROVE SetupInv'
  BY <1>4 DEF Die
<1>5. CASE UNCHANGED vars
  BY <1>5 DEF vars
<1>6. QED
  BY <1>1, <1>2, <1>3, <1>4, <1>5 DEF Next

\* The organisations: whoever creates one is inside a spec with it, and only
\* lets go of it by deleting it or leaving it in lost.
LEMMA OrgStep ==
  TypeOK /\ SetupInv /\ OrgsAccountedFor /\ [Next]_vars => OrgsAccountedFor'
<1> SUFFICES ASSUME TypeOK, SetupInv, OrgsAccountedFor, [Next]_vars
             PROVE  OrgsAccountedFor'
  OBVIOUS
<1> USE ProcsAssumption, NoneAssumption
<1> USE DEF TypeOK, OrgsAccountedFor, Goto, FailSuite, Org, specVars, cfVars, quotaVars
<1>1. CASE Restart
  BY <1>1 DEF Restart, Gone
<1>2. CASE PrimaryStep
  BY <1>2 DEF PrimaryStep, CheckTools, StartZip, FinishZip, AllZipped, EndBeforeSuite,
              RemoveZip, EndAfterSuite
<1>3. ASSUME NEW p \in Procs, ProcStep(p) PROVE OrgsAccountedFor'
  <2>1. CASE LeaveBeforeSuite(p) \/ RunBody(p) \/ NoSpecLeft(p) \/ LeaveAfterSuite(p)
    BY <2>1 DEF LeaveBeforeSuite, RunBody, NoSpecLeft, LeaveAfterSuite
  <2>2. CASE TakeSpec(p)
    BY <2>2 DEF TakeSpec
  <2>3. CASE BeforeEach(p)
    BY <2>3 DEF BeforeEach
  <2>4. CASE StartQuotas(p) \/ EndQuotas(p)
    BY <2>4 DEF StartQuotas, EndQuotas
  <2>5. CASE AfterEach(p)
    BY <2>5 DEF AfterEach
  <2>6. QED
    BY <1>3, <2>1, <2>2, <2>3, <2>4, <2>5 DEF ProcStep
<1>4. ASSUME NEW p \in Procs, Die(p) PROVE OrgsAccountedFor'
  BY <1>4 DEF Die
<1>5. CASE UNCHANGED vars
  BY <1>5 DEF vars
<1>6. QED
  BY <1>1, <1>2, <1>3, <1>4, <1>5 DEF Next

\* The quota spec's organisation: it appears in StartQuotas, whose process stays inside
\* the spec until it has deleted it, failed to, or died.
LEMMA QuotaStep == TypeOK /\ QuotaInv /\ [Next]_vars => QuotaInv'
<1> SUFFICES ASSUME TypeOK, QuotaInv, [Next]_vars PROVE QuotaInv'
  OBVIOUS
<1> USE ProcsAssumption, SpecsAssumption, NoneAssumption
<1> USE DEF TypeOK, QuotaInv, Goto, FailSuite, specVars, cfVars, quotaVars
<1>1. CASE Restart
  BY <1>1 DEF Restart, FreshPhase, Gone
<1>2. CASE PrimaryStep
  BY <1>2 DEF PrimaryStep, CheckTools, StartZip, FinishZip, AllZipped, EndBeforeSuite,
              RemoveZip, EndAfterSuite
<1>3. ASSUME NEW p \in Procs, ProcStep(p) PROVE QuotaInv'
  <2>1. CASE LeaveBeforeSuite(p) \/ RunBody(p) \/ NoSpecLeft(p) \/ LeaveAfterSuite(p)
    BY <2>1 DEF LeaveBeforeSuite, RunBody, NoSpecLeft, LeaveAfterSuite
  <2>2. CASE TakeSpec(p)
    BY <2>2 DEF TakeSpec
  <2>3. CASE BeforeEach(p)
    BY <2>3 DEF BeforeEach
  <2>4. CASE StartQuotas(p)
    BY <2>4 DEF StartQuotas
  <2>5. CASE EndQuotas(p)
    BY <2>5 DEF EndQuotas
  <2>6. CASE AfterEach(p)
    BY <2>6 DEF AfterEach
  <2>7. QED
    BY <1>3, <2>1, <2>2, <2>3, <2>4, <2>5, <2>6 DEF ProcStep
<1>4. ASSUME NEW p \in Procs, Die(p) PROVE QuotaInv'
  BY <1>4 DEF Die
<1>5. CASE UNCHANGED vars
  BY <1>5 DEF vars
<1>6. QED
  BY <1>1, <1>2, <1>3, <1>4, <1>5 DEF Next

-----------------------------------------------------------------------------
\* IInv and OrgsAccountedFor hold in every state of the suite's life.
THEOREM Invariance == Spec => [](IInv /\ OrgsAccountedFor)
<1>1. Init => IInv /\ OrgsAccountedFor
  <2> SUFFICES ASSUME Init PROVE IInv /\ OrgsAccountedFor
    OBVIOUS
  <2> USE ProcsAssumption, BoundsAssumption DEF Init, FreshPhase
  <2>1. TypeOK
    <3>1. run \in 1..MaxRuns /\ next \in 1..(NZips + 1)
      OBVIOUS
    <3>2. phase \in [Procs -> Phases]
      BY DEF Phases, Preparing
    <3>3. zip \in [Zips -> {"absent", "partial", "complete"}]
      OBVIOUS
    <3>4. TestSetup \in [Procs -> Org \cup {None}] /\ current \in [Procs -> Specs \cup {None}]
      OBVIOUS
    <3>5. QED
      BY <3>1, <3>2, <3>3, <3>4 DEF TypeOK
  <2>2. RolesInv /\ ResultInv /\ SetupInv
    BY DEF RolesInv, ResultInv, SetupInv, Preparing, InSpec
  <2>3. PositionInv /\ OkInv /\ CleanInv
    BY DEF PositionInv, OkInv, CleanInv, Zips, OnDisk
  <2>4. OrgsAccountedFor
    BY DEF OrgsAccountedFor
  <2>5. QuotaInv
    BY SpecsAssumption, NoneAssumption DEF QuotaInv
  <2>6. QED
    BY <2>1, <2>2, <2>3, <2>4, <2>5 DEF IInv
<1>2. IInv /\ OrgsAccountedFor /\ [Next]_vars => (IInv /\ OrgsAccountedFor)'
  BY TypeStep, ArchiveStep, SetupStep, OrgStep, QuotaStep DEF IInv
<1>3. QED
  BY <1>1, <1>2, PTL DEF Spec

\* TypeOK, for every number of processes, specs, archives and restarts.
THEOREM TypeCorrect == Spec => []TypeOK
<1>1. IInv => TypeOK
  BY DEF IInv
<1>2. QED
  BY <1>1, Invariance, PTL

\* WholeArchives: no process is ever inside a spec while an archive is missing,
\* partial, or being removed (SynchronizedBeforeSuite, SynchronizedAfterSuite).
THEOREM ArchivesAreWhole == Spec => []WholeArchives
<1>1. IInv => WholeArchives
  BY DEF IInv, ResultInv, OkInv, WholeArchives, InSpec, Active, Phases, Gone, Preparing
<1>2. QED
  BY <1>1, Invariance, PTL

\* OwnTeardown: AfterEach tears down the setup of its own spec or none.
THEOREM TeardownIsOwn == Spec => []OwnTeardown
<1>1. IInv => OwnTeardown
  BY DEF IInv, SetupInv, OwnTeardown
<1>2. QED
  BY <1>1, Invariance, PTL

\* OrgsAccountedFor: only a death or a failed teardown leaks an organisation.
THEOREM NoOrgLeaks == Spec => []OrgsAccountedFor
  BY Invariance, PTL

\* ArchivesAccountedFor: an archive that stops a run was left by a process 1 that was
\* killed or by a removal whose error AfterSuite ignores.
THEOREM RunsDoNotBlockEachOther == Spec => []ArchivesAccountedFor
<1>1. IInv => ArchivesAccountedFor
  BY DEF IInv, CleanInv, ArchivesAccountedFor
<1>2. QED
  BY <1>1, Invariance, PTL

\* OnlyADeathSpoilsQuotas: the quota spec (quotas.go) finds its organisation taken only
\* after a death or a failed deletion.
THEOREM QuotaNameIsFree == Spec => []OnlyADeathSpoilsQuotas
<1>1. IInv => OnlyADeathSpoilsQuotas
  BY DEF IInv, QuotaInv, OnlyADeathSpoilsQuotas
<1>2. QED
  BY <1>1, Invariance, PTL
=============================================================================
