--------------------------- MODULE SuiteLifecycle ---------------------------
(***************************************************************************)
(* The life of the BARA suite (bara_suite_test.go): Ginkgo starts several  *)
(* parallel processes; process 1 prepares the shared asset archives in     *)
(* SynchronizedBeforeSuite while the others wait, all of them take specs   *)
(* from one list, every spec is wrapped by the suite-wide BeforeEach and   *)
(* AfterEach, and process 1 removes the archives in SynchronizedAfterSuite *)
(* after the others have left.  A process may be killed at any point, and  *)
(* the suite is then started again on the same checkout: the archives are  *)
(* files and survive, the Go variables do not.                             *)
(*                                                                         *)
(* An archive is absent, partial (ZipAsset is still writing it, or died    *)
(* doing so) or complete.  An organisation that TestSetup.Setup creates in *)
(* Cloud Foundry is named by the run and the spec that created it.  The    *)
(* quota spec has an organisation of its own besides, whose name is fixed. *)
(***************************************************************************)
EXTENDS Integers, FiniteSets

CONSTANTS
  Procs,       \* Ginkgo's parallel processes (ginkgo -nodes=N)
  Primary,     \* parallel process 1
  Specs,       \* the specs of the suite
  NoCfSetup,   \* the specs labelled "no-cf-setup"
  QuotaSpec,   \* the spec of baras/quotas.go
  NZips,       \* how many archives BeforeSuite builds (six in the code)
  MaxRuns,     \* bound: how often the suite is started on this checkout
  None         \* Go's nil for TestSetup; "no spec" for a process

ASSUME ProcsAssumption == Primary \in Procs
ASSUME SpecsAssumption == NoCfSetup \subseteq Specs /\ QuotaSpec \in Specs \ NoCfSetup
ASSUME BoundsAssumption == /\ NZips \in Nat \ {0}
                           /\ MaxRuns \in Nat \ {0}
ASSUME NoneAssumption == None \notin Specs /\ None \notin (1..MaxRuns) \X Specs

VARIABLES
  run,        \* number of the current start of the suite
  phase,      \* where each process is
  suite,      \* what process 1 has reported of its BeforeSuite function
  zip,        \* the archives on disk
  next,       \* process 1's position in the list of archives
  todo,       \* the specs of this run nobody has taken yet
  current,    \* the spec each process is at
  TestSetup,  \* the package variable TestSetup of each process
  orgs,       \* organisations that exist in Cloud Foundry
  lost,       \* of those, the ones a death or a failed teardown left behind
  quotaOrg,   \* the organisation "org-with-quota" in Cloud Foundry
  quotaLeft,  \* a death or a failed deletion left it, and nobody has deleted it since
  leftover    \* the archives a dead process 1 or a failed removal left on disk

vars == <<run, phase, suite, zip, next, todo, current, TestSetup, orgs, lost,
          quotaOrg, quotaLeft, leftover>>

fileVars == <<zip, next, leftover>>
quotaVars == <<quotaOrg, quotaLeft>>
cfVars == <<orgs, lost, quotaVars>>
specVars == <<todo, current, TestSetup, orgs, lost, quotaVars>>

Zips == 1..NZips
OnDisk == {z \in Zips : zip[z] # "absent"}
Org == (1..MaxRuns) \X Specs

\* Phases of process 1 before the others may go on, of any process between
\* specs and inside one, and at the end.
Preparing == {"tools", "zipping", "writing", "gcloud"}
InSpec == {"beforeEach", "body", "quotas", "afterEach"}
Gone == {"done", "dead"}
Phases == Preparing \cup InSpec \cup Gone
            \cup {"waiting", "ready", "finished", "removing"}

TypeOK ==
  /\ run \in 1..MaxRuns
  /\ phase \in [Procs -> Phases]
  /\ suite \in {"pending", "ok", "failed"}
  /\ zip \in [Zips -> {"absent", "partial", "complete"}]
  /\ next \in 1..(NZips + 1)
  /\ todo \subseteq Specs
  /\ current \in [Procs -> Specs \cup {None}]
  /\ TestSetup \in [Procs -> Org \cup {None}]
  /\ orgs \subseteq Org
  /\ lost \subseteq Org
  /\ quotaOrg \in {"absent", "there"}
  /\ quotaLeft \in BOOLEAN
  /\ leftover \subseteq Zips

-----------------------------------------------------------------------------
(* Starting the suite. *)

\* What TestBARA registers when $CONFIG is valid: process 1 runs the first
\* function of SynchronizedBeforeSuite, the others wait for its result.
FreshPhase == [p \in Procs |-> IF p = Primary THEN "tools" ELSE "waiting"]

Init ==
  /\ run = 1
  /\ phase = FreshPhase
  /\ suite = "pending"
  /\ zip = [z \in Zips |-> "absent"]
  /\ next = 1
  /\ todo = Specs
  /\ current = [p \in Procs |-> None]
  /\ TestSetup = [p \in Procs |-> None]
  /\ orgs = {}
  /\ lost = {}
  /\ quotaOrg = "absent"
  /\ quotaLeft = FALSE
  /\ leftover = {}

\* The suite is started again once every process of the last run is gone.
\* With an invalid $CONFIG TestBARA stops in FailNow, before it registers
\* anything: no BeforeSuite, no spec, no AfterSuite.
Restart ==
  /\ \A p \in Procs : phase[p] \in Gone
  /\ run < MaxRuns
  /\ run' = run + 1
  /\ \/ phase' = FreshPhase /\ suite' = "pending"
     \/ phase' = [p \in Procs |-> "done"] /\ suite' = "failed"
  /\ next' = 1
  /\ todo' = Specs
  /\ current' = [p \in Procs |-> None]
  /\ TestSetup' = [p \in Procs |-> None]
  /\ UNCHANGED <<zip, leftover, cfVars>>

-----------------------------------------------------------------------------
(* SynchronizedBeforeSuite. *)

Goto(p, to) == phase' = [phase EXCEPT ![p] = to]

\* An Expect of BeforeSuite fails on process 1: Ginkgo runs no spec, but it
\* does run AfterSuite.
FailSuite == Goto(Primary, "finished") /\ suite' = "failed"

\* The CLI version check and the two go builds, each of which may fail or
\* miss its 30 seconds.
CheckTools ==
  /\ phase[Primary] = "tools"
  /\ \/ Goto(Primary, "zipping") /\ UNCHANGED suite
     \/ FailSuite
  /\ UNCHANGED <<run, fileVars, specVars>>

\* A faulty StartZip: an archive that is already there is taken as it is.
StartZipReusing ==
  /\ phase[Primary] = "zipping"
  /\ next <= NZips
  /\ IF zip[next] = "absent"
       THEN /\ zip' = [zip EXCEPT ![next] = "partial"]
            /\ Goto(Primary, "writing")
            /\ UNCHANGED next
       ELSE next' = next + 1 /\ UNCHANGED <<zip, phase>>
  /\ UNCHANGED <<run, suite, leftover, specVars>>

\* ZipAsset, entering archiver.Archive: it refuses a path that exists.
StartZip ==
  /\ phase[Primary] = "zipping"
  /\ next <= NZips
  /\ IF zip[next] = "absent"
       THEN /\ zip' = [zip EXCEPT ![next] = "partial"]
            /\ Goto(Primary, "writing")
            /\ UNCHANGED suite
       ELSE FailSuite /\ UNCHANGED zip
  /\ UNCHANGED <<run, next, leftover, specVars>>

\* ZipAsset returns: the archive is whole, or writing it failed on the way.
FinishZip ==
  /\ phase[Primary] = "writing"
  /\ \/ /\ zip' = [zip EXCEPT ![next] = "complete"]
        /\ next' = next + 1
        /\ Goto(Primary, "zipping")
        /\ UNCHANGED suite
     \/ FailSuite /\ UNCHANGED <<zip, next>>
  /\ UNCHANGED <<run, leftover, specVars>>

AllZipped ==
  /\ phase[Primary] = "zipping"
  /\ next = NZips + 1
  /\ Goto(Primary, "gcloud")
  /\ UNCHANGED <<run, suite, fileVars, specVars>>

\* The optional gcloud command, the last thing that may fail, and the return
\* that releases the other processes.
EndBeforeSuite ==
  /\ phase[Primary] = "gcloud"
  /\ \/ Goto(Primary, "ready") /\ suite' = "ok"
     \/ FailSuite
  /\ UNCHANGED <<run, fileVars, specVars>>

\* The other processes go on with process 1's result; when process 1 is dead
\* without one, Ginkgo fails their BeforeSuite.
LeaveBeforeSuite(p) ==
  /\ phase[p] = "waiting"
  /\ \/ suite = "ok" /\ Goto(p, "ready")
     \/ suite = "failed" /\ Goto(p, "finished")
     \/ suite = "pending" /\ phase[Primary] = "dead" /\ Goto(p, "finished")
  /\ UNCHANGED <<run, suite, fileVars, specVars>>

-----------------------------------------------------------------------------
(* The specs, and the hooks the suite puts around each of them. *)

TakeSpec(p) ==
  /\ phase[p] = "ready"
  /\ \E s \in todo :
        /\ current' = [current EXCEPT ![p] = s]
        /\ todo' = todo \ {s}
  /\ Goto(p, "beforeEach")
  /\ UNCHANGED <<run, suite, fileVars, TestSetup, cfVars>>

\* A faulty BeforeEach: a "no-cf-setup" spec keeps the TestSetup it finds.
BeforeEachKeepingSetup(p) ==
  /\ phase[p] = "beforeEach"
  /\ IF current[p] \in NoCfSetup
       THEN Goto(p, "body") /\ UNCHANGED <<orgs, TestSetup>>
       ELSE LET org == <<run, current[p]>> IN
            /\ TestSetup' = [TestSetup EXCEPT ![p] = org]
            /\ orgs' = orgs \cup {org}
            /\ Goto(p, "body")
  /\ UNCHANGED <<run, suite, fileVars, todo, current, lost, quotaVars>>

\* A faulty BeforeEach: TestSetup is only assigned once Setup has succeeded.
BeforeEachAssigningLate(p) ==
  /\ phase[p] = "beforeEach"
  /\ LET org == <<run, current[p]>> IN
     /\ orgs' = orgs \cup {org}
     /\ \/ TestSetup' = [TestSetup EXCEPT ![p] = org] /\ Goto(p, "body")
        \/ TestSetup' = [TestSetup EXCEPT ![p] = None] /\ Goto(p, "afterEach")
  /\ UNCHANGED <<run, suite, fileVars, todo, current, lost, quotaVars>>

\* The suite-wide BeforeEach.  Setup may fail with or without having created
\* the organisation; Ginkgo then skips the spec's body but not AfterEach.
BeforeEach(p) ==
  /\ phase[p] = "beforeEach"
  /\ IF current[p] \in NoCfSetup
       THEN /\ TestSetup' = [TestSetup EXCEPT ![p] = None]
            /\ Goto(p, "body")
            /\ UNCHANGED orgs
       ELSE LET org == <<run, current[p]>> IN
            /\ TestSetup' = [TestSetup EXCEPT ![p] = org]
            /\ \/ orgs' = orgs \cup {org} /\ Goto(p, "body")
               \/ orgs' \in {orgs, orgs \cup {org}} /\ Goto(p, "afterEach")
  /\ UNCHANGED <<run, suite, fileVars, todo, current, lost, quotaVars>>

\* The spec itself, with the hooks of its own container; passed or failed.
RunBody(p) ==
  /\ phase[p] = "body" /\ current[p] # QuotaSpec
  /\ Goto(p, "afterEach")
  /\ UNCHANGED <<run, suite, fileVars, specVars>>

\* A faulty quota spec: what its BeforeEach or its body fails in is left as it is.
StartQuotasLeaving(p) ==
  /\ phase[p] = "body" /\ current[p] = QuotaSpec
  /\ \/ quotaOrg' = "there" /\ Goto(p, "quotas")
     \/ quotaOrg' \in {quotaOrg, "there"} /\ Goto(p, "afterEach")
  /\ UNCHANGED <<run, suite, fileVars, todo, current, TestSetup, orgs, lost, quotaLeft>>

\* BeforeEach and body of the quota spec: create-org takes an organisation that is
\* already there, and whatever fails, Ginkgo goes on to the spec's own AfterEach.
StartQuotas(p) ==
  /\ phase[p] = "body" /\ current[p] = QuotaSpec
  /\ quotaOrg' \in {quotaOrg, "there"}
  /\ Goto(p, "quotas")
  /\ UNCHANGED <<run, suite, fileVars, todo, current, TestSetup, orgs, lost, quotaLeft>>

\* Its AfterEach: cf delete-org, with all that is in the organisation.
EndQuotas(p) ==
  /\ phase[p] = "quotas"
  /\ \/ quotaOrg' = "absent" /\ quotaLeft' = FALSE
     \/ quotaLeft' = TRUE /\ UNCHANGED quotaOrg
  /\ Goto(p, "afterEach")
  /\ UNCHANGED <<run, suite, fileVars, todo, current, TestSetup, orgs, lost>>

\* The suite-wide AfterEach.  Teardown deletes the organisation of the setup
\* it is called on; when cf delete-org fails the organisation stays.
AfterEach(p) ==
  /\ phase[p] = "afterEach"
  /\ \/ /\ orgs' = orgs \ {TestSetup[p]}
        /\ UNCHANGED lost
     \/ /\ TestSetup[p] # None
        /\ lost' = lost \cup ({TestSetup[p]} \cap orgs)
        /\ UNCHANGED orgs
  /\ current' = [current EXCEPT ![p] = None]
  /\ Goto(p, "ready")
  /\ UNCHANGED <<run, suite, fileVars, todo, TestSetup, quotaVars>>

-----------------------------------------------------------------------------
(* SynchronizedAfterSuite. *)

NoSpecLeft(p) ==
  /\ phase[p] = "ready"
  /\ todo = {}
  /\ Goto(p, "finished")
  /\ UNCHANGED <<run, suite, fileVars, specVars>>

\* A faulty hand-over: process 1 waits only for processes that said goodbye.
LeaveAfterSuiteIgnoringDeaths(p) ==
  /\ phase[p] = "finished"
  /\ IF p = Primary
       THEN /\ \A q \in Procs \ {Primary} : phase[q] = "done"
            /\ Goto(p, "removing")
            /\ next' = 1
       ELSE Goto(p, "done") /\ UNCHANGED next
  /\ UNCHANGED <<run, suite, zip, leftover, specVars>>

\* The function for all processes does nothing; process 1 then waits until
\* the others are gone before it starts on the archives.
LeaveAfterSuite(p) ==
  /\ phase[p] = "finished"
  /\ IF p = Primary
       THEN /\ \A q \in Procs \ {Primary} : phase[q] \in Gone
            /\ Goto(p, "removing")
            /\ next' = 1
       ELSE Goto(p, "done") /\ UNCHANGED next
  /\ UNCHANGED <<run, suite, zip, leftover, specVars>>

\* A faulty AfterSuite: the last archive was never added to its list.
RemoveZipButLast ==
  /\ phase[Primary] = "removing"
  /\ next <= NZips
  /\ zip' = IF next = NZips THEN zip ELSE [zip EXCEPT ![next] = "absent"]
  /\ leftover' = leftover \ {next}
  /\ next' = next + 1
  /\ UNCHANGED <<run, phase, suite, specVars>>

\* A faulty AfterSuite: its loop goes one past the end of its list.
RemoveZipPastTheEnd ==
  /\ phase[Primary] = "removing"
  /\ next <= NZips + 1
  /\ zip' = [z \in Zips |-> IF z = next THEN "absent" ELSE zip[z]]
  /\ leftover' = leftover \ {next}
  /\ next' = next + 1
  /\ UNCHANGED <<run, phase, suite, specVars>>

\* os.Remove of one archive after the other.  Its error is ignored: an archive it
\* cannot remove stays, and the loop goes on.
RemoveZip ==
  /\ phase[Primary] = "removing"
  /\ next <= NZips
  /\ \/ /\ zip' = [zip EXCEPT ![next] = "absent"]
        /\ leftover' = leftover \ {next}
     \/ /\ zip[next] # "absent"
        /\ leftover' = leftover \cup {next}
        /\ UNCHANGED zip
  /\ next' = next + 1
  /\ UNCHANGED <<run, phase, suite, specVars>>

EndAfterSuite ==
  /\ phase[Primary] = "removing"
  /\ next = NZips + 1
  /\ Goto(Primary, "done")
  /\ UNCHANGED <<run, suite, fileVars, specVars>>

-----------------------------------------------------------------------------
\* A process is killed.  Nothing runs in it any more: no AfterEach, and for
\* process 1 no AfterSuite.
Die(p) ==
  /\ phase[p] \notin Gone
  /\ Goto(p, "dead")
  /\ lost' = lost \cup ({TestSetup[p]} \cap orgs)
  /\ leftover' = IF p = Primary THEN leftover \cup OnDisk ELSE leftover
  /\ quotaLeft' = (quotaLeft \/ phase[p] = "quotas")
  /\ UNCHANGED <<run, suite, zip, next, todo, current, TestSetup, orgs, quotaOrg>>

PrimaryStep ==
  CheckTools \/ StartZip \/ FinishZip \/ AllZipped \/ EndBeforeSuite
    \/ RemoveZip \/ EndAfterSuite

ProcStep(p) ==
  LeaveBeforeSuite(p) \/ TakeSpec(p) \/ BeforeEach(p) \/ RunBody(p)
    \/ StartQuotas(p) \/ EndQuotas(p) \/ AfterEach(p) \/ NoSpecLeft(p) \/ LeaveAfterSuite(p)

Next ==
  \/ Restart
  \/ PrimaryStep
  \/ \E p \in Procs : ProcStep(p)
  \/ \E p \in Procs : Die(p)

Spec == Init /\ [][Next]_vars

\* A live process is not suspended for ever: Eventually, cf and go all run
\* under timeouts.  Nothing is assumed of Restart and Die.
Fairness == WF_vars(PrimaryStep) /\ \A p \in Procs : WF_vars(ProcStep(p))

FairSpec == Spec /\ Fairness

-----------------------------------------------------------------------------
(* Properties. *)

AllGone == \A p \in Procs : phase[p] \in Gone

\* No spec ever uploads an archive that is missing, still being written, left
\* truncated by a process that died, or already removed: while any process is
\* inside a spec every archive is complete (ZipAsset, SynchronizedBeforeSuite,
\* SynchronizedAfterSuite, over any number of killed and repeated runs).
WholeArchives ==
  \A p \in Procs : phase[p] \in InSpec => \A z \in Zips : zip[z] = "complete"

\* AfterEach calls Teardown on the setup of the spec it closes, never on one an
\* earlier spec of the same process left in the package variable TestSetup, and
\* on none at all for a "no-cf-setup" spec.
OwnTeardown ==
  \A p \in Procs : phase[p] = "afterEach" =>
    TestSetup[p] = IF current[p] \in NoCfSetup THEN None ELSE <<run, current[p]>>

\* Whatever fails, an organisation left in Cloud Foundry is either in use by a
\* live process that will tear it down, or was left by a death or by a
\* teardown that failed: no failure of Setup or of a spec leaks one.
OrgsAccountedFor ==
  \A o \in orgs : \/ o \in lost
                  \/ \E p \in Procs : /\ phase[p] \in {"body", "quotas", "afterEach"}
                                      /\ TestSetup[p] = o

\* An archive that ZipAsset will find in its way, and that ends the next run, was left
\* by a process 1 that was killed or by a removal that failed: a run that fails, in
\* BeforeSuite or in a spec, leaves none, and neither does one that has no $CONFIG.
ArchivesAccountedFor ==
  /\ phase[Primary] \in Gone \cup {"tools"} => OnDisk \subseteq leftover
  /\ phase[Primary] = "zipping" => \A z \in OnDisk : z >= next => z \in leftover

\* The quota spec, whose organisation has a fixed name (quotas.go:31), finds one there
\* only after a death or a failed deletion, in whichever run: neither a spec that
\* fails halfway nor another process leaves one in its way.
OnlyADeathSpoilsQuotas ==
  \A p \in Procs :
    phase[p] = "body" /\ current[p] = QuotaSpec /\ ~quotaLeft => quotaOrg = "absent"

\* No run hangs: whichever processes fail or are killed, all of them are
\* eventually gone, so neither side waits for the other for ever.
EveryRunEnds == []<>AllGone
=============================================================================
