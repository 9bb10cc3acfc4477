# A TLA+ model of capi-bara-tests

capi-bara-tests is the acceptance suite of Cloud Foundry's Cloud Controller: Ginkgo
specs that push sample apps and brokers to a real foundation and wait for it to do what
its API promises. Most of the code is a straight line of calls; what is hard in it is what
happens *between* the lines: parallel Ginkgo processes that share files and a foundation,
waits that poll a platform which moves on meanwhile, a broker app served by many threads,
runs that are killed and started again. The modules here model those parts.

## Inventory

| part | state | operations | what makes it correct |
| --- | --- | --- | --- |
| suite harness, quota spec's organisation (`bara_suite_test.go`, `bara_suite_helpers/`, `helpers/assets/`, `baras/quotas.go`) | zip archives on disk; `TestSetup` of each process; organisations in the foundation | SynchronizedBeforeSuite/AfterSuite, BeforeEach/AfterEach | no spec runs without whole archives; each teardown is of the spec's own setup; a run does not spoil the next; nothing waits for ever |
| configuration (`helpers/config/`) | package variable `defaults`; the configs returned | `NewConfig`: defaults, decode, validate, scale | a load is a function of its file and never touches an earlier config |
| deployment specs (`baras/deployments.go`, `v3_helpers/deployment.go`, `processes.go`) | deployment and process GUIDs a spec noted; everything else is the platform's | create, continue, cancel, supersede; polls of status, instances, routes, usage events | pass on a sound platform, fail on one that breaks what the spec is about |
| service broker (`assets/service_broker/`) | instances, bindings and configured behaviours in one `$datasource` | provision, update, deprovision, bind, last_operation, `/config`, `/config/reset` | platform and broker agree; last_operation keeps the README's promise; operations end |
| broker client (`helpers/services/`) | names of one broker | push, configure, create, publicize, destroy | a registered broker has its app; nothing left behind |
| staging pipeline, jobs (`v3_helpers/{job,package,build,droplet,app}.go`) | GUIDs | package, upload, build, droplet, assign, start; polls | a failed step is reported as one |
| revisions specs (`baras/revisions.go`, `v3_helpers/revisions.go`) | revisions and web process noted by BeforeEach | change, stop, start, restart, deploy, roll back; reads of revisions, processes, answers | as for deployments; no instance of before answers for the new ones |
| manifest specs (`baras/manifest.go`) | apps listed, the broker's names | apply a manifest, poll its job, look; clean up | as for deployments; whatever a spec fails in, it cleans up |
| routes, sidecars, zero downtime, commands, events, droplets (`baras/*.go`) | GUIDs a spec noted | calls and polls | as for deployments |
| credhub broker (`assets/credhub-service-broker/`) | `NameMap`, credentials in CredHub | bind, unbind | what is answered is true of CredHub; only a death or a race forgets a name |
| log load generators (`assets/loggregator-load-generator*/`) | the flag `run` | start, stop | stop stops |
| sample apps, CLI version check, downloads, names, logs | none that matters | pure input and output | - |

The parts meet in three places. The suite harness gives every spec its organisation and
the archives it pushes. The specs call the Cloud Controller through the v3 helpers. The
Cloud Controller calls the brokers the specs push. The Cloud Controller, Diego, CredHub
and Ginkgo are not in the repository: they appear in the models only as the code relies
on them, and `PROJECT.json` marks those definitions external.

`PROJECT.json` lists the hazards, each at its line, with the properties that cover it or
the reason none does yet.

## The modules

### SuiteLifecycle

The Ginkgo processes, the archives, the organisations, over several starts of the suite on
one checkout. `zip` is the shared directory (absent, partial, complete); `phase` is where
each process is; `todo` is Ginkgo's list of specs; `TestSetup` the package variable of each
process. `CheckTools` to `EndBeforeSuite` are the function of SynchronizedBeforeSuite that
only process 1 runs, `StartZip`/`FinishZip` the two ends of `ZipAsset` (which refuses to
write over an archive that is there), `RemoveZip` the loop of AfterSuite, which ignores the
error of a removal (bara_suite_test.go:115): the archive stays and `leftover` records it. `Die` kills a
process anywhere; `Restart` starts the suite again once all are gone, with the files as
they are and the variables afresh.

The quota spec is one of the specs. Besides its setup it makes an organisation of the fixed
name `org-with-quota` (`quotaOrg`): `StartQuotas` is its BeforeEach and body, which take an
organisation that is already there and may fail anywhere, `EndQuotas` its own AfterEach.
`quotaLeft` records that a death, or a deletion that failed, left it.

*Bounds*: two processes (one prepares, one waits: a third behaves as the second), two
archives (a first and a last; the code has six), three specs of which one needs no setup and one is
the quota spec, three starts (kill, blocked run, clean run). *Fairness*: weak fairness of
process 1's own steps and of each process's steps, for a process that is alive runs; a death
is never forced.

*Checked* (`suite`): `WholeArchives`, `OwnTeardown`, `OrgsAccountedFor`,
`ArchivesAccountedFor` (an archive that stops the next run was left by a process 1 that died
or by a removal that failed), `OnlyADeathSpoilsQuotas`, `EveryRunEnds`.

*Proved* (`SuiteLifecycleProofs`) for any number of processes, specs, archives and starts:
all of these but liveness. Neither `WholeArchives` nor `OwnTeardown` is inductive. The
invariant adds where process 1 is in its list (`PositionInv`: archives before `next` are
complete while it writes), what the others may be doing meanwhile, and that inside a
spec `TestSetup` is that spec's or nil (`SetupInv`). `OnlyADeathSpoilsQuotas` rests on
`QuotaInv`: one process at most takes the quota spec in a run, and its organisation, unless
left behind, is there only while that process is between `StartQuotas` and `EndQuotas`.

### AsyncBroker, AsyncOperation

The broker's service instances, its configuration, and the platform as its client. A
handler runs in a thread of its own, in the steps another thread may come between: look
the instance up or create it (`Look`), change it and choose the configured behaviour
(`DecideProvision`, `DecideUpdate`, `DecideDeprovision`, `DecidePoll`), sleep and answer
(`Respond`), or answer too late (`GiveUp`). A response to last_operation is what is
configured under `fetch` for the state: a body that says something, says something else, or
a 500. `Reconfigure` is `POST /config`, the whole of it (`Merge`): the entry of an action, the
fetch responses, the maximum, and instances, which take the place of the ones a handler may
hold (`kept`). `Reset` and `Restart` read data.json again. `told` and `origin` record what
last_operation has said and what the platform has learned of the plan's last change.

`AsyncOperation` states the README's promise about last_operation: `in_progress` until it
has been asked more often than the maximum of the moment since the operation began,
`finished` from then on, `failed` for an instance nobody knows. `KeepsPromise` says the
broker implements it, `AskedOf` being what is asked so far. A larger or smaller maximum, a
write of an instance with requests counted, and a reset are part of what the promise allows.

*Bounds*: one instance (no handler touches another's state, and the configuration is read,
not written, by them), a synchronous and an asynchronous plan as in `data.json`, a maximum of
one or two, clients with and without `accepts_incomplete`, and four bodies of `POST /config`:
updates refuse; the entries of provision are gone, so the handler falls; a larger maximum
with fetch responses that are 500s or never finish; an instance with a request counted.
Behaviours are well formed or absent: a body that is no behaviour at all is left out.
*Fairness*: the platform keeps polling an operation it knows of (weak); a handler is not
cut off for ever by a restart before it ends, nor every answer too late (strong).

*Checked* (`broker`): `PlanAgreed`, `KeepsPromise`, `OperationsEnd`. `PlanAgreed` says what sets
the two sides' plans apart, and that nothing else does: an answer that was lost, a 422, an
operation whose end was called a failure, a write by `POST /config` (`Causes`). After a lost
answer the platform keeps believing what it believed, so their plans do differ then.
`OperationsEnd` has a premise the code cannot give: from some time on the response
configured for a finished operation says so (`Conclusive`), and nobody writes the instance any
more. (`broker_rejected`) violates `RejectedChangesNothing`: a request answered 422 for want of
`accepts_incomplete` has been carried out before it is refused.

*Proved* (`AsyncBrokerProofs`) for any instances, plans, data.json, bodies of `POST /config` and
clients: `TypeOK`, `PlanAgreed`, and that `Spec` implements the promise of `AsyncOperation`
(initial states map to initial states, every step to one of its steps or to a stutter)
however the handlers interleave. The invariant says which object a handler holds and that
only `POST /config` parts it from the listed one (`ObjectInv`), which states of the platform
call for which request (`TurnInv`), and which plan the broker holds in the middle of one
(`PlanInv`).

### CanaryDeployments

The eight specs of `deployments.go` as scripts of calls and waits (`ContinueScript` ...
`BadDropletScript`), run by one driver against the platform they test. `Poll`, `Check`,
`SleepOver` and `Timeout` are Eventually, Consistently or Expect, `time.Sleep` and the end of
a wait. A curl of the app reaches one instance: `Seen` is what a look may show, `Sure` what
every look shows, and a wait or a Consistently, which is several looks, may go on while the
two differ. `lucky` records that ten curls in a row, or all of a Consistently, missed an
instance that serves. The bad droplet's last check looks at the status and, as line 119
does, at the last successful health check (`Healthy`). The platform's updater (`Pause`,
`RollOn`, `Finish`, `FinishCancel`) and `Diego` run between any two polls.

`Init` chooses the spec, the promise the platform breaks (`Broken` gives, for each spec, those
its own text is about) and the pace. A *prompt* spec looks at every status before the next
change, waits long enough, and has its requests answered. At pace *any* it may be as slow as
it likes, and its requests fail: `Hiccup` is one whose `Expect` ends the spec, also inside a
polled function, or whose empty answer is indexed; `Misread` and the `"old"` start of
`NoteWorkerStart` are errors the code takes for an answer.

*Bounds*: the constants of the code: four instances, steps of one to four canary instances
(weights 1, 50, 75, 99), `max_in_flight` 4. *Fairness*: the platform goes on and the driver
goes on polling; a wait times out when there is nothing left to wait for, and at pace any
whenever it likes. The 60 seconds of the `badDroplet` spec are taken to be enough for the
platform to have nothing left to do (`Idle`).

*Checked* (`deployments`): `NoFaultPasses` (a broken promise is passed only where the looks
could not tell, which `Hidden` lists), `NoCallRefused`, `OnlyTransientsMissed`,
`SoundPlatformPasses`, `EverySpecEnds`. `SoundPlatformPasses` speaks of a prompt spec, and so
leaves the hazards of timing aside. `OnlyTransientsMissed` is about them: however slowly a spec
polls a sound platform, the only states it can miss, and wait for in vain, are
ACTIVE/DEPLOYING after a continue and the two processes of a rolling deployment. A request
that fails, or a platform slower than a timeout, fails a spec on a sound platform: the code
is so, and no property says otherwise. (`deployments_neighbours`) violates
`WorkerRestarted`: the usage event that shows the worker's restart may be that of a worker of
another spec's app, because `GetLastAppUseEventForProcess` filters by neither app nor process.

*Proved* (`CanaryDeploymentsProofs`) for any number of instances, canary steps and instances
in flight: `TypeOK` and `NoCallRefused`. What a spec may count on at a step depends on the
steps before it: a deployment the spec has seen paused stays so until the spec asks for
something (`PausedInv`), and the process it noted stays the newest one until it creates
another deployment (`NotedInv`, with `NewestInv`, on a sound platform). So the scripts are
first shown to have their steps in such an order (`Order`, for every spec
`EveryScriptInOrder`); the invariant then says how many deployments there are at a step
(`DepInv`), which processes still run (`LiveInv`) and what a cancel leads to (`CancelInv`).

`NoFaultPasses` is proved from `AsWritten`: more than one canary step and `max_in_flight` above
three (the code has four of each). With fewer, two faults are no faults: a first step that
is the last cannot be skipped, and instances that come one at a time cannot be told from a
small `max_in_flight`. Each broken promise has a step of the script that the spec does not get
past (`DeadEnd`) and leaves its mark in the state until the spec is there (`Trace`): a status no
deployment comes to (`WithheldTrace`), an instance of the original process or of the canary
that stays for ever (`OriginalTrace`, `CanaryTrace`), a new process that has grown less often
than the spec has looked (`RampTrace`, which needs a prompt spec). `HeldInv` puts the two
together, for as long as the spec can tell the promise from a kept one (`Telling`): a spec that
could once not tell never can again (`ToldBefore`). TLC was asked first, with several choices
of the constants.

`Idle`, which ends a wait and the sleep, names the guards of the platform's steps (`Due`,
`CanPause`, `CanRollOn`, `CanFinish`, `CanFinishCancel`) instead of asking whether `Platform`
is enabled, which the provers cannot reason about; TLC finds the two to agree.

### ConfigLoading

`NewConfig`, any number of times in a process. A config is a struct of pointers; `defaults`
is one too, its cells are renewed by `getDefaults` and shared with the config that is
returned, and `encoding/json` writes through the pointers it finds. A cell is named by the
load that allocated it; a value is the class validation puts it in.

*Bounds*: two loads, each of every file that differs in at most one key from a minimal or
from a full one; a third load meets nothing the second does not.

*Checked* (`config`): `LoadsAreFunctional` (accepted exactly when it should be, with exactly
the file's values and the defaults for the rest, whatever was loaded before),
`ConfigsStayPut` (no later load reaches a returned config). (`config_nulls`) violates
`NullsAreReported`: the test of it expects a complaint about `java_buildpack_name`, a key the
struct does not have.

*Proved* (`ConfigLoadingProofs`) for any number of loads of any files: `TypeOK`,
`LoadsAreFunctional` and the action property `ConfigsStayPut`. The invariant: a config's
pointers point to its own load's cells or are nil, so two loads share none.

### AppPipeline

What every spec does around its own lines: `After` is the path of `revisions.go`'s
BeforeEach (create an app, stage a package, assign the droplet, scale, route, start, wait)
and that of the spec in `droplets.go` that uploads a droplet; one action per v3 helper. The
specs of a container run one after the other and share its variables, so `appGUID` holds
the GUID of the spec before until `CreateApp` returns, and AfterEach (`DeleteApp`,
`PollJob`) deletes whatever it holds. Each request is answered (`Goes`), refused, or carried
out with its answer lost (`Ends`); the helpers differ in whether they notice (`GetProcesses`
and `UploadFrom` curl without `-f`). The platform refuses a call it is not ready for; its
tasks (`Works`, `Stage`, `RunInstance`, `WorkJob`) may fail, and instances crash. A poll that
finds nothing is no step; `Wait` may time out at any moment. `trouble` holds the specs
that met a failure, or a wait that ended while the platform was still at work.

*Bounds*: two specs (the second meets what the first left; the invariants were also checked
with three), two process types (the loop can fail between them), two instances as in
`revisions.go`. *Fairness*: of the spec's thread alone; the platform may stop for ever.

*Checked* (`pipeline`): `BodyStartsReady`, `FailsOnlyWithTrouble` (no helper calls too
early, no wait is for nothing, no spec fails for another's leftovers), `PassedLeavesNothing`,
`EverySpecEnds`. The first says what the code allows, too: a list of processes that was an
error is read as none, and the spec goes on unscaled (`missed`).

*Proved* (`AppPipelineProofs`) for any number of specs, process types and instances: `TypeOK`
and the three safety properties. The invariant says what each step of the path finds
(`StepInv`) and what stays from its step on (`KeptInv`), that an app's deletion begins no
earlier than in its spec's AfterEach (`AppInv`), and that the deletion waited for is that of
the spec's own app unless the spec has failed (`JobInv`).

*Not in it*: what the spec's own lines do to the app, the time a route takes to work, and a
task of an app whose spec is over.

### Revisions

The seventeen specs of `revisions.go`, each a way to restart (`how`) and a set of changed
aspects (`change`), run as scripts (`StopStartScript` ... `RollbackScript`) by one driver
from BeforeEach's `StartApp` on. The settings of an app are the aspects in which it differs
from the app as made, so a revision is the settings it records, the web process the revision
it names and the settings it runs, and an answer of the app the settings of the instance
the router picked. `Launch` is the Cloud Controller's start: a new revision when the
settings are new. `LeaveOld` leaves the instances of before running until Diego stops them
(`StopOld`). `Init` picks the spec, the promise the platform breaks (`Broken`) and whether a
restart is answered while the old instances run (`linger`). `GetRevisions` and
`GetProcesses` read an error as an empty answer (`Reads`); any other failing request ends
the spec (`Hiccup`). Several requests of a spec may fail.

*Bounds*: the seventeen specs with their own two instances, five failing requests: enough for
both reads of BeforeEach and those of the checks after them to come back empty.
*Fairness*: weak fairness of the
platform and of the driver, for both go on by themselves; a wait times out only when the
platform has nothing left to do.

*Checked* (`revisions`): `NoFaultPasses` (a broken promise is never passed but where the
spec has no check for it; `Unseen` lists those: the environment a revision records, a
sidecar's running and link, the command after a rollback; and where both reads of
BeforeEach came back empty, `NothingNoted`, a revision too few or too many is compared with
nothing), `OnlyNewServes`,
`SoundPlatformPasses`, `EverySpecEnds`. `SoundPlatformPasses` has a premise about restarts:
the specs that restart do not wait for the instances of before, and can meet one of them.
(`revisions_rollback`) violates `RollbackRecordsAll`: the rollback specs say that the new
revision has the environment of the old one and read the environment of the old one.

*Proved* (`RevisionsProofs`): `TypeOK` and `OnlyNewServes` for any specs of the five kinds,
number of instances, broken promise and number of failing requests. `TypeOK` bounds the
revisions: `CountInv` counts the starts a script has behind it, and `ScriptSteps` shows that
a script has three at most. For `OnlyNewServes` the invariant (`NoneLeft`) ties
the instances to the step just done (`HasJust`): none asked for after a stop, none up after
its wait. That this is enough rests on a lemma about the scripts, `OrderlyScript`: a start
comes first or right after such a wait, whatever the changes and the checks.

`NoFaultPasses` is proved for the code's own specs (`AsWritten`: `Specs`, any subset), any
number of instances and any number of failing requests. The argument: before the
start the spec is about, the platform holds what a sound one would (`StageInv`); that start
leaves a trace of the broken promise that nothing later removes (`Aftermath`, `AfterInv`);
each spec has a check the trace refutes (`SpecChecks`, `SomeCheckFails`, all of which are
statements about scripts); and no spec goes past such a check (`StuckInv`, `PassInv`).

### ManifestSpecs

The thirteen specs of `manifest.go` with BeforeEach, AfterEach and the service broker of
the services spec (`helpers/services/broker.go`). A manifest adds features to apps and
drops features (`Adds`, `Drops`); the platform may ignore one of them, never end the job,
take or carry out a manifest it must refuse, or forget processes with a new droplet. The
requests of a spec are `Effect`'s disjuncts; `Request` is one that is answered, `Refused`
one that fails with or without having been carried out. A failure ends the spec, but for
those nobody notices (`Unnoticed`): the broker's `Configure` and `PublicizePlans`, which curl
without `-f`, and a restage. What they left undone shows in the spec's looks at the offering
and the plan (`Publish`). `Poll`, `Timeout` and `Look` are the job, the routes and the one look
at an answer, the errors of a job that failed included. `CleanupStep`, `CleanupFails` and
`CleanupPanics` are `Destroy`, the loop of `DeleteApp` and the teardown, in Ginkgo's order:
a step that fails skips the rest of its node only. `listed` and `known` are the spec's
variables, which a failed BeforeEach has not assigned.

*Bounds*: the thirteen specs, two failing requests: one ends the spec, one is in its
cleanup. *Fairness*: as in Revisions.

*Checked* (`manifest`): `NoFaultPasses` (`Unseen`: memory is looked at by one spec only;
no-route is tested on an app without routes, buildpack autodetection by a droplet that was
there before; the bean's health check is not read; a refused manifest may have changed the
app), `RegisteredHasApp`, `NothingLeft`, `SoundPlatformPasses`, `EverySpecEnds`.

*Proved* (`ManifestSpecsProofs`): `TypeOK` and the three safety properties for any subset of
the specs and any number of failing requests. `NoFaultPasses` holds because each fault that
is not in `Unseen` blocks some step of the script, and a spec that passes has been past every step
(`FaultInv`). For `RegisteredHasApp` and `NothingLeft` the invariant says at which positions of the
services spec the broker's app, the broker and its variable come to be (`SpecInv`;
`BrokerPositions` shows that no other script has such a step) and what each step of the
cleanup finds (`CleanupInv`).

*Not in it*: `ShouldNot(Say("MOTORCYCLE"))` and the other looks for text that never occurs;
the exact numbers of memory and instances; a job that outlives its spec's organisation.

### CredhubBroker

`Bind` and `UnBind` of the credhub broker as concurrent handlers. A bind reads its request and
makes a name from the clock (`Decode`): a body that cannot be read is printed and names no
app, and the clock may show one time twice. It sets a credential under the name (`SetJSON`),
writes the name to `NameMap` (`StartWrite`, `EndWrite`: another handler may be in the map
meanwhile), grants the app it has read its permission (`AddPermission`) and answers; an unbind
reads the name, deletes the credential and answers. Every error of CredHub is `log.Fatal`
(`SetFails`, `GrantFails`, `DeleteFails`), and so is a race on the map that Go's runtime notices
(`MapRace`): the process dies with the map and every request. A race it does not notice tears
the map (`MapTorn`): from then on a read may answer nothing, or any name that was written,
and an access may panic. `Panics` is that, or the use of a client that could not be made; it
ends its own request only. Answers may be lost; the Cloud Controller then unbinds what it
does not know to be gone.

*Bounds*: two bindings, each of an app, whose requests can meet in the map, and a clock with
two readings, so that the names are different or the same. *Fairness*: none; that a handler,
a straight line of calls, comes to its end is not asked.

*Checked* (`credhub_broker`): `BoundHasCredential`, `UnbindDeletes`, `ForgottenNeedsDeath`.
The first two name what the code does not exclude: a name made twice (`Alone`),
a torn map (`raced`), and a bind whose body was not read, which is answered with a credential
its app may not read (`AppGuid`). The third shows what a death costs: the names are gone and
those credentials stay for ever.

*Proved* (`CredhubBrokerProofs`) for any bindings and any clock: the type invariant and the
three safety properties. The invariant says where the names in CredHub, in the map and in an
unbind come from (`NameInv`), that the Cloud Controller waits for the request under way
(`TurnInv`), what each step of a handler has done already (`CredentialInv`), and that `NameMap`
forgets a name in a death or a race only (`MapInv`).

*Not in it*: a handler that goes on after its connection is gone, while the Cloud Controller
sends the next request for the same binding.

## Out of the prover's reach

Liveness under fairness (`EveryRunEnds`, `OperationsEnd`, `EverySpecEnds`,
`SoundPlatformPasses`) and `ENABLED` (in the timeouts of Revisions and
ManifestSpecs, where the proofs use nothing of it) stay with TLC, and so does
`OnlyTransientsMissed`, which is not proved yet. Every other invariant and action property of a
passing run, and the refinement, is a theorem.

`SoundPlatformPasses` is weak in each module where it stands: waits end on an idle platform
only, requests are answered, and in Revisions no instance lingers after a restart. What it
shows is that the scripts expect what a sound platform does. The timing it leaves aside is
covered by `OnlyTransientsMissed` for the deployments; for a slow platform, a failed poll and
an instance that lingers after a restart no property judges the failure, and the notes of
those hazards say so.

## Plan

The core came first (suite, broker, deployments, configuration, pipeline), then the specs
with the most at stake (revisions, manifests) and the second broker. Left, in the order of
what matters to the suite:

1. **Proofs**: `OnlyTransientsMissed`, and the parts of the liveness properties that are safety,
   such as that a prompt spec is never failed by a sound platform, in Revisions,
   ManifestSpecs and CanaryDeployments.
2. **AsyncBroker, bindings** (`service_broker.rb:289-322`): the shared map and the `merge!` of
   GET. With the behaviours of `data.json` such a GET is a 500, so the interesting case needs
   a broker configured by hand.
3. **Usage events**: pages read from the newest while new events arrive.
4. **LoadGenerator**: the flag two loops read; no spec uses the generators.
5. Sidecars, commands and droplets: straight lines, as scripts of the kind ManifestSpecs has.

## Not modelled

The nginx endpoint specs, the download and log helpers, random names, the reporters and
the sample apps: requests and files without state of their own. `UnmapAllRoutes`: its only
caller has apps without routes, where its loop does nothing. The SSO client and the broker
client's `Restart`, `Update` and `CreateSpaceScoped`: no spec calls them. `zero_downtime.go`
asserts rates of requests in time. `PROJECT.json` says so of each, and which parts are only
planned.
