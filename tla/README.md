# TLA+ models of the IntegrationKit build orchestration

This directory holds the formal models of the IntegrationKit controller in
`src/`. It also holds the TLC configurations that check them on small
instances and the TLAPS proofs that hold for every instance.

## The system

An IntegrationKit ("kit") is turned into a container image by a derived,
one-shot Build resource. The code under `src/` has three parts.

- **InitializeAction** (`src/unnamed/part_000`). It handles kits whose phase
  is empty.
  - It waits softly for the IntegrationPlatform.
  - It applies the traits and writes the kit (`client.Update`).
  - It then writes the status: BuildSubmitted, or Ready with the spec image
    for a kit created from an image.
- **BuildAction** (`src/pkg/controller/integrationkit/build.go`). It handles
  BuildSubmitted and BuildRunning kits.
  - `handleBuildSubmitted`: Get the Build. If it is absent or finished
    (Succeeded, Error or Interrupted), delete it and create a new one. If it
    is Running, move the kit to BuildRunning.
  - `handleBuildRunning`: Get the Build and switch on its phase. Succeeded
    makes the kit Ready; the images are copied and the artifacts are copied
    without their location. Error or Interrupted makes the kit Error.
- **Dependent notification** (`informIntegrations`). After the Ready write
  it lists the Integrations of the namespace. Each one whose `status.kit` is
  the kit's name is set to ResolvingKit and written. The first error ends
  the loop.

These parts interact through a resource store with optimistic concurrency: a
write succeeds only if the resourceVersion is still the one that was read.
The reconcile loop runs at most one pass per kit at a time, and passes of
different kits run concurrently. Other actors write to the same store: the
Build executor, users editing kits, the integration controller binding
integrations to kits, and the platform controller.

## Modules

### `KitController.tla`: the core model

- **State.** The store holds `kit`, `build` and `integ`. Each record carries
  the fields the code reads or writes, plus a resourceVersion `rv` where the
  code writes with a check. The pass of each kit has:
  - a program counter `pc[k]` for the store round-trip it makes next, with
    `"Idle"` meaning no pass is in progress;
  - the copies it read: `kitSnap` is `kit.DeepCopy()`, `buildSnap` is the
    fetched Build, and `listSnap`/`todo` are the integration list and the
    part of it still to update;
  - counters that bound failures, edits and rebinds.

  The Go zero value `""` (no phase, no location) is written `"None"`.
- **Actions.** There is one action per store round-trip, so that other
  actors can interleave between the round-trips of a pass:
  - `Reconcile` is the dispatch on the two `CanHandle` predicates.
  - `Initialize` and `InitializeStatus` are initializeAction.
  - `SubmitGet`, `SubmitDelete`, `SubmitCreate` and `SubmitToRunning` are
    `handleBuildSubmitted`.
  - `RunningGet`, `RunningToReady` and `RunningToError` are
    `handleBuildRunning`.
  - `InformList` and `InformUpdate` are `informIntegrations`.
  - `Fail` is any error return, or a crash, between two round-trips; the
    pass ends and the work queue retries it.
  - The environment actions are `PlatformInitialized`, `BuildStart`,
    `BuildFinish`, `KitEdited` and `IntegrationRebound`.

  The helpers `KitStatusUpdate` and `IntegrationStatusUpdate` are the
  optimistic writes. `NeedsBuild` is the rebuild condition (lines 73-76),
  `Strip` removes the artifact locations, and `FinalizeStep` is the switch.
- **Abstractions.**
  - Images, artifact ids and names are model values.
  - `trait.Apply`, the catalog check and `SetControllerReference` write
    nothing, so they are folded into the Delete step. Their errors are
    `Fail`.
  - The digest and the failure detail are status fields no property reads,
    so they are left out.
  - Base and public images follow the image, so only `image` is kept.
  - The order of the integration list is free: `InformUpdate` picks any
    member of `todo`.

### `KitControllerCache.tla`: the Build reads through the informer cache

The code's `action.client` is a controller-runtime client, whose reads are
served by an informer cache. This module EXTENDS the core model and adds:

- `bcache[k]`, the Build as the cache holds it;
- `feed[k]`, the watch events for that Build not yet applied.

Every store write that changes `build[k]` appends the new value to
`feed[k]` (`Publish`). A write waits while `MaxCacheLag` events are
pending. `InformerSync` applies the oldest event, or, like a relist, jumps
to the newest. So the cache always holds a value the Build really had, in
order, and is never ahead of the store.

`CachedSubmitGet` and `CachedRunningGet` are the core's `SubmitGetFrom` and
`RunningGetFrom` applied to `bcache[k]` in place of `build[k]`. Every other
step is the core's step, unchanged. Kit and integration reads still go to
the store, and their writes keep the optimistic check.

### `KitLifecycle.tla`: what the controller promises

This is the abstract kit, seen only through its status: `phase`, `image`
and `artifacts`. Its steps are:

- `Submit` and `PrebuiltReady` (initializeAction);
- `Start` (handleBuildSubmitted);
- `Succeed` and `FailBuild` (handleBuildRunning);
- `Reset`, a user's edit.

`Succeed` is the only step that gives a built kit an image and artifacts:
an image in `Images`, and artifacts without a location. KitController
instantiates it as `Life`, mapping each abstract variable to the
corresponding status field of the stored kit. The property
`ImplementsLifecycle == Life!LSpec` says the detailed model implements it.

### `MCKitController.tla`, `MCKitControllerCache.tla`

They bind the model values: kit `k1` is built from source, and kit `k2` is
created from image `img2`.

### `KitControllerProofs.tla`, `KitControllerCacheProofs.tla`

They hold the TLAPS proofs (see below): the first about `KitController`,
the second about `KitControllerCache`. The second extends the first and
reuses its record, lifecycle and fan-out lemmas.

## Runs

| run | cfg | expect | what it shows |
|---|---|---|---|
| kit_controller | MCKitController.cfg | pass (63,588 states) | the seven properties below, with one kit, two integrations, one failure, one edit and one rebind |
| two_kits_prebuilt | MCKitControllerTwoKits.cfg | pass (584,429 states) | a built kit and a prebuilt kit together: KitResultConsistent and ImplementsLifecycle |
| cache_controller | MCKitControllerCache.cfg | pass (351,880 states) | with cached Build reads (lag 2), ImplementsLifecycle still holds |
| cache_inflight | MCCacheInFlight.cfg | violation | with cached Build reads, InFlightBuildNeverReplaced fails |
| cache_stale_ready | MCCacheStaleReady.cfg | violation | with cached Build reads (lag 3), KitResultConsistent fails |
| cache_stuck_running | MCCacheStuckRunning.cfg | violation | with cached Build reads and one failure, BuildRunningTerminates fails |
| rebuild_livelock | MCRebuildLivelock.cfg | violation | SubmittedBuildCompletes fails |
| fanout_partial_failure | MCFanOutPartialFailure.cfg | violation | ListedIntegrationsInformed fails |

### Properties

- `KitResultConsistent` (invariant). A Ready kit carries the image of the
  Succeeded Build stored under its name and that Build's artifact ids, and
  none of its artifacts has a location. A kit created from an image instead
  carries that image and has no Build.
- `ImplementsLifecycle` (refinement). The status of the stored kits is
  a behaviour of `KitLifecycle`. Every phase change is an edge of
  `"" -> BuildSubmitted -> BuildRunning -> Ready | Error`, or
  `"" -> Ready` for a prebuilt kit, or a reset to `""`. In addition: the image and artifacts change only on the way to Ready, to a
  built image with location-free artifacts or to the kit's spec image.
- `InFlightBuildNeverReplaced` (action property). A pending or running Build
  is never deleted or replaced.
- `FanOutPreservesBinding` (action property). The fan-out never writes back
  a stale binding.
- `KitInitializationCompletes` (liveness). A kit with the empty phase, new
  or reset, eventually leaves it. `initializeAction` waits for the platform,
  then writes the spec and then the status from the target the first write
  refreshed. A failure or an edit between the two writes sends the kit
  round again. The run's mutant is a `CanHandle` that never matches the
  empty phase. A status write carrying a stale rv would conflict forever
  too, but each retry bumps `rv`, so that mutant has no finite state space.
- `BuildRunningTerminates` and `BuildAbsenceRepaired` (liveness).

### Bounds

One failure, one edit and one rebind are enough to reach the cases that
matter:

- the crash between Delete and Create;
- a reset of the kit under a running pass, which makes the status write
  conflict;
- a rebinding between the List and the Update.

Two integrations make the fan-out a loop with a middle. The two-kit run
adds the prebuilt path and concurrent passes of distinct kits. `rv` stays
bounded because every write is bounded by these counters or by the phase
machine.

The cache runs use one kit. A lag of 2 already lets a pass read a Build
state that is two writes old (Delete, then Create). The stale-Ready
violation needs three pending events (the old Build's Succeeded, the
Delete, the Create), so its run uses `MaxCacheLag = 3`.

`CHECK_DEADLOCK FALSE` is set because the system really stops once every kit
is Ready or Error and the bounded actors are spent.

### Fairness

- Weak fairness on each kit's pass steps. The work queue requeues a key
  while the pass has work.
- Weak fairness on the executor's start and finish of each Build, because
  the executor finishes what it starts.
- Weak fairness on the platform initialisation. Without it a kit could
  wait for its platform forever, and `KitInitializationCompletes` would fail.

`Fail`, the edits and the rebinds are not fair, because they may never
happen. In the cache model, `InformerSync` is weakly fair too: the informer
keeps delivering events.

## Findings

1. **Rebuild livelock** (`build.go:73`). If the executor runs a Build to
   completion between two passes, the next `handleBuildSubmitted` sees it
   Succeeded while the kit is still BuildSubmitted. It deletes and recreates
   it, and TLC shows this repeating forever. The spec says the next pass
   observes the transition and the kit completes.
2. **Fan-out abandoned** (`build.go:225`). An update error in
   `informIntegrations` is returned after the kit is already Ready. No
   action handles Ready, so the integrations after the failed one are never
   moved to ResolvingKit. The spec calls a later re-run harmless, but none
   is ever made.
3. **Cached Get deletes an in-flight Build** (`build.go:68`).
   InitializeAction writes the kit twice (`part_000:62` and `:85`), so two
   passes follow. If the second pass runs before the informer has
   delivered the Create of the first, it sees no Build and deletes the
   pending one. This breaks the at-most-one-build-in-flight rule of the
   spec, which assumes reads are fresh.
4. **Ready with a deleted Build's image** (`build.go:137`). After a
   delete and recreate, a cache three events behind can still replay the
   old Build's Running and Succeeded. The kit is then written Ready with
   the old image while a new Build is pending. The kit still follows the
   lifecycle (`cache_controller` passes), but its image is not that of its
   current Build.
5. **Stuck in BuildRunning** (`build.go:123`). A pass deletes the Build
   and fails before the Create. The cache still shows the old Build
   Running, so the next pass moves the kit to BuildRunning. Every later
   Get then returns not-found, which is fatal in that phase, and the kit
   never leaves it. The spec says the next pass repairs a missing Build.
6. The phase re-check at `build.go:152`/`190` tests the copy the dispatcher
   has just matched on, so it cannot fail. The optimistic status write is
   what actually rejects stale results; the proofs rely only on it.

## Proofs (TLAPS)

| theorem | statement |
|---|---|
| `IInvInvariant` | `Spec => []IInv` |
| `TypeCorrect` | `Spec => []TypeOK` |
| `ResultConsistent` | `Spec => []KitResultConsistent` |
| `LifecycleRefinement` | `Spec => ImplementsLifecycle` |
| `InFlightProved` | `Spec => InFlightBuildNeverReplaced` |
| `FanOutProved` | `Spec => FanOutPreservesBinding` |
| `CacheInvariant` | `CSpec => []CIInv` |
| `CacheLifecycleRefinement` | `CSpec => ImplementsLifecycle` |
| `CacheFanOutProved` | `CSpec => FanOutPreservesBinding` |

These hold for every set of kits, integrations, images and artifact ids and
for all bounds; the last three also hold for every informer lag. They rest
on `ConstantsAssumption` and `NoBuildAssumption`, and the cache theorems
also on `CacheLagAssumption`.

`KitResultConsistent` is not inductive on its own: a Ready write from a
stale copy, or a Build replaced after it was read, would break it.
`IInv` strengthens it with four conjuncts:

- `SnapshotCurrent`: the copy's rv is never ahead of the store's, and equal
  rvs mean equal records. So a write that passes the check writes over
  exactly what was read.
- `PassPhase`: while a pass runs, the stored phase is still the dispatched
  one, or a user has reset it to `"None"` (the code's empty phase).
- `ReadySource`: a pass about to write Ready holds the Succeeded Build that
  is still stored.
- `PrebuiltNeverBuilt`: a kit created from an image never enters the build
  path.

`IInv` was checked with TLC on the two-kit instance before it was proved.
The proof splits `IInv` per kit (`KitInv`). It proves one lemma per action,
in which only the acting kit needs work (`OthersFrame`), and a shared lemma
for the optimistic status write (`StatusWrite`).

The refinement proof (`LifecycleRefinement`) has the standard shape:

- `InitLife`: the initial kits map to `Life!LInit`.
- `NextLife`: under `IInv` and `SucceededHasImage`, every step maps to
  `[Life!LNext]_Life!avars`. Each per-action lemma asks only for what the
  write needs from the writing kit: `TypeOK`, `SnapOK`, `PhaseOK` and, for
  the Ready write, `ReadyImage`. `ReadyImage` says the pass holds a
  Succeeded Build with an image. The cache proofs reuse these lemmas.
  - A step that leaves `kit` alone, and `Initialize`, which only bumps
    `rv`, are stutters.
  - Each successful status write is one abstract step. By `SnapOK`, the
    write went over the stored copy; `PassPhase` gives the phase it
    starts from.
  - The Ready write is `Succeed`. By `ReadyImage`, which follows from
    `ReadySource` and `SucceededHasImage`, it copies a Succeeded Build that
    has an image in `Images`. `StripStripped` shows the artifacts have no
    location.
  - A user's edit is `Reset` or a stutter.

`SucceededHasImage` is proved inductive on its own (given `TypeOK`): only
the executor makes a Build Succeeded, and it does so with an image. It was
checked with TLC on the two-kit instance first.

`InFlightProved` rests on `DeleteSafe`, which is inductive given `IInv`
(`NextDeleteSafe`):

- a pass at `Delete` has just read, from the store, a Build that is absent
  or finished;
- a pass at `Create` has deleted it.

Nothing revives such a Build in between. The executor starts only a
pending Build and finishes only an unfinished one. No other pass writes
this kit's Build. `BuildWriters` shows that only the pass of k and the
executor write `build[k]`. `NextInFlight` then checks each of the four
writers:

- `SubmitDelete` and `SubmitCreate` cannot fire on a live Build, by
  `DeleteSafe`.
- `BuildStart` and `BuildFinish` move a live Build forward.

The lemma holds only because `SubmitGet` reads the store. With the
cached read of `KitControllerCache`, the violation run `cache_inflight`
shows the same property failing.

`FanOutProved` rests on `ListCurrent`. It holds given only `TypeOK`, so
it is proved inductive on its own (`NextListCurrent`). It says:

- a fan-out's listed copy of an integration is never ahead of the store;
- the copy equals the stored integration while their rvs agree;
- every integration still to update was listed as bound to the kit.

The optimistic update succeeds only when the rvs agree. It then writes
back the stored record with the phase changed, so the binding is kept
(`InformUpdateFanOut`). The integration controller's rebinding never sets
`ResolvingKit` (`ReboundNotResolving`).

**The cache model** (`KitControllerCacheProofs.tla`). `IInv` does not hold
there: `cache_stale_ready` shows a Ready kit whose image is not the stored
Build's. The proofs use a weaker invariant, `CInv`, split per kit
(`CKitOK`). It is `CIInv` of `KitControllerCache`, which TLC checked on
the cached one-kit instance before it was proved. It keeps these parts of
`IInv`:

- `SnapshotCurrent`;
- `PassPhase`;
- `PrebuiltNeverBuilt`.

It replaces `ReadySource` with two conjuncts:

- `ReadyImage`: a pass about to write Ready holds a Succeeded Build with
  an image.
- `ImagesOK`: every Build value of the kit has an image if it is
  Succeeded. That covers the stored Build, the cached one and every event
  still in the watch feed.

`ImagesOK` is inductive for three reasons:

- `Publish` appends the new stored value (`PublishImages`, using
  `AppendProperties`).
- `InformerSync` moves a feed entry into the cache and keeps a suffix
  (`SubSeqProperties`).
- Only the executor makes a Build Succeeded, and it gives it an image.

`CachedRunningGet` then sends a pass to `ToReady` only with a cached
Succeeded Build, which therefore has an image.

`CacheLifecycleRefinement` cites the same per-action lifecycle lemmas.
They ask for nothing that caching breaks. `CacheFanOutProved` reuses the
`ListCurrent` lemmas: the fan-out reads no Build.

So the cache's stale reads break `KitResultConsistent` and
`InFlightBuildNeverReplaced`, which the violation runs show. They break
neither the lifecycle nor the fan-out's binding guarantee.

Three things stay with TLC only:

- the liveness properties, since TLAPS does not handle fairness or ENABLED;
- the five violation runs, which are counterexamples that TLC finds, not
  theorems;
- the mutants;
- the enumeration of which integrations the fan-out must reach
  (`ListedIntegrationsInformed`), which is a liveness property.

## Not modelled

- **The step pipeline composition.** Only its test,
  `src/pkg/trait/builder_test.go`, is present. The function it tests is
  not, so there is no code to translate.
- **Source metadata extraction and Maven project generation.** Both are
  string processing and template rendering, and only tests are present.
- **Cached reads of kits and integrations.** Only the Build Gets go
  through the cache model. The dispatcher's kit and the fan-out's List
  read the store. Their kit and integration writes are optimistic either
  way, but the Build Delete and Create are not guarded by the kit's rv, so
  a stale dispatch could rebuild for a kit a user has just reset.
- **Logging, error texts, the digest value and the failure detail.**

## Plan

1. Cached kit reads in the dispatcher, to confirm that the optimistic
   writes also cover a stale `kitSnap`.
