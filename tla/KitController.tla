--------------------------- MODULE KitController ---------------------------
(***************************************************************************)
(* The IntegrationKit reconciliation core: the phase-dispatched            *)
(* InitializeAction (src/unnamed/part_000) and BuildAction                 *)
(* (src/pkg/controller/integrationkit/build.go), run against a resource    *)
(* store with optimistic concurrency, an external Build executor, users   *)
(* editing kits and an integration controller rebinding integrations.     *)
(*                                                                         *)
(* One reconciliation pass of kit k is a sequence of steps, one per store  *)
(* round-trip; pc[k] says which round-trip the pass makes next and "Idle"  *)
(* that no pass is in progress.  Passes of one kit are serialised (the     *)
(* work queue never hands out one key twice); passes of distinct kits and  *)
(* the external actors interleave freely.  The pass keeps the objects it   *)
(* read (kitSnap, buildSnap, listSnap) and writes them back, so a write    *)
(* succeeds only if the stored resourceVersion (rv) is still the one read. *)
(***************************************************************************)
EXTENDS Naturals, FiniteSets

CONSTANTS
  Kits,           \* names of the IntegrationKits (one namespace)
  Integrations,   \* names of the Integrations in that namespace
  Images,         \* image references a Build may produce
  ArtifactIds,    \* artifact ids a Build may report
  NoImage,        \* the empty image reference ""
  NoKit,          \* an Integration bound to no kit (status.kit = "")
  NoBuild,        \* the value of build[k] while no Build named k exists
  PrebuiltImage,  \* PrebuiltImage[k]: kit.Spec.Image, NoImage when unset
  MaxFailures,    \* bound on store errors / crashes that abort a pass
  MaxEdits,       \* bound on external edits of kits
  MaxRebinds      \* bound on integration controller rebinds

ASSUME ConstantsAssumption ==
  /\ NoImage \notin Images
  /\ NoKit \notin Kits
  /\ PrebuiltImage \in [Kits -> Images \cup {NoImage}]
  /\ MaxFailures \in Nat /\ MaxEdits \in Nat /\ MaxRebinds \in Nat

VARIABLES
  platformReady,  \* the IntegrationPlatform of the namespace is initialised
  kit,            \* stored kits: status phase, image, artifacts and rv
  build,          \* stored Builds, keyed by the name of their kit
  integ,          \* stored Integrations: status.kit, status.phase and rv
  pc,             \* next round-trip of the pass of each kit
  kitSnap,        \* the kit object the pass works on (kit.DeepCopy())
  buildSnap,      \* the Build the pass fetched
  listSnap,       \* the Integration list the fan-out fetched
  todo,           \* integrations of that list still to be updated
  failures, edits, rebinds

vars == <<platformReady, kit, build, integ, pc, kitSnap, buildSnap,
          listSnap, todo, failures, edits, rebinds>>

-----------------------------------------------------------------------------
\* The Go zero values "" (IntegrationKitPhaseNone, BuildPhaseNone, an
\* artifact with no Location) are written "None" throughout.
KitPhases == {"None", "BuildSubmitted", "BuildRunning", "Ready", "Error"}
BuildPhases == {"None", "Running", "Succeeded", "Error", "Interrupted"}
IntegrationPhases == {"BuildingKit", "ResolvingKit"}
Locations == {"None", "loc"}
PassSteps == {"Idle", "Initialize", "InitStatus", "BuildSubmitted", "Delete",
              "Create", "ToRunning", "BuildRunning", "ToReady", "ToError",
              "List", "Inform"}

Artifact == [id : ArtifactIds, location : Locations]
KitRec == [phase : KitPhases, image : Images \cup {NoImage},
           artifacts : SUBSET Artifact, rv : Nat]
BuildRec == [phase : BuildPhases, image : Images \cup {NoImage},
             artifacts : SUBSET Artifact]
IntegrationRec == [kit : Kits \cup {NoKit}, phase : IntegrationPhases, rv : Nat]

ASSUME NoBuildAssumption == NoBuild \notin BuildRec

\* The kit was created from an image and needs no build.
Prebuilt(k) == PrebuiltImage[k] # NoImage

\* Build phases after which handleBuildSubmitted creates a new Build.
BuildTerminal == {"Error", "Interrupted", "Succeeded"}

\* A Build exists and has reached a terminal phase.
Finished(b) == b # NoBuild /\ b.phase \in BuildTerminal

\* The Build a pass creates: its status is empty until the executor runs.
NewBuild == [phase |-> "None", image |-> NoImage, artifacts |-> {}]

-----------------------------------------------------------------------------
(* Helpers translated from the handlers.                                   *)

\* Mutant: CanHandle tests a named initialisation phase, which a kit
\* created with the empty phase never carries.
InitializeCanHandleNamed(k) == kit[k].phase = "Initialization"

\* initializeAction.CanHandle
InitializeCanHandle(k) == kit[k].phase = "None"

\* buildAction.CanHandle
BuildCanHandle(k) == kit[k].phase \in {"BuildSubmitted", "BuildRunning"}

\* Mutant: a Build with an unset phase is also treated as stale.
NeedsBuildPending(b) == b = NoBuild \/ b.phase \in BuildTerminal \cup {"None"}

\* The condition of handleBuildSubmitted for (re)creating the Build.
NeedsBuild(b) == b = NoBuild \/ b.phase \in BuildTerminal

\* Mutant: artifacts copied with their location.
StripKeepsLocation(as) == as

\* The artifacts copied into the kit status, their location dropped.
Strip(as) == {[id |-> a.id, location |-> "None"] : a \in as}

\* Mutant: the Error and Interrupted case of the switch is left out.
FinalizeStepIgnoresFailure == [p \in BuildTerminal |->
                                 IF p = "Succeeded" THEN "ToReady" ELSE "Idle"]

\* Where handleBuildRunning goes with a finished Build.
FinalizeStep == [p \in BuildTerminal |->
                   IF p = "Succeeded" THEN "ToReady" ELSE "ToError"]

\* Mutant: the status write ignores the resourceVersion it was read at.
KitStatusUpdateBlind(k, target, next) ==
  /\ kit' = [kit EXCEPT ![k] = [target EXCEPT !.rv = kit[k].rv + 1]]
  /\ pc' = [pc EXCEPT ![k] = next]

\* client.Status().Update(target) on a kit, optimistic on rv: on success the
\* pass continues at step next, on a conflict the pass returns the error.
KitStatusUpdate(k, target, next) ==
  \/ /\ kit[k].rv = target.rv
     /\ kit' = [kit EXCEPT ![k] = [target EXCEPT !.rv = @ + 1]]
     /\ pc' = [pc EXCEPT ![k] = next]
  \/ /\ kit[k].rv # target.rv
     /\ pc' = [pc EXCEPT ![k] = "Idle"]
     /\ UNCHANGED kit

\* Mutant: the integration write ignores the resourceVersion of the list.
IntegrationStatusUpdateBlind(k, i) ==
  /\ integ' = [integ EXCEPT ![i] = [listSnap[k][i] EXCEPT
                                       !.phase = "ResolvingKit",
                                       !.rv = integ[i].rv + 1]]
  /\ todo' = [todo EXCEPT ![k] = @ \ {i}]
  /\ pc' = [pc EXCEPT ![k] = IF todo'[k] = {} THEN "Idle" ELSE "Inform"]

\* client.Status().Update(&integration) on the listed copy of i.
IntegrationStatusUpdate(k, i) ==
  \/ /\ integ[i].rv = listSnap[k][i].rv
     /\ integ' = [integ EXCEPT ![i] = [listSnap[k][i] EXCEPT
                                          !.phase = "ResolvingKit",
                                          !.rv = @ + 1]]
     /\ todo' = [todo EXCEPT ![k] = @ \ {i}]
     /\ pc' = [pc EXCEPT ![k] = IF todo'[k] = {} THEN "Idle" ELSE "Inform"]
  \/ /\ integ[i].rv # listSnap[k][i].rv
     /\ pc' = [pc EXCEPT ![k] = "Idle"]
     /\ UNCHANGED <<integ, todo>>

-----------------------------------------------------------------------------
(* Steps of a reconciliation pass.                                         *)

\* The controller reads the kit and dispatches on its phase to the action
\* whose CanHandle holds; Ready and Error kits are handled by none.
Reconcile(k) ==
  /\ pc[k] = "Idle"
  /\ InitializeCanHandle(k) \/ BuildCanHandle(k)
  /\ kitSnap' = [kitSnap EXCEPT ![k] = kit[k]]
  /\ pc' = [pc EXCEPT ![k] = IF InitializeCanHandle(k) THEN "Initialize"
                                                       ELSE kit[k].phase]
  /\ UNCHANGED <<platformReady, kit, build, integ, buildSnap, listSnap, todo,
                 failures, edits, rebinds>>

\* initializeAction.Handle up to client.Update(target): wait softly for the
\* platform, otherwise apply the traits and update the kit (spec only; the
\* status subresource is untouched), target taking the new rv.
Initialize(k) ==
  /\ pc[k] = "Initialize"
  /\ \/ /\ ~platformReady
        /\ pc' = [pc EXCEPT ![k] = "Idle"]
        /\ UNCHANGED <<kit, kitSnap>>
     \/ /\ platformReady
        /\ kit[k].rv = kitSnap[k].rv
        /\ kit' = [kit EXCEPT ![k].rv = @ + 1]
        /\ kitSnap' = [kitSnap EXCEPT ![k].rv = @ + 1]
        /\ pc' = [pc EXCEPT ![k] = "InitStatus"]
     \/ /\ platformReady
        /\ kit[k].rv # kitSnap[k].rv
        /\ pc' = [pc EXCEPT ![k] = "Idle"]
        /\ UNCHANGED <<kit, kitSnap>>
  /\ UNCHANGED <<platformReady, build, integ, buildSnap, listSnap, todo,
                 failures, edits, rebinds>>

\* Mutant: a kit created from an image goes Ready without its image.
InitializeStatusNoImage(k) ==
  /\ pc[k] = "InitStatus"
  /\ KitStatusUpdate(k, IF Prebuilt(k)
                          THEN [kitSnap[k] EXCEPT !.phase = "Ready"]
                          ELSE [kitSnap[k] EXCEPT !.phase = "BuildSubmitted"],
                     "Idle")
  /\ UNCHANGED <<platformReady, build, integ, kitSnap, buildSnap, listSnap,
                 todo, failures, edits, rebinds>>

\* The rest of initializeAction.Handle: BuildSubmitted, or Ready with the
\* image of the spec, then client.Status().Update(target).
InitializeStatus(k) ==
  /\ pc[k] = "InitStatus"
  /\ KitStatusUpdate(k, IF Prebuilt(k)
                          THEN [kitSnap[k] EXCEPT !.phase = "Ready",
                                                  !.image = PrebuiltImage[k]]
                          ELSE [kitSnap[k] EXCEPT !.phase = "BuildSubmitted"],
                     "Idle")
  /\ UNCHANGED <<platformReady, build, integ, kitSnap, buildSnap, listSnap,
                 todo, failures, edits, rebinds>>

\* Mutant: a not-found Build is returned as an error.
SubmitGetNotFoundFailsFrom(k, b) ==
  /\ pc[k] = "BuildSubmitted"
  /\ buildSnap' = [buildSnap EXCEPT ![k] = b]
  /\ pc' = [pc EXCEPT ![k] =
              IF b = NoBuild THEN "Idle"
              ELSE IF NeedsBuild(b) THEN "Delete"
              ELSE IF b.phase = "Running" THEN "ToRunning"
              ELSE "Idle"]
  /\ UNCHANGED <<platformReady, kit, build, integ, kitSnap, listSnap, todo,
                 failures, edits, rebinds>>

\* handleBuildSubmitted after its Get returned b (NoBuild: not found, which
\* is no error): decide whether to rebuild or to move on.
SubmitGetFrom(k, b) ==
  /\ pc[k] = "BuildSubmitted"
  /\ buildSnap' = [buildSnap EXCEPT ![k] = b]
  /\ pc' = [pc EXCEPT ![k] =
              IF NeedsBuild(b) THEN "Delete"
              ELSE IF b.phase = "Running" THEN "ToRunning"
              ELSE "Idle"]
  /\ UNCHANGED <<platformReady, kit, build, integ, kitSnap, listSnap, todo,
                 failures, edits, rebinds>>

\* The Get answered by the API server: it returns the stored Build.
SubmitGet(k) == SubmitGetFrom(k, build[k])

\* trait.Apply, the catalog check, SetControllerReference and the Delete of
\* any Build of that name (not found tolerated).
SubmitDelete(k) ==
  /\ pc[k] = "Delete"
  /\ build' = [build EXCEPT ![k] = NoBuild]
  /\ pc' = [pc EXCEPT ![k] = "Create"]
  /\ UNCHANGED <<platformReady, kit, integ, kitSnap, buildSnap, listSnap,
                 todo, failures, edits, rebinds>>

\* client.Create of the new Build; its status is empty, so not Running, and
\* the pass returns without touching the kit.
SubmitCreate(k) ==
  /\ pc[k] = "Create"
  /\ build' = [build EXCEPT ![k] = NewBuild]
  /\ pc' = [pc EXCEPT ![k] = "Idle"]
  /\ UNCHANGED <<platformReady, kit, integ, kitSnap, buildSnap, listSnap,
                 todo, failures, edits, rebinds>>

\* The fetched Build is Running: the kit moves to BuildRunning.
SubmitToRunning(k) ==
  /\ pc[k] = "ToRunning"
  /\ KitStatusUpdate(k, [kitSnap[k] EXCEPT !.phase = "BuildRunning"], "Idle")
  /\ UNCHANGED <<platformReady, build, integ, kitSnap, buildSnap, listSnap,
                 todo, failures, edits, rebinds>>

\* handleBuildRunning after its Get returned b (not found is an error):
\* switch on its phase; a finished Build is taken only if the kit copy is
\* still in BuildRunning.
RunningGetFrom(k, b) ==
  /\ pc[k] = "BuildRunning"
  /\ \/ /\ ~Finished(b)
        /\ pc' = [pc EXCEPT ![k] = "Idle"]
        /\ UNCHANGED buildSnap
     \/ /\ Finished(b)
        /\ buildSnap' = [buildSnap EXCEPT ![k] = b]
        /\ pc' = [pc EXCEPT ![k] =
                    IF kitSnap[k].phase = "BuildRunning"
                      THEN FinalizeStep[b.phase] ELSE "Idle"]
  /\ UNCHANGED <<platformReady, kit, build, integ, kitSnap, listSnap, todo,
                 failures, edits, rebinds>>

\* The Get answered by the API server.
RunningGet(k) == RunningGetFrom(k, build[k])

\* The Build succeeded: copy its images and stripped artifacts, go Ready.
RunningToReady(k) ==
  /\ pc[k] = "ToReady"
  /\ KitStatusUpdate(k, [kitSnap[k] EXCEPT
                           !.phase = "Ready",
                           !.image = buildSnap[k].image,
                           !.artifacts = Strip(buildSnap[k].artifacts)],
                     "List")
  /\ UNCHANGED <<platformReady, build, integ, kitSnap, buildSnap, listSnap,
                 todo, failures, edits, rebinds>>

\* The Build failed or was interrupted: the kit goes to Error.
RunningToError(k) ==
  /\ pc[k] = "ToError"
  /\ KitStatusUpdate(k, [kitSnap[k] EXCEPT !.phase = "Error"], "Idle")
  /\ UNCHANGED <<platformReady, build, integ, kitSnap, buildSnap, listSnap,
                 todo, failures, edits, rebinds>>

\* informIntegrations: List the namespace; the loop skips every item whose
\* status.kit is not exactly the kit's name.
InformList(k) ==
  /\ pc[k] = "List"
  /\ listSnap' = [listSnap EXCEPT ![k] = integ]
  /\ todo' = [todo EXCEPT ![k] = {i \in Integrations : integ[i].kit = k}]
  /\ pc' = [pc EXCEPT ![k] = IF todo'[k] = {} THEN "Idle" ELSE "Inform"]
  /\ UNCHANGED <<platformReady, kit, build, integ, kitSnap, buildSnap,
                 failures, edits, rebinds>>

\* One iteration of the loop: set ResolvingKit and update; the first error
\* ends the pass, the integrations already updated stay updated.
InformUpdate(k) ==
  /\ pc[k] = "Inform"
  /\ \E i \in todo[k] : IntegrationStatusUpdate(k, i)
  /\ UNCHANGED <<platformReady, kit, build, kitSnap, buildSnap, listSnap,
                 failures, edits, rebinds>>

\* Any round-trip of the pass fails (transient store error, trait or catalog
\* error, or the operator dies): the handler returns before its next write.
Fail(k) ==
  /\ pc[k] # "Idle"
  /\ failures < MaxFailures
  /\ pc' = [pc EXCEPT ![k] = "Idle"]
  /\ failures' = failures + 1
  /\ UNCHANGED <<platformReady, kit, build, integ, kitSnap, buildSnap,
                 listSnap, todo, edits, rebinds>>

-----------------------------------------------------------------------------
(* The environment.                                                        *)

\* The platform controller initialises the IntegrationPlatform.
PlatformInitialized ==
  /\ ~platformReady
  /\ platformReady' = TRUE
  /\ UNCHANGED <<kit, build, integ, pc, kitSnap, buildSnap, listSnap, todo,
                 failures, edits, rebinds>>

\* The Build executor starts a pending Build.
BuildStart(k) ==
  /\ build[k] # NoBuild /\ build[k].phase = "None"
  /\ build' = [build EXCEPT ![k].phase = "Running"]
  /\ UNCHANGED <<platformReady, kit, integ, pc, kitSnap, buildSnap, listSnap,
                 todo, failures, edits, rebinds>>

\* The executor finishes a Build: a running one may succeed with an image
\* and artifacts stored at some location; any unfinished one may fail.
BuildFinish(k) ==
  /\ build[k] # NoBuild
  /\ \/ /\ build[k].phase = "Running"
        /\ \E img \in Images, ids \in SUBSET ArtifactIds :
             build' = [build EXCEPT ![k] =
                         [phase |-> "Succeeded", image |-> img,
                          artifacts |-> {[id |-> a, location |-> "loc"] :
                                           a \in ids}]]
     \/ /\ build[k].phase \in {"None", "Running"}
        /\ \E p \in {"Error", "Interrupted"} :
             build' = [build EXCEPT ![k].phase = p]
  /\ UNCHANGED <<platformReady, kit, integ, pc, kitSnap, buildSnap, listSnap,
                 todo, failures, edits, rebinds>>

\* A user (or the re-entry trigger) writes the kit: the phase is kept or
\* reset to "None", and rv changes either way.
KitEdited(k) ==
  /\ edits < MaxEdits
  /\ \E p \in {kit[k].phase, "None"} :
       kit' = [kit EXCEPT ![k].phase = p, ![k].rv = @ + 1]
  /\ edits' = edits + 1
  /\ UNCHANGED <<platformReady, build, integ, pc, kitSnap, buildSnap,
                 listSnap, todo, failures, rebinds>>

\* The integration controller binds an integration to another kit (or to
\* none) and waits for it.
IntegrationRebound(i) ==
  /\ rebinds < MaxRebinds
  /\ \E k \in (Kits \cup {NoKit}) \ {integ[i].kit} :
       integ' = [integ EXCEPT ![i] = [kit |-> k, phase |-> "BuildingKit",
                                      rv |-> @.rv + 1]]
  /\ rebinds' = rebinds + 1
  /\ UNCHANGED <<platformReady, kit, build, pc, kitSnap, buildSnap, listSnap,
                 todo, failures, edits>>

-----------------------------------------------------------------------------
NewKit == [phase |-> "None", image |-> NoImage, artifacts |-> {}, rv |-> 0]

Init ==
  /\ platformReady \in BOOLEAN
  /\ kit = [k \in Kits |-> NewKit]
  /\ build = [k \in Kits |-> NoBuild]
  /\ integ \in [Integrations -> {[kit |-> k, phase |-> "BuildingKit", rv |-> 0] :
                                   k \in Kits \cup {NoKit}}]
  /\ pc = [k \in Kits |-> "Idle"]
  /\ kitSnap = kit
  /\ buildSnap = build
  /\ listSnap = [k \in Kits |-> integ]
  /\ todo = [k \in Kits |-> {}]
  /\ failures = 0 /\ edits = 0 /\ rebinds = 0

\* Every step of the pass of k but a failure.
PassStep(k) ==
  \/ Reconcile(k) \/ Initialize(k) \/ InitializeStatus(k)
  \/ SubmitGet(k) \/ SubmitDelete(k) \/ SubmitCreate(k) \/ SubmitToRunning(k)
  \/ RunningGet(k) \/ RunningToReady(k) \/ RunningToError(k)
  \/ InformList(k) \/ InformUpdate(k)

Next ==
  \/ \E k \in Kits : PassStep(k) \/ Fail(k)
  \/ PlatformInitialized
  \/ \E k \in Kits : BuildStart(k) \/ BuildFinish(k) \/ KitEdited(k)
  \/ \E i \in Integrations : IntegrationRebound(i)

\* The work queue keeps handing out a key while its pass has work, the
\* executor finishes what it starts, the platform gets initialised.
Fairness ==
  /\ \A k \in Kits : WF_vars(PassStep(k))
  /\ \A k \in Kits : WF_vars(BuildStart(k)) /\ WF_vars(BuildFinish(k))
  /\ WF_vars(PlatformInitialized)

Spec == Init /\ [][Next]_vars /\ Fairness

-----------------------------------------------------------------------------
TypeOK ==
  /\ platformReady \in BOOLEAN
  /\ kit \in [Kits -> KitRec]
  /\ build \in [Kits -> BuildRec \cup {NoBuild}]
  /\ integ \in [Integrations -> IntegrationRec]
  /\ pc \in [Kits -> PassSteps]
  /\ kitSnap \in [Kits -> KitRec]
  /\ buildSnap \in [Kits -> BuildRec \cup {NoBuild}]
  /\ listSnap \in [Kits -> [Integrations -> IntegrationRec]]
  /\ todo \in [Kits -> SUBSET Integrations]
  /\ failures \in 0..MaxFailures
  /\ edits \in 0..MaxEdits
  /\ rebinds \in 0..MaxRebinds

-----------------------------------------------------------------------------
(* Properties.                                                             *)

\* A Ready kit carries exactly the result of the Build stored under its
\* name: the image the Build reported and its artifacts with the location
\* stripped (handleBuildRunning, Succeeded branch); a kit created from an
\* image carries that image and no Build is ever made for it
\* (initializeAction.Handle).  Breaks if a finalising pass copies a Build
\* that has since been replaced, or copies artifacts unstripped.
KitResultConsistent ==
  \A k \in Kits :
    kit[k].phase = "Ready" =>
      IF Prebuilt(k)
        THEN /\ kit[k].image = PrebuiltImage[k]
             /\ build[k] = NoBuild
        ELSE /\ build[k] # NoBuild
             /\ build[k].phase = "Succeeded"
             /\ kit[k].image = build[k].image
             /\ {a.id : a \in kit[k].artifacts} = {a.id : a \in build[k].artifacts}
             /\ \A a \in kit[k].artifacts : a.location = "None"

\* A Build that is pending or running is never deleted or replaced by the
\* controller: handleBuildSubmitted recreates only absent or finished Builds
\* (the at-most-one-build-in-flight rule).
InFlightBuildNeverReplaced ==
  [][\A k \in Kits :
       (build[k] # NoBuild /\ build[k].phase \in {"None", "Running"}) =>
         /\ build'[k] # NoBuild
         /\ build'[k].phase \in IF build[k].phase = "None"
                                  THEN BuildPhases ELSE BuildPhases \ {"None"}
    ]_vars

\* The fan-out only sets ResolvingKit on an integration whose stored
\* binding it leaves as it is and which is bound to a kit; an update from
\* the listed copy must not revert a rebinding made after the List.
FanOutPreservesBinding ==
  [][\A i \in Integrations :
       (integ'[i] # integ[i] /\ integ'[i].phase = "ResolvingKit") =>
         /\ integ'[i].kit = integ[i].kit
         /\ integ[i].kit \in Kits
    ]_vars

\* A kit in BuildRunning eventually leaves it (Ready, Error, or reset):
\* handleBuildRunning finalises once the executor finishes the Build.
BuildRunningTerminates ==
  \A k \in Kits : kit[k].phase = "BuildRunning" ~> kit[k].phase # "BuildRunning"

\* A kit with the empty phase ("None": new, or reset by a user) eventually
\* leaves it: initializeAction waits for the platform, then makes two
\* writes, client.Update of the spec and client.Status().Update from the
\* target the first one refreshed; a failure or a concurrent edit between
\* them makes a later pass start over.  Breaks if the dispatch never hands
\* a kit with the empty phase to initializeAction, or if a retry can never
\* get both writes through.
KitInitializationCompletes ==
  \A k \in Kits : kit[k].phase = "None" ~> kit[k].phase # "None"

\* A kit in BuildSubmitted left without a Build, e.g. by a crash between
\* the Delete and the Create of handleBuildSubmitted, eventually gets one
\* again (or leaves BuildSubmitted).
BuildAbsenceRepaired ==
  \A k \in Kits :
    (kit[k].phase = "BuildSubmitted" /\ build[k] = NoBuild)
      ~> (build[k] # NoBuild \/ kit[k].phase # "BuildSubmitted")

\* The spec (4.3): a kit whose Build is submitted eventually completes,
\* Ready or Error (or is reset).
SubmittedBuildCompletes ==
  \A k \in Kits :
    kit[k].phase = "BuildSubmitted" ~> kit[k].phase \in {"Ready", "Error", "None"}

\* The spec (4.4): every integration the fan-out of a Ready kit listed is
\* eventually moved to ResolvingKit (or no longer bound to that kit).
ListedIntegrationsInformed ==
  \A k \in Kits, i \in Integrations :
    (pc[k] = "Inform" /\ i \in todo[k])
      ~> (integ[i].phase = "ResolvingKit" \/ integ[i].kit # k)

-----------------------------------------------------------------------------
(* The controller implements the kit lifecycle of KitLifecycle: the       *)
(* status of each stored kit is the abstract kit.                         *)

Life == INSTANCE KitLifecycle
          WITH phase <- [k \in Kits |-> kit[k].phase],
               image <- [k \in Kits |-> kit[k].image],
               artifacts <- [k \in Kits |-> kit[k].artifacts]

\* Every behaviour of the controller, its users and the executor, seen
\* through the kit status, is a behaviour of KitLifecycle: the handlers'
\* status writes (initializeAction, handleBuildSubmitted, handleBuildRunning)
\* move a kit only along the lifecycle, and change its image and artifacts
\* only when it becomes Ready, to a built image with location-free artifacts
\* or to the image it was created from.
ImplementsLifecycle == Life!LSpec

-----------------------------------------------------------------------------
(* The strengthening of KitResultConsistent that the proof uses.           *)

\* A write from the pass's copy can only succeed while the stored kit is
\* that copy: rv only grows, and equal rv means nothing was written since.
SnapshotCurrent ==
  \A k \in Kits :
    /\ kitSnap[k].rv <= kit[k].rv
    /\ kitSnap[k].rv = kit[k].rv => kitSnap[k] = kit[k]

\* While a pass runs, the kit it read keeps the phase it was dispatched on,
\* up to a reset to "None" by a user.
PassPhase ==
  \A k \in Kits :
    /\ pc[k] \in {"Initialize", "InitStatus"} =>
         kitSnap[k].phase = "None" /\ kit[k].phase = "None"
    /\ pc[k] \in {"BuildSubmitted", "Delete", "Create", "ToRunning"} =>
         kitSnap[k].phase = "BuildSubmitted" /\ kit[k].phase \in {"None", "BuildSubmitted"}
    /\ pc[k] \in {"BuildRunning", "ToReady", "ToError"} =>
         kitSnap[k].phase = "BuildRunning" /\ kit[k].phase \in {"None", "BuildRunning"}

\* A pass about to write Ready holds the Build that is still stored.
ReadySource ==
  \A k \in Kits :
    pc[k] = "ToReady" =>
      /\ buildSnap[k] = build[k]
      /\ build[k] # NoBuild
      /\ build[k].phase = "Succeeded"

\* A kit created from an image never enters the build path.
PrebuiltNeverBuilt ==
  \A k \in Kits :
    Prebuilt(k) =>
      /\ build[k] = NoBuild
      /\ pc[k] \in {"Idle", "Initialize", "InitStatus"}
      /\ kit[k].phase \in {"None", "Ready"}

\* A Build the executor reports Succeeded names the image it produced.
SucceededHasImage ==
  \A k \in Kits :
    (build[k] # NoBuild /\ build[k].phase = "Succeeded") => build[k].image \in Images

\* A pass about to delete the Build has just seen it absent or finished,
\* and the executor does not touch such a Build; a pass about to create it
\* has deleted it.
DeleteSafe ==
  \A k \in Kits :
    /\ pc[k] = "Delete" => NeedsBuild(build[k])
    /\ pc[k] = "Create" => build[k] = NoBuild

\* The fan-out's listed copy of an integration is never ahead of the store,
\* is the stored integration while its rv is, and the integrations still
\* to update are the ones the list showed bound to the kit.
ListCurrent ==
  \A k \in Kits :
    /\ \A i \in Integrations :
         /\ listSnap[k][i].rv <= integ[i].rv
         /\ listSnap[k][i].rv = integ[i].rv => listSnap[k][i] = integ[i]
    /\ todo[k] \subseteq {i \in Integrations : listSnap[k][i].kit = k}

IInv ==
  /\ TypeOK
  /\ KitResultConsistent
  /\ SnapshotCurrent
  /\ PassPhase
  /\ ReadySource
  /\ PrebuiltNeverBuilt

=============================================================================
