--------------------- MODULE KitControllerCacheProofs ----------------------
(***************************************************************************)
(* Proofs about KitControllerCache, the controller whose Build Gets are    *)
(* answered by the informer cache, for every value of the constants.      *)
(* The kit-side invariants of KitController carry over (kit reads are not  *)
(* cached); ReadySource does not, and in its place a pass about to write   *)
(* Ready holds a Succeeded Build with an image, because every Build value  *)
(* the cache holds or will hold was once stored.                           *)
(***************************************************************************)
EXTENDS KitControllerCache, KitControllerProofs, SequenceTheorems

USE ConstantsAssumption, NoBuildAssumption, CacheLagAssumption

\* Every Build value of kk (stored, cached, or still in the watch feed) that
\* is Succeeded names its image.
ImagesOK(kk) ==
  /\ SucceededImage(build[kk])
  /\ SucceededImage(bcache[kk])
  /\ \A n \in 1..Len(feed[kk]) : SucceededImage(feed[kk][n])

\* The part of the invariant that speaks of the kit and the pass of kk.
CoreOK(kk) == SnapOK(kk) /\ PhaseOK(kk) /\ PrebuiltOK(kk) /\ ReadyImage(kk)

CKitOK(kk) == CoreOK(kk) /\ ImagesOK(kk)

\* The inductive invariant of the cache model, split per kit.
CInv == TypeOK /\ CacheTypeOK /\ \A kk \in Kits : CKitOK(kk)

\* A step leaves the whole kit-indexed state of kk alone.
KitUnchanged(kk) ==
  /\ kit'[kk] = kit[kk] /\ build'[kk] = build[kk] /\ pc'[kk] = pc[kk]
  /\ kitSnap'[kk] = kitSnap[kk] /\ buildSnap'[kk] = buildSnap[kk]
  /\ bcache'[kk] = bcache[kk] /\ feed'[kk] = feed[kk]

\* CInv is the strengthening CIInv that TLC checks on the cache model.
LEMMA CInvIsCIInv == CInv => CIInv
  BY DEF CInv, CKitOK, CoreOK, ImagesOK, SnapOK, PhaseOK, PrebuiltOK,
         ReadyImage, CIInv, SnapshotCurrent, PassPhase, PrebuiltNeverBuilt,
         SucceededHasImage, SucceededImage, CacheHasImage, ReadyHasImage

LEMMA CKitFrame ==
  ASSUME NEW kk \in Kits, CKitOK(kk), KitUnchanged(kk)
  PROVE  CKitOK(kk)'
  BY DEF CKitOK, CoreOK, ImagesOK, SnapOK, PhaseOK, PrebuiltOK, Prebuilt,
         ReadyImage, SucceededImage, KitUnchanged

\* A step that changes the kit-indexed state of k only keeps CInv once it
\* keeps the types and the part of k.
LEMMA COthersFrame ==
  ASSUME CInv, NEW k \in Kits, TypeOK', CacheTypeOK',
         \A kk \in Kits \ {k} : KitUnchanged(kk),
         CKitOK(k)'
  PROVE  CInv'
<1>1. \A kk \in Kits : CKitOK(kk)'
  BY CKitFrame DEF CInv
<1>2. QED
  BY <1>1 DEF CInv

\* A step that leaves every Build value alone keeps ImagesOK.
LEMMA ImagesFrame ==
  ASSUME NEW kk \in Kits, ImagesOK(kk), build'[kk] = build[kk], Quiet
  PROVE  ImagesOK(kk)'
  BY DEF ImagesOK, SucceededImage, Quiet

\* The same step keeps CacheTypeOK.
LEMMA QuietTyped ==
  ASSUME CacheTypeOK, Quiet
  PROVE  CacheTypeOK'
  BY DEF CacheTypeOK, Quiet

\* The invariant holds initially.
LEMMA InitCInv == CInit => CInv
<1> SUFFICES ASSUME CInit PROVE CInv
  OBVIOUS
<1>1. IInv
  BY InitIInv DEF CInit
<1>2. TypeOK /\ \A kk \in Kits : KitInv(kk)
  BY <1>1, IInvKit DEF IInv
<1>3. CacheTypeOK
  BY <1>2 DEF CInit, CacheTypeOK, TypeOK
<1>4. ASSUME NEW kk \in Kits PROVE CKitOK(kk)
  <2>1. build[kk] = NoBuild /\ bcache[kk] = NoBuild /\ feed[kk] = <<>>
        /\ pc[kk] = "Idle"
    BY DEF CInit, Init
  <2>2. ImagesOK(kk)
    BY <2>1 DEF ImagesOK, SucceededImage
  <2>3. QED
    BY <1>2, <2>1, <2>2 DEF CKitOK, CoreOK, KitInv, ReadyImage
<1>5. QED
  BY <1>2, <1>3, <1>4 DEF CInv

-----------------------------------------------------------------------------
(* The status writes of the pass.                                          *)

\* A status write of the pass of k that ends it or moves it to the
\* fan-out, and that writes Ready for a kit created from an image, keeps
\* CInv: it succeeds only on the stored copy (SnapOK), and no Build value
\* changes.
LEMMA CStatusStep ==
  ASSUME CInv, NEW k \in Kits, NEW target \in KitRec, NEW next \in {"Idle", "List"},
         target.rv = kitSnap[k].rv,
         KitStatusUpdate(k, target, next),
         UNCHANGED <<platformReady, build, integ, kitSnap, buildSnap, listSnap,
                     todo, failures, edits, rebinds>>,
         Quiet,
         Prebuilt(k) => next = "Idle" /\ target.phase = "Ready"
  PROVE  CInv'
<1>0. TypeOK /\ CacheTypeOK /\ CKitOK(k)
  BY DEF CInv
<1>1. /\ TypeOK'
      /\ \A kk \in Kits \ {k} :
           /\ kit'[kk] = kit[kk] /\ build'[kk] = build[kk]
           /\ pc'[kk] = pc[kk] /\ kitSnap'[kk] = kitSnap[kk]
           /\ buildSnap'[kk] = buildSnap[kk]
      /\ \/ /\ kitSnap[k] = kit[k]
            /\ kit'[k] = [target EXCEPT !.rv = @ + 1]
            /\ pc'[k] = next
         \/ /\ kit' = kit
            /\ pc'[k] = "Idle"
      /\ SnapOK(k)'
  <2>1. next \in PassSteps /\ SnapOK(k)
    BY <1>0 DEF PassSteps, CKitOK, CoreOK
  <2>2. QED
    BY <1>0, <2>1, StatusWrite, Zenon
<1>2. PhaseOK(k)' /\ ReadyImage(k)'
  BY <1>1 DEF PhaseOK, ReadyImage
<1>3. PrebuiltOK(k)'
  <2>1. CASE kit'[k] = [target EXCEPT !.rv = @ + 1] /\ pc'[k] = next
    <3>1. kit'[k].phase = target.phase
      BY <2>1 DEF KitRec
    <3>2. Prebuilt(k) => build[k] = NoBuild
      BY <1>0 DEF CKitOK, CoreOK, PrebuiltOK
    <3>3. QED
      BY <2>1, <3>1, <3>2 DEF PrebuiltOK, Prebuilt
  <2>2. CASE kit' = kit /\ pc'[k] = "Idle"
    BY <1>0, <2>2 DEF CKitOK, CoreOK, PrebuiltOK, Prebuilt
  <2>3. QED
    BY <1>1, <2>1, <2>2
<1>4. ImagesOK(k)'
  BY <1>0, ImagesFrame DEF CKitOK
<1>5. QED
  BY <1>0, <1>1, <1>2, <1>3, <1>4, QuietTyped, COthersFrame
     DEF KitUnchanged, Quiet, CKitOK, CoreOK

\* initializeAction's write: BuildSubmitted, or Ready with the image of the
\* spec for a kit created from an image.
LEMMA CInitializeStatus ==
  ASSUME CInv, NEW k \in Kits, InitializeStatus(k), Quiet
  PROVE  CInv'
<1> DEFINE target == IF Prebuilt(k)
                       THEN [kitSnap[k] EXCEPT !.phase = "Ready",
                                               !.image = PrebuiltImage[k]]
                       ELSE [kitSnap[k] EXCEPT !.phase = "BuildSubmitted"]
<1>1. kitSnap[k] \in KitRec /\ PrebuiltImage[k] \in Images \cup {NoImage}
      /\ "Ready" \in KitPhases /\ "BuildSubmitted" \in KitPhases
  BY DEF CInv, TypeOK, KitPhases
<1>2. /\ target \in KitRec /\ target.rv = kitSnap[k].rv
      /\ Prebuilt(k) => target.phase = "Ready"
  <2>1. CASE Prebuilt(k)
    <3>1. target = [kitSnap[k] EXCEPT !.phase = "Ready", !.image = PrebuiltImage[k]]
      BY <2>1
    <3>2. /\ [kitSnap[k] EXCEPT !.phase = "Ready", !.image = PrebuiltImage[k]] \in KitRec
          /\ [kitSnap[k] EXCEPT !.phase = "Ready", !.image = PrebuiltImage[k]].rv
               = kitSnap[k].rv
          /\ [kitSnap[k] EXCEPT !.phase = "Ready", !.image = PrebuiltImage[k]].phase
               = "Ready"
      <4>1. [kitSnap[k] EXCEPT !.phase = "Ready", !.image = PrebuiltImage[k]] \in KitRec
        BY <1>1, Zenon DEF KitRec
      <4>2. QED
        BY <1>1, <4>1 DEF KitRec
    <3>3. QED
      BY <3>1, <3>2
  <2>2. CASE ~Prebuilt(k)
    BY <1>1, <2>2, KitRecPhase, Zenon
  <2>3. QED
    BY <2>1, <2>2
<1>3. QED
  BY <1>2, CStatusStep, Zenon DEF InitializeStatus

\* handleBuildSubmitted's write of BuildRunning.
LEMMA CSubmitToRunning ==
  ASSUME CInv, NEW k \in Kits, SubmitToRunning(k), Quiet
  PROVE  CInv'
<1>1. kitSnap[k] \in KitRec /\ "BuildRunning" \in KitPhases
  BY DEF CInv, TypeOK, KitPhases
<1>2. ~Prebuilt(k)
  BY DEF CInv, CKitOK, CoreOK, PrebuiltOK, SubmitToRunning
<1>3. QED
  BY <1>1, <1>2, KitRecPhase, CStatusStep, Zenon DEF SubmitToRunning

\* handleBuildRunning's write of Error.
LEMMA CRunningToError ==
  ASSUME CInv, NEW k \in Kits, RunningToError(k), Quiet
  PROVE  CInv'
<1>1. kitSnap[k] \in KitRec /\ "Error" \in KitPhases
  BY DEF CInv, TypeOK, KitPhases
<1>2. ~Prebuilt(k)
  BY DEF CInv, CKitOK, CoreOK, PrebuiltOK, RunningToError
<1>3. QED
  BY <1>1, <1>2, KitRecPhase, CStatusStep, Zenon DEF RunningToError

\* handleBuildRunning's write of Ready, from the Build the pass holds: that
\* may be a stale copy, but it is Succeeded and names an image.
LEMMA CRunningToReady ==
  ASSUME CInv, NEW k \in Kits, RunningToReady(k), Quiet
  PROVE  CInv'
<1>1. buildSnap[k] \in BuildRec /\ buildSnap[k].image \in Images
  <2>1. ReadyImage(k) /\ pc[k] = "ToReady"
    BY DEF CInv, CKitOK, CoreOK, RunningToReady
  <2>2. buildSnap[k] \in BuildRec \cup {NoBuild}
    BY DEF CInv, TypeOK
  <2>3. QED
    BY <2>1, <2>2 DEF ReadyImage
<1>2. /\ kitSnap[k] \in KitRec /\ "Ready" \in KitPhases
      /\ buildSnap[k].image \in Images \cup {NoImage}
      /\ Strip(buildSnap[k].artifacts) \in SUBSET Artifact
  <2>1. buildSnap[k].artifacts \in SUBSET Artifact
    BY <1>1 DEF BuildRec
  <2>2. QED
    BY <1>1, <2>1, StripTyped DEF CInv, TypeOK, KitPhases
<1>3. ~Prebuilt(k)
  BY DEF CInv, CKitOK, CoreOK, PrebuiltOK, RunningToReady
<1> DEFINE target == [kitSnap[k] EXCEPT !.phase = "Ready",
                                        !.image = buildSnap[k].image,
                                        !.artifacts = Strip(buildSnap[k].artifacts)]
<1>4. target \in KitRec /\ target.rv = kitSnap[k].rv
  <2>1. target \in KitRec
    BY <1>2, Zenon DEF KitRec
  <2>2. QED
    BY <1>2, <2>1 DEF KitRec
<1>5. /\ KitStatusUpdate(k, target, "List")
      /\ UNCHANGED <<platformReady, build, integ, kitSnap, buildSnap, listSnap,
                     todo, failures, edits, rebinds>>
  BY DEF RunningToReady
<1>6. QED
  BY <1>3, <1>4, <1>5, CStatusStep

-----------------------------------------------------------------------------
(* The steps of the pass that write no kit status and no Build.            *)

\* Such a step of the pass of k keeps CInv once it keeps the types and the
\* part of k that speaks of the kit and the pass.
LEMMA CPassQuiet ==
  ASSUME CInv, NEW k \in Kits, Quiet, build' = build, TypeOK',
         \A kk \in Kits \ {k} :
            /\ kit'[kk] = kit[kk] /\ pc'[kk] = pc[kk]
            /\ kitSnap'[kk] = kitSnap[kk] /\ buildSnap'[kk] = buildSnap[kk],
         CoreOK(k)'
  PROVE  CInv'
<1>1. ImagesOK(k)'
  BY ImagesFrame DEF CInv, CKitOK
<1>2. QED
  BY <1>1, QuietTyped, COthersFrame DEF CInv, CKitOK, KitUnchanged, Quiet

\* The dispatch reads the kit and starts the pass of its phase.
LEMMA CReconcile ==
  ASSUME CInv, NEW k \in Kits, Reconcile(k), Quiet
  PROVE  CInv'
<1> USE DEF Reconcile, InitializeCanHandle, BuildCanHandle
<1>0. TypeOK /\ CKitOK(k)
  BY DEF CInv
<1>1. TypeOK'
  BY <1>0 DEF TypeOK, PassSteps
<1>2. kitSnap'[k] = kit'[k] /\ kit'[k] = kit[k] /\ kit[k].rv \in Nat
  BY <1>0 DEF TypeOK, KitRec
<1>3. \/ pc'[k] = "Initialize" /\ kit[k].phase = "None"
      \/ pc'[k] = kit[k].phase /\ kit[k].phase \in {"BuildSubmitted", "BuildRunning"}
  BY <1>0 DEF TypeOK
<1>4. CoreOK(k)'
  <2>1. SnapOK(k)' /\ PhaseOK(k)' /\ ReadyImage(k)'
    BY <1>2, <1>3 DEF SnapOK, PhaseOK, ReadyImage
  <2>2. PrebuiltOK(k)'
    <3>1. Prebuilt(k) => kit[k].phase = "None" /\ build[k] = NoBuild
      BY <1>0 DEF CKitOK, CoreOK, PrebuiltOK
    <3>2. QED
      BY <1>2, <1>3, <3>1 DEF PrebuiltOK
  <2>3. QED
    BY <2>1, <2>2 DEF CoreOK
<1>5. QED
  BY <1>0, <1>1, <1>4, CPassQuiet DEF TypeOK

\* The spec update of initializeAction: a soft wait, a write, or a conflict.
LEMMA CInitialize ==
  ASSUME CInv, NEW k \in Kits, Initialize(k), Quiet
  PROVE  CInv'
<1>0. TypeOK /\ CKitOK(k)
  BY DEF CInv
<1>1. CASE platformReady /\ kit[k].rv = kitSnap[k].rv
  <2>1. /\ kit' = [kit EXCEPT ![k].rv = @ + 1]
        /\ kitSnap' = [kitSnap EXCEPT ![k].rv = @ + 1]
        /\ pc' = [pc EXCEPT ![k] = "InitStatus"]
        /\ UNCHANGED <<platformReady, build, integ, buildSnap, listSnap, todo,
                       failures, edits, rebinds>>
    BY <1>1 DEF Initialize
  <2>2. kitSnap[k] = kit[k] /\ kit[k].phase = "None" /\ kit[k] \in KitRec
    BY <1>0, <1>1 DEF CKitOK, CoreOK, SnapOK, PhaseOK, Initialize, TypeOK
  <2>3. /\ kit'[k] = [kit[k] EXCEPT !.rv = @ + 1] /\ kitSnap'[k] = kit'[k]
        /\ pc'[k] = "InitStatus"
    BY <1>0, <2>1, <2>2 DEF TypeOK
  <2>4. kit'[k] \in KitRec /\ kit'[k].phase = "None" /\ kit'[k].rv \in Nat
    BY <2>2, <2>3 DEF KitRec
  <2>5. TypeOK'
    BY <1>0, <2>1, <2>3, <2>4 DEF TypeOK, PassSteps
  <2>6. CoreOK(k)'
    <3>1. SnapOK(k)'
      BY <2>3, <2>4 DEF SnapOK
    <3>4. PhaseOK(k)' /\ ReadyImage(k)'
      BY <2>3, <2>4 DEF PhaseOK, ReadyImage
    <3>2. PrebuiltOK(k)'
      BY <1>0, <2>1, <2>3, <2>4 DEF CKitOK, CoreOK, PrebuiltOK, TypeOK
    <3>3. QED
      BY <3>1, <3>2, <3>4 DEF CoreOK
  <2>7. QED
    BY <1>0, <2>1, <2>5, <2>6, CPassQuiet DEF TypeOK
<1>2. CASE ~(platformReady /\ kit[k].rv = kitSnap[k].rv)
  <2>1. pc' = [pc EXCEPT ![k] = "Idle"]
        /\ UNCHANGED <<platformReady, kit, build, integ, kitSnap, buildSnap,
                       listSnap, todo, failures, edits, rebinds>>
    BY <1>2 DEF Initialize
  <2>2. pc'[k] = "Idle" /\ TypeOK'
    BY <1>0, <2>1 DEF TypeOK, PassSteps
  <2>3. CoreOK(k)'
    BY <1>0, <2>1, <2>2 DEF CKitOK, CoreOK, SnapOK, PhaseOK, PrebuiltOK, ReadyImage
  <2>4. QED
    BY <1>0, <2>1, <2>2, <2>3, CPassQuiet DEF TypeOK
<1>3. QED
  BY <1>1, <1>2

\* A failed round-trip ends the pass and writes nothing.
LEMMA CFail ==
  ASSUME CInv, NEW k \in Kits, Fail(k), Quiet
  PROVE  CInv'
<1>0. TypeOK /\ CKitOK(k)
  BY DEF CInv
<1>1. /\ pc' = [pc EXCEPT ![k] = "Idle"]
      /\ failures' = failures + 1 /\ failures < MaxFailures
      /\ UNCHANGED <<platformReady, kit, build, integ, kitSnap, buildSnap,
                     listSnap, todo, edits, rebinds>>
  BY DEF Fail
<1>2. pc'[k] = "Idle" /\ TypeOK'
  BY <1>0, <1>1 DEF TypeOK, PassSteps
<1>3. CoreOK(k)'
  BY <1>0, <1>1, <1>2 DEF CKitOK, CoreOK, SnapOK, PhaseOK, PrebuiltOK, ReadyImage
<1>4. QED
  BY <1>0, <1>1, <1>2, <1>3, CPassQuiet DEF TypeOK

\* The Get of handleBuildSubmitted served from the cache: whatever it
\* returns, the pass moves within the BuildSubmitted part of the handler.
LEMMA CCachedSubmitGet ==
  ASSUME CInv, NEW k \in Kits, CachedSubmitGet(k)
  PROVE  CInv'
<1> USE DEF CachedSubmitGet, SubmitGetFrom
<1>0. TypeOK /\ CacheTypeOK /\ CKitOK(k) /\ ~Prebuilt(k)
  BY DEF CInv, CKitOK, CoreOK, PrebuiltOK
<1>1. pc'[k] \in {"Delete", "ToRunning", "Idle"} /\ bcache[k] \in BuildRec \cup {NoBuild}
  BY <1>0 DEF TypeOK, CacheTypeOK
<1>2. TypeOK'
  BY <1>0, <1>1 DEF TypeOK, PassSteps
<1>3. CoreOK(k)'
  BY <1>0, <1>1 DEF TypeOK, CKitOK, CoreOK, SnapOK, PhaseOK, PrebuiltOK, ReadyImage
<1>4. QED
  BY <1>0, <1>2, <1>3, CPassQuiet DEF TypeOK

\* The Get of handleBuildRunning served from the cache: a pass that goes on
\* to write Ready holds a cached Succeeded Build, which names its image.
LEMMA CCachedRunningGet ==
  ASSUME CInv, NEW k \in Kits, CachedRunningGet(k)
  PROVE  CInv'
<1> USE DEF CachedRunningGet, RunningGetFrom, Finished
<1> DEFINE b == bcache[k]
<1>0. TypeOK /\ CacheTypeOK /\ CKitOK(k) /\ ~Prebuilt(k)
  BY DEF CInv, CKitOK, CoreOK, PrebuiltOK
<1>1. b \in BuildRec \cup {NoBuild} /\ SucceededImage(b)
  BY <1>0 DEF CacheTypeOK, CKitOK, ImagesOK
<1>2. CASE b = NoBuild \/ b.phase \notin BuildTerminal
  <2>1. pc' = [pc EXCEPT ![k] = "Idle"] /\ UNCHANGED buildSnap
    BY <1>2 DEF BuildTerminal
  <2>2. TypeOK'
    BY <1>0, <2>1 DEF TypeOK, PassSteps
  <2>3. CoreOK(k)'
    BY <1>0, <2>1 DEF TypeOK, CKitOK, CoreOK, SnapOK, PhaseOK, PrebuiltOK, ReadyImage
  <2>4. QED
    BY <1>0, <2>1, <2>2, <2>3, CPassQuiet DEF TypeOK
<1>3. CASE b # NoBuild /\ b.phase \in BuildTerminal
  <2>1. /\ buildSnap' = [buildSnap EXCEPT ![k] = b]
        /\ pc' = [pc EXCEPT ![k] = IF kitSnap[k].phase = "BuildRunning"
                                     THEN FinalizeStep[b.phase] ELSE "Idle"]
    BY <1>3
  <2>2. \/ pc'[k] = "ToReady" /\ b.phase = "Succeeded"
        \/ pc'[k] \in {"ToError", "Idle"}
    BY <1>0, <1>3, <2>1 DEF TypeOK, FinalizeStep, BuildTerminal
  <2>3. b \in BuildRec
    BY <1>1, <1>3
  <2>4. TypeOK'
    BY <1>0, <2>1, <2>2, <2>3 DEF TypeOK, PassSteps
  <2>5. ReadyImage(k)'
    BY <1>0, <1>1, <1>3, <2>1, <2>2 DEF TypeOK, ReadyImage, SucceededImage
  <2>6. SnapOK(k)' /\ PhaseOK(k)' /\ PrebuiltOK(k)'
    BY <1>0, <2>1, <2>2 DEF TypeOK, CKitOK, CoreOK, SnapOK, PhaseOK, PrebuiltOK
  <2>7. QED
    BY <1>0, <2>1, <2>4, <2>5, <2>6, CPassQuiet DEF TypeOK, CoreOK
<1>4. QED
  BY <1>2, <1>3

\* The List of informIntegrations: only the pass state of k changes.
LEMMA CInformList ==
  ASSUME CInv, NEW k \in Kits, InformList(k), Quiet
  PROVE  CInv'
<1>0. TypeOK /\ CKitOK(k) /\ ~Prebuilt(k)
  BY DEF CInv, CKitOK, CoreOK, PrebuiltOK, InformList
<1>1. /\ listSnap' = [listSnap EXCEPT ![k] = integ]
      /\ todo' = [todo EXCEPT ![k] = {i \in Integrations : integ[i].kit = k}]
      /\ pc' = [pc EXCEPT ![k] = pc'[k]]
      /\ pc'[k] \in {"Idle", "Inform"}
      /\ UNCHANGED <<platformReady, kit, build, integ, kitSnap, buildSnap,
                     failures, edits, rebinds>>
  BY <1>0 DEF InformList, TypeOK
<1>2. TypeOK'
  BY <1>0, <1>1 DEF TypeOK, PassSteps
<1>3. CoreOK(k)'
  BY <1>0, <1>1 DEF CKitOK, CoreOK, SnapOK, PhaseOK, PrebuiltOK, ReadyImage
<1>4. QED
  BY <1>0, <1>1, <1>2, <1>3, CPassQuiet DEF TypeOK

\* One integration update of informIntegrations: only integrations and the
\* pass state of k change.
LEMMA CInformUpdate ==
  ASSUME CInv, NEW k \in Kits, InformUpdate(k), Quiet
  PROVE  CInv'
<1>0. TypeOK /\ CKitOK(k) /\ ~Prebuilt(k)
  BY DEF CInv, CKitOK, CoreOK, PrebuiltOK, InformUpdate
<1>1. PICK i \in todo[k] : IntegrationStatusUpdate(k, i)
  BY DEF InformUpdate
<1>2. UNCHANGED <<platformReady, kit, build, kitSnap, buildSnap, listSnap,
                  failures, edits, rebinds>>
  BY DEF InformUpdate
<1>3. pc'[k] \in {"Idle", "Inform"} /\ pc' = [pc EXCEPT ![k] = pc'[k]]
  BY <1>0, <1>1 DEF TypeOK, IntegrationStatusUpdate
<1>4. i \in Integrations /\ listSnap[k][i] \in IntegrationRec
  BY <1>0 DEF TypeOK
<1>5. integ' \in [Integrations -> IntegrationRec] /\ todo' \in [Kits -> SUBSET Integrations]
  <2>1. CASE integ[i].rv = listSnap[k][i].rv
    <3>1. [listSnap[k][i] EXCEPT !.phase = "ResolvingKit", !.rv = @ + 1] \in IntegrationRec
      BY <1>4, IntegResolved, Zenon
    <3>2. /\ integ' = [integ EXCEPT ![i] = [listSnap[k][i] EXCEPT !.phase = "ResolvingKit",
                                                                  !.rv = @ + 1]]
          /\ todo' = [todo EXCEPT ![k] = @ \ {i}]
      BY <1>1, <2>1 DEF IntegrationStatusUpdate
    <3>3. QED
      BY <1>0, <1>4, <3>1, <3>2 DEF TypeOK
  <2>2. CASE integ[i].rv # listSnap[k][i].rv
    <3>1. UNCHANGED <<integ, todo>>
      BY <1>1, <2>2 DEF IntegrationStatusUpdate
    <3>2. QED
      BY <1>0, <3>1 DEF TypeOK
  <2>3. QED
    BY <2>1, <2>2
<1>6. TypeOK'
  <2>1. pc' \in [Kits -> PassSteps]
    BY <1>0, <1>3 DEF TypeOK, PassSteps
  <2>2. QED
    BY <1>0, <1>2, <1>5, <2>1 DEF TypeOK
<1>7. CoreOK(k)'
  BY <1>0, <1>2, <1>3 DEF CKitOK, CoreOK, SnapOK, PhaseOK, PrebuiltOK, ReadyImage
<1>8. QED
  BY <1>0, <1>2, <1>3, <1>6, <1>7, CPassQuiet DEF TypeOK

-----------------------------------------------------------------------------
(* The writes of a Build, each published to the watch feed.                *)

\* A published write appends the new Build to the feed of k: the feed stays
\* a sequence of Build values, each Succeeded one naming its image.
LEMMA PublishImages ==
  ASSUME CacheTypeOK, NEW k \in Kits, ImagesOK(k), Publish(k),
         build'[k] \in BuildRec \cup {NoBuild}, SucceededImage(build'[k])
  PROVE  /\ CacheTypeOK'
         /\ ImagesOK(k)'
         /\ \A kk \in Kits \ {k} : bcache'[kk] = bcache[kk] /\ feed'[kk] = feed[kk]
<1>1. CASE build'[k] = build[k]
  BY <1>1 DEF Publish, CacheTypeOK, ImagesOK, SucceededImage
<1>2. CASE build'[k] # build[k]
  <2> DEFINE S == BuildRec \cup {NoBuild}
  <2>1. feed' = [feed EXCEPT ![k] = Append(feed[k], build'[k])]
        /\ bcache' = bcache
    BY <1>2 DEF Publish
  <2>2. feed[k] \in Seq(S)
    BY DEF CacheTypeOK
  <2>3. /\ Append(feed[k], build'[k]) \in Seq(S)
        /\ Len(Append(feed[k], build'[k])) = Len(feed[k]) + 1
        /\ \A i \in 1..Len(feed[k]) : Append(feed[k], build'[k])[i] = feed[k][i]
        /\ Append(feed[k], build'[k])[Len(feed[k]) + 1] = build'[k]
    BY <2>2, AppendProperties
  <2>4. Len(feed[k]) \in Nat
    BY <2>2, LenProperties
  <2>5. \A n \in 1..Len(feed'[k]) : SucceededImage(feed'[k][n])
    <3>1. feed'[k] = Append(feed[k], build'[k])
      BY <2>1 DEF CacheTypeOK
    <3>2. SUFFICES ASSUME NEW n \in 1..Len(feed[k]) + 1
                   PROVE  SucceededImage(Append(feed[k], build'[k])[n])
      BY <2>3, <3>1
    <3>3. CASE n \in 1..Len(feed[k])
      BY <2>3, <3>3 DEF ImagesOK
    <3>4. CASE n = Len(feed[k]) + 1
      BY <2>3, <3>4
    <3>5. QED
      BY <2>4, <3>3, <3>4
  <2>6. QED
    BY <2>1, <2>3, <2>5 DEF CacheTypeOK, ImagesOK, SucceededImage
<1>3. QED
  BY <1>1, <1>2

\* A published Build write that moves no kit, and moves only the pass of k,
\* keeps CInv once the new Build value names its image when Succeeded and
\* the part of k that speaks of the kit and the pass holds.
LEMMA CBuildStep ==
  ASSUME CInv, NEW k \in Kits, Publish(k),
         build' = [build EXCEPT ![k] = build'[k]],
         build'[k] \in BuildRec \cup {NoBuild}, SucceededImage(build'[k]),
         pc' = [pc EXCEPT ![k] = pc'[k]], pc'[k] \in PassSteps,
         UNCHANGED <<platformReady, kit, integ, kitSnap, buildSnap, listSnap,
                     todo, failures, edits, rebinds>>,
         CoreOK(k)'
  PROVE  CInv'
<1>0. TypeOK /\ CacheTypeOK /\ CKitOK(k)
  BY DEF CInv
<1>1. /\ CacheTypeOK'
      /\ ImagesOK(k)'
      /\ \A kk \in Kits \ {k} : bcache'[kk] = bcache[kk] /\ feed'[kk] = feed[kk]
  BY <1>0, PublishImages DEF CKitOK
<1>2. TypeOK'
  BY <1>0 DEF TypeOK
<1>3. \A kk \in Kits \ {k} : KitUnchanged(kk)
  BY <1>0, <1>1 DEF TypeOK, KitUnchanged
<1>4. QED
  BY <1>0, <1>1, <1>2, <1>3, COthersFrame DEF CKitOK

\* The Delete of handleBuildSubmitted.
LEMMA CSubmitDelete ==
  ASSUME CInv, NEW k \in Kits, SubmitDelete(k), Publish(k)
  PROVE  CInv'
<1> USE DEF SubmitDelete
<1>0. TypeOK /\ CKitOK(k) /\ ~Prebuilt(k)
  BY DEF CInv, CKitOK, CoreOK, PrebuiltOK
<1>1. build'[k] = NoBuild /\ pc'[k] = "Create"
  BY <1>0 DEF TypeOK
<1>2. CoreOK(k)'
  BY <1>0, <1>1 DEF CKitOK, CoreOK, SnapOK, PhaseOK, PrebuiltOK, ReadyImage
<1>3. QED
  BY <1>0, <1>1, <1>2, CBuildStep DEF TypeOK, PassSteps, SucceededImage

\* The Create of handleBuildSubmitted: a Build with an empty status.
LEMMA CSubmitCreate ==
  ASSUME CInv, NEW k \in Kits, SubmitCreate(k), Publish(k)
  PROVE  CInv'
<1> USE DEF SubmitCreate
<1>0. TypeOK /\ CKitOK(k) /\ ~Prebuilt(k)
  BY DEF CInv, CKitOK, CoreOK, PrebuiltOK
<1>1. build'[k] = NewBuild /\ pc'[k] = "Idle"
  BY <1>0 DEF TypeOK
<1>2. CoreOK(k)'
  BY <1>0, <1>1 DEF CKitOK, CoreOK, SnapOK, PhaseOK, PrebuiltOK, ReadyImage
<1>3. NewBuild \in BuildRec /\ SucceededImage(NewBuild)
  BY NewRecordsTyped DEF SucceededImage, NewBuild
<1>4. QED
  BY <1>0, <1>1, <1>2, <1>3, CBuildStep DEF TypeOK, PassSteps

\* The executor starts a pending Build.
LEMMA CBuildStart ==
  ASSUME CInv, NEW k \in Kits, BuildStart(k), Publish(k)
  PROVE  CInv'
<1> USE DEF BuildStart
<1>0. TypeOK /\ CKitOK(k) /\ ~Prebuilt(k) /\ build[k] \in BuildRec
  BY DEF CInv, CKitOK, CoreOK, PrebuiltOK, TypeOK
<1>1. /\ build'[k] = [build[k] EXCEPT !.phase = "Running"]
      /\ build'[k] \in BuildRec /\ build'[k].phase = "Running"
  <2>1. build'[k] = [build[k] EXCEPT !.phase = "Running"]
    BY <1>0 DEF TypeOK
  <2>2. [build[k] EXCEPT !.phase = "Running"] \in BuildRec
    <3>1. "Running" \in BuildPhases
      BY DEF BuildPhases
    <3>2. QED
      BY <1>0, <3>1, BuildRecPhase
  <2>3. QED
    BY <2>1, <2>2 DEF BuildRec
<1>2. CoreOK(k)'
  BY <1>0 DEF CKitOK, CoreOK, SnapOK, PhaseOK, PrebuiltOK, ReadyImage
<1>3. QED
  BY <1>0, <1>1, <1>2, CBuildStep DEF TypeOK, SucceededImage

\* The executor finishes a Build: Succeeded with an image, or failed.
LEMMA CBuildFinish ==
  ASSUME CInv, NEW k \in Kits, BuildFinish(k), Publish(k)
  PROVE  CInv'
<1> USE DEF BuildFinish
<1>0. TypeOK /\ CKitOK(k) /\ ~Prebuilt(k) /\ build[k] \in BuildRec
  BY DEF CInv, CKitOK, CoreOK, PrebuiltOK, TypeOK
<1>1. /\ build' = [build EXCEPT ![k] = build'[k]]
      /\ build'[k] \in BuildRec /\ SucceededImage(build'[k])
  <2>1. CASE \E img \in Images, ids \in SUBSET ArtifactIds :
               build' = [build EXCEPT ![k] =
                           [phase |-> "Succeeded", image |-> img,
                            artifacts |-> {[id |-> a, location |-> "loc"] :
                                             a \in ids}]]
    <3>1. PICK img \in Images, ids \in SUBSET ArtifactIds :
               build' = [build EXCEPT ![k] =
                           [phase |-> "Succeeded", image |-> img,
                            artifacts |-> {[id |-> a, location |-> "loc"] :
                                             a \in ids}]]
      BY <2>1
    <3>2. {[id |-> a, location |-> "loc"] : a \in ids} \in SUBSET Artifact
      BY DEF Artifact, Locations
    <3>3. QED
      BY <1>0, <3>1, <3>2 DEF TypeOK, BuildRec, BuildPhases, SucceededImage
  <2>2. CASE \E p \in {"Error", "Interrupted"} : build' = [build EXCEPT ![k].phase = p]
    <3>1. PICK p \in {"Error", "Interrupted"} : build' = [build EXCEPT ![k].phase = p]
      BY <2>2
    <3>2. [build[k] EXCEPT !.phase = p] \in BuildRec
      BY <1>0, BuildRecPhase DEF BuildPhases
    <3>3. QED
      BY <1>0, <3>1, <3>2 DEF TypeOK, SucceededImage
  <2>3. QED
    BY <2>1, <2>2
<1>2. CoreOK(k)'
  BY <1>0 DEF CKitOK, CoreOK, SnapOK, PhaseOK, PrebuiltOK, ReadyImage
<1>3. QED
  BY <1>0, <1>1, <1>2, CBuildStep DEF TypeOK

-----------------------------------------------------------------------------
(* The environment and the informer.                                       *)

\* A user's edit bumps rv, keeping the phase or resetting it.
LEMMA CKitEdited ==
  ASSUME CInv, NEW k \in Kits, KitEdited(k), Quiet
  PROVE  CInv'
<1>0. TypeOK /\ CKitOK(k)
  BY DEF CInv
<1>1. PICK p \in {kit[k].phase, "None"} :
        kit' = [kit EXCEPT ![k].phase = p, ![k].rv = @ + 1]
  BY DEF KitEdited
<1>2. /\ kit[k] \in KitRec /\ p \in KitPhases
      /\ kit'[k] = [kit[k] EXCEPT !.phase = p, !.rv = @ + 1]
      /\ kit' = [kit EXCEPT ![k] = kit'[k]]
  BY <1>0, <1>1 DEF TypeOK, KitRec, KitPhases
<1>3. /\ kit'[k] \in KitRec /\ kit'[k].rv = kit[k].rv + 1
      /\ kit'[k].phase = p
  <2>1. /\ [kit[k] EXCEPT !.phase = p, !.rv = @ + 1] \in KitRec
        /\ [kit[k] EXCEPT !.phase = p, !.rv = @ + 1].rv = kit[k].rv + 1
        /\ [kit[k] EXCEPT !.phase = p, !.rv = @ + 1].phase = p
    BY <1>2, KitRecEdit, Zenon
  <2>2. QED
    BY <1>2, <2>1, Zenon
<1>4. UNCHANGED <<platformReady, build, integ, pc, kitSnap, buildSnap,
                  listSnap, todo, failures, rebinds>>
      /\ edits' = edits + 1 /\ edits < MaxEdits
  BY DEF KitEdited
<1>5. TypeOK'
  BY <1>0, <1>2, <1>3, <1>4 DEF TypeOK
<1>6. CoreOK(k)'
  <2>1. SnapOK(k)'
    <3>1. kitSnap[k].rv <= kit[k].rv /\ kitSnap[k].rv \in Nat /\ kit[k].rv \in Nat
      BY <1>0 DEF CKitOK, CoreOK, SnapOK, TypeOK, KitRec
    <3>2. QED
      BY <1>3, <1>4, <3>1 DEF SnapOK
  <2>2. PhaseOK(k)'
    BY <1>0, <1>3, <1>4 DEF CKitOK, CoreOK, PhaseOK
  <2>3. PrebuiltOK(k)' /\ ReadyImage(k)'
    BY <1>0, <1>3, <1>4 DEF CKitOK, CoreOK, PrebuiltOK, ReadyImage
  <2>4. QED
    BY <2>1, <2>2, <2>3 DEF CoreOK
<1>7. QED
  BY <1>0, <1>2, <1>4, <1>5, <1>6, CPassQuiet DEF TypeOK

\* A step that leaves every kit-indexed variable alone keeps the part of
\* every kit.
LEMMA AllKitsUnchanged ==
  ASSUME CInv, TypeOK', CacheTypeOK',
         UNCHANGED <<kit, build, pc, kitSnap, buildSnap, bcache, feed>>
  PROVE  CInv'
  BY CKitFrame DEF CInv, KitUnchanged

\* The platform controller initialises the platform.
LEMMA CPlatformInitialized ==
  ASSUME CInv, PlatformInitialized, Quiet
  PROVE  CInv'
<1>1. TypeOK' /\ CacheTypeOK'
  BY QuietTyped DEF CInv, TypeOK, PlatformInitialized
<1>2. QED
  BY <1>1, AllKitsUnchanged DEF PlatformInitialized, Quiet

\* The integration controller rebinds an integration.
LEMMA CIntegrationRebound ==
  ASSUME CInv, NEW i \in Integrations, IntegrationRebound(i), Quiet
  PROVE  CInv'
<1>1. PICK kk \in (Kits \cup {NoKit}) \ {integ[i].kit} :
        integ' = [integ EXCEPT ![i] = [kit |-> kk, phase |-> "BuildingKit",
                                       rv |-> @.rv + 1]]
  BY DEF IntegrationRebound
<1>2. integ[i].rv \in Nat
  BY DEF CInv, TypeOK, IntegrationRec
<1>3. [kit |-> kk, phase |-> "BuildingKit", rv |-> integ[i].rv + 1] \in IntegrationRec
  BY <1>2 DEF IntegrationRec, IntegrationPhases
<1>4. TypeOK' /\ CacheTypeOK'
  BY <1>1, <1>3, QuietTyped DEF CInv, TypeOK, IntegrationRebound
<1>5. QED
  BY <1>4, AllKitsUnchanged DEF IntegrationRebound, Quiet

\* The informer applies the oldest pending watch event, or relists and
\* takes the newest: the cached Build is one the feed held, and the rest of
\* the feed is a suffix of it.
LEMMA CInformerSync ==
  ASSUME CInv, NEW k \in Kits, InformerSync(k)
  PROVE  CInv'
<1> DEFINE S == BuildRec \cup {NoBuild}
           f == feed[k]
<1>0. TypeOK /\ CacheTypeOK /\ CKitOK(k) /\ f \in Seq(S)
  BY DEF CInv, CacheTypeOK
<1>1. PICK n \in {1, Len(f)} :
        /\ bcache' = [bcache EXCEPT ![k] = f[n]]
        /\ feed' = [feed EXCEPT ![k] = SubSeq(f, n + 1, Len(f))]
  BY DEF InformerSync
<1>2. Len(f) \in Nat \ {0} /\ n \in 1..Len(f)
  BY <1>0, <1>1, EmptySeq DEF InformerSync
<1>3. f[n] \in S /\ SucceededImage(f[n])
  BY <1>0, <1>2, ElementOfSeq DEF CKitOK, ImagesOK
<1>4. /\ SubSeq(f, n + 1, Len(f)) \in Seq(S)
      /\ Len(SubSeq(f, n + 1, Len(f))) = Len(f) - n
      /\ \A j \in 1..Len(f) - n : SubSeq(f, n + 1, Len(f))[j] = f[n + j]
  <2>1. \A j \in n + 1..Len(f) : f[j] \in S
    BY <1>0, <1>2, ElementOfSeq
  <2>2. /\ SubSeq(f, n + 1, Len(f)) \in Seq(S)
        /\ Len(SubSeq(f, n + 1, Len(f))) = IF n + 1 <= Len(f) THEN Len(f) - n ELSE 0
        /\ \A j \in 1..Len(f) - n : SubSeq(f, n + 1, Len(f))[j] = f[n + 1 + j - 1]
    BY <1>2, <2>1, SubSeqProperties
  <2>3. QED
    BY <1>2, <2>2
<1>5. CacheTypeOK'
  BY <1>0, <1>1, <1>3, <1>4 DEF CacheTypeOK
<1>6. ImagesOK(k)'
  <2>1. \A j \in 1..Len(f) - n : SucceededImage(f[n + j])
    <3>1. SUFFICES ASSUME NEW j \in 1..Len(f) - n PROVE SucceededImage(f[n + j])
      OBVIOUS
    <3>2. n + j \in 1..Len(f)
      BY <1>2
    <3>3. QED
      BY <1>0, <3>2 DEF CKitOK, ImagesOK
  <2>2. /\ bcache'[k] = f[n]
        /\ feed'[k] = SubSeq(f, n + 1, Len(f))
        /\ build' = build
    BY <1>0, <1>1 DEF InformerSync, CacheTypeOK, vars
  <2>3. QED
    BY <1>0, <1>3, <1>4, <2>1, <2>2 DEF CKitOK, ImagesOK
<1>7. CoreOK(k)' /\ TypeOK'
  BY <1>0 DEF InformerSync, vars, CKitOK, CoreOK, SnapOK, PhaseOK, PrebuiltOK,
              ReadyImage, TypeOK
<1>8. \A kk \in Kits \ {k} : KitUnchanged(kk)
  BY <1>0, <1>1 DEF InformerSync, vars, CacheTypeOK, KitUnchanged
<1>9. QED
  BY <1>5, <1>6, <1>7, <1>8, COthersFrame DEF CKitOK

-----------------------------------------------------------------------------
\* Every step of the cache model keeps CInv.
LEMMA NextCInv == CInv /\ [CNext]_cvars => CInv'
<1> SUFFICES ASSUME CInv, [CNext]_cvars PROVE CInv'
  OBVIOUS
<1>1. ASSUME NEW k \in Kits, CPassStep(k) PROVE CInv'
  <2>1. CASE (Reconcile(k) \/ Initialize(k) \/ InitializeStatus(k)) /\ Quiet
    BY <2>1, CReconcile, CInitialize, CInitializeStatus
  <2>2. CASE CachedSubmitGet(k)
    BY <2>2, CCachedSubmitGet
  <2>3. CASE (SubmitDelete(k) \/ SubmitCreate(k)) /\ Publish(k)
    BY <2>3, CSubmitDelete, CSubmitCreate
  <2>4. CASE SubmitToRunning(k) /\ Quiet
    BY <2>4, CSubmitToRunning
  <2>5. CASE CachedRunningGet(k)
    BY <2>5, CCachedRunningGet
  <2>6. CASE (RunningToReady(k) \/ RunningToError(k)) /\ Quiet
    BY <2>6, CRunningToReady, CRunningToError
  <2>7. CASE (InformList(k) \/ InformUpdate(k)) /\ Quiet
    BY <2>7, CInformList, CInformUpdate
  <2>8. QED
    BY <1>1, <2>1, <2>2, <2>3, <2>4, <2>5, <2>6, <2>7 DEF CPassStep
<1>2. ASSUME NEW k \in Kits,
             \/ Fail(k) /\ Quiet
             \/ (BuildStart(k) \/ BuildFinish(k)) /\ Publish(k)
             \/ KitEdited(k) /\ Quiet
             \/ InformerSync(k)
      PROVE  CInv'
  BY <1>2, CFail, CBuildStart, CBuildFinish, CKitEdited, CInformerSync
<1>3. ASSUME NEW i \in Integrations, IntegrationRebound(i) /\ Quiet PROVE CInv'
  BY <1>3, CIntegrationRebound
<1>4. CASE PlatformInitialized /\ Quiet
  BY <1>4, CPlatformInitialized
<1>5. CASE UNCHANGED cvars
  <2>1. TypeOK' /\ CacheTypeOK'
    BY <1>5 DEF CInv, TypeOK, CacheTypeOK, cvars, vars
  <2>2. QED
    BY <1>5, <2>1, AllKitsUnchanged DEF cvars, vars
<1>6. QED
  BY <1>1, <1>2, <1>3, <1>4, <1>5 DEF CNext

\* For every number of kits, images and artifact ids, every bound and every
\* lag of the informer: with the Build Gets of handleBuildSubmitted and
\* handleBuildRunning answered by the cache, a status write succeeds only
\* on the stored kit copy, every pass keeps the phase it was dispatched on,
\* a kit created from an image never gets a Build, and a pass about to
\* write Ready holds a Succeeded Build that names an image, though that
\* Build may no longer be the stored one.
THEOREM CacheInvariant == CSpec => []CIInv
<1>1. CInit => CInv
  BY InitCInv
<1>2. CInv /\ [CNext]_cvars => CInv'
  BY NextCInv
<1>3. CInv => CIInv
  BY CInvIsCIInv
<1>4. QED
  BY <1>1, <1>2, <1>3, PTL DEF CSpec

-----------------------------------------------------------------------------
(* KitControllerCache implements KitLifecycle under the same mapping as    *)
(* KitController.  The lifecycle lemmas of KitControllerProofs ask only    *)
(* for SnapOK, PhaseOK and ReadyImage of the writing kit, which CInv       *)
(* gives; the Ready write may copy a stale Build, but still a Succeeded    *)
(* one with an image, which is all the lifecycle asks of it.               *)

\* Every step of the cache model is a lifecycle step of one kit or leaves
\* every kit's status as it is.
LEMMA CNextLife ==
  ASSUME CInv, [CNext]_cvars
  PROVE  [Life!LNext]_Life!avars
<1>0. ASSUME NEW k \in Kits
      PROVE  TypeOK /\ SnapOK(k) /\ PhaseOK(k) /\ ReadyImage(k)
  BY DEF CInv, CKitOK, CoreOK
<1>1. CASE kit' = kit
  <2>1. LifeUnchanged
    BY <1>1 DEF LifeUnchanged
  <2>2. QED
    BY <2>1, StutterLife
<1>2. CASE kit' # kit
  <2>1. ASSUME NEW k \in Kits, InitializeStatus(k) \/ SubmitToRunning(k)
                \/ RunningToReady(k) \/ RunningToError(k)
        PROVE  [Life!LNext]_Life!avars
    BY <1>0, <1>2, <2>1, InitializeStatusLife, SubmitToRunningLife,
       RunningToReadyLife, RunningToErrorLife
  <2>2. ASSUME NEW k \in Kits, Initialize(k)
        PROVE  [Life!LNext]_Life!avars
    BY <1>0, <2>2, InitializeLife, StutterLife
  <2>3. ASSUME NEW k \in Kits, KitEdited(k)
        PROVE  [Life!LNext]_Life!avars
    BY <1>0, <2>3, KitEditedLife
  <2>4. ASSUME NEW k \in Kits,
               \/ Reconcile(k) \/ CachedSubmitGet(k) \/ SubmitDelete(k)
               \/ SubmitCreate(k) \/ CachedRunningGet(k) \/ InformList(k)
               \/ InformUpdate(k) \/ Fail(k) \/ BuildStart(k) \/ BuildFinish(k)
               \/ InformerSync(k)
        PROVE  FALSE
    BY <1>2, <2>4 DEF Reconcile, CachedSubmitGet, SubmitGetFrom, SubmitDelete,
       SubmitCreate, CachedRunningGet, RunningGetFrom, InformList, InformUpdate,
       Fail, BuildStart, BuildFinish, InformerSync, vars
  <2>5. ASSUME \/ \E i \in Integrations : IntegrationRebound(i)
               \/ PlatformInitialized \/ UNCHANGED cvars
        PROVE  FALSE
    BY <1>2, <2>5 DEF IntegrationRebound, PlatformInitialized, cvars, vars
  <2>6. QED
    BY <2>1, <2>2, <2>3, <2>4, <2>5 DEF CNext, CPassStep
<1>3. QED
  BY <1>1, <1>2

\* For every number of kits, images and artifact ids, every bound and every
\* lag of the informer, the controller with cached Build reads still moves
\* each kit only along the kit lifecycle, and gives it an image and
\* artifacts only on its way to Ready: the image of a Succeeded Build (not
\* necessarily the stored one) with location-free artifacts, or the image
\* it was created from.
THEOREM CacheLifecycleRefinement == CSpec => ImplementsLifecycle
<1>1. CSpec => []CInv
  BY InitCInv, NextCInv, PTL DEF CSpec
<1>2. CInv /\ [CNext]_cvars => [Life!LNext]_Life!avars
  BY CNextLife
<1>3. CInit => Life!LInit
  BY InitLife DEF CInit
<1>4. QED
  BY <1>1, <1>2, <1>3, PTL DEF CSpec, ImplementsLifecycle, Life!LSpec

-----------------------------------------------------------------------------
(* The fan-out of informIntegrations does not read Builds, so caching the  *)
(* Build Gets leaves its argument (ListCurrent) as it is.                  *)

\* Every step of the cache model keeps ListCurrent.
LEMMA CNextListCurrent ==
  ASSUME TypeOK, ListCurrent, [CNext]_cvars
  PROVE  ListCurrent'
<1>1. ASSUME NEW k \in Kits,
             \/ Reconcile(k) \/ Initialize(k) \/ InitializeStatus(k)
             \/ CachedSubmitGet(k) \/ SubmitDelete(k) \/ SubmitCreate(k)
             \/ SubmitToRunning(k) \/ CachedRunningGet(k) \/ RunningToReady(k)
             \/ RunningToError(k) \/ Fail(k) \/ BuildStart(k) \/ BuildFinish(k)
             \/ KitEdited(k) \/ InformerSync(k)
      PROVE  ListCurrent'
  <2>1. UNCHANGED <<integ, listSnap, todo>>
    BY <1>1 DEF Reconcile, Initialize, InitializeStatus, CachedSubmitGet,
       SubmitGetFrom, SubmitDelete, SubmitCreate, SubmitToRunning,
       CachedRunningGet, RunningGetFrom, RunningToReady, RunningToError, Fail,
       BuildStart, BuildFinish, KitEdited, InformerSync, vars
  <2>2. QED
    BY <2>1, ListFrame
<1>2. CASE PlatformInitialized \/ UNCHANGED cvars
  <2>1. UNCHANGED <<integ, listSnap, todo>>
    BY <1>2 DEF PlatformInitialized, cvars, vars
  <2>2. QED
    BY <2>1, ListFrame
<1>3. QED
  BY <1>1, <1>2, InformListCurrent, InformUpdateCurrent, IntegrationReboundCurrent
  DEF CNext, CPassStep

\* The body of FanOutPreservesBinding holds of every step of the cache
\* model from a state satisfying TypeOK and ListCurrent.
LEMMA CNextFanOut ==
  ASSUME TypeOK, ListCurrent, [CNext]_cvars
  PROVE  \A i \in Integrations :
           (integ'[i] # integ[i] /\ integ'[i].phase = "ResolvingKit") =>
             /\ integ'[i].kit = integ[i].kit
             /\ integ[i].kit \in Kits
<1> SUFFICES ASSUME NEW i \in Integrations, integ'[i] # integ[i],
                    integ'[i].phase = "ResolvingKit"
             PROVE  integ'[i].kit = integ[i].kit /\ integ[i].kit \in Kits
  OBVIOUS
<1>1. ASSUME NEW k \in Kits, InformUpdate(k)
      PROVE  integ'[i].kit = integ[i].kit /\ integ[i].kit \in Kits
  BY <1>1, InformUpdateFanOut
<1>2. ASSUME NEW j \in Integrations, IntegrationRebound(j)
      PROVE  FALSE
  BY <1>2, ReboundNotResolving
<1>3. ASSUME NEW k \in Kits,
             \/ Reconcile(k) \/ Initialize(k) \/ InitializeStatus(k)
             \/ CachedSubmitGet(k) \/ SubmitDelete(k) \/ SubmitCreate(k)
             \/ SubmitToRunning(k) \/ CachedRunningGet(k) \/ RunningToReady(k)
             \/ RunningToError(k) \/ Fail(k) \/ BuildStart(k) \/ BuildFinish(k)
             \/ KitEdited(k) \/ InformList(k) \/ InformerSync(k)
      PROVE  FALSE
  BY <1>3 DEF Reconcile, Initialize, InitializeStatus, CachedSubmitGet,
     SubmitGetFrom, SubmitDelete, SubmitCreate, SubmitToRunning,
     CachedRunningGet, RunningGetFrom, RunningToReady, RunningToError, Fail,
     BuildStart, BuildFinish, KitEdited, InformList, InformerSync, vars
<1>4. CASE PlatformInitialized \/ UNCHANGED cvars
  BY <1>4 DEF PlatformInitialized, cvars, vars
<1>5. QED
  BY <1>1, <1>2, <1>3, <1>4 DEF CNext, CPassStep

\* For any number of kits and integrations, all bounds and every lag of
\* the informer, the fan-out of the controller with cached Build reads
\* still sets ResolvingKit only on an integration bound to a kit, and
\* never reverts a rebinding made after its List.
THEOREM CacheFanOutProved == CSpec => FanOutPreservesBinding
<1>1. CSpec => [](TypeOK /\ ListCurrent)
  <2>1. TypeOK /\ ListCurrent /\ [CNext]_cvars => ListCurrent'
    BY CNextListCurrent
  <2>2. CInv => TypeOK
    BY DEF CInv
  <2>3. CInit => ListCurrent
    BY InitListCurrent DEF CInit
  <2>4. QED
    BY <2>1, <2>2, <2>3, InitCInv, NextCInv, PTL DEF CSpec
<1>2. TypeOK /\ ListCurrent /\ [CNext]_cvars =>
        [\A i \in Integrations :
           (integ'[i] # integ[i] /\ integ'[i].phase = "ResolvingKit") =>
             /\ integ'[i].kit = integ[i].kit
             /\ integ[i].kit \in Kits
        ]_vars
  BY CNextFanOut
<1>3. QED
  BY <1>1, <1>2, PTL DEF CSpec, FanOutPreservesBinding

====
