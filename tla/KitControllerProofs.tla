------------------------- MODULE KitControllerProofs -------------------------
(***************************************************************************)
(* Proofs about KitController for every value of its constants.           *)
(***************************************************************************)
EXTENDS KitController, TLAPS

USE ConstantsAssumption, NoBuildAssumption

\* The records a pass creates have the types of the store.
LEMMA NewRecordsTyped ==
  /\ NewKit \in KitRec
  /\ NewBuild \in BuildRec
  BY DEF NewKit, NewBuild, KitRec, BuildRec, KitPhases, BuildPhases

\* Strip keeps a set of artifacts a set of artifacts.
LEMMA StripTyped ==
  ASSUME NEW as \in SUBSET Artifact
  PROVE  Strip(as) \in SUBSET Artifact
<1> SUFFICES ASSUME NEW x \in Strip(as) PROVE x \in Artifact
  OBVIOUS
<1>1. PICK a \in as : x = [id |-> a.id, location |-> "None"]
  BY DEF Strip
<1>2. a.id \in ArtifactIds
  BY DEF Artifact
<1>3. QED
  BY <1>1, <1>2 DEF Artifact, Locations

\* The invariant holds initially.
LEMMA InitIInv == Init => IInv
<1> SUFFICES ASSUME Init PROVE IInv
  OBVIOUS
<1>1. TypeOK
  <2>1. integ \in [Integrations -> IntegrationRec]
    BY DEF Init, IntegrationRec, IntegrationPhases
  <2>2. QED
    BY <2>1, NewRecordsTyped DEF Init, TypeOK, PassSteps
<1>2. KitResultConsistent
  <2>1. \A k \in Kits : kit[k].phase # "Ready"
    BY DEF Init, NewKit
  <2>2. QED
    BY <2>1, Zenon DEF KitResultConsistent
<1>6. SnapshotCurrent
  <2>1. \A k \in Kits : kitSnap[k] = kit[k] /\ kit[k].rv = 0
    BY DEF Init, NewKit
  <2>2. QED
    BY <2>1 DEF SnapshotCurrent
<1>3. PassPhase /\ ReadySource
  BY DEF Init, PassPhase, ReadySource
<1>4. PrebuiltNeverBuilt
  BY DEF Init, NewKit, PrebuiltNeverBuilt
<1>5. QED
  BY <1>1, <1>2, <1>3, <1>4, <1>6 DEF IInv

-----------------------------------------------------------------------------
(* IInv split per kit: every conjunct but TypeOK speaks of one kit.        *)

KitConsistent(kk) ==
  kit[kk].phase = "Ready" =>
    IF Prebuilt(kk)
      THEN /\ kit[kk].image = PrebuiltImage[kk]
           /\ build[kk] = NoBuild
      ELSE /\ build[kk] # NoBuild
           /\ build[kk].phase = "Succeeded"
           /\ kit[kk].image = build[kk].image
           /\ {a.id : a \in kit[kk].artifacts} = {a.id : a \in build[kk].artifacts}
           /\ \A a \in kit[kk].artifacts : a.location = "None"

SnapOK(kk) ==
  /\ kitSnap[kk].rv <= kit[kk].rv
  /\ kitSnap[kk].rv = kit[kk].rv => kitSnap[kk] = kit[kk]

PhaseOK(kk) ==
  /\ pc[kk] \in {"Initialize", "InitStatus"} =>
       kitSnap[kk].phase = "None" /\ kit[kk].phase = "None"
  /\ pc[kk] \in {"BuildSubmitted", "Delete", "Create", "ToRunning"} =>
       kitSnap[kk].phase = "BuildSubmitted" /\ kit[kk].phase \in {"None", "BuildSubmitted"}
  /\ pc[kk] \in {"BuildRunning", "ToReady", "ToError"} =>
       kitSnap[kk].phase = "BuildRunning" /\ kit[kk].phase \in {"None", "BuildRunning"}

SourceOK(kk) ==
  pc[kk] = "ToReady" =>
    /\ buildSnap[kk] = build[kk]
    /\ build[kk] # NoBuild
    /\ build[kk].phase = "Succeeded"

PrebuiltOK(kk) ==
  Prebuilt(kk) =>
    /\ build[kk] = NoBuild
    /\ pc[kk] \in {"Idle", "Initialize", "InitStatus"}
    /\ kit[kk].phase \in {"None", "Ready"}

KitInv(kk) ==
  KitConsistent(kk) /\ SnapOK(kk) /\ PhaseOK(kk) /\ SourceOK(kk) /\ PrebuiltOK(kk)

\* A pass about to write Ready holds a Succeeded Build that names an image:
\* the part of SourceOK and SucceededHasImage the Ready write needs, and
\* the part that survives a lagging informer cache.
ReadyImage(kk) ==
  pc[kk] = "ToReady" =>
    /\ buildSnap[kk] # NoBuild
    /\ buildSnap[kk].phase = "Succeeded"
    /\ buildSnap[kk].image \in Images

\* Each kit satisfies its part of IInv.
LEMMA IInvKit ==
  ASSUME IInv, NEW kk \in Kits
  PROVE  KitInv(kk)
  BY DEF IInv, KitInv, KitConsistent, SnapOK, PhaseOK, SourceOK, PrebuiltOK,
         KitResultConsistent, SnapshotCurrent, PassPhase, ReadySource,
         PrebuiltNeverBuilt

\* IInv holds in the next state once it holds there for every kit.
LEMMA KitIInvPrimed ==
  ASSUME TypeOK', \A kk \in Kits : KitInv(kk)'
  PROVE  IInv'
  BY DEF IInv, KitInv, KitConsistent, SnapOK, PhaseOK, SourceOK, PrebuiltOK,
         KitResultConsistent, SnapshotCurrent, PassPhase, ReadySource,
         PrebuiltNeverBuilt

\* A kit whose own state a step leaves alone keeps its part of IInv.
LEMMA KitFrame ==
  ASSUME IInv, NEW kk \in Kits,
         kit'[kk] = kit[kk], build'[kk] = build[kk], pc'[kk] = pc[kk],
         kitSnap'[kk] = kitSnap[kk], buildSnap'[kk] = buildSnap[kk]
  PROVE  KitInv(kk)'
<1>1. KitInv(kk)
  BY IInvKit
<1>2. QED
  BY <1>1 DEF KitInv, KitConsistent, SnapOK, PhaseOK, SourceOK, PrebuiltOK

\* A step that touches only the pass state of k, and only its pc among the
\* kit-indexed variables, keeps the other kits' part.
LEMMA OthersFrame ==
  ASSUME IInv, NEW k \in Kits, TypeOK',
         \A kk \in Kits \ {k} :
            /\ kit'[kk] = kit[kk] /\ build'[kk] = build[kk]
            /\ pc'[kk] = pc[kk] /\ kitSnap'[kk] = kitSnap[kk]
            /\ buildSnap'[kk] = buildSnap[kk],
         KitInv(k)'
  PROVE  IInv'
<1>1. \A kk \in Kits : KitInv(kk)'
  BY KitFrame
<1>2. QED
  BY <1>1, KitIInvPrimed

\* Each part of KitInv depends only on some of the kit-indexed state.
LEMMA ConsistentFrame ==
  ASSUME NEW kk \in Kits, KitConsistent(kk),
         kit'[kk] = kit[kk], build'[kk] = build[kk]
  PROVE  KitConsistent(kk)'
  BY Zenon DEF KitConsistent, Prebuilt

LEMMA SnapFrame ==
  ASSUME NEW kk \in Kits, SnapOK(kk),
         kit'[kk] = kit[kk], kitSnap'[kk] = kitSnap[kk]
  PROVE  SnapOK(kk)'
  BY Zenon DEF SnapOK

LEMMA PrebuiltFrame ==
  ASSUME NEW kk \in Kits, PrebuiltOK(kk),
         kit'[kk] = kit[kk], build'[kk] = build[kk], pc'[kk] = pc[kk]
  PROVE  PrebuiltOK(kk)'
  BY Zenon DEF PrebuiltOK, Prebuilt

\* A pass that ends leaves nothing for PhaseOK and SourceOK to constrain.
LEMMA IdleOK ==
  ASSUME NEW kk \in Kits, pc'[kk] = "Idle"
  PROVE  PhaseOK(kk)' /\ SourceOK(kk)'
  BY DEF PhaseOK, SourceOK

\* A step that moves the pass of kk to the end or to the fan-out, and
\* writes nothing of kk, keeps its part of IInv.
LEMMA PassOnlyFrame ==
  ASSUME NEW kk \in Kits, KitInv(kk),
         kit'[kk] = kit[kk], build'[kk] = build[kk],
         kitSnap'[kk] = kitSnap[kk], buildSnap'[kk] = buildSnap[kk],
         pc'[kk] \in {"Idle", "List", "Inform"},
         pc'[kk] = "Idle" \/ ~Prebuilt(kk)
  PROVE  KitInv(kk)'
<1>1. KitConsistent(kk)' /\ SnapOK(kk)'
  BY ConsistentFrame, SnapFrame DEF KitInv
<1>2. PhaseOK(kk)' /\ SourceOK(kk)'
  BY DEF PhaseOK, SourceOK
<1>3. PrebuiltOK(kk)'
  BY Zenon DEF KitInv, PrebuiltOK, Prebuilt
<1>4. QED
  BY <1>1, <1>2, <1>3 DEF KitInv

\* A step of the executor on the Build of kk, while kk is not Ready, not
\* about to be written Ready and not prebuilt, keeps its part of IInv.
LEMMA BuildOnlyFrame ==
  ASSUME NEW kk \in Kits, KitInv(kk),
         kit'[kk] = kit[kk], pc'[kk] = pc[kk],
         kitSnap'[kk] = kitSnap[kk], buildSnap'[kk] = buildSnap[kk],
         kit[kk].phase # "Ready", pc[kk] # "ToReady", ~Prebuilt(kk)
  PROVE  KitInv(kk)'
<1>1. KitConsistent(kk)' /\ SourceOK(kk)' /\ PrebuiltOK(kk)'
  BY DEF KitConsistent, SourceOK, PrebuiltOK, Prebuilt
<1>2. SnapOK(kk)' /\ PhaseOK(kk)'
  BY SnapFrame, Zenon DEF KitInv, PhaseOK
<1>3. QED
  BY <1>1, <1>2 DEF KitInv

\* The artifacts copied into a Ready kit have the ids of the Build's and
\* no location.
LEMMA StripIds ==
  ASSUME NEW as
  PROVE  /\ {a.id : a \in Strip(as)} = {a.id : a \in as}
         /\ \A a \in Strip(as) : a.location = "None"
<1>1. ASSUME NEW x \in {a.id : a \in Strip(as)} PROVE x \in {a.id : a \in as}
  <2>1. PICK a \in Strip(as) : x = a.id
    BY <1>1, Zenon
  <2>2. PICK b \in as : a = [id |-> b.id, location |-> "None"]
    BY Zenon DEF Strip
  <2>3. QED
    BY <2>1, <2>2, Zenon
<1>2. ASSUME NEW x \in {a.id : a \in as} PROVE x \in {a.id : a \in Strip(as)}
  <2>1. PICK b \in as : x = b.id
    BY <1>2, Zenon
  <2>2. [id |-> b.id, location |-> "None"] \in Strip(as)
    BY Zenon DEF Strip
  <2>3. [id |-> b.id, location |-> "None"].id = x
    BY <2>1, Zenon
  <2>4. QED
    BY <2>2, <2>3, Zenon
<1>3. ASSUME NEW a \in Strip(as) PROVE a.location = "None"
  <2>1. PICK b \in as : a = [id |-> b.id, location |-> "None"]
    BY Zenon DEF Strip
  <2>2. QED
    BY <2>1, Zenon
<1>4. QED
  BY <1>1, <1>2, <1>3, Zenon

\* Setting the phase, or the phase and the result, of a kit record gives a
\* kit record with the same rv.
LEMMA KitRecPhase ==
  ASSUME NEW r \in KitRec, NEW p \in KitPhases
  PROVE  /\ [r EXCEPT !.phase = p] \in KitRec
         /\ [r EXCEPT !.phase = p].rv = r.rv
         /\ [r EXCEPT !.phase = p].phase = p
  BY DEF KitRec

LEMMA KitRecResult ==
  ASSUME NEW r \in KitRec, NEW p \in KitPhases, NEW img \in Images \cup {NoImage},
         NEW as \in SUBSET Artifact
  PROVE  /\ [r EXCEPT !.phase = p, !.image = img, !.artifacts = as] \in KitRec
         /\ [r EXCEPT !.phase = p, !.image = img, !.artifacts = as].rv = r.rv
         /\ [r EXCEPT !.phase = p, !.image = img, !.artifacts = as].phase = p
         /\ [r EXCEPT !.phase = p, !.image = img, !.artifacts = as].image = img
         /\ [r EXCEPT !.phase = p, !.image = img, !.artifacts = as].artifacts = as
<1>1. [r EXCEPT !.phase = p, !.image = img, !.artifacts = as] \in KitRec
  BY Zenon DEF KitRec
<1>2. QED
  BY <1>1 DEF KitRec

\* The same for the write of a kit created from an image.
LEMMA KitRecImage ==
  ASSUME NEW r \in KitRec, NEW p \in KitPhases, NEW img \in Images \cup {NoImage}
  PROVE  /\ [r EXCEPT !.phase = p, !.image = img] \in KitRec
         /\ [r EXCEPT !.phase = p, !.image = img].rv = r.rv
         /\ [r EXCEPT !.phase = p, !.image = img].phase = p
         /\ [r EXCEPT !.phase = p, !.image = img].image = img
<1>1. [r EXCEPT !.phase = p, !.image = img] \in KitRec
  BY Zenon DEF KitRec
<1>2. QED
  BY <1>1 DEF KitRec

\* A kit record whose rv moves on, alone or with its phase (KitEdited).
LEMMA KitRvBump ==
  ASSUME NEW r \in KitRec
  PROVE  /\ [r EXCEPT !.rv = @ + 1] \in KitRec
         /\ [r EXCEPT !.rv = @ + 1].rv = r.rv + 1
         /\ [r EXCEPT !.rv = @ + 1].phase = r.phase
         /\ [r EXCEPT !.rv = @ + 1].image = r.image
         /\ [r EXCEPT !.rv = @ + 1].artifacts = r.artifacts
  BY DEF KitRec

LEMMA KitRecEdit ==
  ASSUME NEW r \in KitRec, NEW p \in KitPhases
  PROVE  /\ [r EXCEPT !.phase = p, !.rv = @ + 1] \in KitRec
         /\ [r EXCEPT !.phase = p, !.rv = @ + 1].rv = r.rv + 1
         /\ [r EXCEPT !.phase = p, !.rv = @ + 1].phase = p
         /\ [r EXCEPT !.phase = p, !.rv = @ + 1].image = r.image
         /\ [r EXCEPT !.phase = p, !.rv = @ + 1].artifacts = r.artifacts
<1>1. /\ [r EXCEPT !.phase = p] \in KitRec
      /\ [r EXCEPT !.phase = p].rv = r.rv
      /\ [r EXCEPT !.phase = p].phase = p
      /\ [r EXCEPT !.phase = p].image = r.image
      /\ [r EXCEPT !.phase = p].artifacts = r.artifacts
  BY DEF KitRec
<1>2. QED
  BY <1>1, KitRvBump, Zenon

\* A Build record that only changes phase stays a Build record.
LEMMA BuildRecPhase ==
  ASSUME NEW r \in BuildRec, NEW p \in BuildPhases
  PROVE  [r EXCEPT !.phase = p] \in BuildRec
  BY DEF BuildRec

\* The integration record the fan-out writes keeps its kit and takes the
\* next rv.
LEMMA IntegRvBump ==
  ASSUME NEW r \in IntegrationRec
  PROVE  /\ [r EXCEPT !.rv = @ + 1] \in IntegrationRec
         /\ [r EXCEPT !.rv = @ + 1].kit = r.kit
         /\ [r EXCEPT !.rv = @ + 1].rv = r.rv + 1
  BY DEF IntegrationRec

LEMMA IntegResolved ==
  ASSUME NEW r \in IntegrationRec
  PROVE  /\ [r EXCEPT !.phase = "ResolvingKit", !.rv = @ + 1] \in IntegrationRec
         /\ [r EXCEPT !.phase = "ResolvingKit", !.rv = @ + 1].kit = r.kit
         /\ [r EXCEPT !.phase = "ResolvingKit", !.rv = @ + 1].rv = r.rv + 1
<1>1. /\ [r EXCEPT !.phase = "ResolvingKit"] \in IntegrationRec
      /\ [r EXCEPT !.phase = "ResolvingKit"].kit = r.kit
      /\ [r EXCEPT !.phase = "ResolvingKit"].rv = r.rv
  BY DEF IntegrationRec, IntegrationPhases
<1>2. QED
  BY <1>1, IntegRvBump, Zenon

-----------------------------------------------------------------------------
(* One lemma per step: it keeps IInv.                                      *)

\* The dispatch reads the kit and starts the pass of its phase.
LEMMA ReconcileIInv ==
  ASSUME IInv, NEW k \in Kits, Reconcile(k)
  PROVE  IInv'
<1> USE DEF Reconcile, InitializeCanHandle, BuildCanHandle
<1>0. KitInv(k) /\ TypeOK
  BY IInvKit DEF IInv
<1>1. TypeOK'
  <2>1. pc'[k] \in PassSteps
    BY <1>0 DEF PassSteps
  <2>2. QED
    BY <1>0, <2>1 DEF TypeOK
<1>2. \A kk \in Kits \ {k} :
         /\ kit'[kk] = kit[kk] /\ build'[kk] = build[kk]
         /\ pc'[kk] = pc[kk] /\ kitSnap'[kk] = kitSnap[kk]
         /\ buildSnap'[kk] = buildSnap[kk]
  BY <1>0 DEF TypeOK
<1>3. KitInv(k)'
  <2>1. kitSnap'[k] = kit'[k] /\ kit'[k] = kit[k] /\ build' = build
    BY <1>0 DEF TypeOK
  <2>2. pc'[k] = "Initialize" <=> kit[k].phase = "None"
    BY <1>0 DEF TypeOK
  <2>3. pc'[k] # "Initialize" => pc'[k] = kit[k].phase /\ kit[k].phase \in {"BuildSubmitted", "BuildRunning"}
    BY <1>0 DEF TypeOK
  <2>4. KitConsistent(k)'
    BY <1>0, <2>1 DEF KitInv, KitConsistent
  <2>5. SnapOK(k)'
    <3>1. kit[k].rv \in Nat
      BY <1>0 DEF TypeOK, KitRec
    <3>2. QED
      BY <2>1, <3>1 DEF SnapOK
  <2>6. PhaseOK(k)'
    BY <2>1, <2>2, <2>3 DEF PhaseOK
  <2>7. SourceOK(k)'
    BY <2>2, <2>3 DEF SourceOK
  <2>8. PrebuiltOK(k)'
    <3>1. Prebuilt(k) => kit[k].phase = "None" /\ build[k] = NoBuild
      BY <1>0 DEF KitInv, PrebuiltOK
    <3>2. QED
      BY <3>1, <2>1, <2>2 DEF PrebuiltOK
  <2>9. QED
    BY <2>4, <2>5, <2>6, <2>7, <2>8 DEF KitInv
<1>4. QED
  BY <1>1, <1>2, <1>3, OthersFrame

\* The spec update of initializeAction: a soft wait, a write, or a conflict.
LEMMA InitializeIInv ==
  ASSUME IInv, NEW k \in Kits, Initialize(k)
  PROVE  IInv'
<1>0. KitInv(k) /\ TypeOK
  BY IInvKit DEF IInv
<1>1. CASE platformReady /\ kit[k].rv = kitSnap[k].rv
  <2>0. /\ kit' = [kit EXCEPT ![k].rv = @ + 1]
        /\ kitSnap' = [kitSnap EXCEPT ![k].rv = @ + 1]
        /\ pc' = [pc EXCEPT ![k] = "InitStatus"]
        /\ UNCHANGED <<platformReady, build, integ, buildSnap, listSnap, todo,
                       failures, edits, rebinds>>
    BY <1>1 DEF Initialize
  <2>1. kit'[k] = [kit[k] EXCEPT !.rv = @ + 1]
        /\ kitSnap'[k] = [kitSnap[k] EXCEPT !.rv = @ + 1]
        /\ pc' = [pc EXCEPT ![k] = "InitStatus"]
    BY <1>1, <1>0 DEF TypeOK, Initialize
  <2>2. kit[k] \in KitRec
    BY <1>0 DEF TypeOK
  <2>3. TypeOK'
    <3>1. kit'[k] \in KitRec /\ kitSnap'[k] \in KitRec
      <4>1. kitSnap[k] \in KitRec
        BY <1>0 DEF TypeOK
      <4>2. QED
        BY <2>1, <2>2, <4>1 DEF KitRec
    <3>2. kit' \in [Kits -> KitRec] /\ kitSnap' \in [Kits -> KitRec]
      BY <1>0, <2>0, <3>1 DEF TypeOK
    <3>3. QED
      BY <1>0, <2>0, <3>2 DEF TypeOK, PassSteps
  <2>4. \A kk \in Kits \ {k} :
           /\ kit'[kk] = kit[kk] /\ build'[kk] = build[kk]
           /\ pc'[kk] = pc[kk] /\ kitSnap'[kk] = kitSnap[kk]
           /\ buildSnap'[kk] = buildSnap[kk]
    BY <1>0, <2>1 DEF TypeOK, Initialize
  <2>5. kitSnap'[k] = kit'[k] /\ kit'[k].phase = "None" /\ kit'[k].rv \in Nat
    <3>1. kitSnap[k] = kit[k] /\ kit[k].phase = "None"
      BY <1>0, <1>1 DEF KitInv, SnapOK, PhaseOK, Initialize
    <3>2. QED
      BY <2>1, <2>2, <3>1 DEF KitRec
  <2>6. KitInv(k)'
    <3>1. KitConsistent(k)'
      BY <2>5 DEF KitConsistent
    <3>2. SnapOK(k)'
      BY <2>5 DEF SnapOK
    <3>3. PhaseOK(k)' /\ SourceOK(k)'
      <4>1. pc'[k] = "InitStatus"
        BY <1>0, <2>0 DEF TypeOK
      <4>2. QED
        BY <4>1, <2>5 DEF PhaseOK, SourceOK
    <3>4. PrebuiltOK(k)'
      BY <1>0, <2>0, <2>5 DEF KitInv, PrebuiltOK, TypeOK
    <3>5. QED
      BY <3>1, <3>2, <3>3, <3>4 DEF KitInv
  <2>7. QED
    BY <2>3, <2>4, <2>6, OthersFrame
<1>2. CASE ~(platformReady /\ kit[k].rv = kitSnap[k].rv)
  <2>1. pc' = [pc EXCEPT ![k] = "Idle"]
        /\ UNCHANGED <<platformReady, kit, build, integ, kitSnap, buildSnap,
                       listSnap, todo, failures, edits, rebinds>>
    BY <1>2 DEF Initialize
  <2>2. TypeOK'
    BY <1>0, <2>1 DEF TypeOK, PassSteps
  <2>3. KitInv(k)'
    <3>1. pc'[k] = "Idle"
      BY <1>0, <2>1 DEF TypeOK
    <3>2. QED
      BY <1>0, <2>1, <3>1 DEF KitInv, KitConsistent, SnapOK, PhaseOK, SourceOK, PrebuiltOK
  <2>4. QED
    BY <1>0, <2>1, <2>2, <2>3, OthersFrame DEF TypeOK
<1>3. QED
  BY <1>1, <1>2

\* What a status write of the pass (KitStatusUpdate) does to IInv's parts:
\* it keeps the types and the other kits, and it succeeds only on the copy
\* that is still stored.
LEMMA StatusWrite ==
  ASSUME TypeOK, NEW k \in Kits, SnapOK(k), NEW target \in KitRec, NEW next \in PassSteps,
         target.rv = kitSnap[k].rv,
         KitStatusUpdate(k, target, next),
         UNCHANGED <<platformReady, build, integ, kitSnap, buildSnap, listSnap,
                     todo, failures, edits, rebinds>>
  PROVE  /\ TypeOK'
         /\ \A kk \in Kits \ {k} :
              /\ kit'[kk] = kit[kk] /\ build'[kk] = build[kk]
              /\ pc'[kk] = pc[kk] /\ kitSnap'[kk] = kitSnap[kk]
              /\ buildSnap'[kk] = buildSnap[kk]
         /\ \/ /\ kitSnap[k] = kit[k]
               /\ kit'[k] = [target EXCEPT !.rv = @ + 1]
               /\ pc'[k] = next
            \/ /\ kit' = kit
               /\ pc'[k] = "Idle"
         /\ SnapOK(k)'
<1>0. SnapOK(k) /\ TypeOK
  OBVIOUS
<1>1. CASE kit[k].rv = target.rv
  <2>1. kit' = [kit EXCEPT ![k] = [target EXCEPT !.rv = @ + 1]]
        /\ pc' = [pc EXCEPT ![k] = next]
    BY <1>1 DEF KitStatusUpdate
  <2>2. kitSnap[k] = kit[k]
    BY <1>0, <1>1 DEF KitInv, SnapOK
  <2>3. [target EXCEPT !.rv = @ + 1] \in KitRec
        /\ [target EXCEPT !.rv = @ + 1].rv = kit[k].rv + 1
    BY <1>1 DEF KitRec
  <2>4. kit[k].rv \in Nat
    BY <1>0 DEF TypeOK, KitRec
  <2>5. TypeOK'
    BY <1>0, <2>1, <2>3 DEF TypeOK, PassSteps
  <2>6. SnapOK(k)'
    BY <2>1, <2>2, <2>3, <2>4 DEF SnapOK
  <2>7. /\ kit'[k] = [target EXCEPT !.rv = @ + 1] /\ pc'[k] = next
        /\ \A kk \in Kits \ {k} : kit'[kk] = kit[kk] /\ pc'[kk] = pc[kk]
    BY <1>0, <2>1 DEF TypeOK
  <2>8. QED
    BY <2>2, <2>5, <2>6, <2>7
<1>2. CASE kit[k].rv # target.rv
  <2>1. pc' = [pc EXCEPT ![k] = "Idle"] /\ kit' = kit
    BY <1>2 DEF KitStatusUpdate
  <2>2. TypeOK'
    BY <1>0, <2>1 DEF TypeOK, PassSteps
  <2>3. SnapOK(k)'
    BY <1>0, <2>1 DEF KitInv, SnapOK
  <2>4. pc'[k] = "Idle"
    BY <1>0, <2>1 DEF TypeOK
  <2>5. QED
    BY <2>1, <2>2, <2>3, <2>4
<1>3. QED
  BY <1>1, <1>2

\* The status write of initializeAction: BuildSubmitted, or Ready with the
\* image of the spec; or a conflict.
LEMMA InitializeStatusIInv ==
  ASSUME IInv, NEW k \in Kits, InitializeStatus(k)
  PROVE  IInv'
<1> DEFINE target == IF Prebuilt(k)
                       THEN [kitSnap[k] EXCEPT !.phase = "Ready",
                                               !.image = PrebuiltImage[k]]
                       ELSE [kitSnap[k] EXCEPT !.phase = "BuildSubmitted"]
<1>0. KitInv(k) /\ TypeOK
  BY IInvKit DEF IInv
<1>1. target \in KitRec /\ target.rv = kitSnap[k].rv
  <2>1. kitSnap[k] \in KitRec
    BY <1>0 DEF TypeOK
  <2>2. PrebuiltImage[k] \in Images \cup {NoImage}
    OBVIOUS
  <2>3. CASE Prebuilt(k)
    <3>1. target = [kitSnap[k] EXCEPT !.phase = "Ready", !.image = PrebuiltImage[k]]
      BY <2>3
    <3>2. "Ready" \in KitPhases
      BY DEF KitPhases
    <3>3. /\ [kitSnap[k] EXCEPT !.phase = "Ready", !.image = PrebuiltImage[k]] \in KitRec
          /\ [kitSnap[k] EXCEPT !.phase = "Ready", !.image = PrebuiltImage[k]].rv = kitSnap[k].rv
      <4>1. [kitSnap[k] EXCEPT !.phase = "Ready", !.image = PrebuiltImage[k]] \in KitRec
        BY <2>1, <2>2, <3>2, Zenon DEF KitRec
      <4>2. QED
        BY <2>1, <4>1 DEF KitRec
    <3>4. QED
      BY <3>1, <3>3
  <2>4. CASE ~Prebuilt(k)
    <3>1. target = [kitSnap[k] EXCEPT !.phase = "BuildSubmitted"]
      BY <2>4
    <3>2. "BuildSubmitted" \in KitPhases
      BY DEF KitPhases
    <3>3. /\ [kitSnap[k] EXCEPT !.phase = "BuildSubmitted"] \in KitRec
          /\ [kitSnap[k] EXCEPT !.phase = "BuildSubmitted"].rv = kitSnap[k].rv
      BY <2>1, <3>2, KitRecPhase
    <3>4. QED
      BY <3>1, <3>3
  <2>5. QED
    BY <2>3, <2>4
<1>2. /\ TypeOK'
      /\ \A kk \in Kits \ {k} :
           /\ kit'[kk] = kit[kk] /\ build'[kk] = build[kk]
           /\ pc'[kk] = pc[kk] /\ kitSnap'[kk] = kitSnap[kk]
           /\ buildSnap'[kk] = buildSnap[kk]
      /\ \/ kit'[k] = [target EXCEPT !.rv = @ + 1] /\ pc'[k] = "Idle"
         \/ kit' = kit /\ pc'[k] = "Idle"
      /\ SnapOK(k)'
      /\ build' = build
  <2>1. /\ KitStatusUpdate(k, target, "Idle")
        /\ UNCHANGED <<platformReady, build, integ, kitSnap, buildSnap, listSnap,
                       todo, failures, edits, rebinds>>
    BY DEF InitializeStatus
  <2>2. "Idle" \in PassSteps
    BY DEF PassSteps
  <2>3. /\ TypeOK'
        /\ \A kk \in Kits \ {k} :
             /\ kit'[kk] = kit[kk] /\ build'[kk] = build[kk]
             /\ pc'[kk] = pc[kk] /\ kitSnap'[kk] = kitSnap[kk]
             /\ buildSnap'[kk] = buildSnap[kk]
        /\ \/ /\ kitSnap[k] = kit[k]
              /\ kit'[k] = [target EXCEPT !.rv = @ + 1]
              /\ pc'[k] = "Idle"
           \/ /\ kit' = kit
              /\ pc'[k] = "Idle"
        /\ SnapOK(k)'
    BY <1>0, <1>1, <2>1, <2>2, StatusWrite, Zenon DEF KitInv
  <2>4. QED
    BY <2>1, <2>3
<1>3. KitConsistent(k)'
  <2>1. CASE kit'[k] = [target EXCEPT !.rv = @ + 1]
    <3>1. CASE Prebuilt(k)
      <4>1. kit'[k].phase = "Ready" /\ kit'[k].image = PrebuiltImage[k]
        BY <1>1, <2>1, <3>1 DEF KitRec
      <4>2. build[k] = NoBuild
        BY <1>0, <3>1 DEF KitInv, PrebuiltOK
      <4>3. QED
        BY <1>2, <3>1, <4>1, <4>2 DEF KitConsistent
    <3>2. CASE ~Prebuilt(k)
      <4>1. kit'[k].phase = "BuildSubmitted"
        BY <1>1, <2>1, <3>2 DEF KitRec
      <4>2. QED
        BY <4>1 DEF KitConsistent
    <3>3. QED
      BY <3>1, <3>2
  <2>2. CASE kit' = kit
    <3>1. kit'[k] = kit[k] /\ build'[k] = build[k]
      BY <1>2, <2>2
    <3>2. QED
      BY <1>0, <3>1, ConsistentFrame DEF KitInv
  <2>3. QED
    BY <1>2, <2>1, <2>2
<1>4. (PhaseOK(k) /\ SourceOK(k))'
  BY <1>2, IdleOK
<1>5. PrebuiltOK(k)'
  <2>1. CASE kit'[k] = [target EXCEPT !.rv = @ + 1]
    <3>1. build'[k] = build[k] /\ pc'[k] = "Idle"
      BY <1>2
    <3>2. Prebuilt(k) => kit'[k].phase = "Ready"
      BY <1>1, <2>1 DEF KitRec
    <3>3. QED
      BY <1>0, <3>1, <3>2 DEF KitInv, PrebuiltOK
  <2>2. CASE kit' = kit
    <3>1. kit'[k] = kit[k] /\ build'[k] = build[k] /\ pc'[k] = "Idle"
      BY <1>2, <2>2
    <3>2. pc[k] = "InitStatus"
      BY DEF InitializeStatus
    <3>3. QED
      BY <1>0, <3>1, <3>2 DEF KitInv, PrebuiltOK
  <2>3. QED
    BY <1>2, <2>1, <2>2
<1>6. QED
  BY <1>2, <1>3, <1>4, <1>5, OthersFrame DEF KitInv

\* The Get of handleBuildSubmitted and its decision.
LEMMA SubmitGetIInv ==
  ASSUME IInv, NEW k \in Kits, SubmitGet(k)
  PROVE  IInv'
<1> USE DEF SubmitGet, SubmitGetFrom
<1>0. KitInv(k) /\ TypeOK /\ ~Prebuilt(k)
  BY IInvKit DEF IInv, KitInv, PrebuiltOK
<1>1. pc'[k] \in {"Delete", "ToRunning", "Idle"}
  BY <1>0 DEF TypeOK
<1>2. TypeOK'
  BY <1>0, <1>1 DEF TypeOK, PassSteps
<1>3. \A kk \in Kits \ {k} :
         /\ kit'[kk] = kit[kk] /\ build'[kk] = build[kk]
         /\ pc'[kk] = pc[kk] /\ kitSnap'[kk] = kitSnap[kk]
         /\ buildSnap'[kk] = buildSnap[kk]
  BY <1>0 DEF TypeOK
<1>4. KitInv(k)'
  BY <1>0, <1>1 DEF TypeOK, KitInv, KitConsistent, SnapOK, PhaseOK, SourceOK, PrebuiltOK
<1>5. QED
  BY <1>2, <1>3, <1>4, OthersFrame

\* The Delete of handleBuildSubmitted: the kit is not Ready meanwhile.
LEMMA SubmitDeleteIInv ==
  ASSUME IInv, NEW k \in Kits, SubmitDelete(k)
  PROVE  IInv'
<1> USE DEF SubmitDelete
<1>0. KitInv(k) /\ TypeOK /\ ~Prebuilt(k)
  BY IInvKit DEF IInv, KitInv, PrebuiltOK
<1>1. kit[k].phase \in {"None", "BuildSubmitted"}
  BY <1>0 DEF KitInv, PhaseOK
<1>2. TypeOK'
  BY <1>0 DEF TypeOK, PassSteps
<1>3. \A kk \in Kits \ {k} :
         /\ kit'[kk] = kit[kk] /\ build'[kk] = build[kk]
         /\ pc'[kk] = pc[kk] /\ kitSnap'[kk] = kitSnap[kk]
         /\ buildSnap'[kk] = buildSnap[kk]
  BY <1>0 DEF TypeOK
<1>4. KitInv(k)'
  BY <1>0, <1>1 DEF TypeOK, KitInv, KitConsistent, SnapOK, PhaseOK, SourceOK, PrebuiltOK
<1>5. QED
  BY <1>2, <1>3, <1>4, OthersFrame

\* The Create of handleBuildSubmitted: the kit is not Ready meanwhile.
LEMMA SubmitCreateIInv ==
  ASSUME IInv, NEW k \in Kits, SubmitCreate(k)
  PROVE  IInv'
<1> USE DEF SubmitCreate
<1>0. KitInv(k) /\ TypeOK /\ ~Prebuilt(k)
  BY IInvKit DEF IInv, KitInv, PrebuiltOK
<1>1. kit[k].phase \in {"None", "BuildSubmitted"}
  BY <1>0 DEF KitInv, PhaseOK
<1>2. TypeOK'
  BY <1>0, NewRecordsTyped DEF TypeOK, PassSteps
<1>3. \A kk \in Kits \ {k} :
         /\ kit'[kk] = kit[kk] /\ build'[kk] = build[kk]
         /\ pc'[kk] = pc[kk] /\ kitSnap'[kk] = kitSnap[kk]
         /\ buildSnap'[kk] = buildSnap[kk]
  BY <1>0 DEF TypeOK
<1>4. KitInv(k)'
  BY <1>0, <1>1 DEF TypeOK, KitInv, KitConsistent, SnapOK, PhaseOK, SourceOK, PrebuiltOK
<1>5. QED
  BY <1>2, <1>3, <1>4, OthersFrame

\* The move to BuildRunning.
LEMMA SubmitToRunningIInv ==
  ASSUME IInv, NEW k \in Kits, SubmitToRunning(k)
  PROVE  IInv'
<1> DEFINE target == [kitSnap[k] EXCEPT !.phase = "BuildRunning"]
<1>0. KitInv(k) /\ TypeOK /\ ~Prebuilt(k)
  <2>1. KitInv(k) /\ TypeOK
    BY IInvKit DEF IInv
  <2>2. QED
    BY <2>1 DEF KitInv, PrebuiltOK, SubmitToRunning
<1>1. target \in KitRec /\ target.rv = kitSnap[k].rv /\ target.phase = "BuildRunning"
  <2>1. kitSnap[k] \in KitRec /\ "BuildRunning" \in KitPhases
    BY <1>0 DEF TypeOK, KitPhases
  <2>2. QED
    BY <2>1, KitRecPhase
<1>2. /\ TypeOK'
      /\ \A kk \in Kits \ {k} :
           /\ kit'[kk] = kit[kk] /\ build'[kk] = build[kk]
           /\ pc'[kk] = pc[kk] /\ kitSnap'[kk] = kitSnap[kk]
           /\ buildSnap'[kk] = buildSnap[kk]
      /\ \/ /\ kitSnap[k] = kit[k]
            /\ kit'[k] = [target EXCEPT !.rv = @ + 1]
            /\ pc'[k] = "Idle"
         \/ /\ kit' = kit
            /\ pc'[k] = "Idle"
      /\ SnapOK(k)'
  <2>1. /\ KitStatusUpdate(k, target, "Idle")
        /\ UNCHANGED <<platformReady, build, integ, kitSnap, buildSnap, listSnap,
                       todo, failures, edits, rebinds>>
    BY DEF SubmitToRunning
  <2>2. "Idle" \in PassSteps
    BY DEF PassSteps
  <2>3. QED
    BY <1>0, <1>1, <2>1, <2>2, StatusWrite, Zenon DEF KitInv
<1>3. build' = build
  BY DEF SubmitToRunning
<1>4. KitConsistent(k)'
  <2>1. CASE kit'[k] = [target EXCEPT !.rv = @ + 1]
    <3>1. kit'[k].phase = "BuildRunning"
      BY <1>1, <2>1 DEF KitRec
    <3>2. QED
      BY <3>1 DEF KitConsistent
  <2>2. CASE kit' = kit
    <3>1. kit'[k] = kit[k] /\ build'[k] = build[k]
      BY <1>3, <2>2
    <3>2. QED
      BY <1>0, <3>1, ConsistentFrame DEF KitInv
  <2>3. QED
    BY <1>2, <2>1, <2>2
<1>5. (PhaseOK(k) /\ SourceOK(k))'
  BY <1>2, IdleOK
<1>6. PrebuiltOK(k)'
  BY <1>0 DEF PrebuiltOK
<1>7. QED
  BY <1>2, <1>4, <1>5, <1>6, OthersFrame DEF KitInv

\* The move to Error.
LEMMA RunningToErrorIInv ==
  ASSUME IInv, NEW k \in Kits, RunningToError(k)
  PROVE  IInv'
<1> DEFINE target == [kitSnap[k] EXCEPT !.phase = "Error"]
<1>0. KitInv(k) /\ TypeOK /\ ~Prebuilt(k)
  <2>1. KitInv(k) /\ TypeOK
    BY IInvKit DEF IInv
  <2>2. QED
    BY <2>1 DEF KitInv, PrebuiltOK, RunningToError
<1>1. target \in KitRec /\ target.rv = kitSnap[k].rv /\ target.phase = "Error"
  <2>1. kitSnap[k] \in KitRec /\ "Error" \in KitPhases
    BY <1>0 DEF TypeOK, KitPhases
  <2>2. QED
    BY <2>1, KitRecPhase
<1>2. /\ TypeOK'
      /\ \A kk \in Kits \ {k} :
           /\ kit'[kk] = kit[kk] /\ build'[kk] = build[kk]
           /\ pc'[kk] = pc[kk] /\ kitSnap'[kk] = kitSnap[kk]
           /\ buildSnap'[kk] = buildSnap[kk]
      /\ \/ /\ kitSnap[k] = kit[k]
            /\ kit'[k] = [target EXCEPT !.rv = @ + 1]
            /\ pc'[k] = "Idle"
         \/ /\ kit' = kit
            /\ pc'[k] = "Idle"
      /\ SnapOK(k)'
  <2>1. /\ KitStatusUpdate(k, target, "Idle")
        /\ UNCHANGED <<platformReady, build, integ, kitSnap, buildSnap, listSnap,
                       todo, failures, edits, rebinds>>
    BY DEF RunningToError
  <2>2. "Idle" \in PassSteps
    BY DEF PassSteps
  <2>3. QED
    BY <1>0, <1>1, <2>1, <2>2, StatusWrite, Zenon DEF KitInv
<1>3. build' = build
  BY DEF RunningToError
<1>4. KitConsistent(k)'
  <2>1. CASE kit'[k] = [target EXCEPT !.rv = @ + 1]
    <3>1. kit'[k].phase = "Error"
      BY <1>1, <2>1 DEF KitRec
    <3>2. QED
      BY <3>1 DEF KitConsistent
  <2>2. CASE kit' = kit
    <3>1. kit'[k] = kit[k] /\ build'[k] = build[k]
      BY <1>3, <2>2
    <3>2. QED
      BY <1>0, <3>1, ConsistentFrame DEF KitInv
  <2>3. QED
    BY <1>2, <2>1, <2>2
<1>5. (PhaseOK(k) /\ SourceOK(k))'
  BY <1>2, IdleOK
<1>6. PrebuiltOK(k)'
  BY <1>0 DEF PrebuiltOK
<1>7. QED
  BY <1>2, <1>4, <1>5, <1>6, OthersFrame DEF KitInv

\* The Get of handleBuildRunning: a pass that goes on to write Ready holds
\* the Succeeded Build still stored.
LEMMA RunningGetIInv ==
  ASSUME IInv, NEW k \in Kits, RunningGet(k)
  PROVE  IInv'
<1> USE DEF RunningGet, RunningGetFrom, Finished
<1>0. KitInv(k) /\ TypeOK /\ ~Prebuilt(k)
  BY IInvKit DEF IInv, KitInv, PrebuiltOK
<1>1. kitSnap[k].phase = "BuildRunning"
  BY <1>0 DEF KitInv, PhaseOK
<1>2. \A kk \in Kits \ {k} :
         /\ kit'[kk] = kit[kk] /\ build'[kk] = build[kk]
         /\ pc'[kk] = pc[kk] /\ kitSnap'[kk] = kitSnap[kk]
         /\ buildSnap'[kk] = buildSnap[kk]
  BY <1>0 DEF TypeOK
<1>3. CASE build[k] = NoBuild \/ build[k].phase \notin BuildTerminal
  <2>1. pc' = [pc EXCEPT ![k] = "Idle"] /\ UNCHANGED buildSnap
    BY <1>3 DEF BuildTerminal
  <2>2. TypeOK'
    BY <1>0, <2>1 DEF TypeOK, PassSteps
  <2>3. KitInv(k)'
    BY <1>0, <2>1 DEF TypeOK, KitInv, KitConsistent, SnapOK, PhaseOK, SourceOK, PrebuiltOK
  <2>4. QED
    BY <1>2, <2>2, <2>3, OthersFrame
<1>4. CASE build[k] # NoBuild /\ build[k].phase \in BuildTerminal
  <2>1. buildSnap' = [buildSnap EXCEPT ![k] = build[k]]
        /\ pc' = [pc EXCEPT ![k] = FinalizeStep[build[k].phase]]
    BY <1>1, <1>4
  <2>2. \/ pc'[k] = "ToReady" /\ build[k].phase = "Succeeded"
        \/ pc'[k] = "ToError"
    BY <1>0, <1>4, <2>1 DEF TypeOK, FinalizeStep, BuildTerminal
  <2>3. TypeOK'
    BY <1>0, <2>1, <2>2 DEF TypeOK, PassSteps
  <2>4. KitInv(k)'
    BY <1>0, <1>4, <2>1, <2>2 DEF TypeOK, KitInv, KitConsistent, SnapOK, PhaseOK, SourceOK, PrebuiltOK
  <2>5. QED
    BY <1>2, <2>3, <2>4, OthersFrame
<1>5. QED
  BY <1>3, <1>4

\* The move to Ready: the image and the stripped artifacts of the Build the
\* pass holds, which ReadySource makes the stored one.
LEMMA RunningToReadyIInv ==
  ASSUME IInv, NEW k \in Kits, RunningToReady(k)
  PROVE  IInv'
<1> DEFINE target == [kitSnap[k] EXCEPT !.phase = "Ready",
                                        !.image = buildSnap[k].image,
                                        !.artifacts = Strip(buildSnap[k].artifacts)]
<1>0. KitInv(k) /\ TypeOK /\ ~Prebuilt(k) /\ pc[k] = "ToReady"
  <2>1. KitInv(k) /\ TypeOK
    BY IInvKit DEF IInv
  <2>2. QED
    BY <2>1 DEF KitInv, PrebuiltOK, RunningToReady
<1>1. buildSnap[k] = build[k] /\ build[k] # NoBuild /\ build[k].phase = "Succeeded"
  BY <1>0 DEF KitInv, SourceOK
<1>2. /\ build[k].image \in Images \cup {NoImage}
      /\ Strip(build[k].artifacts) \in SUBSET Artifact
  <2>1. build[k] \in BuildRec
    BY <1>0, <1>1 DEF TypeOK
  <2>2. build[k].artifacts \in SUBSET Artifact
    BY <2>1 DEF BuildRec
  <2>3. QED
    BY <2>1, <2>2, StripTyped DEF BuildRec
<1>3. /\ target \in KitRec /\ target.rv = kitSnap[k].rv /\ target.phase = "Ready"
      /\ target.image = build[k].image
      /\ target.artifacts = Strip(build[k].artifacts)
  <2>1. kitSnap[k] \in KitRec /\ "Ready" \in KitPhases
    BY <1>0 DEF TypeOK, KitPhases
  <2>2. target \in KitRec
    BY <1>1, <1>2, <2>1, Zenon DEF KitRec
  <2>3. QED
    BY <1>1, <2>1, <2>2 DEF KitRec
<1>4. /\ TypeOK'
      /\ \A kk \in Kits \ {k} :
           /\ kit'[kk] = kit[kk] /\ build'[kk] = build[kk]
           /\ pc'[kk] = pc[kk] /\ kitSnap'[kk] = kitSnap[kk]
           /\ buildSnap'[kk] = buildSnap[kk]
      /\ \/ /\ kitSnap[k] = kit[k]
            /\ kit'[k] = [target EXCEPT !.rv = @ + 1]
            /\ pc'[k] = "List"
         \/ /\ kit' = kit
            /\ pc'[k] = "Idle"
      /\ SnapOK(k)'
  <2>1. /\ KitStatusUpdate(k, target, "List")
        /\ UNCHANGED <<platformReady, build, integ, kitSnap, buildSnap, listSnap,
                       todo, failures, edits, rebinds>>
    BY DEF RunningToReady
  <2>2. "List" \in PassSteps
    BY DEF PassSteps
  <2>3. QED
    BY <1>0, <1>3, <2>1, <2>2, StatusWrite, Zenon DEF KitInv
<1>5. build' = build
  BY DEF RunningToReady
<1>6. KitConsistent(k)'
  <2>1. CASE kit'[k] = [target EXCEPT !.rv = @ + 1]
    <3>1. /\ kit'[k].phase = "Ready"
          /\ kit'[k].image = build[k].image
          /\ kit'[k].artifacts = Strip(build[k].artifacts)
      BY <1>3, <2>1 DEF KitRec
    <3>2. /\ {a.id : a \in Strip(build[k].artifacts)} = {a.id : a \in build[k].artifacts}
          /\ \A a \in Strip(build[k].artifacts) : a.location = "None"
      BY StripIds, Zenon
    <3>3. /\ {a.id : a \in kit'[k].artifacts} = {a.id : a \in build[k].artifacts}
          /\ \A a \in kit'[k].artifacts : a.location = "None"
      BY <3>1, <3>2, Zenon
    <3>4. build'[k] = build[k]
      BY <1>5
    <3>5. QED
      BY <1>0, <1>1, <3>1, <3>3, <3>4, Zenon DEF KitConsistent
  <2>2. CASE kit' = kit
    <3>1. kit'[k] = kit[k] /\ build'[k] = build[k]
      BY <1>5, <2>2
    <3>2. QED
      BY <1>0, <3>1, ConsistentFrame DEF KitInv
  <2>3. QED
    BY <1>4, <2>1, <2>2
<1>7. (PhaseOK(k) /\ SourceOK(k))'
  BY <1>4 DEF PhaseOK, SourceOK
<1>8. PrebuiltOK(k)'
  BY <1>0 DEF PrebuiltOK
<1>9. QED
  BY <1>4, <1>6, <1>7, <1>8, OthersFrame DEF KitInv

\* The List of informIntegrations: only the pass state of k changes.
LEMMA InformListIInv ==
  ASSUME IInv, NEW k \in Kits, InformList(k)
  PROVE  IInv'
<1>0. KitInv(k) /\ TypeOK /\ ~Prebuilt(k)
  <2>1. KitInv(k) /\ TypeOK
    BY IInvKit DEF IInv
  <2>2. QED
    BY <2>1 DEF KitInv, PrebuiltOK, InformList
<1>1. /\ listSnap' = [listSnap EXCEPT ![k] = integ]
      /\ todo' = [todo EXCEPT ![k] = {i \in Integrations : integ[i].kit = k}]
      /\ pc' = [pc EXCEPT ![k] = pc'[k]]
      /\ pc'[k] \in {"Idle", "Inform"}
      /\ UNCHANGED <<platformReady, kit, build, integ, kitSnap, buildSnap,
                     failures, edits, rebinds>>
  BY <1>0 DEF InformList, TypeOK
<1>2. TypeOK'
  BY <1>0, <1>1 DEF TypeOK, PassSteps
<1>3. \A kk \in Kits \ {k} :
         /\ kit'[kk] = kit[kk] /\ build'[kk] = build[kk]
         /\ pc'[kk] = pc[kk] /\ kitSnap'[kk] = kitSnap[kk]
         /\ buildSnap'[kk] = buildSnap[kk]
  BY <1>0, <1>1 DEF TypeOK
<1>4. KitInv(k)'
  BY <1>0, <1>1, PassOnlyFrame
<1>5. QED
  BY <1>2, <1>3, <1>4, OthersFrame

\* One integration update of informIntegrations: only integrations and
\* the pass state of k change.
LEMMA InformUpdateIInv ==
  ASSUME IInv, NEW k \in Kits, InformUpdate(k)
  PROVE  IInv'
<1>0. KitInv(k) /\ TypeOK /\ ~Prebuilt(k)
  <2>1. KitInv(k) /\ TypeOK
    BY IInvKit DEF IInv
  <2>2. QED
    BY <2>1 DEF KitInv, PrebuiltOK, InformUpdate
<1>1. PICK i \in todo[k] : IntegrationStatusUpdate(k, i)
  BY DEF InformUpdate
<1>2. UNCHANGED <<platformReady, kit, build, kitSnap, buildSnap, listSnap,
                  failures, edits, rebinds>>
  BY DEF InformUpdate
<1>3. pc'[k] \in {"Idle", "Inform"} /\ pc' = [pc EXCEPT ![k] = pc'[k]]
  BY <1>0, <1>1 DEF TypeOK, IntegrationStatusUpdate
<1>4. i \in Integrations /\ listSnap[k][i] \in IntegrationRec
  BY <1>0 DEF TypeOK
<1>5. integ' \in [Integrations -> IntegrationRec] /\ todo' \in [Kits -> SUBSET Integrations]
  <2>1. CASE integ[i].rv = listSnap[k][i].rv
    <3>1. [listSnap[k][i] EXCEPT !.phase = "ResolvingKit", !.rv = @ + 1] \in IntegrationRec
      <4>1. listSnap[k][i] \in IntegrationRec
        BY <1>4
      <4>2. QED
        BY <4>1, IntegResolved, Zenon
    <3>2. /\ integ' = [integ EXCEPT ![i] = [listSnap[k][i] EXCEPT !.phase = "ResolvingKit",
                                                                  !.rv = @ + 1]]
          /\ todo' = [todo EXCEPT ![k] = @ \ {i}]
      BY <1>1, <2>1 DEF IntegrationStatusUpdate
    <3>3. QED
      BY <1>0, <1>4, <3>1, <3>2 DEF TypeOK
  <2>2. CASE integ[i].rv # listSnap[k][i].rv
    <3>1. UNCHANGED <<integ, todo>>
      BY <1>1, <2>2 DEF IntegrationStatusUpdate
    <3>2. QED
      BY <1>0, <3>1 DEF TypeOK
  <2>3. QED
    BY <2>1, <2>2
<1>6. TypeOK'
  <2>1. pc' \in [Kits -> PassSteps]
    BY <1>0, <1>3 DEF TypeOK, PassSteps
  <2>2. QED
    BY <1>0, <1>2, <1>5, <2>1 DEF TypeOK
<1>7. \A kk \in Kits \ {k} :
         /\ kit'[kk] = kit[kk] /\ build'[kk] = build[kk]
         /\ pc'[kk] = pc[kk] /\ kitSnap'[kk] = kitSnap[kk]
         /\ buildSnap'[kk] = buildSnap[kk]
  BY <1>0, <1>2, <1>3 DEF TypeOK
<1>8. KitInv(k)'
  BY <1>0, <1>2, <1>3, PassOnlyFrame
<1>9. QED
  BY <1>6, <1>7, <1>8, OthersFrame

\* A failed round-trip ends the pass and writes nothing.
LEMMA FailIInv ==
  ASSUME IInv, NEW k \in Kits, Fail(k)
  PROVE  IInv'
<1>0. KitInv(k) /\ TypeOK
  BY IInvKit DEF IInv
<1>1. /\ pc' = [pc EXCEPT ![k] = "Idle"]
      /\ failures' = failures + 1 /\ failures < MaxFailures
      /\ UNCHANGED <<platformReady, kit, build, integ, kitSnap, buildSnap,
                     listSnap, todo, edits, rebinds>>
  BY DEF Fail
<1>2. TypeOK'
  BY <1>0, <1>1 DEF TypeOK, PassSteps
<1>3. \A kk \in Kits \ {k} :
         /\ kit'[kk] = kit[kk] /\ build'[kk] = build[kk]
         /\ pc'[kk] = pc[kk] /\ kitSnap'[kk] = kitSnap[kk]
         /\ buildSnap'[kk] = buildSnap[kk]
  BY <1>0, <1>1 DEF TypeOK
<1>4. pc'[k] = "Idle"
  BY <1>0, <1>1 DEF TypeOK
<1>5. KitInv(k)'
  BY <1>0, <1>1, <1>4, PassOnlyFrame
<1>6. QED
  BY <1>2, <1>3, <1>5, OthersFrame

\* While a Build is unfinished its kit is neither Ready nor about to be
\* written Ready, and is not a prebuilt kit.
LEMMA UnfinishedBuild ==
  ASSUME IInv, NEW k \in Kits, build[k] # NoBuild,
         build[k].phase \in {"None", "Running"}
  PROVE  kit[k].phase # "Ready" /\ pc[k] # "ToReady" /\ ~Prebuilt(k)
<1>1. KitInv(k)
  BY IInvKit
<1>2. QED
  BY <1>1 DEF KitInv, KitConsistent, SourceOK, PrebuiltOK

\* The executor starts a pending Build.
LEMMA BuildStartIInv ==
  ASSUME IInv, NEW k \in Kits, BuildStart(k)
  PROVE  IInv'
<1>0. KitInv(k) /\ TypeOK
  BY IInvKit DEF IInv
<1>1. /\ build[k] # NoBuild /\ build[k].phase = "None"
      /\ build' = [build EXCEPT ![k].phase = "Running"]
      /\ UNCHANGED <<platformReady, kit, integ, pc, kitSnap, buildSnap, listSnap,
                     todo, failures, edits, rebinds>>
  BY DEF BuildStart
<1>2. kit[k].phase # "Ready" /\ pc[k] # "ToReady" /\ ~Prebuilt(k)
  BY <1>1, UnfinishedBuild
<1>3. build[k] \in BuildRec /\ "Running" \in BuildPhases
  BY <1>0, <1>1 DEF TypeOK, BuildPhases
<1>4. [build[k] EXCEPT !.phase = "Running"] \in BuildRec
  BY <1>3, BuildRecPhase, Zenon
<1>5. build' = [build EXCEPT ![k] = [build[k] EXCEPT !.phase = "Running"]]
  BY <1>1
<1>6. TypeOK'
  BY <1>0, <1>1, <1>4, <1>5 DEF TypeOK
<1>7. \A kk \in Kits \ {k} :
         /\ kit'[kk] = kit[kk] /\ build'[kk] = build[kk]
         /\ pc'[kk] = pc[kk] /\ kitSnap'[kk] = kitSnap[kk]
         /\ buildSnap'[kk] = buildSnap[kk]
  BY <1>0, <1>1, <1>5 DEF TypeOK
<1>8. KitInv(k)'
  BY <1>0, <1>1, <1>2, BuildOnlyFrame
<1>9. QED
  BY <1>6, <1>7, <1>8, OthersFrame

\* The executor finishes a Build, with a result or a failure.
LEMMA BuildFinishIInv ==
  ASSUME IInv, NEW k \in Kits, BuildFinish(k)
  PROVE  IInv'
<1>0. KitInv(k) /\ TypeOK
  BY IInvKit DEF IInv
<1>1. /\ build[k] # NoBuild /\ build[k].phase \in {"None", "Running"}
      /\ UNCHANGED <<platformReady, kit, integ, pc, kitSnap, buildSnap, listSnap,
                     todo, failures, edits, rebinds>>
  BY DEF BuildFinish
<1>2. kit[k].phase # "Ready" /\ pc[k] # "ToReady" /\ ~Prebuilt(k)
  BY <1>1, UnfinishedBuild
<1>3. build'[k] \in BuildRec /\ build' = [build EXCEPT ![k] = build'[k]]
  <2>1. build[k] \in BuildRec
    BY <1>0, <1>1 DEF TypeOK
  <2>2. CASE \E img \in Images, ids \in SUBSET ArtifactIds :
                 build' = [build EXCEPT ![k] =
                             [phase |-> "Succeeded", image |-> img,
                              artifacts |-> {[id |-> a, location |-> "loc"] :
                                               a \in ids}]]
    <3>1. PICK img \in Images, ids \in SUBSET ArtifactIds :
                 build' = [build EXCEPT ![k] =
                             [phase |-> "Succeeded", image |-> img,
                              artifacts |-> {[id |-> a, location |-> "loc"] :
                                               a \in ids}]]
      BY <2>2, Zenon
    <3>2. {[id |-> a, location |-> "loc"] : a \in ids} \in SUBSET Artifact
      <4>1. ASSUME NEW a \in ids PROVE [id |-> a, location |-> "loc"] \in Artifact
        BY DEF Artifact, Locations
      <4>2. QED
        BY <4>1, Zenon
    <3>3. [phase |-> "Succeeded", image |-> img,
           artifacts |-> {[id |-> a, location |-> "loc"] : a \in ids}] \in BuildRec
      BY <3>2, Zenon DEF BuildRec, BuildPhases
    <3>4. QED
      BY <1>0, <3>1, <3>3 DEF TypeOK
  <2>3. CASE \E p \in {"Error", "Interrupted"} : build' = [build EXCEPT ![k].phase = p]
    <3>1. PICK p \in {"Error", "Interrupted"} : build' = [build EXCEPT ![k].phase = p]
      BY <2>3, Zenon
    <3>2. [build[k] EXCEPT !.phase = p] \in BuildRec
      <4>1. p \in BuildPhases
        BY DEF BuildPhases
      <4>2. QED
        BY <2>1, <4>1, BuildRecPhase, Zenon
    <3>3. build' = [build EXCEPT ![k] = [build[k] EXCEPT !.phase = p]]
      BY <3>1
    <3>4. QED
      BY <1>0, <3>2, <3>3 DEF TypeOK
  <2>4. QED
    BY <2>2, <2>3 DEF BuildFinish
<1>4. TypeOK'
  BY <1>0, <1>1, <1>3 DEF TypeOK
<1>5. \A kk \in Kits \ {k} :
         /\ kit'[kk] = kit[kk] /\ build'[kk] = build[kk]
         /\ pc'[kk] = pc[kk] /\ kitSnap'[kk] = kitSnap[kk]
         /\ buildSnap'[kk] = buildSnap[kk]
  BY <1>0, <1>1, <1>3 DEF TypeOK
<1>6. KitInv(k)'
  BY <1>0, <1>1, <1>2, BuildOnlyFrame
<1>7. QED
  BY <1>4, <1>5, <1>6, OthersFrame

\* A user writes a kit: its phase is kept or reset, its rv moves past the
\* copy any pass holds.
LEMMA KitEditedIInv ==
  ASSUME IInv, NEW k \in Kits, KitEdited(k)
  PROVE  IInv'
<1>0. KitInv(k) /\ TypeOK
  BY IInvKit DEF IInv
<1>1. PICK p \in {kit[k].phase, "None"} :
        kit' = [kit EXCEPT ![k].phase = p, ![k].rv = @ + 1]
  BY Zenon DEF KitEdited
<1>2. /\ edits' = edits + 1 /\ edits < MaxEdits
      /\ UNCHANGED <<platformReady, build, integ, pc, kitSnap, buildSnap,
                     listSnap, todo, failures, rebinds>>
  BY DEF KitEdited
<1>3. kit[k] \in KitRec /\ p \in KitPhases
  BY <1>0, <1>1 DEF TypeOK, KitRec, KitPhases
<1>4. kit' = [kit EXCEPT ![k] = [kit[k] EXCEPT !.phase = p, !.rv = @ + 1]]
  BY <1>1, Zenon
<1>5. /\ kit'[k] \in KitRec
      /\ kit'[k].rv = kit[k].rv + 1
      /\ kit'[k].phase = p
      /\ kit'[k].image = kit[k].image
      /\ kit'[k].artifacts = kit[k].artifacts
  <2>1. kit'[k] = [kit[k] EXCEPT !.phase = p, !.rv = @ + 1]
    BY <1>0, <1>4 DEF TypeOK
  <2>2. /\ [kit[k] EXCEPT !.phase = p, !.rv = @ + 1] \in KitRec
        /\ [kit[k] EXCEPT !.phase = p, !.rv = @ + 1].rv = kit[k].rv + 1
        /\ [kit[k] EXCEPT !.phase = p, !.rv = @ + 1].phase = p
        /\ [kit[k] EXCEPT !.phase = p, !.rv = @ + 1].image = kit[k].image
        /\ [kit[k] EXCEPT !.phase = p, !.rv = @ + 1].artifacts = kit[k].artifacts
    BY <1>3, KitRecEdit, Zenon
  <2>3. QED
    BY <2>1, <2>2, Zenon
<1>6. TypeOK'
  <2>1. kit' \in [Kits -> KitRec]
    BY <1>0, <1>4, <1>5 DEF TypeOK
  <2>2. QED
    BY <1>0, <1>2, <2>1 DEF TypeOK
<1>7. \A kk \in Kits \ {k} :
         /\ kit'[kk] = kit[kk] /\ build'[kk] = build[kk]
         /\ pc'[kk] = pc[kk] /\ kitSnap'[kk] = kitSnap[kk]
         /\ buildSnap'[kk] = buildSnap[kk]
  BY <1>0, <1>2, <1>4 DEF TypeOK
<1>8. KitConsistent(k)'
  <2>1. CASE p = "None"
    BY <1>5, <2>1 DEF KitConsistent
  <2>2. CASE p = kit[k].phase
    <3>1. KitConsistent(k)
      BY <1>0 DEF KitInv
    <3>2. QED
      BY <1>2, <1>5, <2>2, <3>1, Zenon DEF KitConsistent, Prebuilt
  <2>3. QED
    BY <1>1, <2>1, <2>2
<1>9. SnapOK(k)'
  <2>1. kit[k].rv \in Nat /\ kitSnap[k].rv \in Nat
    BY <1>0 DEF TypeOK, KitRec
  <2>2. kitSnap[k].rv <= kit[k].rv
    BY <1>0 DEF KitInv, SnapOK
  <2>3. QED
    BY <1>2, <1>5, <2>1, <2>2 DEF SnapOK
<1>10. (PhaseOK(k) /\ SourceOK(k) /\ PrebuiltOK(k))'
  <2>1. kit'[k].phase \in {kit[k].phase, "None"}
    BY <1>1, <1>5
  <2>2. PhaseOK(k) /\ SourceOK(k) /\ PrebuiltOK(k)
    BY <1>0 DEF KitInv
  <2>3. QED
    BY <1>2, <2>1, <2>2 DEF PhaseOK, SourceOK, PrebuiltOK
<1>11. QED
  BY <1>6, <1>7, <1>8, <1>9, <1>10, OthersFrame DEF KitInv

\* The integration controller rebinds an integration: no kit state changes.
LEMMA IntegrationReboundIInv ==
  ASSUME IInv, NEW i \in Integrations, IntegrationRebound(i)
  PROVE  IInv'
<1>1. TypeOK'
  <2>1. PICK kk \in (Kits \cup {NoKit}) \ {integ[i].kit} :
          integ' = [integ EXCEPT ![i] = [kit |-> kk, phase |-> "BuildingKit",
                                         rv |-> @.rv + 1]]
    BY Zenon DEF IntegrationRebound
  <2>2. integ[i] \in IntegrationRec /\ TypeOK
    BY DEF IInv, TypeOK
  <2>3. [kit |-> kk, phase |-> "BuildingKit", rv |-> integ[i].rv + 1] \in IntegrationRec
    BY <2>2 DEF IntegrationRec, IntegrationPhases
  <2>4. integ' \in [Integrations -> IntegrationRec]
    BY <2>1, <2>2, <2>3 DEF TypeOK
  <2>5. /\ rebinds' = rebinds + 1 /\ rebinds < MaxRebinds
        /\ UNCHANGED <<platformReady, kit, build, pc, kitSnap, buildSnap, listSnap,
                       todo, failures, edits>>
    BY DEF IntegrationRebound
  <2>6. QED
    BY <2>2, <2>4, <2>5 DEF TypeOK
<1>2. UNCHANGED <<kit, build, pc, kitSnap, buildSnap>>
  BY DEF IntegrationRebound
<1>3. \A kk \in Kits : KitInv(kk)'
  BY <1>2, KitFrame, Zenon
<1>4. QED
  BY <1>1, <1>3, KitIInvPrimed

\* The platform controller initialises the platform: no kit state changes.
LEMMA PlatformInitializedIInv ==
  ASSUME IInv, PlatformInitialized
  PROVE  IInv'
<1> USE DEF PlatformInitialized
<1>1. TypeOK'
  BY DEF IInv, TypeOK
<1>2. UNCHANGED <<kit, build, pc, kitSnap, buildSnap>>
  BY DEF PlatformInitialized
<1>3. \A kk \in Kits : KitInv(kk)'
  BY <1>2, KitFrame, Zenon
<1>4. QED
  BY <1>1, <1>3, KitIInvPrimed

\* Stuttering keeps IInv.
LEMMA StutterIInv ==
  ASSUME IInv, UNCHANGED vars
  PROVE  IInv'
<1>1. UNCHANGED <<platformReady, kit, build, integ, pc, kitSnap, buildSnap,
                  listSnap, todo, failures, edits, rebinds>>
  BY DEF vars
<1>2. TypeOK'
  BY <1>1 DEF IInv, TypeOK
<1>3. \A kk \in Kits : KitInv(kk)'
  BY <1>1, KitFrame, Zenon
<1>4. QED
  BY <1>2, <1>3, KitIInvPrimed

\* Every step keeps IInv.
LEMMA NextIInv == IInv /\ [Next]_vars => IInv'
<1> SUFFICES ASSUME IInv, [Next]_vars PROVE IInv'
  OBVIOUS
<1>1. ASSUME NEW k \in Kits, PassStep(k) PROVE IInv'
  BY <1>1, ReconcileIInv, InitializeIInv, InitializeStatusIInv, SubmitGetIInv,
     SubmitDeleteIInv, SubmitCreateIInv, SubmitToRunningIInv, RunningGetIInv,
     RunningToReadyIInv, RunningToErrorIInv, InformListIInv, InformUpdateIInv
     DEF PassStep
<1>2. QED
  BY <1>1, FailIInv, BuildStartIInv, BuildFinishIInv, KitEditedIInv,
     IntegrationReboundIInv, PlatformInitializedIInv, StutterIInv DEF Next

-----------------------------------------------------------------------------
(* The theorems.                                                           *)

\* IInv holds in every reachable state.
THEOREM IInvInvariant == Spec => []IInv
  BY InitIInv, NextIInv, PTL DEF Spec

\* Type correctness of every state the controller, the executor, users and
\* the integration controller can reach together.
THEOREM TypeCorrect == Spec => []TypeOK
  BY IInvInvariant, PTL DEF IInv

\* A Ready kit carries the image and the stripped artifacts of the Succeeded
\* Build stored under its name, or the image of its spec and no Build, in
\* every reachable state and for any number of kits, integrations, images,
\* failures, edits and rebinds: handleBuildRunning's optimistic status write
\* never publishes the result of a Build that was replaced.
THEOREM ResultConsistent == Spec => []KitResultConsistent
  BY IInvInvariant, PTL DEF IInv


-----------------------------------------------------------------------------
(* KitController implements KitLifecycle under the mapping Life: every    *)
(* initial state maps to an initial state of the lifecycle, and every step *)
(* maps to a lifecycle step of one kit or to a stutter.  The argument      *)
(* rests on IInv (a status write succeeds only on the stored copy the pass *)
(* was dispatched on, and a Ready write holds the Succeeded Build still    *)
(* stored) and on SucceededHasImage.                                       *)

\* The abstract state of every kit is unchanged.
LifeUnchanged ==
  \A kk \in Kits : /\ kit'[kk].phase = kit[kk].phase
                   /\ kit'[kk].image = kit[kk].image
                   /\ kit'[kk].artifacts = kit[kk].artifacts

\* A step that keeps the status of every kit is a lifecycle stutter.
LEMMA StutterLife ==
  ASSUME LifeUnchanged
  PROVE  UNCHANGED Life!avars
  BY DEF LifeUnchanged, Life!avars

\* A step that changes only the phase of kit k, from `from' to `to', is
\* Life!PhaseTo(k, from, to).
LEMMA PhaseToLife ==
  ASSUME NEW k \in Kits, NEW from, NEW to,
         kit \in [Kits -> KitRec], kit' \in [Kits -> KitRec],
         \A kk \in Kits \ {k} : kit'[kk] = kit[kk],
         kit[k].phase = from, kit'[k].phase = to,
         kit'[k].image = kit[k].image, kit'[k].artifacts = kit[k].artifacts
  PROVE  Life!PhaseTo(k, from, to)
  BY DEF Life!PhaseTo

\* The artifacts copied into a Ready kit are artifacts without location.
LEMMA StripStripped ==
  ASSUME NEW as \in SUBSET Artifact
  PROVE  Strip(as) \in SUBSET Life!StrippedArtifact
<1> SUFFICES ASSUME NEW x \in Strip(as) PROVE x \in Life!StrippedArtifact
  OBVIOUS
<1>1. PICK a \in as : x = [id |-> a.id, location |-> "None"]
  BY DEF Strip
<1>2. a.id \in ArtifactIds
  BY DEF Artifact
<1>3. QED
  BY <1>1, <1>2 DEF Life!StrippedArtifact

\* SucceededHasImage is kept by every step: only the executor reports a
\* Build Succeeded, and it reports it with an image.
LEMMA NextSucceededHasImage ==
  ASSUME IInv, SucceededHasImage, [Next]_vars
  PROVE  SucceededHasImage'
<1>0. TypeOK
  BY DEF IInv
<1> SUFFICES ASSUME NEW k \in Kits, build'[k] # NoBuild,
                    build'[k].phase = "Succeeded"
             PROVE  build'[k].image \in Images
  BY DEF SucceededHasImage
<1>1. CASE build'[k] = build[k]
  BY <1>1 DEF SucceededHasImage
<1>2. ASSUME NEW kk \in Kits, BuildFinish(kk), build'[k] # build[k]
      PROVE  build'[k].image \in Images
  <2>1. kk = k
    BY <1>0, <1>2 DEF BuildFinish, TypeOK
  <2>2. CASE \E img \in Images, ids \in SUBSET ArtifactIds :
               build' = [build EXCEPT ![kk] =
                           [phase |-> "Succeeded", image |-> img,
                            artifacts |-> {[id |-> a, location |-> "loc"] :
                                             a \in ids}]]
    BY <1>0, <2>1, <2>2 DEF TypeOK
  <2>3. CASE \E p \in {"Error", "Interrupted"} :
               build' = [build EXCEPT ![kk].phase = p]
    BY <1>0, <2>1, <2>3 DEF TypeOK
  <2>4. QED
    BY <1>2, <2>2, <2>3 DEF BuildFinish
<1>3. ASSUME NEW kk \in Kits,
             SubmitDelete(kk) \/ SubmitCreate(kk) \/ BuildStart(kk)
      PROVE  build'[k].image \in Images
  <2>1. CASE kk = k
    <3>1. ~SubmitDelete(kk)
      BY <1>0, <2>1 DEF SubmitDelete, TypeOK
    <3>2. ~SubmitCreate(kk)
      BY <1>0, <2>1 DEF SubmitCreate, NewBuild, TypeOK
    <3>3. ~BuildStart(kk)
      BY <1>0, <2>1 DEF BuildStart, TypeOK, BuildRec
    <3>4. QED
      BY <1>3, <3>1, <3>2, <3>3
  <2>2. CASE kk # k
    BY <1>1, <1>3, <2>2, <1>0 DEF SubmitDelete, SubmitCreate, BuildStart, TypeOK
  <2>3. QED
    BY <2>1, <2>2
<1>4. ASSUME NEW kk \in Kits,
             \/ Reconcile(kk) \/ Initialize(kk) \/ InitializeStatus(kk)
             \/ SubmitGet(kk) \/ SubmitToRunning(kk) \/ RunningGet(kk)
             \/ RunningToReady(kk) \/ RunningToError(kk) \/ InformList(kk)
             \/ InformUpdate(kk) \/ Fail(kk) \/ KitEdited(kk)
      PROVE  build' = build
  BY <1>4 DEF Reconcile, Initialize, InitializeStatus, SubmitGet, SubmitGetFrom,
     SubmitToRunning, RunningGet, RunningGetFrom, RunningToReady,
     RunningToError, InformList, InformUpdate, Fail, KitEdited
<1>5. ASSUME \/ \E i \in Integrations : IntegrationRebound(i)
             \/ PlatformInitialized \/ UNCHANGED vars
      PROVE  build' = build
  BY <1>5 DEF IntegrationRebound, PlatformInitialized, vars
<1>6. QED
  BY <1>1, <1>2, <1>3, <1>4, <1>5 DEF Next, PassStep
\* A write of kit k alone, seen through the mapping: each mapped function
\* changes at k only.
LEMMA MappedWrite ==
  ASSUME NEW k \in Kits, kit \in [Kits -> KitRec], kit' \in [Kits -> KitRec],
         \A kk \in Kits \ {k} : kit'[kk] = kit[kk]
  PROVE  /\ [kk \in Kits |-> kit'[kk].phase]
              = [[kk \in Kits |-> kit[kk].phase] EXCEPT ![k] = kit'[k].phase]
         /\ [kk \in Kits |-> kit'[kk].image]
              = [[kk \in Kits |-> kit[kk].image] EXCEPT ![k] = kit'[k].image]
         /\ [kk \in Kits |-> kit'[kk].artifacts]
              = [[kk \in Kits |-> kit[kk].artifacts] EXCEPT ![k] = kit'[k].artifacts]
  OBVIOUS

\* What a successful status write of the pass of k leaves: the write went
\* over the stored copy, and no other kit changed.
LEMMA WriteOverStored ==
  ASSUME TypeOK, NEW k \in Kits, SnapOK(k), NEW target \in KitRec, NEW next \in PassSteps,
         target.rv = kitSnap[k].rv,
         KitStatusUpdate(k, target, next),
         UNCHANGED <<platformReady, build, integ, kitSnap, buildSnap, listSnap,
                     todo, failures, edits, rebinds>>,
         kit' # kit
  PROVE  /\ kit \in [Kits -> KitRec] /\ kit' \in [Kits -> KitRec]
         /\ \A kk \in Kits \ {k} : kit'[kk] = kit[kk]
         /\ kitSnap[k] = kit[k]
         /\ kit'[k] = [target EXCEPT !.rv = target.rv + 1]
<1>0. SnapOK(k) /\ TypeOK
  OBVIOUS
<1>1. kit[k].rv = target.rv
      /\ kit' = [kit EXCEPT ![k] = [target EXCEPT !.rv = target.rv + 1]]
  BY DEF KitStatusUpdate
<1>2. kitSnap[k] = kit[k]
  BY <1>0, <1>1 DEF KitInv, SnapOK
<1>3. [target EXCEPT !.rv = target.rv + 1] \in KitRec
  BY DEF KitRec
<1>4. kit \in [Kits -> KitRec]
  BY <1>0 DEF TypeOK
<1>5. QED
  BY <1>1, <1>2, <1>3, <1>4

\* initializeAction's status write is Submit, or PrebuiltReady for a kit
\* created from an image.
LEMMA InitializeStatusLife ==
  ASSUME TypeOK, NEW k \in Kits, SnapOK(k), PhaseOK(k), InitializeStatus(k), kit' # kit
  PROVE  Life!LNext
<1> DEFINE target == IF Prebuilt(k)
                       THEN [kitSnap[k] EXCEPT !.phase = "Ready",
                                               !.image = PrebuiltImage[k]]
                       ELSE [kitSnap[k] EXCEPT !.phase = "BuildSubmitted"]
<1>0. SnapOK(k) /\ PhaseOK(k) /\ TypeOK
  OBVIOUS
<1>1. target \in KitRec /\ target.rv = kitSnap[k].rv
  <2>1. kitSnap[k] \in KitRec /\ PrebuiltImage[k] \in Images \cup {NoImage}
    BY <1>0 DEF TypeOK
  <2>2. CASE Prebuilt(k)
    BY <2>1, <2>2 DEF KitRec, KitPhases
  <2>3. CASE ~Prebuilt(k)
    BY <2>1, <2>3 DEF KitRec, KitPhases
  <2>4. QED
    BY <2>2, <2>3
<1>2. /\ kit \in [Kits -> KitRec] /\ kit' \in [Kits -> KitRec]
      /\ \A kk \in Kits \ {k} : kit'[kk] = kit[kk]
      /\ kitSnap[k] = kit[k]
      /\ kit'[k] = [target EXCEPT !.rv = target.rv + 1]
  BY <1>0, <1>1, WriteOverStored DEF InitializeStatus, PassSteps
<1>3. kit[k].phase = "None"
  BY <1>0 DEF InitializeStatus, KitInv, PhaseOK
<1>4. CASE Prebuilt(k)
  <2>1. /\ kit'[k].phase = "Ready" /\ kit'[k].image = PrebuiltImage[k]
        /\ kit'[k].artifacts = kit[k].artifacts
    BY <1>0, <1>2, <1>4 DEF TypeOK, KitRec
  <2>2. Life!PrebuiltReady(k)
    BY <1>2, <1>3, <1>4, <2>1, MappedWrite DEF Life!PrebuiltReady, Life!FromImage, Prebuilt
  <2>3. QED
    BY <2>2 DEF Life!LNext
<1>5. CASE ~Prebuilt(k)
  <2>1. /\ kit'[k].phase = "BuildSubmitted" /\ kit'[k].image = kit[k].image
        /\ kit'[k].artifacts = kit[k].artifacts
    BY <1>0, <1>2, <1>5 DEF TypeOK, KitRec
  <2>2. Life!PhaseTo(k, "None", "BuildSubmitted")
    BY <1>2, <1>3, <2>1, PhaseToLife
  <2>3. QED
    BY <1>5, <2>2 DEF Life!LNext, Life!Submit, Life!FromImage, Prebuilt
<1>6. QED
  BY <1>4, <1>5

\* handleBuildSubmitted's status write is Start.
LEMMA SubmitToRunningLife ==
  ASSUME TypeOK, NEW k \in Kits, SnapOK(k), PhaseOK(k), SubmitToRunning(k), kit' # kit
  PROVE  Life!LNext
<1>0. SnapOK(k) /\ PhaseOK(k) /\ TypeOK
  OBVIOUS
<1>1. /\ [kitSnap[k] EXCEPT !.phase = "BuildRunning"] \in KitRec
      /\ [kitSnap[k] EXCEPT !.phase = "BuildRunning"].rv = kitSnap[k].rv
      /\ "Idle" \in PassSteps
  <2>1. kitSnap[k] \in KitRec
    BY <1>0 DEF TypeOK
  <2>2. QED
    BY <2>1 DEF KitRec, KitPhases, PassSteps
<1>2. /\ kit \in [Kits -> KitRec] /\ kit' \in [Kits -> KitRec]
      /\ \A kk \in Kits \ {k} : kit'[kk] = kit[kk]
      /\ kitSnap[k] = kit[k]
      /\ kit'[k] = [[kitSnap[k] EXCEPT !.phase = "BuildRunning"]
                      EXCEPT !.rv = [kitSnap[k] EXCEPT !.phase = "BuildRunning"].rv + 1]
  BY <1>1, WriteOverStored, Zenon DEF SubmitToRunning
<1>3. kit[k].phase = "BuildSubmitted"
  BY <1>0, <1>2 DEF SubmitToRunning, KitInv, PhaseOK
<1>4. /\ kit'[k].phase = "BuildRunning" /\ kit'[k].image = kit[k].image
      /\ kit'[k].artifacts = kit[k].artifacts
  BY <1>0, <1>2 DEF TypeOK, KitRec
<1>5. QED
  BY <1>2, <1>3, <1>4, PhaseToLife DEF Life!LNext, Life!Start

\* handleBuildRunning's status write on a failed Build is FailBuild.
LEMMA RunningToErrorLife ==
  ASSUME TypeOK, NEW k \in Kits, SnapOK(k), PhaseOK(k), RunningToError(k), kit' # kit
  PROVE  Life!LNext
<1>0. SnapOK(k) /\ PhaseOK(k) /\ TypeOK
  OBVIOUS
<1>1. /\ [kitSnap[k] EXCEPT !.phase = "Error"] \in KitRec
      /\ [kitSnap[k] EXCEPT !.phase = "Error"].rv = kitSnap[k].rv
      /\ "Idle" \in PassSteps
  <2>1. kitSnap[k] \in KitRec
    BY <1>0 DEF TypeOK
  <2>2. QED
    BY <2>1 DEF KitRec, KitPhases, PassSteps
<1>2. /\ kit \in [Kits -> KitRec] /\ kit' \in [Kits -> KitRec]
      /\ \A kk \in Kits \ {k} : kit'[kk] = kit[kk]
      /\ kitSnap[k] = kit[k]
      /\ kit'[k] = [[kitSnap[k] EXCEPT !.phase = "Error"]
                      EXCEPT !.rv = [kitSnap[k] EXCEPT !.phase = "Error"].rv + 1]
  BY <1>1, WriteOverStored, Zenon DEF RunningToError
<1>3. kit[k].phase = "BuildRunning"
  BY <1>0, <1>2 DEF RunningToError, KitInv, PhaseOK
<1>4. /\ kit'[k].phase = "Error" /\ kit'[k].image = kit[k].image
      /\ kit'[k].artifacts = kit[k].artifacts
  BY <1>0, <1>2 DEF TypeOK, KitRec
<1>5. QED
  BY <1>2, <1>3, <1>4, PhaseToLife DEF Life!LNext, Life!FailBuild

\* handleBuildRunning's status write on a Succeeded Build is Succeed: the
\* image is the one the stored Build reports, the artifacts are stripped.
LEMMA RunningToReadyLife ==
  ASSUME TypeOK, NEW k \in Kits, SnapOK(k), PhaseOK(k), ReadyImage(k),
         RunningToReady(k), kit' # kit
  PROVE  Life!LNext
<1> DEFINE img == buildSnap[k].image
           as == Strip(buildSnap[k].artifacts)
           target == [kitSnap[k] EXCEPT !.phase = "Ready", !.image = img,
                                        !.artifacts = as]
<1>0. SnapOK(k) /\ PhaseOK(k) /\ TypeOK
  OBVIOUS
<1>1. buildSnap[k] # NoBuild /\ buildSnap[k].phase = "Succeeded"
  BY DEF RunningToReady, ReadyImage
<1>2. img \in Images
  BY DEF RunningToReady, ReadyImage
<1>3. buildSnap[k].artifacts \in SUBSET Artifact
  BY <1>0, <1>1 DEF TypeOK, BuildRec
<1>4. as \in SUBSET Artifact /\ as \in SUBSET Life!StrippedArtifact
  BY <1>3, StripTyped, StripStripped
<1>5. target \in KitRec /\ target.rv = kitSnap[k].rv
  <2>1. kitSnap[k] \in KitRec
    BY <1>0 DEF TypeOK
  <2>2. QED
    BY <1>2, <1>4, <2>1 DEF KitRec, KitPhases
<1>6. /\ kit \in [Kits -> KitRec] /\ kit' \in [Kits -> KitRec]
      /\ \A kk \in Kits \ {k} : kit'[kk] = kit[kk]
      /\ kitSnap[k] = kit[k]
      /\ kit'[k] = [target EXCEPT !.rv = target.rv + 1]
  BY <1>0, <1>5, WriteOverStored DEF RunningToReady, PassSteps
<1>7. kit[k].phase = "BuildRunning"
  BY <1>0, <1>6 DEF RunningToReady, KitInv, PhaseOK
<1>8. /\ kit'[k].phase = "Ready" /\ kit'[k].image = img
      /\ kit'[k].artifacts = as
  BY <1>5, <1>6 DEF KitRec
<1>9. Life!Succeed(k)
  <2>1. /\ [kk \in Kits |-> kit'[kk].phase]
             = [[kk \in Kits |-> kit[kk].phase] EXCEPT ![k] = "Ready"]
        /\ [kk \in Kits |-> kit'[kk].image]
             = [[kk \in Kits |-> kit[kk].image] EXCEPT ![k] = img]
        /\ [kk \in Kits |-> kit'[kk].artifacts]
             = [[kk \in Kits |-> kit[kk].artifacts] EXCEPT ![k] = as]
    BY <1>6, <1>8, MappedWrite
  <2>2. QED
    BY <1>2, <1>4, <1>7, <2>1 DEF Life!Succeed
<1>10. QED
  BY <1>9 DEF Life!LNext

\* A user's edit keeps the status or resets the phase: Reset or a stutter.
LEMMA KitEditedLife ==
  ASSUME TypeOK, NEW k \in Kits, KitEdited(k)
  PROVE  [Life!LNext]_Life!avars
<1>0. TypeOK
  OBVIOUS
<1>1. PICK p \in {kit[k].phase, "None"} :
        kit' = [kit EXCEPT ![k].phase = p, ![k].rv = @ + 1]
  BY DEF KitEdited
<1>2. /\ kit \in [Kits -> KitRec] /\ kit' \in [Kits -> KitRec]
      /\ \A kk \in Kits \ {k} : kit'[kk] = kit[kk]
      /\ kit'[k].phase = p /\ kit'[k].image = kit[k].image
      /\ kit'[k].artifacts = kit[k].artifacts
  <2>1. kit \in [Kits -> KitRec] /\ kit[k] \in KitRec
    BY <1>0 DEF TypeOK
  <2>2. QED
    BY <1>1, <2>1 DEF KitRec, KitPhases
<1>3. CASE p = kit[k].phase
  <2>1. LifeUnchanged
    BY <1>2, <1>3 DEF LifeUnchanged
  <2>2. QED
    BY <2>1, StutterLife
<1>4. CASE p = "None"
  <2>1. Life!Reset(k)
    BY <1>2, <1>4, MappedWrite DEF Life!Reset
  <2>2. QED
    BY <2>1 DEF Life!LNext
<1>5. QED
  BY <1>3, <1>4

\* Initialize writes the kit spec only: the status is untouched.
LEMMA InitializeLife ==
  ASSUME TypeOK, NEW k \in Kits, Initialize(k)
  PROVE  LifeUnchanged
<1>0. kit \in [Kits -> KitRec]
  BY DEF TypeOK
<1>1. kit' = kit \/ kit' = [kit EXCEPT ![k].rv = @ + 1]
  BY DEF Initialize
<1>2. QED
  BY <1>0, <1>1 DEF LifeUnchanged, KitRec

\* Every step of the controller and its environment is a lifecycle step of
\* one kit or leaves every kit's status as it is.
LEMMA NextLife ==
  ASSUME IInv, SucceededHasImage, [Next]_vars
  PROVE  [Life!LNext]_Life!avars
<1>0. ASSUME NEW k \in Kits
      PROVE  TypeOK /\ SnapOK(k) /\ PhaseOK(k) /\ ReadyImage(k)
  <2>1. TypeOK /\ KitInv(k)
    BY IInvKit DEF IInv
  <2>2. QED
    BY <2>1 DEF KitInv, SourceOK, ReadyImage, SucceededHasImage
<1>1. CASE kit' = kit
  <2>1. LifeUnchanged
    BY <1>1 DEF LifeUnchanged
  <2>2. QED
    BY <2>1, StutterLife
<1>2. CASE kit' # kit
  <2>1. ASSUME NEW k \in Kits, InitializeStatus(k) \/ SubmitToRunning(k)
                \/ RunningToReady(k) \/ RunningToError(k)
        PROVE  [Life!LNext]_Life!avars
    BY <1>0, <1>2, <2>1, InitializeStatusLife, SubmitToRunningLife,
       RunningToReadyLife, RunningToErrorLife
  <2>2. ASSUME NEW k \in Kits, Initialize(k)
        PROVE  [Life!LNext]_Life!avars
    BY <1>0, <2>2, InitializeLife, StutterLife
  <2>3. ASSUME NEW k \in Kits,
               \/ Reconcile(k) \/ SubmitGet(k) \/ SubmitDelete(k)
               \/ SubmitCreate(k) \/ RunningGet(k) \/ InformList(k)
               \/ InformUpdate(k) \/ Fail(k) \/ BuildStart(k) \/ BuildFinish(k)
        PROVE  FALSE
    BY <1>2, <2>3 DEF Reconcile, SubmitGet, SubmitGetFrom, SubmitDelete,
       SubmitCreate, RunningGet, RunningGetFrom, InformList, InformUpdate,
       Fail, BuildStart, BuildFinish
  <2>4. ASSUME \/ \E i \in Integrations : IntegrationRebound(i)
               \/ PlatformInitialized \/ UNCHANGED vars
        PROVE  FALSE
    BY <1>2, <2>4 DEF IntegrationRebound, PlatformInitialized, vars
  <2>5. QED
    BY <1>0, <2>1, <2>2, <2>3, <2>4, KitEditedLife DEF Next, PassStep
<1>3. QED
  BY <1>1, <1>2

\* The initial kits are the initial abstract kits.
LEMMA InitLife == Init => Life!LInit
  BY DEF Init, NewKit, Life!LInit


\* For every number of kits, images and artifact ids and for all bounds,
\* the controller's status writes (initializeAction, handleBuildSubmitted,
\* handleBuildRunning) and users' edits move each kit only along the kit
\* lifecycle, and give it an image and artifacts only on its way to Ready:
\* a built image with location-free artifacts, or the image it was created
\* from.
THEOREM LifecycleRefinement == Spec => ImplementsLifecycle
<1>1. Spec => [](IInv /\ SucceededHasImage)
  <2>1. Init => SucceededHasImage
    BY DEF Init, SucceededHasImage
  <2>2. IInv /\ SucceededHasImage /\ [Next]_vars => SucceededHasImage'
    BY NextSucceededHasImage
  <2>3. QED
    BY <2>1, <2>2, InitIInv, NextIInv, PTL DEF Spec
<1>2. IInv /\ SucceededHasImage /\ [Next]_vars => [Life!LNext]_Life!avars
  BY NextLife
<1>3. QED
  BY <1>1, <1>2, InitLife, PTL DEF Spec, ImplementsLifecycle, Life!LSpec


-----------------------------------------------------------------------------
(* A Build in flight is never replaced.  DeleteSafe is inductive given     *)
(* IInv: the Get that sends a pass to Delete reads the store itself, and   *)
(* neither the executor nor another pass touches an absent or finished     *)
(* Build before that pass deletes it.                                      *)

\* The part of DeleteSafe about kit kk.
DeleteSafeKit(kk) ==
  /\ pc[kk] = "Delete" => NeedsBuild(build[kk])
  /\ pc[kk] = "Create" => build[kk] = NoBuild

\* The steps of a pass that neither move it to Delete or Create nor touch
\* the Build.
LEMMA QuietPassSteps ==
  ASSUME TypeOK, NEW k \in Kits,
         \/ Reconcile(k) \/ Initialize(k) \/ InitializeStatus(k)
         \/ SubmitToRunning(k) \/ RunningGet(k)
         \/ RunningToReady(k) \/ RunningToError(k) \/ InformList(k)
         \/ InformUpdate(k) \/ Fail(k)
  PROVE  /\ \A kk \in Kits \ {k} : pc'[kk] = pc[kk]
         /\ pc'[k] \notin {"Delete", "Create"}
         /\ build' = build
<1>1. CASE Reconcile(k)
  <2>1. /\ pc' = [pc EXCEPT ![k] = IF InitializeCanHandle(k) THEN "Initialize"
                                                             ELSE kit[k].phase]
        /\ InitializeCanHandle(k) \/ BuildCanHandle(k)
        /\ build' = build
    BY <1>1 DEF Reconcile
  <2>2. pc'[k] \in {"Initialize", "BuildSubmitted", "BuildRunning"}
    BY <2>1 DEF BuildCanHandle, TypeOK
  <2>3. QED
    BY <2>1, <2>2 DEF TypeOK
<1>2. CASE Initialize(k)
  <2>1. /\ pc' = [pc EXCEPT ![k] = "Idle"] \/ pc' = [pc EXCEPT ![k] = "InitStatus"]
        /\ build' = build
    BY <1>2 DEF Initialize
  <2>2. QED
    BY <2>1 DEF TypeOK
<1>3. CASE InitializeStatus(k) \/ SubmitToRunning(k) \/ RunningToError(k)
           \/ RunningToReady(k)
  BY <1>3 DEF InitializeStatus, SubmitToRunning, RunningToError,
     RunningToReady, KitStatusUpdate, TypeOK
<1>4. CASE InformList(k) \/ Fail(k)
  <2>1. /\ \/ pc' = [pc EXCEPT ![k] = "Idle"]
           \/ pc' = [pc EXCEPT ![k] = "Inform"]
        /\ build' = build
    BY <1>4 DEF InformList, Fail
  <2>2. QED
    BY <2>1 DEF TypeOK
<1>5. CASE RunningGet(k)
  <2>1. /\ \/ pc' = [pc EXCEPT ![k] = "Idle"]
           \/ pc' = [pc EXCEPT ![k] = "ToReady"]
           \/ pc' = [pc EXCEPT ![k] = "ToError"]
        /\ build' = build
    <3>1. \A p \in BuildTerminal : FinalizeStep[p] \in {"ToReady", "ToError"}
      BY DEF FinalizeStep
    <3>2. QED
      BY <1>5, <3>1 DEF RunningGet, RunningGetFrom, Finished
  <2>2. QED
    BY <2>1 DEF TypeOK
<1>6. CASE InformUpdate(k)
  BY <1>6 DEF InformUpdate, IntegrationStatusUpdate, TypeOK
<1>7. QED
  BY <1>1, <1>2, <1>3, <1>4, <1>5, <1>6

\* Every step keeps DeleteSafe.
LEMMA NextDeleteSafe ==
  ASSUME IInv, DeleteSafe, [Next]_vars
  PROVE  DeleteSafe'
<1>0. TypeOK
  BY DEF IInv
<1> SUFFICES ASSUME NEW kk \in Kits PROVE DeleteSafeKit(kk)'
  BY DEF DeleteSafe, DeleteSafeKit
<1>1. DeleteSafeKit(kk)
  BY DEF DeleteSafe, DeleteSafeKit
<1>2. CASE pc'[kk] = pc[kk] /\ build'[kk] = build[kk]
  BY <1>1, <1>2 DEF DeleteSafeKit
<1>3. CASE pc'[kk] \notin {"Delete", "Create"}
  BY <1>3 DEF DeleteSafeKit
<1>4. ASSUME NEW k \in Kits, SubmitGet(k) PROVE DeleteSafeKit(kk)'
  <2>1. CASE k = kk
    BY <1>0, <1>4, <2>1 DEF SubmitGet, SubmitGetFrom, DeleteSafeKit, TypeOK
  <2>2. CASE k # kk
    BY <1>0, <1>2, <1>4, <2>2 DEF SubmitGet, SubmitGetFrom, TypeOK
  <2>3. QED
    BY <2>1, <2>2
<1>5. ASSUME NEW k \in Kits, SubmitDelete(k) \/ SubmitCreate(k)
      PROVE  DeleteSafeKit(kk)'
  <2>1. CASE k = kk
    BY <1>0, <1>5, <2>1 DEF SubmitDelete, SubmitCreate, DeleteSafeKit, TypeOK
  <2>2. CASE k # kk
    BY <1>0, <1>2, <1>5, <2>2 DEF SubmitDelete, SubmitCreate, TypeOK
  <2>3. QED
    BY <2>1, <2>2
<1>6. ASSUME NEW k \in Kits, BuildStart(k) \/ BuildFinish(k)
      PROVE  DeleteSafeKit(kk)'
  <2>1. pc' = pc
    BY <1>6 DEF BuildStart, BuildFinish
  <2>2. CASE k = kk
    <3>1. build[kk] # NoBuild /\ build[kk].phase \in {"None", "Running"}
      BY <1>6, <2>2 DEF BuildStart, BuildFinish
    <3>2. pc[kk] \notin {"Delete", "Create"}
      BY <1>1, <3>1 DEF DeleteSafeKit, NeedsBuild, BuildTerminal
    <3>3. QED
      BY <1>3, <2>1, <3>2
  <2>3. CASE k # kk
    BY <1>0, <1>2, <1>6, <2>1, <2>3 DEF BuildStart, BuildFinish, TypeOK
  <2>4. QED
    BY <2>2, <2>3
<1>7. ASSUME NEW k \in Kits,
             \/ Reconcile(k) \/ Initialize(k) \/ InitializeStatus(k)
             \/ SubmitToRunning(k) \/ RunningGet(k)
             \/ RunningToReady(k) \/ RunningToError(k) \/ InformList(k)
             \/ InformUpdate(k) \/ Fail(k)
      PROVE  DeleteSafeKit(kk)'
  <2>1. /\ \A k2 \in Kits \ {k} : pc'[k2] = pc[k2]
        /\ pc'[k] \notin {"Delete", "Create"}
        /\ build' = build
    BY <1>0, <1>7, QuietPassSteps
  <2>2. QED
    BY <1>2, <1>3, <2>1
<1>8. ASSUME \/ \E k \in Kits : KitEdited(k)
             \/ \E i \in Integrations : IntegrationRebound(i)
             \/ PlatformInitialized \/ UNCHANGED vars
      PROVE  DeleteSafeKit(kk)'
  BY <1>2, <1>8 DEF KitEdited, IntegrationRebound, PlatformInitialized, vars
<1>9. QED
  BY <1>4, <1>5, <1>6, <1>7, <1>8 DEF Next, PassStep


\* No pass is about to delete or create a Build initially.
LEMMA InitDeleteSafe == Init => DeleteSafe
  BY DEF Init, DeleteSafe

\* The Build a kit has after a step that changed it: only the pass of k
\* (deleting or creating it) and the executor (starting or finishing it)
\* write build[k].
LEMMA BuildWriters ==
  ASSUME IInv, [Next]_vars, NEW k \in Kits, build'[k] # build[k]
  PROVE  SubmitDelete(k) \/ SubmitCreate(k) \/ BuildStart(k) \/ BuildFinish(k)
<1>0. TypeOK
  BY DEF IInv
<1>1. ASSUME NEW kk \in Kits, kk # k,
             SubmitDelete(kk) \/ SubmitCreate(kk) \/ BuildStart(kk) \/ BuildFinish(kk)
      PROVE  FALSE
  <2>1. build' = [build EXCEPT ![kk] = build'[kk]]
    BY <1>1 DEF SubmitDelete, SubmitCreate, BuildStart, BuildFinish
  <2>2. QED
    BY <1>0, <1>1, <2>1 DEF TypeOK
<1>2. ASSUME NEW kk \in Kits,
             \/ Reconcile(kk) \/ Initialize(kk) \/ InitializeStatus(kk)
             \/ SubmitGet(kk) \/ SubmitToRunning(kk) \/ RunningGet(kk)
             \/ RunningToReady(kk) \/ RunningToError(kk) \/ InformList(kk)
             \/ InformUpdate(kk) \/ Fail(kk) \/ KitEdited(kk)
      PROVE  FALSE
  BY <1>2 DEF Reconcile, Initialize, InitializeStatus, SubmitGet, SubmitGetFrom,
     SubmitToRunning, RunningGet, RunningGetFrom, RunningToReady,
     RunningToError, InformList, InformUpdate, Fail, KitEdited
<1>3. ASSUME \/ \E i \in Integrations : IntegrationRebound(i)
             \/ PlatformInitialized \/ UNCHANGED vars
      PROVE  FALSE
  BY <1>3 DEF IntegrationRebound, PlatformInitialized, vars
<1>4. QED
  BY <1>1, <1>2, <1>3 DEF Next, PassStep

\* The body of InFlightBuildNeverReplaced holds of every step from a state
\* satisfying IInv and DeleteSafe.
LEMMA NextInFlight ==
  ASSUME IInv, DeleteSafe, [Next]_vars
  PROVE  \A k \in Kits :
           (build[k] # NoBuild /\ build[k].phase \in {"None", "Running"}) =>
             /\ build'[k] # NoBuild
             /\ build'[k].phase \in IF build[k].phase = "None"
                                      THEN BuildPhases ELSE BuildPhases \ {"None"}
<1>0. TypeOK /\ TypeOK'
  BY NextIInv DEF IInv
<1> SUFFICES ASSUME NEW k \in Kits, build[k] # NoBuild,
                    build[k].phase \in {"None", "Running"}
             PROVE  /\ build'[k] # NoBuild
                    /\ build'[k].phase \in IF build[k].phase = "None"
                                             THEN BuildPhases ELSE BuildPhases \ {"None"}
  OBVIOUS
<1>1. build[k] \in BuildRec /\ build'[k] \in BuildRec \cup {NoBuild}
  BY <1>0 DEF TypeOK
<1>2. CASE build'[k] = build[k]
  BY <1>1, <1>2 DEF BuildPhases
<1>3. CASE build'[k] # build[k]
  <2>1. ~NeedsBuild(build[k])
    BY DEF NeedsBuild, BuildTerminal
  <2>2. ~SubmitDelete(k) /\ ~SubmitCreate(k)
    BY <2>1 DEF DeleteSafe, SubmitDelete, SubmitCreate
  <2>3. CASE BuildStart(k)
    <3>1. build'[k] = [build[k] EXCEPT !.phase = "Running"]
      BY <1>0, <2>3 DEF BuildStart, TypeOK
    <3>2. [build[k] EXCEPT !.phase = "Running"] \in BuildRec
      BY <1>1, BuildRecPhase DEF BuildPhases
    <3>3. QED
      BY <3>1, <3>2, NoBuildAssumption DEF BuildRec, BuildPhases
  <2>4. CASE BuildFinish(k)
    <3>1. CASE \E img \in Images, ids \in SUBSET ArtifactIds :
                 build' = [build EXCEPT ![k] =
                             [phase |-> "Succeeded", image |-> img,
                              artifacts |-> {[id |-> a, location |-> "loc"] :
                                               a \in ids}]]
      <4>1. PICK img \in Images, ids \in SUBSET ArtifactIds :
                 build' = [build EXCEPT ![k] =
                             [phase |-> "Succeeded", image |-> img,
                              artifacts |-> {[id |-> a, location |-> "loc"] :
                                               a \in ids}]]
        BY <3>1
      <4>2. build'[k] = [phase |-> "Succeeded", image |-> img,
                         artifacts |-> {[id |-> a, location |-> "loc"] : a \in ids}]
        BY <1>0, <4>1 DEF TypeOK
      <4>3. {[id |-> a, location |-> "loc"] : a \in ids} \in SUBSET Artifact
        BY DEF Artifact, Locations
      <4>4. build'[k] \in BuildRec
        BY <4>2, <4>3 DEF BuildRec, BuildPhases
      <4>5. QED
        BY <4>2, <4>4, NoBuildAssumption DEF BuildPhases
    <3>2. CASE \E p \in {"Error", "Interrupted"} :
                 build' = [build EXCEPT ![k].phase = p]
      <4>1. PICK p \in {"Error", "Interrupted"} : build' = [build EXCEPT ![k].phase = p]
        BY <3>2
      <4>2. build'[k] = [build[k] EXCEPT !.phase = p]
        BY <1>0, <4>1 DEF TypeOK
      <4>3. [build[k] EXCEPT !.phase = p] \in BuildRec
        BY <1>1, BuildRecPhase DEF BuildPhases
      <4>4. QED
        BY <4>2, <4>3, NoBuildAssumption DEF BuildRec, BuildPhases
    <3>3. QED
      BY <2>4, <3>1, <3>2 DEF BuildFinish
  <2>5. QED
    BY <1>3, <2>2, <2>3, <2>4, BuildWriters
<1>4. QED
  BY <1>2, <1>3

\* For any number of kits and all bounds, handleBuildSubmitted never
\* deletes or replaces a Build that is pending or running, and the executor
\* moves a Build only forward: the Get that sends the pass to delete reads
\* the store, and nothing revives an absent or finished Build before the
\* delete (DeleteSafe).
THEOREM InFlightProved == Spec => InFlightBuildNeverReplaced
<1>1. Spec => [](IInv /\ DeleteSafe)
  <2>1. IInv /\ DeleteSafe /\ [Next]_vars => DeleteSafe'
    BY NextDeleteSafe
  <2>2. QED
    BY <2>1, InitIInv, NextIInv, InitDeleteSafe, PTL DEF Spec
<1>2. IInv /\ DeleteSafe /\ [Next]_vars =>
        [\A k \in Kits :
           (build[k] # NoBuild /\ build[k].phase \in {"None", "Running"}) =>
             /\ build'[k] # NoBuild
             /\ build'[k].phase \in IF build[k].phase = "None"
                                      THEN BuildPhases ELSE BuildPhases \ {"None"}
        ]_vars
  BY NextInFlight
<1>3. QED
  BY <1>1, <1>2, PTL DEF Spec, InFlightBuildNeverReplaced


-----------------------------------------------------------------------------
(* The fan-out writes the integration it listed, and only while it is     *)
(* stored unchanged.  ListCurrent is inductive given TypeOK: only the      *)
(* List copies integrations and chooses the ones to update, and every     *)
(* write of an integration raises its rv above every listed copy.         *)

\* The fan-out state is kept by a step that leaves integ, listSnap and
\* todo alone.
LEMMA ListFrame ==
  ASSUME ListCurrent, UNCHANGED <<integ, listSnap, todo>>
  PROVE  ListCurrent'
  BY DEF ListCurrent

\* A write of integration i that raises its rv keeps ListCurrent when no
\* list is taken and no integration is added to the ones still to update.
LEMMA IntegWrite ==
  ASSUME TypeOK, ListCurrent, NEW i \in Integrations, NEW r \in IntegrationRec,
         r.rv = integ[i].rv + 1,
         integ' = [integ EXCEPT ![i] = r],
         listSnap' = listSnap,
         todo' \in [Kits -> SUBSET Integrations],
         \A k \in Kits : todo'[k] \subseteq todo[k]
  PROVE  ListCurrent'
<1> SUFFICES ASSUME NEW k \in Kits
             PROVE  /\ \A j \in Integrations :
                          /\ listSnap'[k][j].rv <= integ'[j].rv
                          /\ listSnap'[k][j].rv = integ'[j].rv => listSnap'[k][j] = integ'[j]
                    /\ todo'[k] \subseteq {j \in Integrations : listSnap'[k][j].kit = k}
  BY DEF ListCurrent
<1>1. ASSUME NEW j \in Integrations
      PROVE  /\ listSnap'[k][j].rv <= integ'[j].rv
             /\ listSnap'[k][j].rv = integ'[j].rv => listSnap'[k][j] = integ'[j]
  <2>1. listSnap[k][j].rv \in Nat /\ integ[j].rv \in Nat
    BY DEF TypeOK, IntegrationRec
  <2>2. listSnap[k][j].rv <= integ[j].rv
        /\ (listSnap[k][j].rv = integ[j].rv => listSnap[k][j] = integ[j])
    BY DEF ListCurrent
  <2>3. CASE j = i
    <3>1. integ'[j].rv = integ[j].rv + 1
      BY <2>3 DEF TypeOK
    <3>2. QED
      BY <2>1, <2>2, <3>1
  <2>4. CASE j # i
    <3>1. integ'[j] = integ[j]
      BY <2>4 DEF TypeOK
    <3>2. QED
      BY <2>2, <3>1
  <2>5. QED
    BY <2>3, <2>4
<1>2. todo'[k] \subseteq {j \in Integrations : listSnap'[k][j].kit = k}
  BY DEF ListCurrent
<1>3. QED
  BY <1>1, <1>2

\* The List copies the store and takes the integrations bound to the kit.
LEMMA InformListCurrent ==
  ASSUME TypeOK, ListCurrent, NEW k \in Kits, InformList(k)
  PROVE  ListCurrent'
<1>1. /\ listSnap' = [listSnap EXCEPT ![k] = integ]
      /\ todo' = [todo EXCEPT ![k] = {i \in Integrations : integ[i].kit = k}]
      /\ integ' = integ
  BY DEF InformList
<1> SUFFICES ASSUME NEW kk \in Kits
             PROVE  /\ \A j \in Integrations :
                          /\ listSnap'[kk][j].rv <= integ'[j].rv
                          /\ listSnap'[kk][j].rv = integ'[j].rv => listSnap'[kk][j] = integ'[j]
                    /\ todo'[kk] \subseteq {j \in Integrations : listSnap'[kk][j].kit = kk}
  BY DEF ListCurrent
<1>2. CASE kk = k
  <2>1. listSnap'[kk] = integ /\ todo'[kk] = {i \in Integrations : integ[i].kit = kk}
    BY <1>1, <1>2 DEF TypeOK
  <2>2. \A j \in Integrations : integ[j].rv \in Nat
    BY DEF TypeOK, IntegrationRec
  <2>3. QED
    BY <1>1, <2>1, <2>2
<1>3. CASE kk # k
  <2>1. listSnap'[kk] = listSnap[kk] /\ todo'[kk] = todo[kk]
    BY <1>1, <1>3 DEF TypeOK
  <2>2. QED
    BY <1>1, <2>1 DEF ListCurrent
<1>4. QED
  BY <1>2, <1>3

\* One iteration of the fan-out: a successful write of the listed copy
\* raises the rv, a conflict leaves the fan-out state as it is.
LEMMA InformUpdateCurrent ==
  ASSUME TypeOK, ListCurrent, NEW k \in Kits, InformUpdate(k)
  PROVE  ListCurrent'
<1>1. PICK i \in todo[k] : IntegrationStatusUpdate(k, i)
  BY DEF InformUpdate
<1>2. listSnap' = listSnap
  BY DEF InformUpdate
<1>3. i \in Integrations /\ listSnap[k][i] \in IntegrationRec
  BY DEF TypeOK
<1>4. CASE integ[i].rv = listSnap[k][i].rv
  <2> DEFINE r == [listSnap[k][i] EXCEPT !.phase = "ResolvingKit", !.rv = @ + 1]
  <2>1. r \in IntegrationRec /\ r.rv = listSnap[k][i].rv + 1
    BY <1>3, IntegResolved, Zenon
  <2>2. /\ integ' = [integ EXCEPT ![i] = r]
        /\ todo' = [todo EXCEPT ![k] = @ \ {i}]
    BY <1>1, <1>4 DEF IntegrationStatusUpdate
  <2>3. todo' \in [Kits -> SUBSET Integrations] /\ \A kk \in Kits : todo'[kk] \subseteq todo[kk]
    BY <2>2 DEF TypeOK
  <2>4. QED
    BY <1>2, <1>3, <1>4, <2>1, <2>2, <2>3, IntegWrite
<1>5. CASE integ[i].rv # listSnap[k][i].rv
  <2>1. UNCHANGED <<integ, todo>>
    BY <1>1, <1>5 DEF IntegrationStatusUpdate
  <2>2. QED
    BY <1>2, <2>1, ListFrame
<1>6. QED
  BY <1>4, <1>5

\* The integration controller's rebinding raises the rv.
LEMMA IntegrationReboundCurrent ==
  ASSUME TypeOK, ListCurrent, NEW i \in Integrations, IntegrationRebound(i)
  PROVE  ListCurrent'
<1>1. PICK k \in (Kits \cup {NoKit}) \ {integ[i].kit} :
        integ' = [integ EXCEPT ![i] = [kit |-> k, phase |-> "BuildingKit",
                                       rv |-> @.rv + 1]]
  BY DEF IntegrationRebound
<1>2. UNCHANGED <<listSnap, todo>>
  BY DEF IntegrationRebound
<1>3. integ[i].rv \in Nat
  BY DEF TypeOK, IntegrationRec
<1>4. [kit |-> k, phase |-> "BuildingKit", rv |-> integ[i].rv + 1] \in IntegrationRec
  BY <1>3 DEF IntegrationRec, IntegrationPhases
<1>5. integ' = [integ EXCEPT ![i] = [kit |-> k, phase |-> "BuildingKit",
                                      rv |-> integ[i].rv + 1]]
  BY <1>1
<1>6. QED
  BY <1>2, <1>4, <1>5, IntegWrite DEF TypeOK

\* Every step keeps ListCurrent.
LEMMA NextListCurrent ==
  ASSUME TypeOK, ListCurrent, [Next]_vars
  PROVE  ListCurrent'
<1>1. ASSUME NEW k \in Kits,
             \/ Reconcile(k) \/ Initialize(k) \/ InitializeStatus(k)
             \/ SubmitGet(k) \/ SubmitDelete(k) \/ SubmitCreate(k)
             \/ SubmitToRunning(k) \/ RunningGet(k) \/ RunningToReady(k)
             \/ RunningToError(k) \/ Fail(k) \/ BuildStart(k) \/ BuildFinish(k)
             \/ KitEdited(k)
      PROVE  ListCurrent'
  <2>1. UNCHANGED <<integ, listSnap, todo>>
    BY <1>1 DEF Reconcile, Initialize, InitializeStatus, SubmitGet, SubmitGetFrom,
       SubmitDelete, SubmitCreate, SubmitToRunning, RunningGet, RunningGetFrom,
       RunningToReady, RunningToError, Fail, BuildStart, BuildFinish, KitEdited
  <2>2. QED
    BY <2>1, ListFrame
<1>2. CASE PlatformInitialized \/ UNCHANGED vars
  <2>1. UNCHANGED <<integ, listSnap, todo>>
    BY <1>2 DEF PlatformInitialized, vars
  <2>2. QED
    BY <2>1, ListFrame
<1>3. QED
  BY <1>1, <1>2, InformListCurrent, InformUpdateCurrent, IntegrationReboundCurrent
  DEF Next, PassStep

\* An update of the fan-out that sets ResolvingKit on integration i keeps
\* its stored binding, which is to the kit of the pass: the listed copy
\* written back is the stored one.
LEMMA InformUpdateFanOut ==
  ASSUME TypeOK, ListCurrent, NEW k \in Kits, InformUpdate(k),
         NEW i \in Integrations, integ'[i] # integ[i]
  PROVE  integ'[i].kit = integ[i].kit /\ integ[i].kit \in Kits
<1>1. PICK j \in todo[k] : IntegrationStatusUpdate(k, j)
  BY DEF InformUpdate
<1>2. j \in Integrations /\ listSnap[k][j] \in IntegrationRec
  BY DEF TypeOK
<1>3. CASE integ[j].rv = listSnap[k][j].rv
  <2> DEFINE r == [listSnap[k][j] EXCEPT !.phase = "ResolvingKit", !.rv = @ + 1]
  <2>1. r.kit = listSnap[k][j].kit
    BY <1>2, IntegResolved, Zenon
  <2>2. integ' = [integ EXCEPT ![j] = r]
    BY <1>1, <1>3 DEF IntegrationStatusUpdate
  <2>3. i = j
    BY <2>2 DEF TypeOK
  <2>4. listSnap[k][j] = integ[j] /\ listSnap[k][j].kit = k
    BY <1>3 DEF ListCurrent
  <2>5. QED
    BY <2>1, <2>2, <2>3, <2>4 DEF TypeOK
<1>4. CASE integ[j].rv # listSnap[k][j].rv
  BY <1>1, <1>4 DEF IntegrationStatusUpdate
<1>5. QED
  BY <1>3, <1>4

\* The integration controller's rebinding never sets ResolvingKit.
LEMMA ReboundNotResolving ==
  ASSUME TypeOK, NEW j \in Integrations, IntegrationRebound(j),
         NEW i \in Integrations, integ'[i] # integ[i]
  PROVE  integ'[i].phase # "ResolvingKit"
<1>1. PICK k \in (Kits \cup {NoKit}) \ {integ[j].kit} :
        integ' = [integ EXCEPT ![j] = [kit |-> k, phase |-> "BuildingKit",
                                       rv |-> @.rv + 1]]
  BY DEF IntegrationRebound
<1>2. QED
  BY <1>1 DEF TypeOK

\* The body of FanOutPreservesBinding holds of every step from a state
\* satisfying TypeOK and ListCurrent.
LEMMA NextFanOut ==
  ASSUME TypeOK, ListCurrent, [Next]_vars
  PROVE  \A i \in Integrations :
           (integ'[i] # integ[i] /\ integ'[i].phase = "ResolvingKit") =>
             /\ integ'[i].kit = integ[i].kit
             /\ integ[i].kit \in Kits
<1> SUFFICES ASSUME NEW i \in Integrations, integ'[i] # integ[i],
                    integ'[i].phase = "ResolvingKit"
             PROVE  integ'[i].kit = integ[i].kit /\ integ[i].kit \in Kits
  OBVIOUS
<1>1. ASSUME NEW k \in Kits, InformUpdate(k)
      PROVE  integ'[i].kit = integ[i].kit /\ integ[i].kit \in Kits
  BY <1>1, InformUpdateFanOut
<1>2. ASSUME NEW j \in Integrations, IntegrationRebound(j)
      PROVE  FALSE
  BY <1>2, ReboundNotResolving
<1>3. ASSUME NEW k \in Kits,
             \/ Reconcile(k) \/ Initialize(k) \/ InitializeStatus(k)
             \/ SubmitGet(k) \/ SubmitDelete(k) \/ SubmitCreate(k)
             \/ SubmitToRunning(k) \/ RunningGet(k) \/ RunningToReady(k)
             \/ RunningToError(k) \/ Fail(k) \/ BuildStart(k) \/ BuildFinish(k)
             \/ KitEdited(k) \/ InformList(k)
      PROVE  FALSE
  BY <1>3 DEF Reconcile, Initialize, InitializeStatus, SubmitGet, SubmitGetFrom,
     SubmitDelete, SubmitCreate, SubmitToRunning, RunningGet, RunningGetFrom,
     RunningToReady, RunningToError, Fail, BuildStart, BuildFinish, KitEdited,
     InformList
<1>4. CASE PlatformInitialized \/ UNCHANGED vars
  BY <1>4 DEF PlatformInitialized, vars
<1>5. QED
  BY <1>1, <1>2, <1>3, <1>4 DEF Next, PassStep

\* The fan-out lists no integration initially.
LEMMA InitListCurrent == Init => ListCurrent
<1> SUFFICES ASSUME Init PROVE ListCurrent
  OBVIOUS
<1>1. \A i \in Integrations : integ[i].rv \in Nat
  BY DEF Init
<1>2. QED
  BY <1>1 DEF Init, ListCurrent

\* For any number of kits and integrations and all bounds, informIntegrations
\* sets ResolvingKit only on an integration bound to a kit, and never
\* reverts a rebinding the integration controller made after the List: the
\* update from the listed copy succeeds only while that copy is stored.
THEOREM FanOutProved == Spec => FanOutPreservesBinding
<1>1. Spec => [](TypeOK /\ ListCurrent)
  <2>1. TypeOK /\ ListCurrent /\ [Next]_vars /\ TypeOK' => ListCurrent'
    BY NextListCurrent
  <2>2. QED
    BY <2>1, TypeCorrect, InitListCurrent, PTL DEF Spec
<1>2. TypeOK /\ ListCurrent /\ [Next]_vars =>
        [\A i \in Integrations :
           (integ'[i] # integ[i] /\ integ'[i].phase = "ResolvingKit") =>
             /\ integ'[i].kit = integ[i].kit
             /\ integ[i].kit \in Kits
        ]_vars
  BY NextFanOut
<1>3. QED
  BY <1>1, <1>2, PTL DEF Spec, FanOutPreservesBinding

=====
