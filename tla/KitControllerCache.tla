------------------------ MODULE KitControllerCache -------------------------
(***************************************************************************)
(* KitController with the Build Gets of BuildAction (build.go:68, :137)    *)
(* answered by an informer cache instead of the API server.  Every write   *)
(* of a Build emits a watch event into feed[k]; the informer applies the   *)
(* events in order, one at a time, or after a relist jumps straight to the *)
(* newest, so bcache[k] is always a value build[k] had, never ahead of it. *)
(* Writes of the kit and of integrations are unchanged: they go to the     *)
(* API server with the optimistic check on rv.                             *)
(***************************************************************************)
EXTENDS KitController, Sequences

CONSTANT
  MaxCacheLag     \* bound on the watch events the informer has not applied

ASSUME CacheLagAssumption == MaxCacheLag \in Nat \ {0}

VARIABLES
  bcache,         \* the Build of each kit as the informer cache holds it
  feed            \* watch events for that Build not yet applied to bcache

cvars == <<vars, bcache, feed>>

\* The API server emits a watch event for a write that changed the Build;
\* a write waits while MaxCacheLag events are pending.
Publish(k) ==
  /\ IF build'[k] = build[k]
       THEN UNCHANGED feed
       ELSE /\ Len(feed[k]) < MaxCacheLag
            /\ feed' = [feed EXCEPT ![k] = Append(@, build'[k])]
  /\ UNCHANGED bcache

\* A step that neither writes a Build nor moves the informer.
Quiet == UNCHANGED <<bcache, feed>>

\* client.Get of the Build, served from the cache.
CachedSubmitGet(k) == SubmitGetFrom(k, bcache[k]) /\ Quiet

CachedRunningGet(k) == RunningGetFrom(k, bcache[k]) /\ Quiet

\* The informer applies the next watch event, or relists and takes the
\* newest state.
InformerSync(k) ==
  /\ feed[k] # <<>>
  /\ \E n \in {1, Len(feed[k])} :
       /\ bcache' = [bcache EXCEPT ![k] = feed[k][n]]
       /\ feed' = [feed EXCEPT ![k] = SubSeq(feed[k], n + 1, Len(feed[k]))]
  /\ UNCHANGED vars

CPassStep(k) ==
  \/ (Reconcile(k) \/ Initialize(k) \/ InitializeStatus(k)) /\ Quiet
  \/ CachedSubmitGet(k)
  \/ (SubmitDelete(k) \/ SubmitCreate(k)) /\ Publish(k)
  \/ SubmitToRunning(k) /\ Quiet
  \/ CachedRunningGet(k)
  \/ (RunningToReady(k) \/ RunningToError(k)) /\ Quiet
  \/ (InformList(k) \/ InformUpdate(k)) /\ Quiet

CNext ==
  \/ \E k \in Kits : CPassStep(k) \/ (Fail(k) /\ Quiet)
  \/ PlatformInitialized /\ Quiet
  \/ \E k \in Kits : \/ (BuildStart(k) \/ BuildFinish(k)) /\ Publish(k)
                     \/ KitEdited(k) /\ Quiet
                     \/ InformerSync(k)
  \/ \E i \in Integrations : IntegrationRebound(i) /\ Quiet

CInit ==
  /\ Init
  /\ bcache = build
  /\ feed = [k \in Kits |-> <<>>]

\* As in KitController, and the informer keeps delivering events.
CFairness ==
  /\ \A k \in Kits : WF_cvars(CPassStep(k))
  /\ \A k \in Kits : /\ WF_cvars(BuildStart(k) /\ Publish(k))
                     /\ WF_cvars(BuildFinish(k) /\ Publish(k))
                     /\ WF_cvars(InformerSync(k))
  /\ WF_cvars(PlatformInitialized /\ Quiet)

CSpec == CInit /\ [][CNext]_cvars /\ CFairness

CacheTypeOK ==
  /\ bcache \in [Kits -> BuildRec \cup {NoBuild}]
  /\ feed \in [Kits -> Seq(BuildRec \cup {NoBuild})]


-----------------------------------------------------------------------------
(* The strengthening that the proofs of the cache model use.  The kit      *)
(* reads are not cached, so the pass invariants of KitController hold as   *)
(* they are; the Build a pass reads may be stale, so ReadySource does not, *)
(* and in its place every Build value in the cache or on its way there     *)
(* names its image when it is Succeeded.                                   *)

\* A Succeeded Build names the image it produced.
SucceededImage(b) == (b # NoBuild /\ b.phase = "Succeeded") => b.image \in Images

\* Every Build value the informer holds or has still to apply.
CacheHasImage ==
  \A k \in Kits : /\ SucceededImage(bcache[k])
                  /\ \A n \in 1..Len(feed[k]) : SucceededImage(feed[k][n])

\* A pass about to write Ready holds a Succeeded Build with an image, the
\* stored one or not.
ReadyHasImage ==
  \A k \in Kits :
    pc[k] = "ToReady" =>
      /\ buildSnap[k] # NoBuild
      /\ buildSnap[k].phase = "Succeeded"
      /\ buildSnap[k].image \in Images

CIInv ==
  /\ TypeOK
  /\ CacheTypeOK
  /\ SnapshotCurrent
  /\ PassPhase
  /\ PrebuiltNeverBuilt
  /\ SucceededHasImage
  /\ CacheHasImage
  /\ ReadyHasImage

=============================================================================
