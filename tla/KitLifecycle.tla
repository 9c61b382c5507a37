---------------------------- MODULE KitLifecycle ----------------------------
(***************************************************************************)
(* What the IntegrationKit controller promises about a kit, seen only     *)
(* through the kit's status: its phase, its image and its artifacts.  A    *)
(* kit built from source goes "None" -> BuildSubmitted -> BuildRunning ->  *)
(* Ready | Error, and takes an image and location-free artifacts only on   *)
(* its way to Ready; a kit created from an image goes straight to Ready    *)
(* with that image.  A user may reset any kit to "None".  Builds, passes,  *)
(* resource versions and the fan-out to integrations are not visible here. *)
(***************************************************************************)
CONSTANTS Kits, Images, ArtifactIds, NoImage, PrebuiltImage

VARIABLES phase, image, artifacts

avars == <<phase, image, artifacts>>

\* An artifact as the kit status holds it: no location.
StrippedArtifact == [id : ArtifactIds, location : {"None"}]

\* The kit was created from an image.
FromImage(k) == PrebuiltImage[k] # NoImage

\* Only the phase of kit k changes.
PhaseTo(k, from, to) ==
  /\ phase[k] = from
  /\ phase' = [phase EXCEPT ![k] = to]
  /\ UNCHANGED <<image, artifacts>>

\* initializeAction: a kit to be built is submitted.
Submit(k) == ~FromImage(k) /\ PhaseTo(k, "None", "BuildSubmitted")

\* initializeAction: a kit created from an image is Ready with that image.
PrebuiltReady(k) ==
  /\ FromImage(k)
  /\ phase[k] = "None"
  /\ phase' = [phase EXCEPT ![k] = "Ready"]
  /\ image' = [image EXCEPT ![k] = PrebuiltImage[k]]
  /\ UNCHANGED artifacts

\* handleBuildSubmitted: the Build was seen Running.
Start(k) == PhaseTo(k, "BuildSubmitted", "BuildRunning")

\* handleBuildRunning: the Build succeeded with some image and artifacts.
Succeed(k) ==
  /\ phase[k] = "BuildRunning"
  /\ phase' = [phase EXCEPT ![k] = "Ready"]
  /\ \E img \in Images, as \in SUBSET StrippedArtifact :
       /\ image' = [image EXCEPT ![k] = img]
       /\ artifacts' = [artifacts EXCEPT ![k] = as]

\* handleBuildRunning: the Build failed or was interrupted.
FailBuild(k) == PhaseTo(k, "BuildRunning", "Error")

\* A user resets the kit; its last result stays in the status.
Reset(k) ==
  /\ phase' = [phase EXCEPT ![k] = "None"]
  /\ UNCHANGED <<image, artifacts>>

LInit ==
  /\ phase = [k \in Kits |-> "None"]
  /\ image = [k \in Kits |-> NoImage]
  /\ artifacts = [k \in Kits |-> {}]

LNext ==
  \E k \in Kits : \/ Submit(k) \/ PrebuiltReady(k) \/ Start(k)
                  \/ Succeed(k) \/ FailBuild(k) \/ Reset(k)

LSpec == LInit /\ [][LNext]_avars

=============================================================================
