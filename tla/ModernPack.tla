------------------------------ MODULE ModernPack ------------------------------
(***************************************************************************)
(* The user's own pictures in the Modern presentation                      *)
(* (ModernAssetPackPresentationResolver and its use in the SDL loop).      *)
(*                                                                         *)
(* A pack is a manifest of one release that lists each picture with its    *)
(* hash.  It is read and hashed before a launch, again when the session    *)
(* starts, and each picture once more before it is shown; another program  *)
(* may write to the files between any two of these reads.                  *)
(***************************************************************************)
EXTENDS Naturals, FiniteSets

CONSTANTS Frames,     \* pictures of the opening's route, 82 in the program
          Manifests,  \* the manifests that may be on the disk
          Written     \* the pictures another program writes to

(* Tiers are the two sizes, the title's picture has the place zero.        *)
Tiers == {"large", "small"}
Picture == Tiers \X (0..Frames)
Art == {"first", "second", "unfit"}   \* "unfit": no RGBA picture of its size
Screens == {"opening", "title"}
NoManifest == [release |-> "none", lists |-> [picture \in {} |-> "unfit"]]

ASSUME PackAssumption ==
  /\ Frames \in Nat \ {0} /\ Written \subseteq Picture
  /\ \A m \in Manifests : /\ m.release \in Screens \cup {"other"} /\ DOMAIN m.lists \subseteq Picture
                          /\ \A picture \in DOMAIN m.lists : m.lists[picture] \in Art

VARIABLES
  files,      \* what is behind each picture's path; "link" is no plain file
  manifest,   \* the manifest on the disk
  route,      \* the launch: its screen, profile and chosen pack
  task,       \* the read under way
  resolver,   \* the pack the session shows, as it was read
  texture,    \* the picture uploaded last
  pipeline,   \* the reconstruction of an original frame
  shown       \* the last frame drawn

packVars == <<files, manifest, route, task, resolver, texture, pipeline, shown>>

Menu == [screen |-> "menu", modern |-> FALSE, pack |-> FALSE, ready |-> FALSE, attempted |-> FALSE]
NoTask == [kind |-> "none", at |-> "none", read |-> NoManifest, tier |-> "none", left |-> {}]
NoResolver == [read |-> NoManifest, tier |-> "none"]
NoTexture == [picture |-> <<"none", 0>>, art |-> "none"]
NoPipeline == [key |-> 0, surface |-> 0]
NotShown == [tick |-> 0, claimed |-> FALSE, art |-> "none", enhanced |-> 0]

PackInit ==
  /\ files = [picture \in Picture |-> "first"] /\ manifest \in Manifests \cup {NoManifest}
  /\ route = Menu /\ task = NoTask /\ resolver = NoResolver /\ texture = NoTexture
  /\ pipeline = NoPipeline /\ shown = NotShown

-----------------------------------------------------------------------------
(* Another program writes a file or the manifest, at any time.             *)
ChangePicture ==
  /\ \E picture \in Written, bytes \in Art \cup {"link"} : files' = [files EXCEPT ![picture] = bytes]
  /\ UNCHANGED <<manifest, route, task, resolver, texture, pipeline, shown>>

ChangeManifest ==
  /\ manifest' \in Manifests \cup {NoManifest}
  /\ UNCHANGED <<files, route, task, resolver, texture, pipeline, shown>>

(* A path is read only if no part of it is a symbolic link.                *)
Plain(picture) == files[picture] # "link"

-----------------------------------------------------------------------------
(* The size shown is the larger one the manifest lists: of the title its   *)
(* picture, of the opening all the frames, and then no part of the other.  *)
Frame(tier) == {tier} \X (1..Frames)
Listed(read) == DOMAIN read.lists

TitleTier(read) ==
  IF <<"large", 0>> \in Listed(read) THEN "large"
  ELSE IF <<"small", 0>> \in Listed(read) THEN "small" ELSE "none"

SequenceTier(read) ==
  IF \E tier \in Tiers : Frame(tier) \cap Listed(read) \notin {{}, Frame(tier)} THEN "none"
  ELSE IF Frame("large") \subseteq Listed(read) THEN "large"
  ELSE IF Frame("small") \subseteq Listed(read) THEN "small" ELSE "none"

TierOf(read, screen) == IF screen = "title" THEN TitleTier(read) ELSE SequenceTier(read)
PicturesOf(tier, screen) == IF screen = "title" THEN {<<tier, 0>>} ELSE Frame(tier)

\* mutant: the bytes that are uploaded are not hashed again
LoadsUnhashed(read, picture) == files[picture] \in Art \ {"unfit"}

(* The bytes that are uploaded are those that were hashed and checked.     *)
Loads(read, picture) == files[picture] = read.lists[picture] /\ files[picture] \in Art \ {"unfit"}

-----------------------------------------------------------------------------
Reading(kind) == [NoTask EXCEPT !.kind = kind, !.at = "manifest"]

(* A session asks for its pack once.                                       *)
MayLoad(r) == r.modern /\ r.pack /\ ~r.attempted

StartLoading(r) ==
  /\ route' = [r EXCEPT !.attempted = TRUE]
  /\ task' = IF MayLoad(r) THEN Reading("create") ELSE NoTask

(* A rejected pack is not kept for the loader; the session runs without.   *)
Reject ==
  /\ IF task.kind = "preflight" THEN StartLoading([route EXCEPT !.pack = FALSE])
     ELSE task' = NoTask /\ UNCHANGED route
  /\ resolver' = NoResolver /\ UNCHANGED texture

ReadManifest ==
  /\ task.at = "manifest"
  /\ IF Listed(manifest) = {} \/ \E picture \in Listed(manifest) : ~Plain(picture)
     THEN Reject
     ELSE /\ task' = [task EXCEPT !.at = "hash", !.read = manifest, !.left = Listed(manifest)]
          /\ UNCHANGED <<route, resolver, texture>>
  /\ UNCHANGED <<files, manifest, pipeline, shown>>

(* Every listed picture has the hash the manifest gives it.                *)
HashPicture ==
  /\ task.at = "hash"
  /\ \E picture \in task.left :
       IF files[picture] = task.read.lists[picture]
       THEN task' = [task EXCEPT !.left = @ \ {picture}] /\ UNCHANGED <<route, resolver, texture>>
       ELSE Reject
  /\ UNCHANGED <<files, manifest, pipeline, shown>>

(* A valid pack is for this release, and has what its screen shows.        *)
Validated ==
  /\ task.at = "hash" /\ task.left = {}
  /\ LET tier == TierOf(task.read, route.screen) IN
       IF task.read.release # route.screen THEN Reject
       ELSE IF task.kind = "preflight"
       THEN StartLoading([route EXCEPT !.ready = TRUE]) /\ UNCHANGED <<resolver, texture>>
       ELSE IF tier = "none" THEN Reject
       ELSE /\ task' = [task EXCEPT !.at = "load", !.tier = tier, !.left = PicturesOf(tier, route.screen)]
            /\ UNCHANGED <<route, resolver, texture>>
  /\ UNCHANGED <<files, manifest, pipeline, shown>>

(* The opening's frames are all tried before the first one is shown; the   *)
(* title's picture is uploaded at once.                                    *)
LoadPicture ==
  /\ task.at = "load"
  /\ \E picture \in task.left :
       IF ~Loads(task.read, picture) THEN Reject
       ELSE IF task.left # {picture}
       THEN task' = [task EXCEPT !.left = @ \ {picture}] /\ UNCHANGED <<route, resolver, texture>>
       ELSE /\ resolver' = [read |-> task.read, tier |-> task.tier] /\ task' = NoTask
            /\ texture' = IF route.screen = "title"
                          THEN [picture |-> picture, art |-> files[picture]] ELSE texture
            /\ UNCHANGED route
  /\ UNCHANGED <<files, manifest, pipeline, shown>>

-----------------------------------------------------------------------------
(* A launch drops all the last one had, and reads a chosen pack before it  *)
(* starts the session; the Original profile never reads one.               *)
Launch ==
  /\ route.screen = "menu"
  /\ \E screen \in Screens, modern, pack \in BOOLEAN :
       LET launched == [Menu EXCEPT !.screen = screen, !.modern = modern, !.pack = pack] IN
       IF modern /\ pack THEN route' = launched /\ task' = Reading("preflight")
       ELSE StartLoading(launched)
  /\ resolver' = NoResolver /\ texture' = NoTexture
  /\ pipeline' = NoPipeline /\ shown' = NotShown
  /\ UNCHANGED <<files, manifest>>

ReturnToMenu ==
  /\ route.screen # "menu" /\ task = NoTask
  /\ route' = Menu /\ resolver' = NoResolver /\ texture' = NoTexture
  /\ pipeline' = NoPipeline /\ shown' = NotShown
  /\ UNCHANGED <<files, manifest, task>>

(* The loop asks for the pack again when the scheduler starts.             *)
OpeningStarted ==
  /\ route.screen = "opening" /\ task = NoTask /\ StartLoading(route)
  /\ UNCHANGED <<files, manifest, resolver, texture, pipeline, shown>>

-----------------------------------------------------------------------------
(* The ticks the pack has pictures for: of the last only if the title was  *)
(* taken there, for otherwise the opening goes on elsewhere.               *)
Claimed(tick, handedOff) == tick \in 1..Frames /\ (tick = Frames => handedOff)

\* mutant: a picture that cannot be loaded is tried again with the next frame
RefreshPatient(tick) ==
  LET picture == <<resolver.tier, tick>> IN
  IF texture.picture = picture THEN UNCHANGED <<resolver, texture>>
  ELSE IF Loads(resolver.read, picture)
  THEN texture' = [picture |-> picture, art |-> files[picture]] /\ UNCHANGED resolver
  ELSE texture' = NoTexture /\ UNCHANGED resolver

(* A picture that cannot be loaded any more ends the pack's use.           *)
Refresh(tick) ==
  LET picture == <<resolver.tier, tick>> IN
  IF texture.picture = picture THEN UNCHANGED <<resolver, texture>>
  ELSE IF Loads(resolver.read, picture)
  THEN texture' = [picture |-> picture, art |-> files[picture]] /\ UNCHANGED resolver
  ELSE texture' = NoTexture /\ resolver' = NoResolver

(* Without a picture the original frame is drawn, or its reconstruction,   *)
(* which is made once for its key; a frame it cannot be made of is not     *)
(* tried again.                                                            *)
Reconstructed(tick, fits) ==
  IF pipeline.key = tick THEN pipeline ELSE [key |-> tick, surface |-> IF fits THEN tick ELSE 0]

Draw(tick, claimed, enhance) ==
  IF claimed /\ texture'.art # "none"
  THEN /\ shown' = [tick |-> tick, claimed |-> TRUE, art |-> texture'.art, enhanced |-> 0]
       /\ UNCHANGED pipeline
  ELSE /\ \E fits \in BOOLEAN : pipeline' = IF enhance THEN Reconstructed(tick, fits) ELSE pipeline
       /\ shown' = [tick |-> tick, claimed |-> claimed, art |-> "none",
                    enhanced |-> IF enhance THEN pipeline'.surface ELSE 0]

DrawOpening ==
  /\ route.screen = "opening" /\ task = NoTask
  /\ \E tick \in shown.tick..(Frames + 1), handedOff \in BOOLEAN, enhance \in {FALSE, route.modern} :
       LET asks == resolver # NoResolver /\ Claimed(tick, handedOff) IN
       /\ IF asks THEN Refresh(tick) ELSE UNCHANGED <<resolver, texture>>
       /\ Draw(tick, route.modern /\ Claimed(tick, handedOff), enhance)
  /\ UNCHANGED <<files, manifest, route, task>>

DrawTitle ==
  /\ route.screen = "title" /\ task = NoTask
  /\ UNCHANGED <<files, manifest, route, task, resolver, texture>>
  /\ \E enhance \in {FALSE, route.modern} : Draw(1, TRUE, enhance)

PackStep ==
  \/ ChangePicture \/ ChangeManifest \/ ReadManifest \/ HashPicture \/ Validated \/ LoadPicture
  \/ Launch \/ ReturnToMenu \/ OpeningStarted \/ DrawOpening \/ DrawTitle

-----------------------------------------------------------------------------
PackTypeOK ==
  /\ files \in [Picture -> Art \cup {"link"}] /\ manifest \in Manifests \cup {NoManifest}
  /\ route \in [screen : Screens \cup {"menu"}, modern : BOOLEAN, pack : BOOLEAN,
                ready : BOOLEAN, attempted : BOOLEAN]
  /\ task.kind \in {"none", "preflight", "create"} /\ task.at \in {"none", "manifest", "hash", "load"}
  /\ task.read \in Manifests \cup {NoManifest} /\ task.left \subseteq Picture
  /\ resolver.read \in Manifests \cup {NoManifest} /\ resolver.tier \in Tiers \cup {"none"}
  /\ texture.art \in Art \cup {"none"}
  /\ pipeline \in [key : 0..(Frames + 1), surface : 0..(Frames + 1)]
  /\ shown \in [tick : 0..(Frames + 1), claimed : BOOLEAN, art : Art \cup {"none"}, enhanced : 0..(Frames + 1)]

(* What is drawn in place of an original frame is the picture the manifest *)
(* of this release listed for it when the session took the pack up, and    *)
(* never one whose bytes have changed since; a reconstruction is of the    *)
(* frame it is drawn for.                                                  *)
ShownIsListed ==
  /\ shown.art # "none" =>
       /\ route.modern /\ resolver.read.release = route.screen
       /\ LET picture == <<resolver.tier, IF route.screen = "title" THEN 0 ELSE shown.tick>> IN
            /\ picture \in Listed(resolver.read) /\ resolver.tier = TierOf(resolver.read, route.screen)
            /\ shown.art = resolver.read.lists[picture] /\ shown.art # "unfit"
  /\ shown.enhanced \in {0, shown.tick}

(* Within one session the pack and its size never change, and where a      *)
(* picture of the pack was due and the original was drawn, the original is *)
(* drawn from there on.                                                    *)
RouteIsOne ==
  [][(route.screen # "menu" /\ route'.screen # "menu") =>
       /\ (resolver # NoResolver /\ resolver' # NoResolver) => resolver' = resolver
       /\ (shown.claimed /\ shown.art = "none") => shown'.art = "none"]_packVars
=============================================================================
