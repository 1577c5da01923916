----------------------------- MODULE ReferenceTrace -----------------------------
(***************************************************************************)
(* The admission of a reference trace (validate_reference_trace, its use   *)
(* by the command line, and the replay of the two adapters that have one). *)
(*                                                                         *)
(* A manifest names a release, a text of events and, for one adapter, the  *)
(* files captured beside it, each with its hash.  All of them lie on the   *)
(* disk, where another program may write between any two of these reads.   *)
(***************************************************************************)
EXTENDS TraceGrammar

CONSTANTS TraceManifests,  \* the manifests a user may name
          Requests,        \* the releases of the game and platform asked for
          TraceWritten,    \* the artifacts another program writes to
          TraceWrites      \* bound on the writes during one validation

NoText == << >>
NoManifestOf == [adapter |-> "none", fields |-> "none", release |-> "none", stage |-> "none",
                 text |-> NoText, timeline |-> "none", artifacts |-> [role \in Roles |-> "none"]]

ASSUME TraceAssumption ==
  /\ TraceWritten \subseteq Roles /\ TraceWrites \in Nat
  /\ \A m \in TraceManifests : DOMAIN m = DOMAIN NoManifestOf /\ m.text \in Seq(Events)

(* What the registry says of an adapter: the one release it is for, the    *)
(* stage of its media if it is bound to one, the fields of its manifest,   *)
(* and whether it may be replayed.                                         *)
Entry(release, stage, fields) == [release |-> release, stage |-> stage, fields |-> fields]

Registry ==
  [startup   |-> Entry("millennium_dos", "none", "basic"),
   overlay   |-> Entry("millennium_dos", "none", "basic"),
   title     |-> Entry("millennium_dos", "none", "basic"),
   handoff   |-> Entry("millennium_dos", "none", "basic"),
   boot      |-> Entry("deuteros_atari", "boot", "staged"),
   bootstrap |-> Entry("millennium_amiga", "none", "basic"),
   stage     |-> Entry("deuteros_amiga", "title", "staged"),
   copy_loop |-> Entry("deuteros_amiga", "main", "staged"),
   bridge    |-> Entry("deuteros_amiga", "title", "staged"),
   display   |-> Entry("deuteros_amiga", "title", "staged"),
   artifacts |-> Entry("deuteros_amiga", "title", "captured")]

VARIABLES
  source,    \* what is at the path of each release found by the scan
  capture,   \* the text and the artifacts on the disk
  writes,    \* history: writes to the text since the validation began
  trace,     \* the validation under way and what it has read
  replay     \* the session a replay has made

traceVars == <<source, capture, writes, trace, replay>>

NoTrace == [at |-> "none", manifest |-> NoManifestOf, text |-> NoText, artifact |-> 1]
NoReplay == [read |-> NoText, given |-> NoText]
TracedReleases == {m.release : m \in TraceManifests}

TraceInit ==
  /\ source = [release \in TracedReleases |-> "original"]
  /\ capture = [text |-> NoText, artifacts |-> [role \in Roles |-> "listed"]]
  /\ writes = 0 /\ trace = NoTrace /\ replay = NoReplay

-----------------------------------------------------------------------------
(* Another program replaces a release, the events or an artifact.          *)
WriteSource ==
  /\ trace.at # "none"
  /\ \E bytes \in {"original", "changed", "gone"} :
       source' = [source EXCEPT ![trace.manifest.release] = bytes]
  /\ UNCHANGED <<capture, writes, trace, replay>>

WriteText ==
  /\ trace.at # "none" /\ writes < TraceWrites
  /\ \E m \in TraceManifests : /\ m.adapter = trace.manifest.adapter
                               /\ capture' = [capture EXCEPT !.text = m.text]
  /\ writes' = writes + 1
  /\ UNCHANGED <<source, trace, replay>>

WriteArtifact ==
  /\ trace.at # "none"
  /\ \E role \in TraceWritten, bytes \in {"listed", "other"} :
       capture' = [capture EXCEPT !.artifacts[role] = bytes]
  /\ UNCHANGED <<source, writes, trace, replay>>

-----------------------------------------------------------------------------
(* The manifest has exactly the fields of its adapter, is for the game and *)
(* the platform asked for, and for the release the adapter is bound to.    *)
HasItsFields(m) ==
  m.fields = IF m.adapter \in DOMAIN Registry THEN Registry[m.adapter].fields ELSE "basic"

IsBound(m) ==
  m.adapter = "plain" \/ /\ m.adapter \in DOMAIN Registry
                         /\ m.release = Registry[m.adapter].release
                         /\ m.stage = Registry[m.adapter].stage

Names(m, request) == HasItsFields(m) /\ m.release \in request /\ IsBound(m)

RejectTrace == trace' = NoTrace

GoTo(at) == trace' = [trace EXCEPT !.at = at]

(* The capture a manifest was made for is beside it, or another one is.    *)
ReadTraceManifest ==
  /\ trace = NoTrace
  /\ \E m, other \in TraceManifests, request \in Requests :
       /\ other.adapter = m.adapter
       /\ capture' = [capture EXCEPT !.text = other.text]
       /\ IF Names(m, request) /\ source[m.release] # "gone"
          THEN trace' = [NoTrace EXCEPT !.at = "source", !.manifest = m]
          ELSE RejectTrace
  /\ writes' = 0 /\ replay' = NoReplay /\ UNCHANGED source

HashSource ==
  /\ trace.at = "source"
  /\ IF source[trace.manifest.release] = "original" THEN GoTo("hash") ELSE RejectTrace
  /\ UNCHANGED <<source, capture, writes, replay>>

(* The text is hashed, read and hashed again: three reads of one path.     *)
HashText ==
  /\ trace.at = "hash"
  /\ IF capture.text = trace.manifest.text THEN GoTo("read") ELSE RejectTrace
  /\ UNCHANGED <<source, capture, writes, replay>>

ReadText ==
  /\ trace.at = "read"
  /\ IF Accepts(trace.manifest.adapter, capture.text, trace.manifest.timeline)
     THEN trace' = [trace EXCEPT !.at = "rehash", !.text = capture.text]
     ELSE RejectTrace
  /\ UNCHANGED <<source, capture, writes, replay>>

RehashText ==
  /\ trace.at = "rehash"
  /\ IF capture.text # trace.manifest.text THEN RejectTrace
     ELSE GoTo(IF trace.manifest.adapter = "artifacts" THEN "artifacts" ELSE "valid")
  /\ UNCHANGED <<source, capture, writes, replay>>

(* Each artifact has the hash its checkpoint in the text gives, and its    *)
(* file that hash; they are hashed one after the other.                    *)
FixedByText(m, text) == \A role \in Roles : Fixes(text, role, m.artifacts[role])

HashArtifact ==
  /\ trace.at = "artifacts"
  /\ IF ~FixedByText(trace.manifest, trace.text)
          \/ capture.artifacts[ArtifactOrder[trace.artifact]] # "listed"
     THEN RejectTrace
     ELSE IF trace.artifact = Len(ArtifactOrder) THEN GoTo("valid")
     ELSE trace' = [trace EXCEPT !.artifact = @ + 1]
  /\ UNCHANGED <<source, capture, writes, replay>>

-----------------------------------------------------------------------------
(* The command line hashes the release once more before it reports.        *)
VerifySource ==
  /\ trace.at = "valid"
  /\ IF source[trace.manifest.release] = "original" THEN GoTo("verified") ELSE RejectTrace
  /\ UNCHANGED <<source, capture, writes, replay>>

(* A replay takes the text into memory, hashes what it took, opens the     *)
(* release anew, holds the text to its grammar again and gives a fresh     *)
(* session what it says.  A running session asks for it without the        *)
(* command line's check.  What the overlay was seen to read may keep its   *)
(* session from where it must arrive.                                      *)
MayReplay(adapter) == adapter \in DOMAIN ReplayOrder

ReadForReplay ==
  /\ trace.at \in {"valid", "verified"} /\ MayReplay(trace.manifest.adapter)
  /\ IF capture.text = trace.manifest.text
     THEN GoTo("open") /\ replay' = [NoReplay EXCEPT !.read = capture.text]
     ELSE RejectTrace /\ UNCHANGED replay
  /\ UNCHANGED <<source, capture, writes>>

OpenForReplay ==
  /\ trace.at = "open"
  /\ \E reaches \in IF trace.manifest.adapter = "overlay" THEN BOOLEAN ELSE {TRUE} :
       IF /\ reaches /\ source[trace.manifest.release] = "original"
          /\ Accepts(trace.manifest.adapter, replay.read, trace.manifest.timeline)
       THEN /\ GoTo("reported")
            /\ replay' = [replay EXCEPT !.given = Replayed(trace.manifest.adapter, replay.read)]
       ELSE RejectTrace /\ UNCHANGED replay
  /\ UNCHANGED <<source, capture, writes>>

Report ==
  /\ trace.at = "verified" /\ ~MayReplay(trace.manifest.adapter) /\ GoTo("reported")
  /\ UNCHANGED <<source, capture, writes, replay>>

NextTrace ==
  /\ trace.at = "reported" /\ RejectTrace /\ replay' = NoReplay
  /\ UNCHANGED <<source, capture, writes>>

TraceStep ==
  \/ WriteSource \/ WriteText \/ WriteArtifact
  \/ ReadTraceManifest \/ HashSource \/ HashText \/ ReadText \/ RehashText \/ HashArtifact
  \/ VerifySource \/ ReadForReplay \/ OpenForReplay \/ Report \/ NextTrace

-----------------------------------------------------------------------------
TraceTypeOK ==
  /\ source \in [TracedReleases -> {"original", "changed", "gone"}]
  /\ capture.artifacts \in [Roles -> {"listed", "other"}]
  /\ writes \in 0..TraceWrites
  /\ trace.manifest \in TraceManifests \cup {NoManifestOf} /\ trace.artifact \in DOMAIN ArtifactOrder

WasRead == {"rehash", "artifacts", "valid", "verified", "open", "reported"}
WasHashed == WasRead \ {"rehash", "artifacts"}

(* What is reported of a trace is what its manifest lists, however its     *)
(* text changed once while it was validated; the events increase, every    *)
(* return ends the call that was opened last, and the artifacts are those  *)
(* of its checkpoints.  A replay is of the listed text, however often it   *)
(* changed.                                                                *)
TraceIsListed ==
  /\ trace.at \in WasRead => trace.text # NoText /\ Increases(trace.text) /\ WellNested(trace.text)
  /\ trace.at \in WasHashed /\ writes <= 1 =>
       /\ trace.text = trace.manifest.text
       /\ trace.manifest.adapter = "artifacts" => FixedByText(trace.manifest, trace.manifest.text)
  /\ replay.given # NoText =>
       {replay.given[i] : i \in DOMAIN replay.given}
         = {trace.manifest.text[i] : i \in DOMAIN trace.manifest.text}

(* A text that may be replayed is told to the session in its own order.    *)
ReplayKeepsTheOrder == Increases(replay.given)
=============================================================================
