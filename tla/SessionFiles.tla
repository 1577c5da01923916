----------------------------- MODULE SessionFiles -----------------------------
(***************************************************************************)
(* The user's files that are read while another program may write to them: *)
(* the data source that is scanned, the original media a session was       *)
(* admitted with, the pack of pictures of the Modern presentation, and a   *)
(* reference trace.  They share no state, so a behaviour is of one of them *)
(* and the others rest as they began.                                      *)
(***************************************************************************)
EXTENDS ReleaseScanner, VerifiedMedia, ModernPack, ReferenceTrace

VARIABLE subject

fileVars == <<scanVars, vars, packVars, traceVars, subject>>

(* A content every file of the collection may hold, for a disk at rest.    *)
Quiet(f) == CHOOSE content \in MayHold[f] : TRUE

FileInit ==
  /\ ScanInit /\ Init /\ PackInit /\ TraceInit /\ subject \in {"scan", "media", "pack", "trace"}
  /\ subject # "scan" => chosen = NoFile /\ collection = [f \in File |-> Quiet(f)]
  /\ subject # "pack" => manifest = NoManifest
  /\ subject # "media" => layout = "archives" /\ disk = [leaf \in Leaf |-> "original"]

ScanStep == subject = "scan" /\ Scan /\ UNCHANGED <<vars, packVars, traceVars, subject>>

FileNext ==
  \/ ScanStep
  \/ /\ subject = "scan" /\ (ReplaceEntry \/ Finish)
     /\ UNCHANGED <<vars, packVars, traceVars, subject>>
  \/ subject = "media" /\ Next /\ UNCHANGED <<scanVars, packVars, traceVars, subject>>
  \/ subject = "pack" /\ PackStep /\ UNCHANGED <<scanVars, vars, traceVars, subject>>
  \/ subject = "trace" /\ TraceStep /\ UNCHANGED <<scanVars, vars, packVars, subject>>

(* The loop of the program advances an unfinished scan in every frame.     *)
FileSpec == FileInit /\ [][FileNext]_fileVars /\ WF_fileVars(ScanStep)

-----------------------------------------------------------------------------
(* What is shown, parsed or replayed of the user's files is what they were *)
(* verified to be, at the time it was taken and not only at the launch.    *)
FilesAreVerified == LentIsOriginal /\ ShownIsListed /\ TraceIsListed

(* A scan of a collection that stops changing is finished, frame by frame. *)
ScanEnds == [](subject = "scan" => <>Done(scan))
=============================================================================
