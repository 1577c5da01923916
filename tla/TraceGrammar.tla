------------------------------ MODULE TraceGrammar ------------------------------
(***************************************************************************)
(* What the text of a reference trace may say, for each adapter.           *)
(*                                                                         *)
(* A text is a sequence of events.  The kind of an event stands for its    *)
(* type with the literal site, address and operands its schema asks for;   *)
(* an event outside every schema has a kind of its own.  Its value stands  *)
(* for what a recorder saw: a word, a register of a call, or a hash.       *)
(***************************************************************************)
EXTENDS Naturals, Sequences, FiniteSets

Event(sequence, tick, kind, value) ==
  [sequence |-> sequence, tick |-> tick, kind |-> kind, value |-> value]

Events == [sequence : Nat, tick : Nat, kind : STRING, value : STRING]

KindsOf(text) == [i \in DOMAIN text |-> text[i].kind]

(* Both the order and the time of the events increase in every text.       *)
Increases(text) ==
  \A i, j \in DOMAIN text : i < j => /\ text[i].sequence < text[j].sequence
                                     /\ text[i].tick < text[j].tick

-----------------------------------------------------------------------------
(* Some adapters take their kinds of events in any number and order.       *)
PlainKinds == {"cpu", "interrupt", "file", "memory", "frame", "audio"}
StartupKinds == {"interrupt-0209", "interrupt-0127", "interrupt-0124", "interrupt-0d0a",
                 "interrupt-1a12", "load-ega640", "load-mcga", "exec-titles", "exec-game"}
BootKinds == {"trap", "callback", "frame", "state", "table", "raw-reader"}
BootstrapKinds == {"jsr-702e4", "jmp-70320"}
StageKinds == {"exec", "open-library", "graphics", "custom-register", "registration", "entry"}

FreeKinds ==
  [plain |-> PlainKinds, startup |-> StartupKinds, boot |-> BootKinds,
   bootstrap |-> BootstrapKinds, stage |-> StageKinds]

IsFree(adapter, text) ==
  text # << >> /\ \A i \in DOMAIN text : text[i].kind \in FreeKinds[adapter]

(* Others are one fixed sequence.                                          *)
OverlayOrder ==
  <<"return-0129", "mode-d349", "adapter-00ed", "return-d376", "return-d379", "return-d37c",
    "return-d37f", "return-d382", "return-d385", "mode-d388">>

TitleOrder ==
  <<"load-mcga", "interrupt-0209", "interrupt-0127", "return-0101", "return-0000">>

HandoffOrder ==
  <<"return-1c54", "return-1c57", "return-1c64", "return-1a0f", "stack-1c60",
    "terminate-1a18", "exec-0337", "status-0348">>

FixedOrder ==
  [overlay |-> OverlayOrder, title |-> TitleOrder, handoff |-> HandoffOrder,
   copy_loop |-> <<"copy-210d4">>]

IsFixed(adapter, text) == KindsOf(text) = FixedOrder[adapter]

-----------------------------------------------------------------------------
(* The title bridge has nested calls of two kinds in its fourth segment,   *)
(* of which at least one draws, and one event in every other.              *)
BridgeOrder ==
  <<"exec-return", "exec-return", "open-library-return", "registration-return", "queue-pre",
    "callback-entry", "queue-post", "selector-entry", "call-1fe84", "return-1fe84",
    "call-1fe92", "return-1fe92", "dispatch-pre", "dispatch-post">>

CallSegment == 4
Calls == {"graphics-call", "register-call"}
ReturnOf == [call \in Calls |-> IF call = "graphics-call" THEN "graphics-return" ELSE "register-return"]

BridgeStart == [at |-> 1, pending |-> << >>, drawn |-> FALSE]
Refused == [BridgeStart EXCEPT !.at = 0]

(* A return ends the call opened last, if that was of its kind.            *)
Takes(p, kind) ==
  IF p.at = CallSegment /\ kind \in Calls
  THEN [p EXCEPT !.pending = Append(@, kind), !.drawn = @ \/ kind = "graphics-call"]
  ELSE IF /\ p.at = CallSegment /\ p.pending # << >>
          /\ kind = ReturnOf[p.pending[Len(p.pending)]]
  THEN [p EXCEPT !.pending = SubSeq(@, 1, Len(@) - 1)]
  ELSE IF /\ p.at \in DOMAIN BridgeOrder /\ kind = BridgeOrder[p.at]
          /\ p.at = CallSegment => p.pending = << >> /\ p.drawn
  THEN [p EXCEPT !.at = @ + 1]
  ELSE Refused

Parsed(text) ==
  LET after[n \in 0..Len(text)] ==
        IF n = 0 THEN BridgeStart ELSE Takes(after[n - 1], text[n].kind)
  IN  after

IsBridge(text) == Parsed(text)[Len(text)].at = Len(BridgeOrder) + 1

(* A display trace is a bridge and then six checkpoints, of which the one  *)
(* of the input has the timeline of the manifest.                          *)
DisplayOrder == <<"display-layout", "bitplane-layout", "palette", "input", "frame", "audio">>

IsDisplay(text, timeline) ==
  \E n \in DOMAIN text :
    /\ text[n].kind = DisplayOrder[1] /\ \A i \in 1..(n - 1) : text[i].kind # DisplayOrder[1]
    /\ IsBridge(SubSeq(text, 1, n - 1))
    /\ KindsOf(SubSeq(text, n, Len(text))) = DisplayOrder
    /\ \A i \in DOMAIN text : text[i].kind = "input" => text[i].value = timeline

Displays == {"display", "artifacts"}

Accepts(adapter, text, timeline) ==
  /\ Increases(text)
  /\ CASE adapter \in DOMAIN FreeKinds -> IsFree(adapter, text)
       [] adapter \in DOMAIN FixedOrder -> IsFixed(adapter, text)
       [] adapter = "bridge" -> IsBridge(text)
       [] adapter \in Displays -> IsDisplay(text, timeline)

-----------------------------------------------------------------------------
(* The checkpoint that fixes each artifact, in the order they are hashed.  *)
(* One event may fix two; its value then stands for both hashes.           *)
ArtifactOrder == <<"input_timeline", "copper_list", "rgb4_palette", "bitplanes",
                   "rgba_palette", "rgba_frame", "pcm">>
Roles == {ArtifactOrder[i] : i \in DOMAIN ArtifactOrder}

CheckpointOf(role) ==
  CASE role = "input_timeline" -> "input"
    [] role = "copper_list" -> "display-layout"
    [] role \in {"rgb4_palette", "rgba_palette"} -> "palette"
    [] role \in {"bitplanes", "rgba_frame"} -> "frame"
    [] role = "pcm" -> "audio"

Fixes(text, role, hash) ==
  \E i \in DOMAIN text : text[i].kind = CheckpointOf(role) /\ text[i].value = hash

-----------------------------------------------------------------------------
(* The two adapters that may be replayed, and the order in which what they *)
(* say is given to a fresh session.                                        *)
HandoffReplay ==
  <<"return-1c54", "return-1c57", "stack-1c60", "return-1c64", "return-1a0f",
    "terminate-1a18", "exec-0337", "status-0348">>

ReplayOrder == [overlay |-> OverlayOrder, handoff |-> HandoffReplay]

Replayed(adapter, text) ==
  [n \in DOMAIN ReplayOrder[adapter] |->
     CHOOSE event \in {text[i] : i \in DOMAIN text} : event.kind = ReplayOrder[adapter][n]]

-----------------------------------------------------------------------------
(* By definition, a text is well nested if every return has a call of its  *)
(* kind before it, with as many calls begun as ended between the two.      *)
NumberOf(text, kind, from, to) == Cardinality({i \in from..to : text[i].kind = kind})

Closes(text, call, from, to) == NumberOf(text, call, from, to) = NumberOf(text, ReturnOf[call], from, to)

WellNested(text) ==
  /\ \A call \in Calls : Closes(text, call, 1, Len(text))
  /\ \A back \in DOMAIN text, call \in Calls : text[back].kind = ReturnOf[call] =>
       \E begun \in 1..(back - 1) :
         /\ text[begun].kind = call
         /\ \A other \in Calls : Closes(text, other, begun + 1, back - 1)
=============================================================================
