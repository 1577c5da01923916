---------------------------- MODULE MCSessionFiles ----------------------------
(* Three leaves: one verified before a change, one after it, one untouched. *)
(* Packs of two frames in one size, in both, in one and a part of the       *)
(* other; of the title, with a picture and with what is no picture; and of  *)
(* another release.  Traces of every adapter, some with a second text, one   *)
(* out of order, nested wrongly or of another timeline.                      *)
EXTENDS SessionFiles, MCReleaseScanner

MCPack(release, pictures, bytes) ==
  [release |-> release, lists |-> [picture \in pictures |-> bytes]]

MCManifests ==
  {MCPack("opening", Frame("large") \cup Frame("small"), "first"),
   MCPack("opening", Frame("small"), "first"),
   MCPack("opening", Frame("small") \cup {<<"large", 1>>}, "first"),
   MCPack("title", Tiers \X {0}, "first"),
   MCPack("title", {<<"small", 0>>}, "unfit"),
   MCPack("other", Frame("large"), "first")}

MCWritten == Frame("large") \cup {<<"small", 0>>}

-----------------------------------------------------------------------------
MCTextOf(kinds, value) == [i \in DOMAIN kinds |-> Event(i, i, kinds[i], value)]
MCTimed(kinds, late) ==
  [i \in DOMAIN kinds |-> Event(i, IF i = Len(kinds) THEN late ELSE i, kinds[i], "a")]

MCBridge(calls) ==
  SubSeq(BridgeOrder, 1, 3) \o calls \o SubSeq(BridgeOrder, CallSegment, Len(BridgeOrder))
MCNested == MCBridge(<<"register-call", "graphics-call", "graphics-return", "register-return">>)
MCCrossed == MCBridge(<<"register-call", "graphics-call", "register-return", "graphics-return">>)
MCOpen == MCBridge(<<"graphics-call">>)

MCTraceOf(adapter, text) ==
  LET entry == IF adapter = "plain" THEN Entry("millennium_amiga", "none", "basic")
               ELSE Registry[adapter] IN
  [adapter |-> adapter, fields |-> entry.fields, release |-> entry.release,
   stage |-> entry.stage, text |-> text, timeline |-> "a",
   artifacts |-> [role \in Roles |-> IF adapter = "artifacts" THEN "a" ELSE "none"]]

MCTraceManifests ==
  {MCTraceOf("plain", MCTextOf(<<"cpu", "frame">>, "a")), MCTraceOf("plain", MCTimed(<<"cpu", "audio">>, 1)),
   MCTraceOf("plain", NoText),
   MCTraceOf("startup", MCTextOf(<<"load-mcga", "exec-titles">>, "a")),
   [MCTraceOf("startup", MCTextOf(<<"load-mcga">>, "a")) EXCEPT !.release = "deuteros_amiga"],
   MCTraceOf("title", MCTextOf(TitleOrder, "a")),
   MCTraceOf("boot", MCTextOf(<<"trap", "state">>, "a")),
   MCTraceOf("bootstrap", MCTextOf(<<"jsr-702e4">>, "a")), MCTraceOf("bootstrap", MCTextOf(<<"trap">>, "a")),
   MCTraceOf("stage", MCTextOf(<<"registration", "entry">>, "a")),
   MCTraceOf("copy_loop", MCTextOf(<<"copy-210d4">>, "a")),
   MCTraceOf("display", MCTextOf(MCNested \o DisplayOrder, "a"))}
  \cup {MCTraceOf("overlay", MCTextOf(OverlayOrder, value)) : value \in {"a", "b"}}
  \cup {MCTraceOf("handoff", MCTextOf(kinds, "a")) : kinds \in {HandoffOrder, HandoffReplay}}
  \cup {MCTraceOf("bridge", MCTextOf(kinds, "a")) : kinds \in {MCNested, MCCrossed, MCOpen}}
  \cup {MCTraceOf("artifacts", MCTextOf(MCNested \o DisplayOrder, value)) : value \in {"a", "b"}}
  \cup {[MCTraceOf("artifacts", MCTextOf(MCNested \o DisplayOrder, "a"))
            EXCEPT !.artifacts["pcm"] = "b"]}

MCRequests ==
  {{"millennium_dos"}, {"millennium_amiga"}, {"deuteros_amiga"}, {"deuteros_atari"}}
=============================================================================
