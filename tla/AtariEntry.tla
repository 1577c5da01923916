------------------------------ MODULE AtariEntry ------------------------------
(***************************************************************************)
(* The entry of the Atari Millennium's module after its configuration:     *)
(* MillenniumAtariPostConfigEntrySession, from the loader's return to the  *)
(* answer of its Fcreate, over the memory the configuration left.  Every   *)
(* operation compares the code it stands for with the bytes in memory; a   *)
(* module read short of them is refused for good.                          *)
(***************************************************************************)
EXTENDS AtariConfig

VARIABLE entry  \* the entry session

entryVars == <<configVars, entry>>

NewEntry == [at |-> "entry_jump", mode |-> "none", equal |-> FALSE]

EntryInit == ConfigInit /\ entry = NewEntry

Coordinator == atari.via = "coordinator"

(* The part of the module each place needs in memory.  A test has it all.  *)
NeedsAll ==
  {"local_call", "bytecode", "crawcin_flag", "fopen", "fopen_return", "fcreate", "fcreate_return"}

PartNeeded(at) == IF at = "entry_jump" THEN 1 ELSE IF at \in NeedsAll THEN 3 ELSE 2

InMemory(at) == Coordinator => atari.loaded >= PartNeeded(at)

-----------------------------------------------------------------------------
(* The coordinator makes the loader's return and the module's first jump   *)
(* together or not at all; a return elsewhere enters nothing.              *)
LoaderReturn ==
  \E toModule \in BOOLEAN :
    /\ LoaderReturns(toModule)
    /\ IF toModule /\ Coordinator
       THEN /\ entry.at = "entry_jump" /\ InMemory("entry_jump")
            /\ entry' = [entry EXCEPT !.at = "status_register"]
       ELSE UNCHANGED entry

(* The jump as an observation of its own.                                  *)
EntryJump ==
  /\ entry.at = "entry_jump" /\ InMemory("entry_jump")
  /\ Coordinator => atari.at = "complete" /\ atari.entered
  /\ entry' = [entry EXCEPT !.at = "status_register"] /\ UNCHANGED configVars

(* In supervisor mode the sound chip is written three times, the first     *)
(* address twice, all in one batch: the memory refuses a batch that writes *)
(* a byte twice, and the coordinator the answer with it.                   *)
BatchApplies(mode) == Coordinator => mode = "user"

StatusRegisterModes ==
  {mode \in {"user", "supervisor"} :
     entry.at = "status_register" /\ InMemory("status_register") /\ BatchApplies(mode)}

StatusRegister ==
  \E mode \in StatusRegisterModes :
    /\ entry' = [entry EXCEPT !.at = "selector_26", !.mode = mode]
    /\ UNCHANGED configVars

(* The calls of the system, each needing what the ones before it stored.   *)
SystemCalls ==
  {<<"selector_26", "selector_15">>, <<"selector_15", "selector_2">>,
   <<"selector_2", "selector_3">>, <<"selector_3", "selector_4">>, <<"selector_4", "line_a">>}

EntryService ==
  /\ InMemory(entry.at)
  /\ \E a \in EdgeEnds(SystemCalls, entry.at) : entry' = [entry EXCEPT !.at = a]
  /\ UNCHANGED configVars

(* Mutant: the coordinator does not look at the mark of its own memory.    *)
ComparedAnyhow == BOOLEAN

(* The mark the loader's close left in memory is compared; a test's memory *)
(* may have another.                                                       *)
Compared == IF Coordinator THEN {atari.closed} ELSE BOOLEAN

LineA ==
  /\ entry.at = "line_a" /\ InMemory("line_a")
  /\ \E same \in Compared :
       entry' = [entry EXCEPT !.at = IF same THEN "local_call" ELSE "caller_transfer",
                              !.equal = same]
  /\ UNCHANGED configVars

(* The coordinator goes on through the bytecode in one transaction.        *)
BytecodeCall ==
  /\ entry.at = "local_call" /\ InMemory("local_call") /\ entry.equal
  /\ entry' = [entry EXCEPT !.at = IF Coordinator THEN "crawcin_flag" ELSE "bytecode"]
  /\ UNCHANGED configVars

Bytecode ==
  /\ entry.at = "bytecode"
  /\ entry' = [entry EXCEPT !.at = "crawcin_flag"] /\ UNCHANGED configVars

(* A key that has come ends what is recovered.                             *)
CrawcinFlag ==
  /\ entry.at = "crawcin_flag" /\ InMemory("crawcin_flag")
  /\ \E a \in {"fopen", "key_at_1fc76"} : entry' = [entry EXCEPT !.at = a]
  /\ UNCHANGED configVars

(* The Fopen compares the copied picture with its source, which the        *)
(* bytecode has drawn into since, and its arguments with a stack that none *)
(* of the coordinator's operations writes: only a test's memory has them.  *)
SourceUndrawn == ~Coordinator

EntryFopen ==
  /\ entry.at = "fopen" /\ InMemory("fopen") /\ SourceUndrawn
  /\ entry' = [entry EXCEPT !.at = "fopen_return"] /\ UNCHANGED configVars

(* The return to the Fcreate prepares it; another goes elsewhere.          *)
FopenReturn ==
  /\ entry.at = "fopen_return"
  /\ \E a \in {"fcreate", "returned_elsewhere"} : entry' = [entry EXCEPT !.at = a]
  /\ UNCHANGED configVars

FcreateEdges == {<<"fcreate", "fcreate_return">>, <<"fcreate_return", "fcreated">>}

Fcreate ==
  /\ \E a \in EdgeEnds(FcreateEdges, entry.at) : entry' = [entry EXCEPT !.at = a]
  /\ UNCHANGED configVars

EntryStep ==
  \/ LoaderReturn \/ EntryJump \/ StatusRegister \/ EntryService
  \/ LineA \/ BytecodeCall \/ Bytecode
  \/ CrawcinFlag \/ EntryFopen \/ FopenReturn \/ Fcreate

AtariStep == (ConfigStep /\ UNCHANGED entry) \/ EntryStep

-----------------------------------------------------------------------------
(* The type invariant of the entry.                                        *)
EntryTypeOK ==
  /\ entry.at \in {"entry_jump", "status_register", "line_a", "caller_transfer", "key_at_1fc76",
                   "returned_elsewhere", "fcreated"} \cup NeedsAll \cup Sources(SystemCalls)
  /\ entry.mode \in {"none", "user", "supervisor"} /\ entry.equal \in BOOLEAN

(* The coordinator's module runs only after its loader has returned into   *)
(* it, over the bytes of it that have been read; and the mark its loader   *)
(* left keeps it from the transfer back to the loader's caller.            *)
EntryFollowsLoader ==
  Coordinator /\ entry.at # "entry_jump" =>
    /\ atari.at = "complete" /\ atari.entered /\ atari.closed
    /\ atari.loaded >= PartNeeded("entry_jump")
    /\ entry.at # "caller_transfer"

(* Either privilege the status register shows is an answer the coordinator *)
(* admits: the writes to the sound chip that supervisor mode makes are     *)
(* split where one overwrites another.                                     *)
BothPrivilegesAreAdmitted ==
  entry.at = "status_register" /\ InMemory("status_register")
    => StatusRegisterModes = {"user", "supervisor"}
=============================================================================
