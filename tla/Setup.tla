--------------------------------- MODULE Setup ---------------------------------
(***************************************************************************)
(* What the command does before the coordinator runs, and what a poll cycle*)
(* and the document then make of it: the configuration is loaded, the      *)
(* catalog is loaded, a group of it is read.  A refusal of either ends the *)
(* process.  The entities, topics and routes of module Document are        *)
(* functions of what was loaded.                                           *)
(***************************************************************************)
EXTENDS Config, ReadGroup, Document

CONSTANT Setups  \* pairs of sources and a catalog file

ASSUME SetupAssumption == Setups \subseteq (Sources \X Files)

catalogVars == vars

SetupInit ==
    /\ \E s \in Setups : source = s[1] /\ file = s[2]
    /\ ConfigInit /\ Init /\ ReadInit

\* loadConfig comes first; loadCatalog is not reached without a configuration.
LoadConfig ==
    ConfigNext /\ UNCHANGED <<catalogVars, readVars>>

LoadCatalog ==
    loaded = "accepted" /\ Parse /\ UNCHANGED <<configVars, readVars>>

Cycle ==
    loaded = "accepted" /\ ReadNext /\ UNCHANGED <<configVars, catalogVars>>

SetupNext == LoadConfig \/ LoadCatalog \/ Cycle

SetupSpec == SetupInit /\ [][SetupNext]_<<configVars, catalogVars, readVars>>
=============================================================================
