--------------------------- MODULE MCPluginRegistry ---------------------------
(***************************************************************************)
(* Values of the constants of PluginRegistry: the configuration names the  *)
(* window and a counter, and the user may load an echoecho, under the      *)
(* counter's name.                                                         *)
(***************************************************************************)
EXTENDS PluginRegistry

CONSTANTS gui, counter, echo

MCConfig == <<gui, counter>>
MCName   == [p \in {gui, counter, echo} |-> IF p = echo THEN counter ELSE p]
=============================================================================
