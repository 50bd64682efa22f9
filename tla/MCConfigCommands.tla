--------------------------- MODULE MCConfigCommands ---------------------------
(***************************************************************************)
(* Small instances of ConfigCommands.                                      *)
(***************************************************************************)
EXTENDS ConfigCommands, TLC

CONSTANTS p1, p2, a, b

MCInstall == [prepare |-> <<"dependencies", "snapshot">>,
              apply   |-> <<"restore", "first", "second">>]

MCSync == [prepare |-> <<"snapshot">>,
           apply   |-> <<"restore", "first", "guidance", "second">>]

MCSteps == {"dependencies", "snapshot", "restore", "guidance", "first", "second"}

MCReversible == {"restore", "guidance"}

MCPlans == {MCInstall, MCSync}

MCPolicies == {"StopOnError", "ContinueOnError"}

Everything == {Path}

Contents == Permutations(Content)
================================================================================
