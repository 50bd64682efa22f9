------------------------------ MODULE MCUpgrades ------------------------------
(***************************************************************************)
(* Computers on which every strategy and every outcome of the check occurs.*)
(***************************************************************************)
EXTENDS Upgrades

With(tools, build) == [t \in Tools |-> IF t \in tools THEN build ELSE Build(0, "release")]
Listed(tools, artifacts) == [t \in Tools |-> IF t \in tools THEN artifacts ELSE {}]
Paths(tools, kind) == [t \in Tools |-> IF t \in tools THEN kind ELSE "none"]

Linux ==
    [windows |-> FALSE, beta |-> FALSE, manager |-> TRUE, answers |-> TRUE, shadowed |-> FALSE,
     listed |-> Listed({}, {}), active |-> Paths({}, "none"), tools |-> With({}, Nothing)]
Windows == [Linux EXCEPT !.windows = TRUE, !.shadowed = TRUE]
Brewed(tools, artifacts, kind) ==
    [Linux EXCEPT !.listed = Listed(tools, artifacts), !.active = Paths(tools, kind)]

MCMachines ==
    {Linux, Windows,
     [Linux EXCEPT !.tools = With({Product, "engram"}, Build(2, "release"))],
     [Linux EXCEPT !.tools = [With({"plugin"}, Build(0, "registered")) EXCEPT !["gga"] = Build(0, "odd")]],
     [Linux EXCEPT !.answers = FALSE, !.tools = With({Product}, Build(0, "main"))],
     [Linux EXCEPT !.beta = TRUE, !.tools = With({"engram"}, Build(0, "dev"))],
     [Windows EXCEPT !.beta = TRUE, !.manager = FALSE,
                     !.tools = [With({Product}, Build(0, "main")) EXCEPT !["gga"] = Nothing]],
     Brewed({Product, "engram"}, {"formula", "cask"}, "formula"),
     Brewed({Product, "gga"}, {"cask"}, "cask"),
     Brewed({"engram"}, {"formula"}, "none")}

OneComputer == {Linux}
BetaComputer == {[Linux EXCEPT !.tools = With({Product}, Build(0, "main"))]}
=============================================================================
