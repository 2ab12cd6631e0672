--------------------------- MODULE MCDomainRouting ---------------------------
(* Instances of DomainRouting for TLC.                                     *)
EXTENDS DomainRouting, TLC

CONSTANTS d1

Whitelist == [NoRules EXCEPT !.listMode = "whitelist", !.domains = {d1}]

Symmetry == Permutations(Tunnels)

TwoRuleSets == {NoRules, Whitelist}

OnOff == {"off", "strict"}
AllModes == Modes

\* The file of a first start, and one an earlier session may have left.
FirstStart == {ZeroConfig}
WhitelistFile == {[ZeroConfig EXCEPT !.mode = "relaxed", !.rules = Whitelist]}

\* The faults under which the selected tunnel, the mode and the saved servers
\* are respected and every route and redirection is on record.
QuietFaults == {"activationFails", "noDefaultRoute", "dnsFails", "addFails",
                "routeLoss", "portBusy"}
NoFaults == {}
==============================================================================
