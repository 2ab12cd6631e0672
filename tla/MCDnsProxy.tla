----------------------------- MODULE MCDnsProxy -----------------------------
(* Instances of DnsProxy for TLC.                                          *)
EXTENDS DnsProxy, TLC

CONSTANTS d1, d2, a, b

Whitelist == [NoRules EXCEPT !.listMode = "whitelist", !.domains = {d1}]
DirectOnly == [NoRules EXCEPT !.direct = {d1}]
WhitelistBlock == [Whitelist EXCEPT !.block = {d2}]

WhitelistOnly == {Whitelist}
BlockRuleSets == {WhitelistBlock, DirectOnly}

StrictWhitelist == {[ZeroConfig EXCEPT !.mode = "strict", !.rules = Whitelist]}

StrictBlock == {[ZeroConfig EXCEPT !.mode = "strict", !.rules = WhitelistBlock]}

\* d1 has two addresses, d2 shares one of them.
Shared == (d1 :> {a, b}) @@ (d2 :> {b})

StrictRelaxed == {"strict", "relaxed"}

Symmetry == Permutations(Queries)

LossFaults == {"addFails", "routeLoss"}
CrashFaults == {"addFails", "noDefaultRoute", "crash", "fileEdit"}
==============================================================================
