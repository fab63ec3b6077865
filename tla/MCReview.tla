------------------------------ MODULE MCReview ------------------------------
(***************************************************************************)
(* Small projects for TLC: a warning and two variants of one error, a      *)
(* fatal finding of a rule that is no fatal one, an error reported under a *)
(* fatal rule, and policies with overrides and dated waivers; one of them  *)
(* makes a rule fatal whose findings its waiver would hide.                *)
(***************************************************************************)
EXTENDS Review, Sequences

MCFinding ==
    {[code |-> "OC3101", object |-> "p", severity |-> "error", detail |-> 1],
     [code |-> "OC3101", object |-> "p", severity |-> "error", detail |-> 2],
     [code |-> "OC1104", object |-> "v", severity |-> "warning", detail |-> 1],
     [code |-> "OC1104", object |-> "v", severity |-> "fatal", detail |-> 1],
     [code |-> "OC1101", object |-> "v", severity |-> "error", detail |-> 1]}

Waiver(codes, expires) == [codes |-> codes, objects |-> {"p", "v"}, expires |-> expires]

Policy(overrides, waivers, deny) ==
    [overrides |-> overrides, waivers |-> waivers, denyWarnings |-> deny]

MCNever == LastDay + 1

MCPolicies ==
    {Policy(<< >>, << >>, FALSE),
     Policy([c \in {"OC3101"} |-> "info"], << >>, TRUE),
     Policy([c \in {"OC1104"} |-> "error"],
            <<Waiver({"OC3101", "OC1104", "OC1101"}, 0), Waiver({"OC3101"}, MCNever)>>, FALSE),
     Policy([c \in {"OC1104", "OC1101"} |-> "fatal"],
            <<Waiver({"OC3101", "OC1104", "OC1101"}, 1)>>, FALSE)}
=============================================================================
