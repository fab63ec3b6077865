---------------------------- MODULE MCInventory ----------------------------
(***************************************************************************)
(* Small projects for TLC.  A netlist view and a library view describe the *)
(* same cell; a package map may stand beside them.                         *)
(***************************************************************************)
EXTENDS Inventory

MCTwoViews == {"rtl.a", "lib.b"}
MCPackageViews == {"rtl.a", "lib.b", "csv.k"}
MCPlainKey == [v \in MCPackageViews \cup {"lib.c"} |-> v]

MCAlias(canonical, native, rank, views) ==
    [kind |-> "component", component |-> "", canonical |-> canonical,
     native |-> native, rank |-> rank, views |-> views]

(* A library calls the cell "n"; a table says so for its view and the other *)
(* way round for the others, or says it twice in disagreement.              *)
MCAliasTables ==
    {{},
     {MCAlias("m", "n", 0, {"lib.b"}), MCAlias("n", "m", 3, MCTwoViews)},
     {MCAlias("m", "n", 2, {"lib.b"}), MCAlias("n", "n", 2, {"lib.b"})}}

(* The library need not have "m", and then must. *)
MCParticipation ==
    <<[comps |-> {"n"}, views |-> {"rtl.a"}, optional |-> {"lib.b"}, roles |-> {"pg"}],
      [comps |-> {"m"}, views |-> {"lib.b"}, optional |-> {}, roles |-> {}]>>

MCIntact == {<<TRUE, {}>>}
MCDamage == {<<TRUE, {}>>, <<FALSE, {}>>, <<FALSE, {"m"}>>}

(* A cell "m" with two ports, seen alike by every view. *)
MCAlike(views) == [v \in views |-> [c \in {"m"} |-> {"p", "q"}]]

MCPackaged ==
    [views |-> MCPackageViews, ports |-> {"p", "q"}, strict |-> FALSE,
     initial |-> MCAlike(MCPackageViews), aliases |-> {{}},
     participation |-> MCParticipation, damage |-> MCIntact]

MCAliased ==
    [views |-> MCTwoViews, ports |-> {"p"}, strict |-> TRUE,
     initial |-> [v \in MCTwoViews |-> [c \in {IF v = "lib.b" THEN "n" ELSE "m"} |-> {"p"}]],
     aliases |-> MCAliasTables, participation |-> << >>, damage |-> MCDamage]

(* A rule exempts a view from its ports, which a contract may still name. *)
MCThreeViews == {"rtl.a", "lib.b", "lib.c"}

MCExempted ==
    [views |-> MCThreeViews, ports |-> {"p"}, strict |-> FALSE,
     initial |-> [v \in MCThreeViews |-> [c \in {"m"} |-> {"p"}]], aliases |-> {{}},
     participation |-> <<[comps |-> {"m"}, views |-> {}, optional |-> {"lib.c"},
                          roles |-> {}]>>,
     damage |-> MCIntact]

MCProjects == {MCPackaged, MCAliased, MCExempted}

MCDamaged ==
    {[views |-> MCTwoViews, ports |-> {"p", "q"}, strict |-> TRUE,
      initial |-> MCAlike(MCTwoViews), aliases |-> {{}},
      participation |-> << >>, damage |-> MCDamage]}
=============================================================================
