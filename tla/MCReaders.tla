----------------------------- MODULE MCReaders -----------------------------
EXTENDS Readers

MCItems == {<<"sref", "A">>, <<"sref", "B">>, <<"aref", "B">>,
            <<"text", "t", 1>>, <<"text", "u", 2>>, <<"geometry", "g">>, <<"odd", "o">>}

MCContents(n) == BoundedSeq(MCItems, n)

MCCell(n, items) == [name |-> n, items |-> items]

MCGdsLibraries ==
    {<<MCCell("A", a)>> : a \in MCContents(2)}
    \cup {<<MCCell("A", a), MCCell(b, x)>> : b \in {"A", "B"}, a \in MCContents(1), x \in MCContents(1)}
-----------------------------------------------------------------------------
(* SDC: the ports a1 and a2, the pattern a*, the variable x *)

MCSdcMatches == [n \in {"a*"} |-> {"a1", "a2"}]

MCLit(items) == [form |-> "lit", items |-> items]
MCVar == [form |-> "var", name |-> "x"]
MCJoin == [form |-> "join", prefix |-> "a", name |-> "x"]
MCCall == [form |-> "call"]
MCArray == [form |-> "array"]
MCGet(w, filtered) == [form |-> "get", of |-> w, filtered |-> filtered]
MCList(w) == [form |-> "list", of |-> w]

MCGet1 == MCGet(MCLit(<<"a1">>), FALSE)
MCGetStar == MCGet(MCLit(<<"a*">>), FALSE)
MCGetVar == MCGet(MCVar, FALSE)

MCSet(w) == [type |-> "set", name |-> "x", word |-> w]

MCSetPlain ==
    {MCSet(w) : w \in {MCLit(<<"a1">>), MCLit(<<"a1", "a2">>), MCLit(<<"a*">>), MCCall, MCArray, MCJoin,
                       MCList(MCLit(<<"a1">>)), MCList(MCVar), None}}

MCSetCollection == {MCSet(MCGet1), MCSet(MCGetStar), MCSet(MCGetVar)}

MCUnset == {[type |-> "unset", name |-> n] : n \in {"x", None}}

MCOther == {[type |-> "opaque"], [type |-> "unbalanced"]}

MCClock(type, name, source, targets, number) ==
    [type |-> type, name |-> name, source |-> source, targets |-> targets,
     number |-> number]

MCUses ==
    {MCClock("create_clock", n, None, t, TRUE) :
        n \in {None, MCLit(<<"c">>)},
        t \in {None, MCVar, MCGetVar, MCGetStar, MCGet(MCLit(<<"a1", "a2">>), FALSE),
               MCGet(MCJoin, FALSE), MCLit(<<"a1">>), MCGet(MCVar, TRUE)}}
    \cup {MCClock("create_clock", MCVar, None, MCGet1, TRUE),
          MCClock("create_clock", MCLit(<<"c">>), None, MCGet1, FALSE)}
    \cup {MCClock("create_generated_clock", MCLit(<<"c">>), s, t, TRUE) :
             s \in {None, MCVar, MCGetVar, MCGetStar}, t \in {None, MCGetVar, MCGet1}}
    \cup {[type |-> "set_delay", id |-> "d", number |-> TRUE, targets |-> t, clock |-> c] :
             t \in {None, MCVar, MCGetVar, MCGetStar}, c \in {MCLit(<<"c">>), MCGetVar}}
    \cup {[type |-> "path", id |-> "p", number |-> b, from |-> f, to |-> t] :
             b \in BOOLEAN, f \in {MCVar, MCGetVar, MCGet1}, t \in {MCVar, MCGetStar}}

MCSets == MCSetPlain \cup MCSetCollection

MCSdcAll ==
    {<<s, m, u>> : s \in MCSets, m \in MCSets \cup MCUnset \cup MCOther, u \in MCUses}
    \cup {<<s, u>> : s \in MCSetCollection, u \in MCUses}
    \cup {<<s, u, m>> : s \in {MCSet(MCLit(<<"a1">>))}, u \in MCUses, m \in MCOther}

MCSdcScripts == {s \in MCSdcAll : SdcScript(s) /\ ~Requeries(s) /\ ~TakesPatterns(s)}

(* A path exception whose objects a variable names, the result of a query.  *)
MCSdcCollections ==
    {<<s, u>> : s \in MCSetCollection, u \in {x \in MCUses : x.type = "path"}}
-----------------------------------------------------------------------------
(* UPF: the domain PD, the port p, the net S, the instances u and v, the pin v/a *)

MCUpfRooted == "/S" :> "S"

MCIs(n) == [items |-> <<n>>, dynamic |-> FALSE]
MCList2(a, b) == [items |-> <<a, b>>, dynamic |-> FALSE]
MCSubst(n) == [items |-> <<n>>, dynamic |-> TRUE]
MCFlag == [items |-> << >>, dynamic |-> TRUE]

MCUpf(type, words, args) ==
    [type |-> type, words |-> words, args |-> args, odd |-> FALSE, torn |-> FALSE]

MCOpt(o, word) == o :> <<word>>

MCNames(n) == {<<MCIs(n)>>, <<MCSubst(n)>>}

(* A name behind a flag that is computed.  No supply port is named so: its *)
(* loss would be put down to the port, and the component it is a port of   *)
(* would seem complete.                                                    *)
MCFlagged(n) == <<MCFlag, MCIs(n)>>

MCEnter == MCUpf("set_scope", <<MCIs("u")>>, << >>)

MCLeave == MCUpf("set_scope", <<MCIs("/")>>, << >>)

MCUpfPlain ==
    {MCUpf("set_design_top", w, << >>) : w \in MCNames("top") \cup {<<MCIs("top2")>>, << >>}}
    \cup {MCUpf("set_scope", w, << >>) : w \in MCNames("u") \cup {<<MCIs("/")>>, << >>}}
    \cup {MCUpf("create_power_domain", n, MCOpt("elements", w)) :
             n \in MCNames("PD") \cup {MCFlagged("PD")}, w \in {MCIs("v"), MCSubst("v")}}
    \cup {MCUpf("create_supply_port", <<MCIs("p")>>, MCOpt("direction", w)) :
             w \in {MCIs("in"), MCIs("out"), MCIs("sideways"), MCSubst("out")}}
    \cup {MCUpf("create_supply_port", <<MCSubst("p")>>, MCOpt("domain", MCIs("PD"))),
          MCUpf("create_supply_net", <<MCIs("S")>>, MCOpt("domain", MCSubst("PD"))),
          MCUpf("create_supply_net", <<MCIs("/S")>>, << >>)}
    \cup {MCUpf("create_supply_set", <<MCIs("PD")>>, MCOpt("function", w)) :
             w \in {MCList2("power", "S"), MCIs("power"), MCSubst("power"),
                    [items |-> << >>, dynamic |-> FALSE]}}

MCUpfLinks ==
    {MCUpf("connect_supply_net", n, a) :
        n \in {<<MCIs("S")>>, MCFlagged("S")},
        a \in {MCOpt("ports", MCList2("p", "v/a")), MCOpt("pins", MCIs("v/a")),
               MCOpt("ports", MCSubst("p")), << >>}}
    \cup {MCUpf("set_domain_supply_net", <<MCIs("PD")>>, MCOpt(o, w)) :
             o \in {"primary_power_port", "primary_ground_port", "primary_power_net"},
             w \in {MCIs("p")} \cup {MCSubst("p")}}
    \cup {MCUpf("set_isolation", <<MCIs("I")>>, MCOpt("isolation_signal", w)) :
             w \in {MCList2("v/a", "high"), MCSubst("v/a")}}
    \cup {MCUpf("create_power_switch", <<MCIs("W")>>,
                MCOpt("input_supply_port", MCList2("VIN", "S"))
                @@ MCOpt("control_port", MCList2("C", "v/a")))}
    \cup {MCUpf(t, <<MCIs("PD")>>, a) :
             t \in {"add_port_state", "add_power_state"},
             a \in {MCOpt("state", MCList2("on", "1")), MCOpt("state", MCSubst("on")), << >>}}

MCUpfOdd ==
    {[MCUpf("create_power_domain", <<MCIs("PD")>>, MCOpt("elements", MCIs("v")))
        EXCEPT !.odd = TRUE],
     [MCUpf("create_supply_net", <<MCIs("S")>>, MCOpt("domain", MCSubst("PD")))
        EXCEPT !.torn = TRUE],
     MCUpf("upf_version", <<MCIs("2.1")>>, << >>),
     MCUpf("opaque", << >>, << >>)}

MCUpfCommands == MCUpfPlain \cup MCUpfLinks \cup MCUpfOdd

(* The options of strategies and switches, one at a time. *)
MCUpfOptions ==
    {MCUpf(x[1], <<MCIs("I")>>, MCOpt(x[2], MCIs("S"))) :
        x \in ({"set_isolation", "set_isolation_control"}
                  \X {"domain", "isolation_power_net", "isolation_ground_net"})
             \cup ({"set_retention", "set_retention_control"}
                  \X {"retention_power_net", "retention_ground_net"})
             \cup ({"set_level_shifter"} \X {"input_supply_set", "output_supply_set"})}
    \cup
    {MCUpf(x[1], <<MCIs("I")>>, MCOpt(x[2], MCList2("v", "S"))) :
        x \in ({"set_isolation_control"} \X {"isolation_signal"})
             \cup ({"set_retention", "set_retention_control"} \X {"save_signal", "restore_signal"})
             \cup ({"set_level_shifter"} \X {"elements", "exclude_elements"})
             \cup ({"create_power_switch"} \X {"output_supply_port", "control_port"})}

(* Inside the instance u, and back at the top. *)
MCUpfInside ==
    {<<MCEnter, a>> : a \in MCUpfOptions}
    \cup
    {<<MCEnter, MCUpf("create_power_domain", <<MCIs("PD")>>, MCOpt("elements", MCList2(".", "v"))), b>> :
        b \in MCUpfCommands}
    \cup {<<MCEnter, a, MCLeave, b>> : a \in MCUpfPlain, b \in MCUpfLinks}

(* What the adapter does not tell from commands at the top: a supply port, *)
(* or a reference to one of the top's, in a scope; a scope in a scope; and *)
(* a power state of an object that only another scope has defined.         *)
MCScopedPort(s) ==
    \E i, j \in DOMAIN s :
        /\ i < j
        /\ s[i] = MCEnter
        /\ \A k \in i+1..j-1 : s[k] # MCLeave
        /\ \/ s[j].type \in {"create_supply_port", "set_domain_supply_net"}
           \/ s[j].type = "set_scope" /\ s[j] # MCLeave

MCForeignState(s) ==
    \E i, j \in DOMAIN s :
        /\ i < j
        /\ s[i].type \in {"create_power_domain", "create_supply_set"}
        /\ s[j].type = "add_power_state"
        /\ \E k \in i+1..j-1 : s[k] \in {MCEnter, MCLeave}

MCUpfScripts ==
    {s \in {<<a, b>> : a \in MCUpfCommands, b \in MCUpfCommands}
           \cup {<<MCUpf("set_design_top", <<MCIs("top")>>, << >>), a, b>> :
                    a \in MCUpfPlain, b \in MCUpfCommands}
           \cup MCUpfInside
         : ~MCScopedPort(s) /\ ~MCForeignState(s)}
-----------------------------------------------------------------------------
(* CDL: the subcircuits A (or a) and B, the pin p, the nets q and Q *)

MCCdlCaps == "a" :> "A" @@ "Q" :> "q"

MCLine(type) ==
    [type |-> type, name |-> None, pins |-> << >>, nodes |-> << >>, master |-> None,
     params |-> << >>, names |-> << >>, value |-> None, ok |-> TRUE, torn |-> FALSE]

MCParam(v) == [name |-> "w", value |-> v]

MCSubckt(n, pins, params) ==
    [MCLine("subckt") EXCEPT !.name = n, !.pins = pins, !.params = params]

MCEnds(n) == [MCLine("ends") EXCEPT !.name = n]

MCX(n, nodes, master, ok) ==
    [MCLine("instance") EXCEPT !.name = n, !.nodes = nodes, !.master = master, !.ok = ok]

MCPinWord(p, d, r) == [name |-> p, direction |-> d, role |-> r]

MCPins(pins) == [MCLine("pins") EXCEPT !.pins = pins]

MCSubckts == {MCSubckt("A", <<"p", "q">>, << >>), MCSubckt("a", <<"p">>, <<MCParam(1)>>),
              MCSubckt("B", <<"p", "p">>, << >>), MCSubckt(None, << >>, << >>)}

MCDevice == [MCLine("device") EXCEPT !.name = "D1"]

MCBody ==
    {MCX("X1", <<"p", "Q">>, "A", TRUE), MCX("X1", <<"p">>, None, FALSE), MCDevice,
     [MCX("X2", <<"q">>, "m", TRUE) EXCEPT !.torn = TRUE]}
    \cup {MCPins(<<MCPinWord("p", d, r)>>) :
             d \in {None, "input", "output"}, r \in {None, "power"}}
    \cup {MCPins(<< >>), MCPins(<<MCPinWord("q", "input", None)>>),
          MCPins(<<MCPinWord("p", "input", None), MCPinWord("p", None, "power")>>)}
    \cup {[MCLine("param") EXCEPT !.params = <<MCParam(v)>>] : v \in {1, 2, None}}
    \cup {[MCLine("global") EXCEPT !.names = n] : n \in {<<"q">>, <<"Q", "q">>, << >>}}
    \cup {[MCLine("model") EXCEPT !.name = n, !.value = v] : n \in {"m", None}, v \in {1, 2}}
    \cup {MCLine("opaque"), MCLine("end"), [MCLine("loose") EXCEPT !.pins = <<"r">>]}

MCCdlLines == MCBody \cup MCSubckts \cup {MCEnds(n) : n \in {None, "a", "B"}} \cup {MCLine("file")}

(* A subcircuit inside another that nothing closes: either may be the one *)
(* that lacks its .ENDS.                                                  *)
MCCount(lines, types) ==
    Cardinality({i \in DOMAIN lines :
                   /\ lines[i].type \in types
                   /\ lines[i].type = "subckt" => lines[i].name # None})

MCDepth(lines) == MCCount(lines, {"subckt"}) - MCCount(lines, {"ends", "end", "file"})

MCUnbalanced(lines) ==
    /\ MCCount(lines, {"subckt"}) > MCCount(lines, {"ends"})
    /\ \E i \in DOMAIN lines : MCDepth(SubSeq(lines, 1, i)) > 1

(* An unsupported element outside every subcircuit of a netlist without a *)
(* title: the adapter takes it for the title.                             *)
MCTitled(lines) ==
    /\ lines[1].type # "title"
    /\ \E i \in DOMAIN lines :
          /\ lines[i].type = "device"
          /\ MCDepth(SubSeq(lines, 1, i)) <= 0

MCOpen == MCSubckt("A", <<"p", "q">>, << >>)

MCAfter ==
    MCSubckts \cup {MCX("X1", <<"p", "Q">>, "A", TRUE), MCDevice, MCEnds(None), MCLine("opaque"),
                    [MCLine("param") EXCEPT !.params = <<MCParam(2)>>]}

MCCdlFiles ==
    {f \in {<<MCOpen, x, y, MCEnds("A"), z>> : x \in MCBody, y \in MCCdlLines, z \in MCAfter}
           \cup {<<MCLine("title"), x, y, z>> : x \in MCCdlLines, y \in MCSubckts,
                                                z \in MCCdlLines}
           \cup {<<MCOpen, MCEnds(None), MCLine("file"), y, MCEnds(None)>> : y \in MCSubckts}
       : ~MCTitled(f) /\ ~MCUnbalanced(f)}
-----------------------------------------------------------------------------
(* DEF: the design top, the instance u, the pin p, the net n *)

MCSec(n, count, entries) == [name |-> n, count |-> count, entries |-> entries]

MCComp(n, m) == [DefNamed("component", n) EXCEPT !.macro = m]

MCComps ==
    {<<MCComp("u", "M")>>, <<MCComp("u", None)>>, <<MCComp("u", "M"), MCComp("u", "K")>>,
     <<[MCComp("u", "M") EXCEPT !.odd = TRUE]>>,
     <<[MCComp("u", "M") EXCEPT !.placement = "bad"]>>,
     <<[MCComp("u", "M") EXCEPT !.placement = "read", !.placements = 2]>>}

MCPin(n, bit, net, d, use) ==
    [DefNamed("pin", n) EXCEPT !.bit = bit, !.net = net, !.direction = d, !.use = use]

MCPinLists ==
    {<<MCPin("p", None, net, d, use)>> :
        net \in {None, "n", "odd"}, d \in {None, "in", "odd"}, use \in {None, "power"}}
    \cup {<<MCPin("p", "0", None, "in", None), MCPin("p", b, net, d, use)>> :
             b \in {None, "0", "1"}, net \in {None, "n"}, d \in {"in", "out"}, use \in {None, "power"}}
    \cup {<<MCPin(None, None, None, None, None)>>,
          <<[MCPin("p", None, None, None, None) EXCEPT !.odd = TRUE]>>}

MCEndOf(i, pin, bit) == [instance |-> i, pin |-> pin, bit |-> bit]

MCNetOf(n, ends, use) == [DefNamed("net", n) EXCEPT !.ends = ends, !.use = use]

MCNetLists ==
    {<<MCNetOf("n", e, u)>> :
        e \in {<<MCEndOf("PIN", "p", None)>>, <<MCEndOf("u", "A", None), MCEndOf("PIN", "p", "0")>>,
               <<MCEndOf("*", "A", None), MCEndOf("u", None, None)>>},
        u \in {None, "power", "odd"}}
    \cup {<<MCNetOf("n", <<MCEndOf("PIN", "p", None)>>, None),
            MCNetOf(x, <<MCEndOf("PIN", "p", None)>>, "power")>> : x \in {"n", "m", None}}

MCLayout(sections, rest) == [name |-> "top", sections |-> sections, rest |-> rest]

MCSpecial == MCSec("SPECIALNETS", 1, <<MCNetOf("n", << >>, "power")>>)

MCDefDesigns ==
    {MCLayout(<<MCSec("COMPONENTS", IF c THEN Len(e) ELSE None, e), MCSec("NETS", 1, x)>>, << >>) :
        c \in BOOLEAN, e \in MCComps,
        x \in {<<MCNetOf("n", <<MCEndOf("u", "A", None)>>, None)>>}}
    \cup {MCLayout(<<MCSec("PINS", Len(p), p), MCSec("NETS", Len(x), x)>>, << >>) :
             p \in MCPinLists, x \in MCNetLists}
    \cup {MCLayout(<<MCSec("VIAS", Len(e), e), MCSpecial, MCSec("PINS", 1, p)>>, << >>) :
             e \in {<< >>, <<DefNamed("net", "v")>>},
             p \in {<<MCPin("p", None, None, "in", None)>>}}
    \cup {MCLayout(<<MCSec("PROPERTYDEFINITIONS", None, e), MCSpecial>>, << >>) :
             e \in {<< >>, <<DefNamed("net", "v")>>}}
    \cup {MCLayout(<<MCSec("VIAS", c, <<DefNamed("net", "v")>>), MCSpecial>>, r) :
             c \in {None, 1},
             r \in {<<>>, <<DefLine("extension")>>, <<DefLine("unknown")>>,
                    <<DefNamed("design", "top"), DefNamed("design", "other")>>,
                    <<DefNamed("design", None)>>, <<[DefLine("extension") EXCEPT !.ok = FALSE]>>}}
=============================================================================
