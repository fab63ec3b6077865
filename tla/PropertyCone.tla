----------------------------- MODULE PropertyCone -----------------------------
(***************************************************************************)
(* sequential_cone.py: the part of a circuit that a property depends on, and *)
(* the extension of a trace of that part to the whole circuit.                *)
(***************************************************************************)
EXTENDS TransitionIR

Required(p) ==
    {p.sink} \cup {g.signal : g \in p.when} \cup (IF p.source = "" THEN {} ELSE {p.source})

Roots(c) == c.next @@ c.comb

\* Mutant: signals that the read signals depend on are forgotten.
ClosureOnce(c, pending, signals) ==
    pending \cup UNION {ReadBy(c.nodes, Roots(c)[n]) : n \in pending \cap DOMAIN Roots(c)}

\* Nodes and signals below the signals, up to a fixed point over the state.
RECURSIVE Closure(_, _, _)
Closure(c, pending, signals) ==
    IF pending = {} THEN signals
    ELSE LET n == CHOOSE m \in pending : TRUE
             reads == IF n \in DOMAIN Roots(c) THEN ReadBy(c.nodes, Roots(c)[n]) ELSE {}
         IN  Closure(c, (pending \cup reads) \ (signals \cup {n}), signals \cup {n})

\* Every primary input stays; nodes are added again in their order.
ConeCircuit(c, p) ==
    LET closed == Closure(c, Required(p), {})
        kept == UNION {ConeOf(c.nodes, Roots(c)[n]) : n \in closed \cap DOMAIN Roots(c)}
        signals == closed \cup c.inputs
        Copy(r, i) ==
            IF i \notin kept THEN r
            ELSE LET n == c.nodes[i]
                     args == [j \in DOMAIN n.args |-> r.remap[n.args[j]]]
                     s == AddNode(r.circuit, [n EXCEPT !.args = args])
                 IN  [circuit |-> s, remap |-> (i :> s.out) @@ r.remap]
        copied == FoldLeftDomain(Copy, [circuit |-> NewCircuit(Restrict(c.signals, signals), c.inputs),
                                        remap |-> <<>>], c.nodes)
        Moved(roots) == [n \in DOMAIN roots \cap signals |-> copied.remap[roots[n]]]
    IN  Finalize([copied.circuit EXCEPT !.next = Moved(c.next), !.comb = Moved(c.comb)])

\* expand_trace: omitted registers start as zero and follow their equations.
RECURSIVE Expanded(_, _, _)
Expanded(c, trace, t) ==
    LET before == Expanded(c, trace, t - 1)
        states == IF t = 1 THEN [r \in DOMAIN c.next |->
                                    IF r \in DOMAIN trace[1] THEN trace[1][r] ELSE 0]
                  ELSE Updated(c, Last(before))
        frame == Observed(c, Restrict(trace[t], c.inputs) @@ states)
    IN  IF t = 1 THEN <<frame>> ELSE Append(before, frame)

ExpandTrace(c, trace) == Expanded(c, trace, Len(trace))
=============================================================================
