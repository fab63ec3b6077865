------------------------------- MODULE Ports -------------------------------
(***************************************************************************)
(* The values of one canonical port (engine.py): its direction, its role   *)
(* and its shape as the views report them, compared across the views and   *)
(* with the contract, and what the contract freezes of them.               *)
(***************************************************************************)
EXTENDS Comparing

CONSTANT ScalarVectorEquivalent   \* policy.scalar_vector_equivalent

ASSUME PortsAssumption ==
    /\ ScalarVectorEquivalent \in BOOLEAN
    /\ "ports" \in DOMAIN Authority

-----------------------------------------------------------------------------
(* Shapes (model.py): declared ranges <<left, right>> or listed bits. *)

RangeWidth(r) == IF r[1] > r[2] THEN r[1] - r[2] + 1 ELSE r[2] - r[1] + 1

RangeIndices(r) ==
    [i \in 1..RangeWidth(r) |-> IF r[1] > r[2] THEN r[1] - i + 1
                                               ELSE r[1] + i - 1]

BusShape(width, packed, unpacked, bits) ==
    LET derived == IF packed # << >>
                     THEN FoldLeft(LAMBDA n, r : n * RangeWidth(r), 1, packed)
                   ELSE IF bits # << >> THEN Cardinality(Range(bits))
                   ELSE None
        total == IF width = None THEN derived ELSE width
    IN  [width |-> total, packed |-> packed, unpacked |-> unpacked,
         bits |-> bits,
         scalar |-> IF total = 1 THEN packed = << >> /\ bits = << >> ELSE None]

UnknownShape == BusShape(None, << >>, << >>, << >>)

OrderedIndices(shape) ==
    IF shape.bits # << >> THEN shape.bits
    ELSE IF Len(shape.packed) = 1 THEN RangeIndices(shape.packed[1])
    ELSE None

HasDuplicateBits(shape) == Len(shape.bits) # Cardinality(Range(shape.bits))

HasBitGap(shape) ==
    LET unique == SetToSortSeq(Range(shape.bits), <)
    IN  /\ Len(unique) > 1
        /\ unique # [i \in 1..Len(unique) |-> unique[1] + i - 1]

(* What a shape says beyond its width; None when it says nothing. *)
ShapeStructure(shape) ==
    LET ordered == OrderedIndices(shape)
    IN  IF ordered # None THEN <<"ordered", ordered, shape.unpacked>>
        ELSE IF shape.packed # << >>
          THEN <<"dimensions", shape.packed, shape.unpacked>>
        ELSE IF shape.unpacked # << >>
          THEN <<IF shape.scalar = TRUE THEN "scalar" ELSE "unspecified",
                 << >>, shape.unpacked>>
        ELSE None

-----------------------------------------------------------------------------
(* What the views report of the port: [views -> port or None], a port with *)
(* its status, its values, and the states its adapter gave them.           *)

Given(field, value) ==
    IF field = "shape" THEN value.width # None ELSE value # None

(* PortObservation.state_for. *)
StateFor(port, field) ==
    IF port.status # "known" THEN port.status
    ELSE IF port.states[field] # None THEN port.states[field]
    ELSE IF Given(field, port[field]) THEN "known" ELSE "unknown"

Reporting(ports) == {v \in Views : ports[v] # None}

\* Mutant: a value the adapter marked as tainted is compared.
AnyState(ports, field) ==
    {v \in Reporting(ports) : Given(field, ports[v][field])}

(* The views whose value of the field may be compared. *)
Stating(ports, field) ==
    {v \in Reporting(ports) : /\ StateFor(ports[v], field) = "known"
                              /\ Given(field, ports[v][field])}

(* The compared values, each with its view: the frozen one is a value of a *)
(* view of its own.                                                        *)
FieldValues(ports, frozen, field) ==
    {<<v, ports[v][field]>> : v \in Stating(ports, field)}
      \cup IF frozen # None /\ Given(field, frozen[field])
             THEN {<<ContractView, frozen[field]>>}
             ELSE {}

Values(pairs) == {pair[2] : pair \in pairs}

(* The statement order of individually listed pins declares no bus order. *)
OrderKnown(ports, v) == v = ContractView \/ ports[v].orderKnown

-----------------------------------------------------------------------------
(* The findings *)

RoleCode(roles) ==
    IF {"power", "ground"} \subseteq roles THEN "OC4203"
    ELSE IF roles \cap {"clock", "reset"} # {} THEN "OC4204"
    ELSE "OC4201"

(* The same indices in another order, and nothing else. *)
RangeOrderOnly(structured) ==
    LET shapes == Values(structured)
        indices == {OrderedIndices(s) : s \in shapes}
    IN  /\ None \notin indices
        /\ Differ(indices)
        /\ ~Differ({Range(i) : i \in indices})
        /\ ~Differ({s.unpacked : s \in shapes})

StructureFindings(ports, shapes) ==
    LET structured == {p \in shapes : ShapeStructure(p[2]) # None}
        orderOnly == RangeOrderOnly(structured)
    IN  IF ~Differ({ShapeStructure(s) : s \in Values(structured)}) THEN {}
        ELSE IF ~orderOnly THEN {Finding("OC4103", "port")}
        ELSE FindingIf(\A p \in structured : OrderKnown(ports, p[1]),
                       "OC4102", "port")

(* A width conflict ends the comparison of the shapes. *)
ShapeFindings(ports, frozen) ==
    LET shapes == FieldValues(ports, frozen, "shape")
        flags == {s.scalar : s \in {t \in Values(shapes) : t.width = 1}}
    IN  IF Differ({s.width : s \in Values(shapes)})
          THEN {Finding("OC4101", "port")}
          ELSE FindingIf(~ScalarVectorEquivalent /\ Differ(flags),
                         "OC4106", "port")
                 \cup StructureFindings(ports, shapes)

(* Listed bits that repeat or leave a gap. *)
BusIntegrity(ports) ==
    LET known == {v \in Reporting(ports) :
                    StateFor(ports[v], "shape") = "known"}
    IN  FindingIf(\E v \in known : HasDuplicateBits(ports[v].shape),
                  "OC4105", "port")
          \cup FindingIf(\E v \in known : HasBitGap(ports[v].shape),
                         "OC4104", "port")

PortFindings(ports, frozen) ==
    LET directions == Values(FieldValues(ports, frozen, "direction"))
        roles == Values(FieldValues(ports, frozen, "role"))
    IN  FindingIf(Differ(directions), "OC4001", "port")
          \cup FindingIf(Differ(roles), RoleCode(roles), "port")
          \cup ShapeFindings(ports, frozen)
          \cup BusIntegrity(ports)

-----------------------------------------------------------------------------
(* What the contract freezes: the three values of one view, whatever their *)
(* state is.                                                               *)

AnyFormat == [v \in Views |-> 0]

PreferredPortView(ports) ==
    LET known == {v \in Reporting(ports) : ports[v].status = "known"}
    IN  PreferredView(IF known = {} THEN Reporting(ports) ELSE known,
                      "ports", AnyFormat)

FrozenPort(ports) ==
    IF Reporting(ports) = {} THEN None
    ELSE LET port == ports[PreferredPortView(ports)]
         IN  [direction |-> port.direction, role |-> port.role,
              shape |-> port.shape]

-----------------------------------------------------------------------------
(* What the views mean, apart from how they are compared *)

(* The bit positions a shape states, one-dimensional shapes only. *)
Positions(shape) ==
    IF shape.bits # << >> THEN Range(shape.bits)
    ELSE IF Len(shape.packed) = 1
      THEN LET r == shape.packed[1]
           IN  (r[1]..r[2]) \cup (r[2]..r[1])
      ELSE None

(* The first bit of a shape whose order is declared. *)
LeftmostBit(shape) ==
    IF shape.bits # << >> THEN shape.bits[1]
    ELSE IF Len(shape.packed) = 1 THEN shape.packed[1][1] ELSE None

BothGive(a, b) == a # None /\ b # None

(* Two shapes a designer would call the same bus. *)
SameBus(a, b) ==
    /\ a.width = b.width
    /\ BothGive(Positions(a), Positions(b)) => Positions(a) = Positions(b)
    /\ Len(a.packed) > 1 /\ Len(b.packed) > 1 => a.packed = b.packed

SameDirectionOfBits(a, b) ==
    BothGive(LeftmostBit(a), LeftmostBit(b)) => LeftmostBit(a) = LeftmostBit(b)

=============================================================================
