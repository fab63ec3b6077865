------------------------------ MODULE ReadGds ------------------------------
(***************************************************************************)
(* The GDSII adapter (parsers/gds.py): a stream of binary records is read  *)
(* into structures, their cell references and their text labels.  Reading  *)
(* goes on after a structural error; what the error may have affected is   *)
(* tainted, under the name of the open structure or under "*".             *)
(***************************************************************************)
EXTENDS Reading, TLC

CONSTANTS
    PinLayers,       \* pin_text_layers: the layers whose labels are ports
    GdsMaxCells,     \* _MAX_STRUCTURES
    GdsMaxElements,  \* _MAX_ELEMENTS
    GdsMaxItems,     \* _MAX_REFERENCES and _MAX_TEXTS of one structure
    GdsLibraries     \* the libraries written: a sequence of cells, each a
                     \* name and a sequence of items <<kind, value>>

GdsStart ==
    [cells |-> << >>,      \* the structures finished
     cell |-> None,        \* the structure open
     element |-> None,     \* the element open
     seen |-> {},          \* library records met: HEADER, BGNLIB, ...
     elements |-> 0,
     tainted |-> {},
     halted |-> FALSE]     \* broken framing or an exhausted limit

NewCell == [name |-> None, refs |-> << >>, texts |-> << >>, known |-> TRUE]

NewElement(kind, known) ==
    [kind |-> kind, seen |-> {}, fields |-> << >>, known |-> known]

GdsScope(g) ==
    IF g.cell = None \/ g.cell.name = None THEN "*" ELSE g.cell.name

(* _diagnose: the target scope and whatever is open are tainted. *)
Taint(g, scope) ==
    [g EXCEPT !.tainted = @ \cup {scope},
              !.cell = IF @ # None /\ scope \in {"*", GdsScope(g)}
                         THEN [@ EXCEPT !.known = FALSE] ELSE @,
              !.element = IF @ # None THEN [@ EXCEPT !.known = FALSE] ELSE @]

TaintIf(g, wrong, scope) == IF wrong THEN Taint(g, scope) ELSE g

(* _expect, _ascii, _int2, _xy: an unusable payload. *)
Expect(g, r) == TaintIf(g, ~r.ok, GdsScope(g))

Exhaust(g) == [Taint(g, GdsScope(g)) EXCEPT !.halted = TRUE]

-----------------------------------------------------------------------------
(* Elements *)

Has(e, f) == f \in DOMAIN e.fields

Points(e, n) == Has(e, "XY") /\ e.fields["XY"] = n

ElementValid(e) ==
    CASE e.kind = "sref" -> Has(e, "SNAME") /\ Points(e, 1)
      [] e.kind = "aref" -> Has(e, "SNAME") /\ Points(e, 3) /\ Has(e, "COLROW")
      [] e.kind = "text" -> Has(e, "STRING") /\ Points(e, 1) /\ Has(e, "LAYER")
      [] OTHER -> TRUE

(* The element's record in its structure, when its name was readable. *)
Keep(g, e) ==
    LET ref == [to |-> e.fields["SNAME"], known |-> e.known]
        text == [value |-> e.fields["STRING"], known |-> e.known,
                 layer |-> IF Has(e, "LAYER") THEN e.fields["LAYER"] ELSE None]
    IN  CASE e.kind \in {"sref", "aref"} /\ Has(e, "SNAME") ->
               IF Len(g.cell.refs) >= GdsMaxItems THEN Exhaust(g)
               ELSE [g EXCEPT !.cell.refs = Append(@, ref)]
          [] e.kind = "text" /\ Has(e, "STRING") ->
               IF Len(g.cell.texts) >= GdsMaxItems THEN Exhaust(g)
               ELSE [g EXCEPT !.cell.texts = Append(@, text)]
          [] OTHER -> g

Close(g) == [g EXCEPT !.element = None]

CloseChecked(g) == Close(Keep(g, g.element))

(* _finish_element *)
FinishElement(g, forced, ok) ==
    LET open == IF forced THEN [g EXCEPT !.element.known = FALSE]
                ELSE TaintIf(g, ~ok, GdsScope(g))
    IN  IF g.element = None THEN Taint(g, GdsScope(g))
        ELSE IF g.cell = None THEN Close(open)
        ELSE CloseChecked(TaintIf(open, ~ElementValid(g.element), GdsScope(g)))

(* An element still open when another section begins or ends. *)
ForceElement(g) ==
    IF g.element = None THEN g
    ELSE FinishElement(Taint(g, GdsScope(g)), TRUE, TRUE)

(* _begin_element *)
OpenElement(g, kind) ==
    IF g.elements >= GdsMaxElements
      THEN Exhaust([g EXCEPT !.elements = @ + 1])
      ELSE [g EXCEPT !.elements = @ + 1,
                     !.element = NewElement(kind, GdsScope(g) # "*")]

BeginElement(g, kind) ==
    OpenElement(ForceElement(TaintIf(g, GdsScope(g) = "*", "*")), kind)

(* _element_field; a field that comes twice keeps its first value. *)
ElementField(g, r) ==
    IF g.element = None \/ r.type \in g.element.seen
      THEN Taint(g, GdsScope(g))
    ELSE IF r.ok
      THEN [g EXCEPT !.element.seen = @ \cup {r.type},
                     !.element.fields = @ @@ (r.type :> r.value)]
    ELSE Taint([g EXCEPT !.element.seen = @ \cup {r.type}], GdsScope(g))

-----------------------------------------------------------------------------
(* Structures and the library around them *)

(* _finish_structure *)
FinishCell(g, forced, ok) ==
    LET whole == ForceElement(g)
        named == TaintIf(IF forced THEN [whole EXCEPT !.cell.known = FALSE]
                         ELSE TaintIf(whole, ~ok, GdsScope(whole)),
                         g.cell.name = None, "*")
    IN  IF g.cell = None THEN Taint(g, "*")
        ELSE [named EXCEPT !.cells = Append(@, named.cell), !.cell = None]

ForceCell(g) ==
    IF g.cell = None THEN g ELSE FinishCell(Taint(g, GdsScope(g)), TRUE, TRUE)

(* _begin_structure *)
BeginCell(g) ==
    LET outside == TaintIf(g, "BGNLIB" \notin g.seen \/ "ENDLIB" \in g.seen, "*")
        closed == ForceCell(ForceElement(outside))
    IN  IF Len(closed.cells) >= GdsMaxCells THEN Exhaust(closed)
        ELSE [closed EXCEPT !.cell = NewCell]

(* _structure_name *)
NameCell(g, r) ==
    LET h == TaintIf(Expect(g, r), g.element # None, GdsScope(g))
    IN  IF g.cell = None THEN Taint(Expect(g, r), "*")
        ELSE IF g.cell.name # None THEN Taint(h, GdsScope(h))
        ELSE IF r.ok THEN [h EXCEPT !.cell.name = r.value] ELSE h

Header(g, first) ==
    [TaintIf(g, "HEADER" \in g.seen \/ ~first, "*")
       EXCEPT !.seen = @ \cup {"HEADER"}]

BeginLibrary(g) ==
    [TaintIf(g, "HEADER" \notin g.seen \/ g.seen \cap {"BGNLIB", "ENDLIB"} # {}, "*")
       EXCEPT !.seen = @ \cup {"BGNLIB"}]

(* _library_name and _units *)
LibraryField(g, r) ==
    LET h == TaintIf(Expect(g, r), \/ "BGNLIB" \notin g.seen
                                   \/ g.cell # None
                                   \/ r.type \in g.seen, "*")
    IN  IF r.ok THEN [h EXCEPT !.seen = @ \cup {r.type}] ELSE h

EndLibrary(g) ==
    [ForceCell(TaintIf(g, "BGNLIB" \notin g.seen, "*"))
       EXCEPT !.seen = @ \cup {"ENDLIB"}]

(* parse: what is wrong with the stream as a whole. *)
EndOfStream(g) ==
    TaintIf(ForceCell(TaintIf(g, ~({"HEADER", "BGNLIB", "LIBNAME", "UNITS"}
                                     \subseteq g.seen), "*")),
            "ENDLIB" \notin g.seen, "*")

-----------------------------------------------------------------------------
(* The observation: parse_gds joins the structures by name *)

CellsNamed(g, n) == {i \in DOMAIN g.cells : g.cells[i].name = n}

CellNames(g) == {c.name : c \in ToSet(g.cells)} \ {None}

Dangling(g, i) ==
    {r \in ToSet(g.cells[i].refs) : Cardinality(CellsNamed(g, r.to)) # 1}

CellKnown(g, i) ==
    /\ g.cells[i].known
    /\ Cardinality(CellsNamed(g, g.cells[i].name)) = 1
    /\ Dangling(g, i) = {}

Referenced(g) ==
    UNION {{r.to : r \in {x \in ToSet(g.cells[i].refs) \ Dangling(g, i) : x.known}}
           : i \in DOMAIN g.cells}

InferredTops(g) == CellNames(g) \ Referenced(g)

PinLabels(cell) == {t \in ToSet(cell.texts) : t.layer \in PinLayers}

(* _structure_observations *)
CellFacts(g, i) ==
    LET cell == g.cells[i]
        known == CellKnown(g, i)
        item(kind, n, sure) == Fact(cell.name, kind, n, None, known /\ sure)
    IN  IF cell.name = None THEN {}
        ELSE {item("cell", cell.name, TRUE)}
             \cup {item("reference", r.to, r.known) : r \in ToSet(cell.refs)}
             \cup {item("text", t.value, t.known) : t \in ToSet(cell.texts)}
             \cup {item("pin", t.value, \A u \in PinLabels(cell) :
                                          u.value = t.value => u.known)
                   : t \in PinLabels(cell)}

GdsTainted(g) ==
    g.tainted
    \cup {n \in CellNames(g) : Cardinality(CellsNamed(g, n)) > 1}
    \cup ({g.cells[i].name : i \in {j \in DOMAIN g.cells : Dangling(g, j) # {}}}
            \ {None})
    \cup (IF CellNames(g) # {} /\ InferredTops(g) = {} THEN {"*"} ELSE {})

GdsComplete(g) ==
    /\ GdsTainted(g) = {}
    /\ \A i \in DOMAIN g.cells : Dangling(g, i) = {}

GdsView(g) ==
    Observed(UNION {CellFacts(g, i) : i \in DOMAIN g.cells},
             GdsComplete(g), GdsTainted(g))

-----------------------------------------------------------------------------
(* The streams a layout tool writes *)

GdsRecord(type, value) == [type |-> type, value |-> value, ok |-> TRUE]

GdsItem(item) ==
    LET el(fields) == <<GdsRecord(item[1], None)>> \o fields
                        \o <<GdsRecord("ENDEL", None)>>
        field(f) == GdsRecord(f, item[2])
    IN  CASE item[1] = "sref" -> el(<<field("SNAME"), GdsRecord("STRANS", 0),
                                      GdsRecord("XY", 1)>>)
          [] item[1] = "aref" -> el(<<field("SNAME"), GdsRecord("COLROW", 2),
                                      GdsRecord("XY", 3)>>)
          [] item[1] = "text" -> el(<<GdsRecord("LAYER", item[3]),
                                      GdsRecord("XY", 1), field("STRING")>>)
          [] item[1] = "geometry" -> el(<<GdsRecord("LAYER", 1),
                                          GdsRecord("WIDTH", 1), GdsRecord("XY", 2)>>)
          [] OTHER -> <<GdsRecord("UNKNOWN", None)>>

GdsCell(cell) ==
    <<GdsRecord("BGNSTR", None), GdsRecord("STRNAME", cell.name)>>
      \o FlattenSeq([i \in DOMAIN cell.items |-> GdsItem(cell.items[i])])
      \o <<GdsRecord("ENDSTR", None)>>

GdsFile(lib) ==
    <<GdsRecord("HEADER", None), GdsRecord("BGNLIB", None),
      GdsRecord("LIBNAME", None), GdsRecord("UNITS", None)>>
      \o FlattenSeq([i \in DOMAIN lib |-> GdsCell(lib[i])])
      \o <<GdsRecord("ENDLIB", None)>>

GdsStates(cell) ==
    LET item(kind, n) == Statement(cell.name, kind, n, None)
        texts == {i \in ToSet(cell.items) : i[1] = "text"}
    IN  {item("cell", cell.name)}
        \cup {item("reference", i[2]) :
                 i \in {x \in ToSet(cell.items) : x[1] \in {"sref", "aref"}}}
        \cup {item("text", i[2]) : i \in texts}
        \cup {item("pin", i[2]) : i \in {x \in texts : x[3] \in PinLayers}}

GdsSources ==
    {[format |-> "gds", records |-> GdsFile(lib), start |-> GdsStart,
      meant |-> UNION {GdsStates(c) : c \in ToSet(lib)}] : lib \in GdsLibraries}

-----------------------------------------------------------------------------
(* The dispatch loop, one action per handler *)

GdsStep(t, next) ==
    /\ ~(format = "gds" /\ st.halted)
    /\ Take("gds", t)
    /\ st' = IF "ENDLIB" \in st.seen THEN Taint(st, "*") ELSE next

GdsHeader == GdsStep("HEADER", Header(Expect(st, Rec), pos = 1))

GdsBeginLibrary == GdsStep("BGNLIB", BeginLibrary(Expect(st, Rec)))

GdsLibraryField == \E t \in {"LIBNAME", "UNITS"} : GdsStep(t, LibraryField(st, Rec))

GdsBeginCell == GdsStep("BGNSTR", BeginCell(Expect(st, Rec)))

GdsNameCell == GdsStep("STRNAME", NameCell(st, Rec))

GdsBeginElement ==
    \E k \in {"sref", "aref", "text", "geometry"} :
        GdsStep(k, BeginElement(Expect(st, Rec), k))

GdsElementField ==
    \E t \in {"LAYER", "XY", "STRING", "SNAME", "COLROW"} :
        GdsStep(t, ElementField(st, Rec))

(* STRANS, MAG and ANGLE; other known records are counted and skipped. *)
GdsTransform == GdsStep("STRANS", ElementField(st, Rec))

GdsSkip == GdsStep("WIDTH", st)

GdsUnknown == GdsStep("UNKNOWN", Taint(st, GdsScope(st)))

GdsEndElement == GdsStep("ENDEL", FinishElement(st, FALSE, Rec.ok))

GdsEndCell == GdsStep("ENDSTR", FinishCell(st, FALSE, Rec.ok))

GdsEndLibrary == GdsStep("ENDLIB", EndLibrary(Expect(st, Rec)))

(* _records: a record whose length cannot be right ends the stream. *)
GdsBadFraming ==
    /\ Pending("gds")
    /\ Damaging("gds")
    /\ faults' = faults + 1
    /\ st' = [Taint(st, "*") EXCEPT !.halted = TRUE]
    /\ UNCHANGED <<format, file, meant, pos, view>>

(* The end of the stream, or the record at which the reader gave up. *)
GdsEnd ==
    /\ format = "gds"
    /\ st.halted \/ pos > Len(file)
    /\ Report("gds", GdsView(EndOfStream(st)))

GdsNext ==
    \/ GdsHeader \/ GdsBeginLibrary \/ GdsLibraryField \/ GdsEndLibrary
    \/ GdsBeginCell \/ GdsNameCell \/ GdsEndCell
    \/ GdsBeginElement \/ GdsElementField \/ GdsTransform \/ GdsEndElement
    \/ GdsSkip \/ GdsUnknown \/ GdsBadFraming \/ GdsEnd

=============================================================================
