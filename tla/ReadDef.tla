------------------------------ MODULE ReadDef ------------------------------
(***************************************************************************)
(* The DEF adapter (parsers/defparser.py): statements, and sections of     *)
(* counted entries that END closes.  A statement ends at its semicolon; a  *)
(* lost semicolon or END makes the reader run on into what follows, and    *)
(* the counts and the ENDs are how it notices.                             *)
(*                                                                         *)
(* A record is one statement, entry or END line; one that is not `ok' has  *)
(* lost its semicolon.                                                     *)
(***************************************************************************)
EXTENDS Reading, TLC

CONSTANTS
    DefDesigns,     \* the layouts written: [name, sections, rest], a section
                    \* being [name, count, entries], rest the statements
                    \* after the sections
    DefMaxEntries   \* max_section_entries

DefStart ==
    [design |-> None,
     section |-> None, declared |-> 0, actual |-> 0,
     partial |-> None,      \* an entry whose semicolon is still to come
     skip |-> None,         \* what is passed over: "statement", "unexpected",
                            \* "entry", "header", "section" or "extension"
     seen |-> {},           \* the sections met
     instances |-> << >>, pins |-> << >>, nets |-> << >>,
     ended |-> FALSE,
     tainted |-> {}]

Supported == {"COMPONENTS", "PINS", "NETS", "SPECIALNETS"}

DefScope(d) == IF d.design = None THEN "*" ELSE d.design

(* _issue *)
DefIssue(d, scope) == [d EXCEPT !.tainted = @ \cup {scope}]

DefIssueIf(d, wrong) == IF wrong THEN DefIssue(d, DefScope(d)) ELSE d

(* END lines have no semicolon of their own. *)
Terminated(r) == r.ok /\ r.type \notin {"end", "enddesign"}

(* What follows is read as part of the statement. *)
RunOn(d, r, mode) == IF Terminated(r) THEN d ELSE [d EXCEPT !.skip = mode]

Closes(d, r) == r.type = "end" /\ r.name = d.section

-----------------------------------------------------------------------------
(* Statements and sections *)

(* _metadata_statement *)
Metadata(d, r) == RunOn(d, r, "statement")

(* _design_statement *)
DesignStatement(d, r) ==
    LET other == r.name = None \/ d.design \notin {None, r.name}
        told == IF other THEN DefIssue(d, "*") ELSE d
    IN  RunOn([told EXCEPT !.design = IF r.name = None THEN @ ELSE r.name],
              r, "statement")

(* _section and _section_header; a header that has lost its semicolon takes *)
(* in what follows, an END too, before an ignored section is passed over.   *)
OpenSection(d, r) ==
    LET opened == [d EXCEPT !.section = r.name, !.declared = r.count, !.actual = 0,
                            !.seen = @ \cup {r.name}]
        told == DefIssueIf(opened, r.count = None)
    IN  CASE r.name = "PROPERTYDEFINITIONS" -> [opened EXCEPT !.skip = "section"]
          [] r.name \in Supported -> RunOn(told, r, "statement")
          [] OTHER -> RunOn([told EXCEPT !.skip = "section"], r, "header")

\* Mutant: the declared number of entries is not looked at.
CloseUncounted(d) == [d EXCEPT !.section = None, !.skip = None, !.partial = None]

CloseSection(d) ==
    [DefIssueIf(d, /\ d.section \in Supported /\ d.declared # None
                   /\ d.declared # d.actual)
       EXCEPT !.section = None, !.skip = None, !.partial = None]

(* What cannot stand in a section is passed over, up to a semicolon. *)
Unexpected(d, r) == RunOn(DefIssueIf(d, TRUE), r, "unexpected")

(* What cannot stand outside of one, likewise. *)
Unknown(d, r) == RunOn(DefIssueIf(d, TRUE), r, "statement")

(* BEGINEXT ... ENDEXT *)
Extension(d, r) ==
    [DefIssueIf(d, TRUE) EXCEPT !.skip = IF r.ok THEN None ELSE "extension"]

-----------------------------------------------------------------------------
(* Entries *)

(* _component_entry; a placement is absent, readable or "bad". *)
ComponentEntry(d, r) ==
    LET bad == r.placement = "bad" \/ r.placements > 1
        kept == [name |-> r.name, macro |-> r.macro, known |-> ~bad /\ ~r.odd]
    IN  IF r.name = None \/ r.macro = None THEN DefIssueIf(d, TRUE)
        ELSE [DefIssueIf(d, bad) EXCEPT
                !.instances = Append(@, kept),
                !.tainted = @ \cup IF r.odd THEN {r.name} ELSE {}]

(* _pin_entry; "odd" stands for a value outside the subset. *)
PinEntry(d, r) ==
    LET bad == \/ r.odd \/ r.net = "odd" \/ "odd" \in {r.direction, r.use}
               \/ r.placement = "bad" \/ r.placements > 1
        readable(v) == IF v = "odd" THEN None ELSE v
        kept == [name |-> r.name, bit |-> r.bit, net |-> readable(r.net),
                 direction |-> readable(r.direction), role |-> readable(r.use),
                 known |-> ~bad]
    IN  IF r.name = None THEN DefIssueIf(d, TRUE)
        ELSE [DefIssueIf(d, bad) EXCEPT !.pins = Append(@, kept)]

(* _connections: a group of less than two words is left out. *)
ReadableEnds(r) == SelectSeq(r.ends, LAMBDA c : c.pin # None)

(* _net_entry *)
NetEntry(d, r, section) ==
    LET bad == r.odd \/ r.use = "odd"
        kept == [name |-> r.name, special |-> section = "SPECIALNETS",
                 ends |-> ReadableEnds(r),
                 use |-> IF r.use = "odd" THEN None ELSE r.use, known |-> ~bad]
    IN  IF r.name = None THEN DefIssueIf(d, TRUE)
        ELSE [DefIssueIf(d, bad \/ ReadableEnds(r) # r.ends)
                EXCEPT !.nets = Append(@, kept)]

(* An entry of another section: the END before it was lost, and what this  *)
(* section makes of it is not kept.                                        *)
Enter(d, r) ==
    CASE d.section = "COMPONENTS" /\ r.type = "component" -> ComponentEntry(d, r)
      [] d.section = "PINS" /\ r.type = "pin" -> PinEntry(d, r)
      [] d.section \in {"NETS", "SPECIALNETS"} /\ r.type = "net" -> NetEntry(d, r, d.section)
      [] OTHER -> DefIssueIf(d, TRUE)

CountedEntry(d, r) ==
    [Enter(d, r) EXCEPT !.actual = @ + 1, !.partial = None, !.skip = None]

(* _read_entry: with no semicolon the entry takes in what follows. *)
ReadEntry(d, r) ==
    IF d.actual >= DefMaxEntries THEN [DefIssue(d, "*") EXCEPT !.skip = "section"]
    ELSE IF Terminated(r) THEN CountedEntry(d, r)
    ELSE [d EXCEPT !.partial = r, !.skip = "entry"]

(* The connections of the entry taken in are connections of this net. *)
Merged(p, r) ==
    IF p.type = "net" /\ r.type = "net" /\ p.use = None
      THEN [p EXCEPT !.ends = @ \o r.ends, !.use = r.use] ELSE p

(* A record met while something is passed over. *)
PassOver(d, r) ==
    CASE d.skip = "section" ->
           IF Closes(d, r) THEN CloseSection(d) ELSE d
      [] d.skip = "header" ->
           IF Terminated(r) THEN [d EXCEPT !.skip = "section"] ELSE d
      [] d.skip = "unexpected" ->
           IF Closes(d, r) THEN CloseSection(d)
           ELSE IF Terminated(r) THEN [d EXCEPT !.skip = None] ELSE d
      [] d.skip = "entry" ->
           IF Closes(d, r)
             THEN CloseSection([DefIssueIf(d, TRUE) EXCEPT !.actual = @ + 1])
           ELSE IF Terminated(r) THEN CountedEntry(d, Merged(d.partial, r)) ELSE d
      [] d.skip = "statement" ->
           IF Terminated(r) THEN [d EXCEPT !.skip = None] ELSE d
      [] OTHER -> d

(* parse: what the end of the file finds open. *)
EndOfFile(d) ==
    LET read == IF d.skip = "entry" THEN CountedEntry(DefIssue(d, "*"), d.partial)
                ELSE IF d.skip \in {"statement", "header"} THEN DefIssue(d, "*") ELSE d
        closed == IF d.section = None THEN read ELSE CloseSection(DefIssueIf(read, TRUE))
    IN  DefIssueIf(closed, d.design = None \/ ~d.ended)

-----------------------------------------------------------------------------
(* The observation *)

DefTwice(entries, n) == Cardinality({i \in DOMAIN entries : entries[i].name = n}) > 1

SamePin(p, q) == p.name = q.name /\ p.bit = q.bit

PinTwice(d, p) == Cardinality({i \in DOMAIN d.pins : SamePin(d.pins[i], p)}) > 1

(* _deduplicate *)
Duplicates(d) ==
    \/ \E e \in ToSet(d.instances) : DefTwice(d.instances, e.name)
    \/ \E p \in ToSet(d.pins) : PinTwice(d, p)
    \/ \E n \in ToSet(d.nets) : DefTwice(d.nets, n.name)

(* _reconcile_pin_nets *)
NetsOf(d, p) ==
    {n.name : n \in {x \in ToSet(d.nets) :
                       \E c \in ToSet(x.ends) : /\ c.instance = "PIN"
                                                /\ SamePin([name |-> c.pin, bit |-> c.bit], p)}}

PinNet(d, p) ==
    IF p.net = None /\ Cardinality(NetsOf(d, p)) = 1
      THEN CHOOSE n \in NetsOf(d, p) : TRUE ELSE p.net

NetsDisagree(d, p) == p.net # None /\ NetsOf(d, p) \notin {{}, {p.net}}

UseOf(d, n) ==
    LET declared == {i \in DOMAIN d.nets : d.nets[i].name = n}
    IN  IF declared = {} THEN None ELSE d.nets[Max(declared)].use

PinRole(d, p) == IF p.role = None THEN UseOf(d, PinNet(d, p)) ELSE p.role

PinKnown(d, p) == p.known /\ ~PinTwice(d, p) /\ ~NetsDisagree(d, p)

(* _ports_and_mappings: the bits of a bus are one port. *)
Bits(d, n) == {p \in ToSet(d.pins) : p.name = n}

PinDirections(d, n) == {p.direction : p \in Bits(d, n)}

Roles(d, n) == {PinRole(d, p) : p \in Bits(d, n)}

BitNumbers(d, n) == {p.bit : p \in Bits(d, n)}

Only(values) == IF Cardinality(values) = 1 THEN CHOOSE v \in values : TRUE ELSE None

PortFacts(d, n) ==
    LET rows == Bits(d, n)
        item(kind, value, known) == Fact(d.design, kind, <<n>>, {value}, known)
        sure == \A p \in rows : PinKnown(d, p)
        agree == Cardinality(PinDirections(d, n)) = 1 /\ Cardinality(Roles(d, n)) = 1
        mixed == Cardinality(rows) > 1 /\ None \in BitNumbers(d, n)
    IN  {item("port", None, sure /\ agree /\ ~mixed),
         Fact(d.design, "shape", <<n>>, BitNumbers(d, n), sure /\ ~mixed),
         item("direction", Only(PinDirections(d, n)), Only(PinDirections(d, n)) # None),
         item("role", Only(Roles(d, n)), Only(Roles(d, n)) # None)}

BusesDisagree(d) ==
    \E p \in ToSet(d.pins) :
        \/ Cardinality(PinDirections(d, p.name)) > 1
        \/ Cardinality(Roles(d, p.name)) > 1

(* _objects *)
EndFacts(d, net) ==
    UNION {{Fact(d.design, IF c.instance = "PIN" THEN "pin_reference" ELSE "instance_reference",
                 <<c.instance, c.pin, c.bit>>, {net.name}, c.instance # "*")} : c \in ToSet(net.ends)}

DefObjects(d) ==
    LET item(kind, n, value, known) == Fact(d.design, kind, n, {value}, known)
    IN  {item("instance", <<e.name>>, e.macro, e.known /\ ~DefTwice(d.instances, e.name))
         : e \in ToSet(d.instances)}
        \cup {item("pin", <<p.name, p.bit>>, PinNet(d, p), PinKnown(d, p))
              : p \in ToSet(d.pins)}
        \cup {item("net", <<n.name>>, n.special, n.known /\ ~DefTwice(d.nets, n.name))
              : n \in ToSet(d.nets)}
        \cup UNION {EndFacts(d, n) : n \in ToSet(d.nets)}

(* finish; without a PINS section the interface is not described. *)
DefFacts(d) ==
    IF d.design = None THEN {}
    ELSE DefObjects(d)
         \cup IF "PINS" \in d.seen
                THEN UNION {PortFacts(d, p.name) : p \in ToSet(d.pins)} ELSE {}

DefView(d) ==
    LET end == EndOfFile(d)
        odd == \/ Duplicates(end) \/ BusesDisagree(end)
               \/ \E p \in ToSet(end.pins) : NetsDisagree(end, p)
        tainted == DefIssueIf(end, odd).tainted
    IN  Observed(DefFacts(end), tainted = {}, tainted)

-----------------------------------------------------------------------------
(* The files a layout tool writes, and what they state *)

DefLine(type) ==
    [type |-> type, name |-> None, count |-> None, macro |-> None, bit |-> None,
     net |-> None, direction |-> None, use |-> None, ends |-> << >>,
     placement |-> None, placements |-> 1, odd |-> FALSE, ok |-> TRUE]

DefNamed(type, n) == [DefLine(type) EXCEPT !.name = n]

DefSection(s) ==
    <<[DefNamed("section", s.name) EXCEPT !.count = s.count]>> \o s.entries
      \o <<DefNamed("end", s.name)>>

DefFile(l) ==
    <<DefLine("meta"), DefNamed("design", l.name)>>
      \o FlattenSeq([i \in DOMAIN l.sections |-> DefSection(l.sections[i])])
      \o l.rest \o <<DefLine("enddesign")>>

Entries(l, names) ==
    UNION {ToSet(s.entries) : s \in {x \in ToSet(l.sections) : x.name \in names}}

DefStates(l) ==
    LET item(kind, n, value) == Statement(l.name, kind, n, {value})
        named(names) == {e \in Entries(l, names) : e.name # None}
        pins == named({"PINS"})
        nets == named({"NETS", "SPECIALNETS"})
        ends(n) == {c \in ToSet(n.ends) : c.pin # None}
        joins(n, p) == \E c \in ends(n) : c.instance = "PIN" /\ SamePin([name |-> c.pin, bit |-> c.bit], p)
        netsOf(p) == IF p.net # None THEN {p.net} ELSE {n.name : n \in {x \in nets : joins(x, p)}}
        uses(p) == IF p.use # None THEN {p.use}
                   ELSE {n.use : n \in {x \in nets : x.name \in netsOf(p)}} \ {None}
        ports(n) == {p \in pins : p.name = n}
    IN  {item("instance", <<e.name>>, e.macro)
         : e \in {x \in named({"COMPONENTS"}) : x.macro # None}}
        \cup {item("net", <<n.name>>, FALSE) : n \in named({"NETS"})}
        \cup {item("net", <<n.name>>, TRUE) : n \in named({"SPECIALNETS"})}
        \cup UNION {{item(IF c.instance = "PIN" THEN "pin_reference" ELSE "instance_reference",
                          <<c.instance, c.pin, c.bit>>, n.name) : c \in ends(n)} : n \in nets}
        \cup {item("pin", <<p.name, p.bit>>, Only(netsOf(p))) : p \in pins}
        \cup UNION {{item("port", <<p.name>>, None),
                     Statement(l.name, "shape", <<p.name>>, {q.bit : q \in ports(p.name)}),
                     item("direction", <<p.name>>, Only({q.direction : q \in ports(p.name)})),
                     item("role", <<p.name>>, Only(UNION {uses(q) : q \in ports(p.name)}))}
                    : p \in pins}

DefSources ==
    {[format |-> "def", records |-> DefFile(l), start |-> DefStart, meant |-> DefStates(l)]
       : l \in DefDesigns}

-----------------------------------------------------------------------------
(* parse, one action per kind of record *)

DefStep(types, next) ==
    /\ format = "def" /\ ~st.ended /\ st.skip = None
    /\ \E t \in types : Take("def", t)
    /\ st' = next

TopLevel == st.section = None

DefMeta == DefStep({"meta"}, IF TopLevel THEN Metadata(st, Rec) ELSE Unexpected(st, Rec))

DefDesign == DefStep({"design"}, IF TopLevel THEN DesignStatement(st, Rec) ELSE Unexpected(st, Rec))

DefOpen == DefStep({"section"}, IF TopLevel THEN OpenSection(st, Rec) ELSE Unexpected(st, Rec))

DefEntry ==
    DefStep({"component", "pin", "net"},
            IF TopLevel THEN Unknown(st, Rec) ELSE ReadEntry(st, Rec))

DefClose ==
    DefStep({"end"},
            IF TopLevel THEN Unknown(st, Rec)
            ELSE IF Closes(st, Rec) THEN CloseSection(st) ELSE Unexpected(st, Rec))

DefEndDesign ==
    DefStep({"enddesign"},
            IF TopLevel THEN [st EXCEPT !.ended = TRUE] ELSE Unexpected(st, Rec))

DefVendor ==
    DefStep({"extension"}, IF TopLevel THEN Extension(st, Rec) ELSE Unexpected(st, Rec))

DefUnknown ==
    DefStep({"unknown"}, IF TopLevel THEN Unknown(st, Rec) ELSE Unexpected(st, Rec))

DefSkip ==
    /\ format = "def" /\ ~st.ended /\ st.skip # None
    /\ Pending("def")
    /\ Take("def", Rec.type)
    /\ st' = PassOver(st, Rec)

DefEnd ==
    /\ format = "def"
    /\ st.ended \/ pos > Len(file)
    /\ Report("def", DefView(st))

DefNext ==
    \/ DefMeta \/ DefDesign \/ DefOpen \/ DefEntry \/ DefClose \/ DefEndDesign
    \/ DefVendor \/ DefUnknown \/ DefSkip \/ DefEnd

=============================================================================
