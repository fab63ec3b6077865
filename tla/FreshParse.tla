------------------------------ MODULE FreshParse ------------------------------
(***************************************************************************)
(* What a caller of the observation cache is promised: whenever a cacheable *)
(* source is answered, the answer is the parse of contents its files all    *)
(* had at one moment during the call.  No cache, no disk, no other caller.  *)
(***************************************************************************)
EXTENDS Integers

CONSTANTS Clients, Sources, Files, FilesOf, MaxVersion, None, Raised, Unchecked

VARIABLES
    version,  \* the contents of each file, numbered in the order of the edits
    asked,    \* the source each caller wants parsed
    seen,     \* the contents it saw
    reply     \* its answer

absVars == <<version, asked, seen, reply>>

Contents(s) == [f \in FilesOf[s] |-> version[f]]

Init ==
    /\ version = [f \in Files |-> 0]
    /\ asked = [c \in Clients |-> None]
    /\ seen = [c \in Clients |-> None]
    /\ reply = [c \in Clients |-> None]

Edit ==
    /\ \E f \in Files : version' = [version EXCEPT ![f] = @ + 1]
    /\ UNCHANGED <<asked, seen, reply>>

Ask(c, s) ==
    /\ asked[c] = None
    /\ asked' = [asked EXCEPT ![c] = s]
    /\ UNCHANGED <<version, seen, reply>>

\* All the files of the source at once.
See(c) ==
    /\ asked[c] # None /\ seen[c] = None
    /\ seen' = [seen EXCEPT ![c] = Contents(asked[c])]
    /\ UNCHANGED <<version, asked, reply>>

Answer(c) ==
    /\ reply[c] = None /\ seen[c] # None
    /\ reply' = [reply EXCEPT ![c] = <<asked[c], seen[c]>>]
    /\ UNCHANGED <<version, asked, seen>>

\* The call raises, or takes the uncached path, which promises nothing more.
Refuse(c) ==
    /\ asked[c] # None /\ reply[c] = None
    /\ \E r \in {Raised, Unchecked} : reply' = [reply EXCEPT ![c] = r]
    /\ UNCHANGED <<version, asked, seen>>

\* The calls that end: one that was answered, or those of a process that died.
Leave(cs) ==
    /\ asked' = [c \in Clients |-> IF c \in cs THEN None ELSE asked[c]]
    /\ seen' = [c \in Clients |-> IF c \in cs THEN None ELSE seen[c]]
    /\ reply' = [c \in Clients |-> IF c \in cs THEN None ELSE reply[c]]
    /\ UNCHANGED version

Next ==
    \/ Edit
    \/ \E c \in Clients : See(c) \/ Answer(c) \/ Refuse(c) \/ \E s \in Sources : Ask(c, s)
    \/ \E cs \in SUBSET Clients : Leave(cs)

Spec == Init /\ [][Next]_absVars
=============================================================================
