--------------------------- MODULE ObservationCache ---------------------------
(***************************************************************************)
(* cache.py: threads of several processes parse sources through one cache   *)
(* directory while the files are edited, entries are damaged and processes  *)
(* die.                                                                     *)
(*                                                                         *)
(* The contents of a file are the number of edits it has had: an edit never *)
(* brings old contents back (the documentation excludes A-to-B-to-A).  The  *)
(* SHA-256 key of a call is the source with the contents it covers, and     *)
(* what a parser returns is the source with the contents the parser read.   *)
(***************************************************************************)
EXTENDS Integers, Sequences, SequencesExt, FiniteSetsExt

CONSTANTS
    Clients,     \* parser threads
    Deployments, \* what may run: [processes, calls], a process being the set
                 \* of its threads and calls a bound on each thread's calls
    Sources,     \* configured source views
    Files,       \* source files
    FilesOf,     \* the files of each source
    Cacheable,   \* the sources of a built-in format without hidden dependencies
    Backtick,    \* contents <<file, version>> that make a source uncacheable
    Size,        \* the bytes of the entry of a source
    MaxBytes,    \* ObservationCache.max_bytes
    MaxFiles,    \* _MAX_SOURCE_FILES, as _make_room uses it
    MaxVersion,  \* bound: edits of a file
    MaxOrphans,  \* bound: temporary files left behind
    None, Raised, Unchecked, Damaged

ASSUME ClientsAssumption ==
    /\ IsFiniteSet(Clients) /\ None \notin Clients
    /\ \A d \in Deployments :
        /\ d.calls \in [Clients -> Nat]
        /\ UNION d.processes = Clients
        /\ \A p, q \in d.processes : p = q \/ p \cap q = {}
ASSUME SourcesAssumption ==
    /\ \A s \in Sources : FilesOf[s] \subseteq Files /\ FilesOf[s] # {} /\ Size[s] \in Nat \ {0}
    /\ Cacheable \subseteq Sources
ASSUME BoundsAssumption ==
    /\ MaxBytes \in Nat \ {0} /\ MaxFiles \in Nat
    /\ MaxVersion \in Nat /\ MaxOrphans \in Nat

Keys == [source : Sources, contents : UNION {[FilesOf[s] -> 0..MaxVersion] : s \in Sources}]

ASSUME AnswersAssumption ==
    /\ None \notin Sources
    /\ \A s \in Sources : None \notin [FilesOf[s] -> 0..MaxVersion]
    /\ {None, Raised, Unchecked} \cap Keys = {}

VARIABLES
    version,  \* the contents of each file
    disk,     \* the entries of the directory, oldest first
    orphans,  \* temporary files nobody will remove
    lock,     \* the thread in _store, for each process that runs
    pc,       \* where each thread is in parse
    calls,    \* how many calls it may still begin
    source,   \* argument: the source it parses
    before,   \* the first fingerprint, as far as it is computed
    after,    \* the second one
    cached,   \* what _load returned
    parsed,   \* the contents the parser has read
    temp,     \* whether its temporary file exists
    victims,  \* _make_room: the entries it may still evict, oldest first
    total,    \* _make_room: the bytes it counts
    store,    \* how its store ended
    reply,    \* what parse returned or raised
    seen      \* history: the contents when the first fingerprint was complete

local == <<calls, source, before, after, cached, parsed, seen>>
storing == <<temp, victims, total, store>>
vars == <<version, disk, orphans, lock, pc, local, storing, reply>>

Init ==
    /\ version = [f \in Files |-> 0]
    /\ disk = <<>>
    /\ orphans = 0
    /\ \E d \in Deployments : /\ lock = [p \in d.processes |-> None]
                              /\ calls = d.calls
    /\ pc = [c \in Clients |-> "idle"]
    /\ source = [c \in Clients |-> None]
    /\ before = [c \in Clients |-> <<>>]
    /\ after = [c \in Clients |-> <<>>]
    /\ cached = [c \in Clients |-> None]
    /\ parsed = [c \in Clients |-> <<>>]
    /\ temp = [c \in Clients |-> FALSE]
    /\ victims = [c \in Clients |-> <<>>]
    /\ total = [c \in Clients |-> 0]
    /\ store = [c \in Clients |-> None]
    /\ reply = [c \in Clients |-> None]
    /\ seen = [c \in Clients |-> None]

Process(c) == CHOOSE p \in DOMAIN lock : c \in p

Goto(c, label) == pc' = [pc EXCEPT ![c] = label]

Key(c) == [source |-> source[c], contents |-> before[c]]

Observation(c) ==
    IF cached[c] # None THEN cached[c] ELSE [source |-> source[c], contents |-> parsed[c]]

\* What was parsed is returned, however the store ends.
EndStore(c, how) ==
    /\ store' = [store EXCEPT ![c] = how]
    /\ reply' = [reply EXCEPT ![c] = Observation(c)]
    /\ Goto(c, "done")

\* A directory has one file of a name.
Without(entries, key) ==
    LET named == {i \in DOMAIN entries : entries[i].key = key} IN
    IF named = {} THEN entries ELSE RemoveAt(entries, CHOOSE i \in named : TRUE)

\* The order in which a call reads the files of its source is its own.
Unread(c, read) == FilesOf[source[c]] \ DOMAIN read
Read(read, f) == [g \in DOMAIN read \cup {f} |-> IF g = f THEN version[f] ELSE read[g]]

-----------------------------------------------------------------------------
(* The environment.                                                         *)

Edit(f) ==
    /\ version[f] < MaxVersion
    /\ version' = [version EXCEPT ![f] = @ + 1]
    /\ UNCHANGED <<disk, orphans, lock, pc, local, storing, reply>>

\* An entry is truncated, corrupted or written by an incompatible version.
Damage(i) ==
    /\ disk[i].observation # Damaged
    /\ disk' = [disk EXCEPT ![i].observation = Damaged]
    /\ UNCHANGED <<version, orphans, lock, pc, local, storing, reply>>

-----------------------------------------------------------------------------
(* parse.                                                                   *)

Begin(c, s) ==
    /\ pc[c] = "idle"
    /\ calls[c] > 0
    /\ calls' = [calls EXCEPT ![c] = @ - 1]
    /\ source' = [source EXCEPT ![c] = s]
    /\ Goto(c, IF s \in Cacheable THEN "before" ELSE "uncached")
    /\ UNCHANGED <<version, disk, orphans, lock, before, after, cached, parsed, seen,
                   storing, reply>>

\* Bypassed: the parser runs with no check of its inputs.
ParseUncached(c) ==
    /\ pc[c] = "uncached"
    /\ reply' = [reply EXCEPT ![c] = Unchecked]
    /\ Goto(c, "done")
    /\ UNCHANGED <<version, disk, orphans, lock, local, storing>>

\* _fingerprint, one file at a time.
FingerprintBefore(c) ==
    /\ pc[c] = "before"
    /\ \E f \in Unread(c, before[c]) :
        IF <<f, version[f]>> \in Backtick
        THEN /\ Goto(c, "uncached")
             /\ UNCHANGED <<before, seen>>
        ELSE /\ before' = [before EXCEPT ![c] = Read(@, f)]
             /\ IF Unread(c, before[c]) = {f}
                THEN /\ seen' = [seen EXCEPT ![c] = [g \in FilesOf[source[c]] |-> version[g]]]
                     /\ Goto(c, "load")
                ELSE UNCHANGED <<pc, seen>>
    /\ UNCHANGED <<version, disk, orphans, lock, calls, source, after, cached, parsed,
                   storing, reply>>

\* _load: an absent or damaged entry is a miss.
Load(c) ==
    /\ pc[c] = "load"
    /\ LET hits == {i \in DOMAIN disk : disk[i].key = Key(c) /\ disk[i].observation # Damaged} IN
       IF hits = {}
       THEN /\ Goto(c, "parse")
            /\ UNCHANGED cached
       ELSE /\ \E i \in hits : cached' = [cached EXCEPT ![c] = disk[i].observation]
            /\ Goto(c, "after")
    /\ UNCHANGED <<version, disk, orphans, lock, calls, source, before, after, parsed, seen,
                   storing, reply>>

\* The parser opens the files one after the other.
Parse(c) ==
    /\ pc[c] = "parse"
    /\ \E f \in Unread(c, parsed[c]) :
        /\ parsed' = [parsed EXCEPT ![c] = Read(@, f)]
        /\ IF Unread(c, parsed[c]) = {f} THEN Goto(c, "after") ELSE UNCHANGED pc
    /\ UNCHANGED <<version, disk, orphans, lock, calls, source, before, after, cached, seen,
                   storing, reply>>

\* The parser raises: the exception goes up.
ParseRaises(c) ==
    /\ pc[c] = "parse"
    /\ reply' = [reply EXCEPT ![c] = Raised]
    /\ Goto(c, "done")
    /\ UNCHANGED <<version, disk, orphans, lock, local, storing>>

FingerprintAfter(c) ==
    /\ pc[c] = "after"
    /\ \E f \in Unread(c, after[c]) : after' = [after EXCEPT ![c] = Read(@, f)]
    /\ UNCHANGED <<version, disk, orphans, lock, pc, calls, source, before, cached, parsed,
                   seen, storing, reply>>

\* Mutant: the second fingerprint is computed and not compared.
NeverCompared(c) == TRUE

Stable(c) == after[c] = before[c]

\* The second fingerprint is complete: a hit returns, a miss is stored first,
\* unless it does not survive the codec or is too large for an entry.
Compare(c) ==
    /\ pc[c] = "after"
    /\ Unread(c, after[c]) = {}
    /\ \/ /\ ~Stable(c)
          /\ reply' = [reply EXCEPT ![c] = Raised]
          /\ Goto(c, "done")
          /\ UNCHANGED store
       \/ /\ Stable(c) /\ cached[c] # None
          /\ reply' = [reply EXCEPT ![c] = Observation(c)]
          /\ Goto(c, "done")
          /\ UNCHANGED store
       \/ /\ Stable(c) /\ cached[c] = None
          /\ Goto(c, "encoded")
          /\ UNCHANGED <<reply, store>>
       \/ /\ Stable(c) /\ cached[c] = None
          /\ EndStore(c, "not encodable")
    /\ UNCHANGED <<version, disk, orphans, lock, local, temp, victims, total>>

-----------------------------------------------------------------------------
(* The rest of _store.                                                      *)

\* Mutant: the lock is not released.
KeepLock(c) == UNCHANGED lock

Release(c) == lock' = [lock EXCEPT ![Process(c)] = None]

Acquire(c) ==
    /\ pc[c] = "encoded"
    /\ lock[Process(c)] = None
    /\ lock' = [lock EXCEPT ![Process(c)] = c]
    /\ Goto(c, "room")
    /\ UNCHANGED <<version, disk, orphans, local, storing, reply>>

DirectoryCount == Len(disk) + orphans + Cardinality({c \in Clients : temp[c]})
Names(entries) == {entries[i].key : i \in DOMAIN entries}

\* The bytes of the files with these names, each <<name, place in the file>>.
Occupied(names) == UNION {{k} \X (1..Size[k.source]) : k \in names}
Bytes(entries) == Cardinality(Occupied(Names(entries)))

\* _make_room lists the directory; the entry to be replaced does not count.
MakeRoom(c) ==
    /\ pc[c] = "room"
    /\ IF Size[source[c]] > MaxBytes \/ DirectoryCount > MaxFiles + 1
       THEN /\ EndStore(c, "no room")
            /\ Release(c)
            /\ UNCHANGED <<victims, total>>
       ELSE LET others == Without(disk, Key(c)) IN
            /\ victims' = [victims EXCEPT ![c] = others]
            /\ total' = [total EXCEPT ![c] = Bytes(others)]
            /\ Goto(c, "evict")
            /\ UNCHANGED <<lock, store, reply>>
    /\ UNCHANGED <<version, disk, orphans, local, temp>>

\* Mutant: the entry about to be written is not counted.
FitsBefore(c) == total[c] <= MaxBytes

Fits(c) == total[c] + Size[source[c]] <= MaxBytes

\* The oldest listed entry goes; another process may have removed it already.
Evict(c) ==
    /\ pc[c] = "evict"
    /\ ~Fits(c)
    /\ LET oldest == Head(victims[c]) IN
       /\ disk' = Without(disk, oldest.key)
       /\ total' = [total EXCEPT ![c] = @ - Size[oldest.key.source]]
       /\ victims' = [victims EXCEPT ![c] = Tail(@)]
    /\ UNCHANGED <<version, orphans, lock, pc, local, temp, store, reply>>

WriteTemporary(c) ==
    /\ pc[c] = "evict"
    /\ Fits(c)
    /\ temp' = [temp EXCEPT ![c] = TRUE]
    /\ Goto(c, "replace")
    /\ UNCHANGED <<version, disk, orphans, lock, local, victims, total, store, reply>>

\* os.replace: the entry appears complete, in place of the old one.
Replace(c) ==
    /\ pc[c] = "replace"
    /\ disk' = Append(Without(disk, Key(c)),
                      [key |-> Key(c), observation |-> Observation(c)])
    /\ temp' = [temp EXCEPT ![c] = FALSE]
    /\ EndStore(c, "stored")
    /\ Release(c)
    /\ UNCHANGED <<version, orphans, local, victims, total>>

\* An OSError anywhere under the lock; removing the temporary may fail too.
WriteError(c) ==
    /\ pc[c] \in {"room", "evict", "replace"}
    /\ temp' = [temp EXCEPT ![c] = FALSE]
    /\ orphans' \in IF temp[c] /\ orphans < MaxOrphans THEN {orphans, orphans + 1}
                                                       ELSE {orphans}
    /\ EndStore(c, "error")
    /\ Release(c)
    /\ UNCHANGED <<version, disk, local, victims, total>>

\* The caller has its answer; the locals of these calls go out of scope.
Forget(cs) ==
    /\ pc' = [c \in Clients |-> IF c \in cs THEN "idle" ELSE pc[c]]
    /\ source' = [c \in Clients |-> IF c \in cs THEN None ELSE source[c]]
    /\ before' = [c \in Clients |-> IF c \in cs THEN <<>> ELSE before[c]]
    /\ after' = [c \in Clients |-> IF c \in cs THEN <<>> ELSE after[c]]
    /\ cached' = [c \in Clients |-> IF c \in cs THEN None ELSE cached[c]]
    /\ parsed' = [c \in Clients |-> IF c \in cs THEN <<>> ELSE parsed[c]]
    /\ temp' = [c \in Clients |-> IF c \in cs THEN FALSE ELSE temp[c]]
    /\ victims' = [c \in Clients |-> IF c \in cs THEN <<>> ELSE victims[c]]
    /\ total' = [c \in Clients |-> IF c \in cs THEN 0 ELSE total[c]]
    /\ store' = [c \in Clients |-> IF c \in cs THEN None ELSE store[c]]
    /\ reply' = [c \in Clients |-> IF c \in cs THEN None ELSE reply[c]]
    /\ seen' = [c \in Clients |-> IF c \in cs THEN None ELSE seen[c]]

Return(c) ==
    /\ pc[c] = "done"
    /\ Forget({c})
    /\ UNCHANGED <<version, disk, orphans, lock, calls>>

\* A process dies between any two steps of its threads.
Crash(p) ==
    /\ \E c \in p : pc[c] # "idle"
    /\ Cardinality({c \in p : temp[c]}) + orphans <= MaxOrphans
    /\ orphans' = orphans + Cardinality({c \in p : temp[c]})
    /\ lock' = [lock EXCEPT ![p] = None]
    /\ Forget(p)
    /\ UNCHANGED <<version, disk, calls>>

Step(c) ==
    \/ ParseUncached(c) \/ FingerprintBefore(c) \/ Load(c) \/ Parse(c) \/ ParseRaises(c)
    \/ FingerprintAfter(c) \/ Compare(c)
    \/ Acquire(c) \/ MakeRoom(c) \/ Evict(c) \/ WriteTemporary(c)
    \/ Replace(c) \/ WriteError(c) \/ Return(c)

Next ==
    \/ \E f \in Files : Edit(f)
    \/ \E i \in DOMAIN disk : Damage(i)
    \/ \E c \in Clients : Step(c) \/ \E s \in Sources : Begin(c, s)
    \/ \E p \in DOMAIN lock : Crash(p)

\* A thread inside parse keeps running.
Spec == Init /\ [][Next]_vars /\ \A c \in Clients : WF_vars(Step(c))

-----------------------------------------------------------------------------
(* Properties.                                                              *)

\* The byte target, as _make_room keeps it when all threads share one lock:
\* the entries never exceed it, and while a new one lies beside them as a
\* temporary file, all but the entry that it replaces leave it room.  Not
\* promised, and not stated: the replaced entry and the temporaries of failed
\* writes, which _make_room does not count, and several processes.
EntriesBounded ==
    Cardinality(DOMAIN lock) = 1 =>
        /\ Bytes(disk) <= MaxBytes
        /\ \A c \in Clients : temp[c] =>
              Bytes(Without(disk, Key(c))) + Size[source[c]] <= MaxBytes

Shown(r) == IF r \in {None, Raised, Unchecked} THEN r ELSE <<r.source, r.contents>>

Abstract == INSTANCE FreshParse WITH
    asked <- source,
    reply <- [c \in Clients |-> Shown(reply[c])]

\* The cache cannot be seen from outside: hits, misses, damage, failed writes
\* and crashes only ever answer with one moment's contents.
ImplementsFreshParse == Abstract!Spec

\* A call ends whatever happens to the others: none keeps the lock.
CallEnds == \A c \in Clients : pc[c] # "idle" ~> pc[c] = "idle"
=============================================================================
