------------------------ MODULE ObservationCacheProofs ------------------------
(***************************************************************************)
(* The cache cannot be seen from outside: every answer of parse is the      *)
(* parse of contents that all files of the source had at one moment of the  *)
(* call, for any number of threads, processes, sources and files, and       *)
(* whatever happens to the directory.  And the entries of the directory     *)
(* stay within the byte target as long as one process uses it.              *)
(***************************************************************************)
EXTENDS ObservationCache, SequenceTheorems, FiniteSetTheorems, TLAPS

Versions == 0..MaxVersion

\* What has been read of some files.
Reads == UNION {[D -> Versions] : D \in SUBSET Files}

ContentsOf(s) == [FilesOf[s] -> Versions]

Observed(s, contents) == [source |-> s, contents |-> contents]

-----------------------------------------------------------------------------
(* Reading files one by one.                                               *)

LEMMA NothingRead == <<>> \in Reads /\ DOMAIN <<>> = {}
<1>1. <<>> \in Seq(Versions) /\ Len(<<>>) = 0
    BY EmptySeq
<1>2. <<>> \in [1..Len(<<>>) -> Versions]
    BY <1>1, LenProperties
<1>3. 1..Len(<<>>) = {}
    BY <1>1
<1>4. {} \in SUBSET Files /\ <<>> \in [{} -> Versions]
    BY <1>2, <1>3
<1>5. QED
    BY <1>4 DEF Reads

LEMMA ReadAdds ==
    ASSUME version \in [Files -> Versions], NEW r \in Reads, NEW f \in Files, f \notin DOMAIN r
    PROVE  /\ Read(r, f) \in Reads
           /\ DOMAIN Read(r, f) = DOMAIN r \cup {f}
           /\ Read(r, f)[f] = version[f]
           /\ \A g \in DOMAIN r : Read(r, f)[g] = r[g]
<1>1. Read(r, f) = [g \in DOMAIN r \cup {f} |-> IF g = f THEN version[f] ELSE r[g]]
    BY DEF Read
<1>2. DOMAIN r \in SUBSET Files /\ \A g \in DOMAIN r : r[g] \in Versions
    BY DEF Reads
<1>3. Read(r, f) \in [DOMAIN r \cup {f} -> Versions]
    BY <1>1, <1>2
<1>4. DOMAIN r \cup {f} \in SUBSET Files
    BY <1>2
<1>5. QED
    BY <1>1, <1>3, <1>4 DEF Reads

LEMMA AllRead ==
    ASSUME NEW r \in Reads, NEW s \in Sources, DOMAIN r = FilesOf[s]
    PROVE  r \in ContentsOf(s)
BY DEF Reads, ContentsOf

LEMMA SameContents ==
    ASSUME NEW s, NEW r \in ContentsOf(s), NEW q \in ContentsOf(s),
           \A f \in FilesOf[s] : r[f] = q[f]
    PROVE  r = q
BY DEF ContentsOf

LEMMA Squeezed ==
    ASSUME NEW s \in Sources, NEW a \in ContentsOf(s), NEW b \in ContentsOf(s), NEW m \in ContentsOf(s),
           a = b, \A f \in FilesOf[s] : b[f] <= m[f] /\ m[f] <= a[f]
    PROVE  m = b
<1>1. \A f \in FilesOf[s] : m[f] \in Int /\ b[f] \in Int /\ b[f] <= m[f] /\ m[f] <= b[f]
    BY BoundsAssumption DEF ContentsOf, Versions
<1>2. \A f \in FilesOf[s] : m[f] = b[f]
    BY <1>1
<1>3. QED
    BY <1>2, SameContents

LEMMA ObservationIsKey ==
    ASSUME NEW s \in Sources, NEW v \in ContentsOf(s)
    PROVE  /\ Observed(s, v) \in Keys /\ v # None
           /\ Shown(Observed(s, v)) = <<s, v>>
<1>1. Observed(s, v) \in Keys
    BY DEF Observed, Keys, ContentsOf, Versions
<1>2. v # None /\ Observed(s, v) \notin {None, Raised, Unchecked}
    BY <1>1, AnswersAssumption DEF ContentsOf, Versions
<1>3. QED
    BY <1>1, <1>2 DEF Shown, Observed

-----------------------------------------------------------------------------
(* The directory.                                                          *)

Entries == [key : Keys, observation : Keys \cup {Damaged}]

Genuine(e) == e.observation # Damaged => e.observation = e.key

Sound(entries) == \A i \in 1..Len(entries) : Genuine(entries[i])

LEMMA RemoveAtElements ==
    ASSUME NEW d \in Seq(Entries), NEW i \in 1..Len(d)
    PROVE  /\ RemoveAt(d, i) \in Seq(Entries)
           /\ Len(RemoveAt(d, i)) = Len(d) - 1
           /\ \A j \in 1..(Len(d) - 1) : RemoveAt(d, i)[j] = IF j < i THEN d[j] ELSE d[j + 1]
<1> DEFINE front == SubSeq(d, 1, i - 1)
           back == SubSeq(d, i + 1, Len(d))
<1>1. Len(d) \in Nat /\ i \in Int /\ 1 <= i /\ i <= Len(d)
    OBVIOUS
<1>2. RemoveAt(d, i) = front \o back
    BY DEF RemoveAt
<1>3. /\ front \in Seq(Entries) /\ Len(front) = i - 1
      /\ \A j \in 1..(i - 1) : front[j] = d[j]
    <2>1. \A j \in 1..(i - 1) : d[j] \in Entries
        BY <1>1
    <2>2. i - 1 \in Int /\ (1 <= i - 1 \/ i - 1 = 0)
        BY <1>1
    <2>3. QED
        BY <1>1, <2>1, <2>2, SubSeqProperties
<1>4. /\ back \in Seq(Entries) /\ Len(back) = Len(d) - i
      /\ \A j \in 1..(Len(d) - i) : back[j] = d[i + j]
    <2>1. \A j \in (i + 1)..Len(d) : d[j] \in Entries
        BY <1>1
    <2>2. /\ back \in Seq(Entries)
          /\ Len(back) = IF i + 1 <= Len(d) THEN Len(d) - (i + 1) + 1 ELSE 0
          /\ \A j \in 1..(Len(d) - (i + 1) + 1) : back[j] = d[(i + 1) + j - 1]
        BY <1>1, <2>1, SubSeqProperties
    <2>3. /\ Len(d) - (i + 1) + 1 = Len(d) - i
          /\ (IF i + 1 <= Len(d) THEN Len(d) - (i + 1) + 1 ELSE 0) = Len(d) - i
          /\ \A j \in 1..(Len(d) - i) : (i + 1) + j - 1 = i + j
        BY <1>1
    <2> HIDE DEF back
    <2>4. QED
        BY <2>2, <2>3
<1> HIDE DEF front, back
<1>5. /\ front \o back \in Seq(Entries)
      /\ Len(front \o back) = Len(front) + Len(back)
      /\ \A j \in 1..Len(front) + Len(back) :
            (front \o back)[j] = IF j <= Len(front) THEN front[j] ELSE back[j - Len(front)]
    BY <1>3, <1>4, ConcatProperties
<1>6. ASSUME NEW j \in 1..(Len(d) - 1)
      PROVE  (front \o back)[j] = IF j < i THEN d[j] ELSE d[j + 1]
    <2>1. j \in 1..Len(front) + Len(back)
        BY <1>1, <1>3, <1>4
    <2>2. CASE j < i
        <3>1. j \in 1..(i - 1) /\ j <= Len(front)
            BY <1>1, <1>3, <2>2
        <3>2. QED
            BY <1>3, <1>5, <2>1, <2>2, <3>1
    <2>3. CASE ~(j < i)
        <3>1. j - Len(front) \in 1..(Len(d) - i) /\ i + (j - Len(front)) = j + 1 /\ ~(j <= Len(front))
            BY <1>1, <1>3, <2>3
        <3>2. QED
            BY <1>4, <1>5, <2>1, <2>3, <3>1
    <2>4. QED
        BY <2>2, <2>3
<1>7. Len(front) + Len(back) = Len(d) - 1
    BY <1>1, <1>3, <1>4
<1>8. QED
    BY <1>2, <1>5, <1>6, <1>7

LEMMA WithoutSound ==
    ASSUME NEW d \in Seq(Entries), Sound(d), NEW k
    PROVE  Without(d, k) \in Seq(Entries) /\ Sound(Without(d, k))
<1> DEFINE named == {i \in DOMAIN d : d[i].key = k}
           i == CHOOSE j \in named : TRUE
<1>1. CASE named = {}
    BY <1>1 DEF Without
<1>2. CASE named # {}
    <2>1. i \in 1..Len(d) /\ Len(d) \in Nat /\ Without(d, k) = RemoveAt(d, i)
        BY <1>2 DEF Without
    <2> HIDE DEF i
    <2>2. /\ RemoveAt(d, i) \in Seq(Entries) /\ Len(RemoveAt(d, i)) = Len(d) - 1
          /\ \A j \in 1..(Len(d) - 1) : RemoveAt(d, i)[j] = IF j < i THEN d[j] ELSE d[j + 1]
        BY <2>1, RemoveAtElements
    <2>3. \A j \in 1..(Len(d) - 1) : j \in 1..Len(d) /\ j + 1 \in 1..Len(d)
        BY <2>1
    <2>4. QED
        BY <2>1, <2>2, <2>3 DEF Sound
<1>3. QED
    BY <1>1, <1>2

LEMMA AppendSound ==
    ASSUME NEW d \in Seq(Entries), Sound(d), NEW e \in Entries, Genuine(e)
    PROVE  Append(d, e) \in Seq(Entries) /\ Sound(Append(d, e))
<1>1. /\ Append(d, e) \in Seq(Entries) /\ Len(Append(d, e)) = Len(d) + 1 /\ Len(d) \in Nat
      /\ \A j \in 1..Len(d) : Append(d, e)[j] = d[j]
      /\ Append(d, e)[Len(d) + 1] = e
    OBVIOUS
<1>2. ASSUME NEW j \in 1..Len(Append(d, e))
      PROVE  Genuine(Append(d, e)[j])
    <2>1. j \in 1..Len(d) \/ j = Len(d) + 1
        BY <1>1
    <2>2. QED
        BY <1>1, <2>1 DEF Sound
<1>3. QED
    BY <1>1, <1>2 DEF Sound

-----------------------------------------------------------------------------
(* The inductive invariant.                                                *)

Storing == {"encoded", "room", "evict", "replace"}
Looking == {"load", "parse", "after"} \cup Storing
Labels == {"idle", "uncached", "before", "done"} \cup Looking

Typed ==
    /\ version \in [Files -> Versions]
    /\ disk \in Seq(Entries) /\ Sound(disk)
    /\ DOMAIN lock \subseteq SUBSET Clients
    /\ pc \in [Clients -> Labels]
    /\ source \in [Clients -> Sources \cup {None}]
    /\ before \in [Clients -> Reads] /\ after \in [Clients -> Reads]
    /\ parsed \in [Clients -> Reads]
    /\ cached \in [Clients -> Keys \cup {None}]
    /\ seen \in [Clients -> (UNION {ContentsOf(s) : s \in Sources}) \cup {None}]
    /\ reply \in [Clients -> Keys \cup {None, Raised, Unchecked}]

\* What a call has not come to is untouched.
NotYet(c) ==
    /\ pc[c] # "done" => reply[c] = None
    /\ pc[c] # "idle" => source[c] \in Sources
    /\ pc[c] = "idle" => source[c] = None /\ before[c] = <<>>
    /\ pc[c] \in {"idle", "uncached", "before"} => seen[c] = None
    /\ pc[c] \in {"idle", "uncached", "before", "load"} => cached[c] = None /\ parsed[c] = <<>>
    /\ pc[c] \in {"idle", "uncached", "before", "load", "parse"} => after[c] = <<>>

Fingerprinting(c) ==
    /\ DOMAIN before[c] \subseteq FilesOf[source[c]]
    /\ \A f \in DOMAIN before[c] : before[c][f] <= version[f]

\* The moment of the call: between the two fingerprints.
Sighted(c) ==
    /\ before[c] \in ContentsOf(source[c]) /\ seen[c] \in ContentsOf(source[c])
    /\ \A f \in FilesOf[source[c]] : before[c][f] <= seen[c][f] /\ seen[c][f] <= version[f]

Parsing(c) ==
    /\ DOMAIN parsed[c] \subseteq FilesOf[source[c]]
    /\ \A f \in DOMAIN parsed[c] :
        /\ seen[c][f] <= parsed[c][f] /\ parsed[c][f] <= version[f]
        /\ f \in DOMAIN after[c] => parsed[c][f] <= after[c][f]

Rereading(c) ==
    /\ DOMAIN after[c] \subseteq FilesOf[source[c]]
    /\ \A f \in DOMAIN after[c] : seen[c][f] <= after[c][f]
    /\ cached[c] # None => cached[c] = Key(c)
    /\ cached[c] = None => Parsing(c) /\ DOMAIN parsed[c] = FilesOf[source[c]]

Call(c) ==
    /\ NotYet(c)
    /\ pc[c] = "before" => Fingerprinting(c)
    /\ pc[c] \in Looking => Sighted(c)
    /\ pc[c] = "parse" => cached[c] = None /\ Parsing(c)
    /\ pc[c] = "after" => Rereading(c)
    /\ pc[c] \in Storing => cached[c] = None /\ before[c] = seen[c] /\ parsed[c] = seen[c]

IInv == Typed /\ \A c \in Clients : Call(c)

\* Nothing of a call has changed.
Same(c) ==
    /\ pc'[c] = pc[c] /\ source'[c] = source[c] /\ before'[c] = before[c]
    /\ after'[c] = after[c] /\ cached'[c] = cached[c] /\ parsed'[c] = parsed[c]
    /\ seen'[c] = seen[c] /\ reply'[c] = reply[c]

LEMMA InitInv ==
    ASSUME Init
    PROVE  IInv
<1>1. version \in [Files -> Versions]
    BY BoundsAssumption DEF Init, Versions
<1>2. disk \in Seq(Entries) /\ Sound(disk)
    <2>1. <<>> \in Seq(Entries) /\ 1..Len(<<>>) = {}
        BY EmptySeq
    <2>2. QED
        BY <2>1 DEF Init, Sound
<1>3. DOMAIN lock \subseteq SUBSET Clients
    <2>1. PICK d \in Deployments : lock = [p \in d.processes |-> None]
        BY DEF Init
    <2>2. \A p \in d.processes : p \subseteq Clients
        BY ClientsAssumption
    <2>3. QED
        BY <2>1, <2>2
<1>4. Typed
    BY <1>1, <1>2, <1>3, NothingRead DEF Init, Typed, Labels
<1>5. ASSUME NEW c \in Clients PROVE Call(c)
    BY DEF Init, Call, NotYet, Looking, Storing
<1>6. QED
    BY <1>4, <1>5 DEF IInv

(* An edit only makes contents newer, and another call's step is nothing   *)
(* to this one.                                                            *)
LEMMA CallKept ==
    ASSUME Typed, version' \in [Files -> Versions], \A g \in Files : version[g] <= version'[g],
           NEW c \in Clients, Call(c), Same(c)
    PROVE  Call(c)'
<1>1. NotYet(c)'
    BY DEF Call, NotYet, Same
<1>2. /\ \A f \in Files : version[f] \in Int /\ version'[f] \in Int
      /\ pc[c] # "idle" => source[c] \in Sources /\ FilesOf[source[c]] \subseteq Files
    BY BoundsAssumption, SourcesAssumption DEF Typed, Versions, Call, NotYet
<1>3. /\ DOMAIN before[c] \subseteq Files /\ \A f \in DOMAIN before[c] : before[c][f] \in Int
      /\ DOMAIN parsed[c] \subseteq Files /\ \A f \in DOMAIN parsed[c] : parsed[c][f] \in Int
    BY BoundsAssumption DEF Typed, Reads, Versions
<1>4. ASSUME pc[c] = "before" PROVE Fingerprinting(c)'
    <2>1. Fingerprinting(c)
        BY <1>4 DEF Call
    <2>2. QED
        BY <1>2, <1>3, <2>1 DEF Fingerprinting, Same
<1>5. ASSUME pc[c] \in Looking PROVE Sighted(c)'
    <2>1. Sighted(c) /\ pc[c] # "idle"
        BY <1>5 DEF Call, Looking, Storing
    <2>2. \A f \in FilesOf[source[c]] : seen[c][f] \in Int
        BY <2>1, BoundsAssumption DEF Sighted, ContentsOf, Versions
    <2>3. QED
        BY <1>2, <2>1, <2>2 DEF Sighted, Same
<1>6. ASSUME Parsing(c) PROVE Parsing(c)'
    BY <1>2, <1>3, <1>6 DEF Parsing, Same
<1>7. ASSUME pc[c] = "after" PROVE Rereading(c)'
    BY <1>6, <1>7 DEF Call, Rereading, Same, Key
<1>8. QED
    BY <1>1, <1>4, <1>5, <1>6, <1>7 DEF Call, Same

LEMMA OneMoves ==
    ASSUME IInv, Typed', version' = version, NEW c \in Clients, Call(c)',
           \A d \in Clients \ {c} : Same(d)
    PROVE  IInv'
<1>1. ASSUME NEW d \in Clients PROVE Call(d)'
    <2>1. CASE d = c
        BY <2>1
    <2>2. CASE d # c
        <3>1. version' \in [Files -> Versions] /\ \A g \in Files : version[g] <= version'[g]
            BY BoundsAssumption DEF IInv, Typed, Versions
        <3>2. QED
            BY <2>2, <3>1, CallKept DEF IInv
    <2>3. QED
        BY <2>1, <2>2
<1>2. QED
    BY <1>1 DEF IInv

-----------------------------------------------------------------------------
(* The environment, and the beginning of a call.                           *)

LEMMA EditInv ==
    ASSUME IInv, NEW f \in Files, Edit(f)
    PROVE  IInv'
<1>1. /\ version' = [version EXCEPT ![f] = version[f] + 1] /\ version[f] < MaxVersion
      /\ UNCHANGED <<disk, lock, pc, source, before, after, cached, parsed, seen, reply>>
    BY DEF Edit, local
<1>2. version' \in [Files -> Versions] /\ \A g \in Files : version[g] <= version'[g]
    BY <1>1, BoundsAssumption DEF IInv, Typed, Versions
<1>3. Typed'
    BY <1>1, <1>2 DEF IInv, Typed
<1>4. \A c \in Clients : Same(c)
    BY <1>1 DEF Same
<1>5. QED
    BY <1>2, <1>3, <1>4, CallKept DEF IInv

LEMMA DamageInv ==
    ASSUME IInv, NEW i \in DOMAIN disk, Damage(i)
    PROVE  IInv'
<1>1. /\ disk' = [disk EXCEPT ![i].observation = Damaged]
      /\ UNCHANGED <<version, lock, pc, source, before, after, cached, parsed, seen, reply>>
    BY DEF Damage, local
<1>2. disk' \in Seq(Entries) /\ Sound(disk')
    <2>1. disk \in Seq(Entries) /\ i \in 1..Len(disk) /\ Sound(disk)
        BY DEF IInv, Typed
    <2> DEFINE e == [disk[i] EXCEPT !.observation = Damaged]
    <2>2. disk[i] \in Entries
        BY <2>1
    <2>3. e \in Entries /\ Genuine(e)
        BY <2>2 DEF Entries, Genuine
    <2>4. disk' = [disk EXCEPT ![i] = e]
        BY <1>1
    <2> HIDE DEF e
    <2>5. /\ disk' \in Seq(Entries) /\ Len(disk') = Len(disk)
          /\ \A j \in 1..Len(disk) : disk'[j] = IF j = i THEN e ELSE disk[j]
        BY <2>1, <2>3, <2>4, ExceptSeq
    <2>6. QED
        BY <2>1, <2>3, <2>5 DEF Sound
<1>3. Typed'
    BY <1>1, <1>2 DEF IInv, Typed
<1>4. \A c \in Clients : Same(c)
    BY <1>1 DEF Same
<1>5. version' \in [Files -> Versions] /\ \A g \in Files : version[g] <= version'[g]
    BY <1>1, BoundsAssumption DEF IInv, Typed, Versions
<1>6. QED
    BY <1>3, <1>4, <1>5, CallKept DEF IInv

LEMMA BeginInv ==
    ASSUME IInv, NEW c \in Clients, NEW s \in Sources, Begin(c, s)
    PROVE  IInv'
<1>1. /\ pc[c] = "idle" /\ source' = [source EXCEPT ![c] = s]
      /\ pc' = [pc EXCEPT ![c] = IF s \in Cacheable THEN "before" ELSE "uncached"]
      /\ UNCHANGED <<version, disk, lock, before, after, cached, parsed, seen, reply>>
    BY DEF Begin, Goto
<1>2. Typed /\ Call(c)
    BY DEF IInv
<1>3. Typed'
    BY <1>1, <1>2 DEF Typed, Labels
<1>4. /\ pc'[c] \in {"before", "uncached"} /\ source'[c] = s
      /\ \A d \in Clients \ {c} : Same(d)
    BY <1>1, <1>2 DEF Typed, Same
<1>5. NotYet(c)'
    BY <1>1, <1>2, <1>4 DEF Call, NotYet
<1>6. Fingerprinting(c)'
    <2>1. before'[c] = <<>>
        BY <1>1, <1>2 DEF Call, NotYet
    <2>2. DOMAIN before'[c] = {}
        BY <2>1, NothingRead
    <2>3. QED
        BY <2>2 DEF Fingerprinting
<1>7. Call(c)'
    BY <1>4, <1>5, <1>6 DEF Call, Looking, Storing
<1>8. QED
    BY <1>1, <1>3, <1>4, <1>7, OneMoves

-----------------------------------------------------------------------------
(* The answers.                                                            *)

(* What a call answers with, it may answer with at any point.              *)
LEMMA AnswerInv ==
    ASSUME IInv, NEW c \in Clients, pc[c] # "idle",
           NEW r \in Keys \cup {None, Raised, Unchecked}, reply' = [reply EXCEPT ![c] = r],
           pc' = [pc EXCEPT ![c] = "done"],
           disk' \in Seq(Entries), Sound(disk'), DOMAIN lock' = DOMAIN lock,
           UNCHANGED <<version, source, before, after, cached, parsed, seen>>
    PROVE  IInv'
<1>1. Typed /\ Call(c)
    BY DEF IInv
<1>2. Typed'
    BY <1>1 DEF Typed, Labels
<1>3. pc'[c] = "done" /\ \A d \in Clients \ {c} : Same(d)
    BY <1>1 DEF Typed, Same
<1>4. NotYet(c)'
    BY <1>1, <1>3 DEF Call, NotYet
<1>5. Call(c)'
    BY <1>3, <1>4 DEF Call, Looking, Storing
<1>6. QED
    BY <1>2, <1>3, <1>5, OneMoves

LEMMA ParseUncachedInv ==
    ASSUME IInv, NEW c \in Clients, ParseUncached(c)
    PROVE  IInv'
<1>1. /\ pc[c] # "idle" /\ reply' = [reply EXCEPT ![c] = Unchecked]
      /\ pc' = [pc EXCEPT ![c] = "done"]
      /\ UNCHANGED <<version, disk, lock, source, before, after, cached, parsed, seen>>
    BY DEF ParseUncached, Goto, local
<1>2. disk' \in Seq(Entries) /\ Sound(disk')
    BY <1>1 DEF IInv, Typed
<1>3. QED
    BY <1>1, <1>2, AnswerInv

LEMMA ParseRaisesInv ==
    ASSUME IInv, NEW c \in Clients, ParseRaises(c)
    PROVE  IInv'
<1>1. /\ pc[c] # "idle" /\ reply' = [reply EXCEPT ![c] = Raised]
      /\ pc' = [pc EXCEPT ![c] = "done"]
      /\ UNCHANGED <<version, disk, lock, source, before, after, cached, parsed, seen>>
    BY DEF ParseRaises, Goto, local
<1>2. disk' \in Seq(Entries) /\ Sound(disk')
    BY <1>1 DEF IInv, Typed
<1>3. QED
    BY <1>1, <1>2, AnswerInv

-----------------------------------------------------------------------------
(* The steps of a call up to the second fingerprint.                       *)

(* A file that was not read yet is read at its present contents.           *)
OneMore(c, r, f) ==
    /\ Read(r, f) \in Reads /\ f \in FilesOf[source[c]] /\ source[c] \in Sources
    /\ DOMAIN Read(r, f) = DOMAIN r \cup {f}
    /\ DOMAIN Read(r, f) \subseteq FilesOf[source[c]]
    /\ Unread(c, r) = {f} => DOMAIN Read(r, f) = FilesOf[source[c]]
    /\ Read(r, f)[f] = version[f]
    /\ \A g \in DOMAIN r : Read(r, f)[g] = r[g]

LEMMA OneMoreFile ==
    ASSUME IInv, NEW c \in Clients, pc[c] # "idle",
           NEW r \in Reads, DOMAIN r \subseteq FilesOf[source[c]],
           NEW f \in Unread(c, r)
    PROVE  OneMore(c, r, f)
<1>1. source[c] \in Sources /\ f \in FilesOf[source[c]] /\ f \notin DOMAIN r
    BY DEF IInv, Call, NotYet, Unread
<1>2. f \in Files
    BY <1>1, SourcesAssumption
<1>3. /\ Read(r, f) \in Reads /\ DOMAIN Read(r, f) = DOMAIN r \cup {f}
      /\ Read(r, f)[f] = version[f] /\ \A g \in DOMAIN r : Read(r, f)[g] = r[g]
    BY <1>1, <1>2, ReadAdds DEF IInv, Typed
<1>4. Unread(c, r) = {f} => DOMAIN r \cup {f} = FilesOf[source[c]]
    BY <1>1 DEF Unread
<1>5. QED
    BY <1>1, <1>3, <1>4 DEF OneMore

LEMMA FingerprintBeforeInv ==
    ASSUME IInv, NEW c \in Clients, FingerprintBefore(c)
    PROVE  IInv'
<1>1. /\ pc[c] = "before" /\ pc[c] # "idle" /\ Typed /\ Call(c) /\ Fingerprinting(c)
      /\ UNCHANGED <<version, disk, lock, source, after, cached, parsed, reply>>
    BY DEF IInv, FingerprintBefore, Call
<1>2. PICK f \in Unread(c, before[c]) :
        IF <<f, version[f]>> \in Backtick
        THEN /\ pc' = [pc EXCEPT ![c] = "uncached"]
             /\ UNCHANGED <<before, seen>>
        ELSE /\ before' = [before EXCEPT ![c] = Read(before[c], f)]
             /\ IF Unread(c, before[c]) = {f}
                THEN /\ seen' = [seen EXCEPT ![c] = [g \in FilesOf[source[c]] |-> version[g]]]
                     /\ pc' = [pc EXCEPT ![c] = "load"]
                ELSE UNCHANGED <<pc, seen>>
    BY DEF FingerprintBefore, Goto
<1> DEFINE r == Read(before[c], f)
<1>3. /\ r \in Reads /\ f \in FilesOf[source[c]] /\ source[c] \in Sources
      /\ DOMAIN r = DOMAIN before[c] \cup {f} /\ DOMAIN r \subseteq FilesOf[source[c]]
      /\ Unread(c, before[c]) = {f} => DOMAIN r = FilesOf[source[c]]
      /\ r[f] = version[f] /\ \A g \in DOMAIN before[c] : r[g] = before[c][g]
    <2>1. before[c] \in Reads /\ DOMAIN before[c] \subseteq FilesOf[source[c]]
        BY <1>1 DEF Fingerprinting, Typed
    <2>2. OneMore(c, before[c], f)
        BY <1>1, <2>1, OneMoreFile
    <2>3. QED
        BY <2>2 DEF OneMore
<1> HIDE DEF r
<1>4. FilesOf[source[c]] \subseteq Files /\ \A g \in Files : version[g] \in Versions /\ version[g] \in Int
    BY <1>1, <1>3, SourcesAssumption, BoundsAssumption DEF Typed, Versions
<1>5. \A g \in DOMAIN r : r[g] <= version[g]
    BY <1>1, <1>3, <1>4 DEF Fingerprinting
<1>6. CASE <<f, version[f]>> \in Backtick
    <2>1. pc' = [pc EXCEPT ![c] = "uncached"] /\ UNCHANGED <<before, seen>>
        BY <1>2, <1>6
    <2>2. Typed'
        BY <1>1, <2>1 DEF Typed, Labels
    <2>3. pc'[c] = "uncached" /\ \A d \in Clients \ {c} : Same(d)
        BY <1>1, <2>1 DEF Typed, Same
    <2>4. NotYet(c)'
        BY <1>1, <2>1, <2>3 DEF Call, NotYet
    <2>5. Call(c)'
        BY <2>3, <2>4 DEF Call, Looking, Storing
    <2>6. QED
        BY <1>1, <2>2, <2>3, <2>5, OneMoves
<1>7. CASE <<f, version[f]>> \notin Backtick /\ Unread(c, before[c]) # {f}
    <2>1. before' = [before EXCEPT ![c] = r] /\ UNCHANGED <<pc, seen>>
        BY <1>2, <1>7 DEF r
    <2>2. Typed'
        BY <1>1, <1>3, <2>1 DEF Typed
    <2>3. before'[c] = r /\ \A d \in Clients \ {c} : Same(d)
        BY <1>1, <2>1 DEF Typed, Same
    <2>4. NotYet(c)'
        BY <1>1, <2>1 DEF Call, NotYet
    <2>5. Fingerprinting(c)'
        BY <1>1, <1>3, <1>5, <2>3 DEF Fingerprinting
    <2>6. Call(c)'
        BY <1>1, <2>1, <2>4, <2>5 DEF Call, Looking, Storing
    <2>7. QED
        BY <1>1, <2>2, <2>3, <2>6, OneMoves
<1>8. CASE <<f, version[f]>> \notin Backtick /\ Unread(c, before[c]) = {f}
    <2> DEFINE v == [g \in FilesOf[source[c]] |-> version[g]]
    <2>1. /\ before' = [before EXCEPT ![c] = r] /\ seen' = [seen EXCEPT ![c] = v]
          /\ pc' = [pc EXCEPT ![c] = "load"]
        BY <1>2, <1>8 DEF r
    <2>2. v \in ContentsOf(source[c])
        BY <1>4 DEF ContentsOf
    <2>3. \A g \in FilesOf[source[c]] : v[g] = version[g]
        OBVIOUS
    <2> HIDE DEF v
    <2>4. Typed'
        <3>1. v \in UNION {ContentsOf(s) : s \in Sources}
            BY <1>3, <2>2
        <3>2. QED
            BY <1>1, <1>3, <2>1, <3>1 DEF Typed, Labels, Looking
    <2>5. pc'[c] = "load" /\ before'[c] = r /\ seen'[c] = v /\ \A d \in Clients \ {c} : Same(d)
        BY <1>1, <2>1 DEF Typed, Same
    <2>6. NotYet(c)'
        BY <1>1, <2>5 DEF Call, NotYet
    <2>7. Sighted(c)'
        <3>1. r \in ContentsOf(source[c])
            BY <1>3, <1>8, AllRead
        <3>2. \A g \in FilesOf[source[c]] : r[g] <= v[g] /\ v[g] <= version[g]
            BY <1>3, <1>4, <1>5, <1>8, <2>3
        <3>3. QED
            BY <1>1, <2>2, <2>5, <3>1, <3>2 DEF Sighted
    <2>8. Call(c)'
        BY <2>5, <2>6, <2>7 DEF Call, Storing
    <2>9. QED
        BY <1>1, <2>4, <2>5, <2>8, OneMoves
<1>9. QED
    BY <1>6, <1>7, <1>8

LEMMA LoadInv ==
    ASSUME IInv, NEW c \in Clients, Load(c)
    PROVE  IInv'
<1> DEFINE hits == {i \in DOMAIN disk : disk[i].key = Key(c) /\ disk[i].observation # Damaged}
<1>1. /\ pc[c] = "load" /\ Typed /\ Call(c) /\ Sighted(c) /\ parsed[c] = <<>> /\ after[c] = <<>>
      /\ cached[c] = None
      /\ UNCHANGED <<version, disk, lock, source, before, after, parsed, seen, reply>>
    BY DEF IInv, Load, Call, NotYet, Looking
<1>2. CASE hits = {}
    <2>1. pc' = [pc EXCEPT ![c] = "parse"] /\ cached' = cached
        BY <1>2 DEF Load, Goto
    <2>2. Typed'
        BY <1>1, <2>1 DEF Typed, Labels, Looking
    <2>3. pc'[c] = "parse" /\ \A d \in Clients \ {c} : Same(d)
        BY <1>1, <2>1 DEF Typed, Same
    <2>4. NotYet(c)'
        BY <1>1, <2>1, <2>3 DEF Call, NotYet
    <2>5. Sighted(c)'
        BY <1>1 DEF Sighted
    <2>6. Parsing(c)'
        BY <1>1, NothingRead DEF Parsing
    <2>7. Call(c)'
        BY <1>1, <2>1, <2>3, <2>4, <2>5, <2>6 DEF Call, Storing
    <2>8. QED
        BY <1>1, <2>2, <2>3, <2>7, OneMoves
<1>3. CASE hits # {}
    <2>1. PICK i \in hits : cached' = [cached EXCEPT ![c] = disk[i].observation]
        BY <1>3 DEF Load
    <2>2. pc' = [pc EXCEPT ![c] = "after"]
        BY <1>3 DEF Load, Goto
    <2>3. disk[i].observation \in Keys /\ disk[i].observation = Key(c)
        <3>1. i \in 1..Len(disk) /\ disk[i] \in Entries /\ Genuine(disk[i])
            BY <1>1 DEF Typed, Sound
        <3>2. QED
            BY <3>1 DEF Entries, Genuine
    <2>4. Typed'
        BY <1>1, <2>1, <2>2, <2>3 DEF Typed, Labels, Looking
    <2>5. pc'[c] = "after" /\ cached'[c] = Key(c) /\ \A d \in Clients \ {c} : Same(d)
        BY <1>1, <2>1, <2>2, <2>3 DEF Typed, Same
    <2>6. NotYet(c)'
        BY <1>1, <2>5 DEF Call, NotYet
    <2>7. Sighted(c)'
        BY <1>1 DEF Sighted
    <2>8. Rereading(c)'
        <3>1. cached'[c] # None /\ Key(c)' = Key(c)
            BY <1>1, <2>3, <2>5, AnswersAssumption DEF Key
        <3>2. DOMAIN after'[c] = {}
            BY <1>1, NothingRead
        <3>3. QED
            BY <2>5, <3>1, <3>2 DEF Rereading
    <2>9. Call(c)'
        BY <2>5, <2>6, <2>7, <2>8 DEF Call, Storing
    <2>10. QED
        BY <1>1, <2>4, <2>5, <2>9, OneMoves
<1>4. QED
    BY <1>2, <1>3

LEMMA ParseInv ==
    ASSUME IInv, NEW c \in Clients, Parse(c)
    PROVE  IInv'
<1>1. /\ pc[c] = "parse" /\ pc[c] # "idle" /\ Typed /\ Call(c) /\ Sighted(c) /\ Parsing(c)
      /\ cached[c] = None /\ after[c] = <<>>
      /\ UNCHANGED <<version, disk, lock, source, before, after, cached, seen, reply>>
    BY DEF IInv, Parse, Call, NotYet, Looking
<1>2. PICK f \in Unread(c, parsed[c]) :
        /\ parsed' = [parsed EXCEPT ![c] = Read(parsed[c], f)]
        /\ IF Unread(c, parsed[c]) = {f} THEN pc' = [pc EXCEPT ![c] = "after"] ELSE UNCHANGED pc
    BY DEF Parse, Goto
<1> DEFINE r == Read(parsed[c], f)
<1>3. /\ r \in Reads /\ f \in FilesOf[source[c]] /\ source[c] \in Sources
      /\ DOMAIN r = DOMAIN parsed[c] \cup {f} /\ DOMAIN r \subseteq FilesOf[source[c]]
      /\ Unread(c, parsed[c]) = {f} => DOMAIN r = FilesOf[source[c]]
      /\ r[f] = version[f] /\ \A g \in DOMAIN parsed[c] : r[g] = parsed[c][g]
    <2>1. parsed[c] \in Reads /\ DOMAIN parsed[c] \subseteq FilesOf[source[c]]
        BY <1>1 DEF Parsing, Typed
    <2>2. OneMore(c, parsed[c], f)
        BY <1>1, <2>1, OneMoreFile
    <2>3. QED
        BY <2>2 DEF OneMore
<1>4. parsed' = [parsed EXCEPT ![c] = r]
    BY <1>2
<1> HIDE DEF r
<1>5. \A g \in DOMAIN r : seen[c][g] <= r[g] /\ r[g] <= version[g]
    <2>1. version[f] \in Int /\ seen[c][f] <= version[f]
        BY <1>1, <1>3, SourcesAssumption, BoundsAssumption DEF Typed, Versions, Sighted
    <2>2. QED
        BY <1>1, <1>3, <2>1 DEF Parsing
<1>6. pc' = [pc EXCEPT ![c] = "after"] \/ pc' = pc
    BY <1>2
<1>7. Typed'
    BY <1>1, <1>3, <1>4, <1>6 DEF Typed, Labels, Looking
<1>8. parsed'[c] = r /\ \A d \in Clients \ {c} : Same(d)
    BY <1>1, <1>4, <1>6 DEF Typed, Same
<1>9. pc'[c] \in {"parse", "after"} /\ (pc'[c] = "after" => DOMAIN r = FilesOf[source[c]])
    BY <1>1, <1>2, <1>3 DEF Typed
<1>10. NotYet(c)'
    BY <1>1, <1>9 DEF Call, NotYet
<1>11. Sighted(c)'
    BY <1>1 DEF Sighted
<1>12. DOMAIN after[c] = {}
    BY <1>1, NothingRead
<1>13. Parsing(c)'
    BY <1>1, <1>3, <1>5, <1>8, <1>12 DEF Parsing
<1>14. ASSUME pc'[c] = "after" PROVE Rereading(c)'
    BY <1>1, <1>8, <1>9, <1>12, <1>13, <1>14 DEF Rereading
<1>15. Call(c)'
    BY <1>1, <1>9, <1>10, <1>11, <1>13, <1>14 DEF Call, Storing
<1>16. QED
    BY <1>1, <1>7, <1>8, <1>15, OneMoves

LEMMA FingerprintAfterInv ==
    ASSUME IInv, NEW c \in Clients, FingerprintAfter(c)
    PROVE  IInv'
<1>1. /\ pc[c] = "after" /\ pc[c] # "idle" /\ Typed /\ Call(c) /\ Sighted(c) /\ Rereading(c)
      /\ UNCHANGED <<version, disk, lock, pc, source, before, cached, parsed, seen, reply>>
    BY DEF IInv, FingerprintAfter, Call, Looking
<1>2. PICK f \in Unread(c, after[c]) : after' = [after EXCEPT ![c] = Read(after[c], f)]
    BY DEF FingerprintAfter
<1> DEFINE r == Read(after[c], f)
<1>3. /\ r \in Reads /\ f \in FilesOf[source[c]] /\ source[c] \in Sources
      /\ DOMAIN r = DOMAIN after[c] \cup {f} /\ DOMAIN r \subseteq FilesOf[source[c]]
      /\ r[f] = version[f] /\ \A g \in DOMAIN after[c] : r[g] = after[c][g]
    <2>1. after[c] \in Reads /\ DOMAIN after[c] \subseteq FilesOf[source[c]]
        BY <1>1 DEF Rereading, Typed
    <2>2. OneMore(c, after[c], f)
        BY <1>1, <2>1, OneMoreFile
    <2>3. QED
        BY <2>2 DEF OneMore
<1>4. after' = [after EXCEPT ![c] = r]
    BY <1>2
<1> HIDE DEF r
<1>5. Typed'
    BY <1>1, <1>3, <1>4 DEF Typed
<1>6. after'[c] = r /\ \A d \in Clients \ {c} : Same(d)
    BY <1>1, <1>4 DEF Typed, Same
<1>7. NotYet(c)'
    BY <1>1 DEF Call, NotYet
<1>8. Sighted(c)'
    BY <1>1 DEF Sighted
<1>9. ASSUME Parsing(c) PROVE Parsing(c)'
    BY <1>1, <1>3, <1>6, <1>9 DEF Parsing
<1>10. Rereading(c)'
    <2>1. \A g \in DOMAIN r : seen[c][g] <= r[g]
        BY <1>1, <1>3 DEF Rereading, Sighted
    <2>2. QED
        BY <1>1, <1>3, <1>6, <1>9, <2>1 DEF Rereading, Key
<1>11. Call(c)'
    BY <1>1, <1>7, <1>8, <1>10 DEF Call, Storing
<1>12. QED
    BY <1>1, <1>5, <1>6, <1>11, OneMoves

-----------------------------------------------------------------------------
(* The second fingerprint and the store.                                   *)

(* Equal fingerprints leave no room between them: every read of a file in  *)
(* between saw the contents of the moment.                                 *)
LEMMA StableMoment ==
    ASSUME IInv, NEW c \in Clients, pc[c] = "after", Unread(c, after[c]) = {}, Stable(c)
    PROVE  /\ before[c] = seen[c]
           /\ cached[c] = None => parsed[c] = seen[c]
<1> DEFINE s == source[c]
<1>1. Sighted(c) /\ Rereading(c) /\ s \in Sources /\ Typed
    BY DEF IInv, Call, NotYet, Looking
<1>2. after[c] = before[c] /\ DOMAIN after[c] = FilesOf[s]
    BY <1>1 DEF Stable, Unread, Rereading
<1>3. after[c] \in ContentsOf(s) /\ before[c] \in ContentsOf(s) /\ seen[c] \in ContentsOf(s)
    BY <1>1, <1>2 DEF Sighted
<1>4. \A f \in FilesOf[s] : before[c][f] <= seen[c][f] /\ seen[c][f] <= after[c][f]
    BY <1>1, <1>2 DEF Sighted, Rereading
<1>5. seen[c] = before[c]
    BY <1>1, <1>2, <1>3, <1>4, Squeezed
<1>6. ASSUME cached[c] = None PROVE parsed[c] = seen[c]
    <2>1. parsed[c] \in ContentsOf(s)
        BY <1>1, <1>6, AllRead DEF Rereading, Typed
    <2>2. \A f \in FilesOf[s] : seen[c][f] <= parsed[c][f] /\ parsed[c][f] <= after[c][f]
        BY <1>1, <1>2, <1>6 DEF Rereading, Parsing
    <2>3. QED
        BY <1>1, <1>2, <1>3, <1>5, <2>1, <2>2, Squeezed
<1>7. QED
    BY <1>5, <1>6

(* What is answered or stored is the parse of the moment, and its key too. *)
LEMMA MomentObserved ==
    ASSUME IInv, NEW c \in Clients,
           \/ pc[c] \in Storing
           \/ pc[c] = "after" /\ Unread(c, after[c]) = {} /\ Stable(c)
    PROVE  /\ Observation(c) = Observed(source[c], seen[c])
           /\ Key(c) = Observed(source[c], seen[c])
           /\ source[c] \in Sources /\ seen[c] \in ContentsOf(source[c])
           /\ Observation(c) \in Keys
<1>1. /\ before[c] = seen[c]
      /\ cached[c] = None => parsed[c] = seen[c]
      /\ cached[c] # None => cached[c] = Key(c)
      /\ Sighted(c) /\ source[c] \in Sources
    <2>1. CASE pc[c] \in Storing
        BY <2>1 DEF IInv, Call, NotYet, Looking, Storing
    <2>2. CASE pc[c] = "after" /\ Unread(c, after[c]) = {} /\ Stable(c)
        <3>1. before[c] = seen[c] /\ (cached[c] = None => parsed[c] = seen[c])
            BY <2>2, StableMoment
        <3>2. Sighted(c) /\ source[c] \in Sources /\ Rereading(c)
            BY <2>2 DEF IInv, Call, NotYet, Looking
        <3>3. QED
            BY <3>1, <3>2 DEF Rereading
    <2>3. QED
        BY <2>1, <2>2
<1>2. Key(c) = Observed(source[c], seen[c]) /\ seen[c] \in ContentsOf(source[c])
    BY <1>1 DEF Key, Observed, Sighted
<1>3. Observation(c) = Observed(source[c], seen[c])
    BY <1>1, <1>2 DEF Observation, Observed
<1>4. QED
    BY <1>1, <1>2, <1>3, ObservationIsKey

LEMMA CompareInv ==
    ASSUME IInv, NEW c \in Clients, Compare(c)
    PROVE  IInv'
<1>1. /\ pc[c] = "after" /\ pc[c] # "idle" /\ Unread(c, after[c]) = {} /\ Typed /\ Call(c)
      /\ UNCHANGED <<version, disk, lock, source, before, after, cached, parsed, seen>>
    BY DEF IInv, Compare, local
<1>2. disk' \in Seq(Entries) /\ Sound(disk')
    BY <1>1 DEF Typed
<1>3. CASE reply' = [reply EXCEPT ![c] = Raised] /\ pc' = [pc EXCEPT ![c] = "done"]
    BY <1>1, <1>2, <1>3, AnswerInv
<1>4. CASE Stable(c) /\ reply' = [reply EXCEPT ![c] = Observation(c)] /\ pc' = [pc EXCEPT ![c] = "done"]
    <2>1. Observation(c) \in Keys
        BY <1>1, <1>4, MomentObserved
    <2>2. QED
        BY <1>1, <1>2, <1>4, <2>1, AnswerInv
<1>5. CASE Stable(c) /\ cached[c] = None /\ pc' = [pc EXCEPT ![c] = "encoded"] /\ reply' = reply
    <2>1. before[c] = seen[c] /\ parsed[c] = seen[c]
        BY <1>1, <1>5, StableMoment
    <2>2. Typed'
        BY <1>1, <1>5 DEF Typed, Labels, Looking, Storing
    <2>3. pc'[c] = "encoded" /\ \A d \in Clients \ {c} : Same(d)
        BY <1>1, <1>5 DEF Typed, Same
    <2>4. NotYet(c)'
        BY <1>1, <1>5, <2>3 DEF Call, NotYet
    <2>5. Sighted(c)'
        BY <1>1 DEF Call, Sighted, Looking
    <2>6. Call(c)'
        BY <1>1, <1>5, <2>1, <2>3, <2>4, <2>5 DEF Call
    <2>7. QED
        BY <1>1, <2>2, <2>3, <2>6, OneMoves
<1>6. QED
    BY <1>3, <1>4, <1>5 DEF Compare, EndStore, Goto

(* Within the store a call only changes its place.                         *)
LEMMA StoringInv ==
    ASSUME IInv, NEW c \in Clients, pc[c] \in Storing,
           NEW label \in Storing, pc' = [pc EXCEPT ![c] = label],
           disk' \in Seq(Entries), Sound(disk'), DOMAIN lock' = DOMAIN lock,
           UNCHANGED <<version, source, before, after, cached, parsed, seen, reply>>
    PROVE  IInv'
<1>1. Typed /\ Call(c)
    BY DEF IInv
<1>2. Typed'
    BY <1>1 DEF Typed, Labels, Looking
<1>3. pc'[c] = label /\ \A d \in Clients \ {c} : Same(d)
    BY <1>1 DEF Typed, Same
<1>4. NotYet(c)'
    BY <1>1, <1>3 DEF Call, NotYet, Storing
<1>5. Sighted(c)'
    BY <1>1 DEF Call, Sighted, Looking
<1>6. Call(c)'
    BY <1>1, <1>3, <1>4, <1>5 DEF Call, Storing
<1>7. QED
    BY <1>2, <1>3, <1>6, OneMoves

LEMMA AcquireInv ==
    ASSUME IInv, NEW c \in Clients, Acquire(c)
    PROVE  IInv'
<1>1. /\ pc[c] \in Storing /\ "room" \in Storing /\ pc' = [pc EXCEPT ![c] = "room"]
      /\ DOMAIN lock' = DOMAIN lock
      /\ UNCHANGED <<version, disk, source, before, after, cached, parsed, seen, reply>>
    BY DEF Acquire, Goto, Storing, local
<1>2. disk' \in Seq(Entries) /\ Sound(disk')
    BY <1>1 DEF IInv, Typed
<1>3. QED
    BY <1>1, <1>2, StoringInv

LEMMA EndStoreInv ==
    ASSUME IInv, NEW c \in Clients, pc[c] \in Storing, NEW how, EndStore(c, how), Release(c),
           disk' \in Seq(Entries), Sound(disk'),
           UNCHANGED <<version, source, before, after, cached, parsed, seen>>
    PROVE  IInv'
<1>1. Observation(c) \in Keys
    BY MomentObserved
<1>2. /\ reply' = [reply EXCEPT ![c] = Observation(c)] /\ pc' = [pc EXCEPT ![c] = "done"]
      /\ DOMAIN lock' = DOMAIN lock /\ pc[c] # "idle"
    BY DEF EndStore, Goto, Release, Storing
<1>3. QED
    BY <1>1, <1>2, AnswerInv

LEMMA MakeRoomInv ==
    ASSUME IInv, NEW c \in Clients, MakeRoom(c)
    PROVE  IInv'
<1>1. /\ pc[c] \in Storing
      /\ UNCHANGED <<version, disk, source, before, after, cached, parsed, seen>>
    BY DEF MakeRoom, Storing, local
<1>2. disk' \in Seq(Entries) /\ Sound(disk')
    BY <1>1 DEF IInv, Typed
<1>3. CASE EndStore(c, "no room") /\ Release(c)
    BY <1>1, <1>2, <1>3, EndStoreInv
<1>4. CASE Goto(c, "evict") /\ UNCHANGED <<lock, reply>>
    <2>1. "evict" \in Storing /\ pc' = [pc EXCEPT ![c] = "evict"] /\ lock' = lock /\ reply' = reply
        BY <1>4 DEF Goto, Storing
    <2>2. QED
        BY <1>1, <1>2, <2>1, StoringInv
<1>5. QED
    BY <1>3, <1>4 DEF MakeRoom

LEMMA EvictInv ==
    ASSUME IInv, NEW c \in Clients, Evict(c)
    PROVE  IInv'
<1>1. /\ pc[c] \in Storing /\ pc[c] = "evict"
      /\ UNCHANGED <<version, lock, pc, source, before, after, cached, parsed, seen, reply>>
    BY DEF Evict, Storing, local
<1>2. PICK k : disk' = Without(disk, k)
    BY DEF Evict
<1>3. disk' \in Seq(Entries) /\ Sound(disk')
    BY <1>2, WithoutSound DEF IInv, Typed
<1>4. pc' = [pc EXCEPT ![c] = pc[c]]
    BY <1>1 DEF IInv, Typed
<1>5. QED
    BY <1>1, <1>3, <1>4, StoringInv

LEMMA WriteTemporaryInv ==
    ASSUME IInv, NEW c \in Clients, WriteTemporary(c)
    PROVE  IInv'
<1>1. /\ pc[c] \in Storing /\ "replace" \in Storing /\ pc' = [pc EXCEPT ![c] = "replace"]
      /\ UNCHANGED <<version, disk, lock, source, before, after, cached, parsed, seen, reply>>
    BY DEF WriteTemporary, Goto, Storing, local
<1>2. disk' \in Seq(Entries) /\ Sound(disk')
    BY <1>1 DEF IInv, Typed
<1>3. QED
    BY <1>1, <1>2, StoringInv

LEMMA ReplaceInv ==
    ASSUME IInv, NEW c \in Clients, Replace(c)
    PROVE  IInv'
<1> DEFINE e == [key |-> Key(c), observation |-> Observation(c)]
           rest == Without(disk, Key(c))
<1>1. /\ pc[c] \in Storing /\ EndStore(c, "stored") /\ Release(c)
      /\ UNCHANGED <<version, source, before, after, cached, parsed, seen>>
    BY DEF Replace, Storing, local
<1>2. disk' = Append(rest, e)
    BY DEF Replace
<1>3. e \in Entries /\ Genuine(e)
    <2>1. Key(c) = Observation(c) /\ Key(c) \in Keys
        BY <1>1, MomentObserved
    <2>2. QED
        BY <2>1 DEF Entries, Genuine
<1> HIDE DEF e
<1>4. rest \in Seq(Entries) /\ Sound(rest)
    BY WithoutSound DEF IInv, Typed
<1> HIDE DEF rest
<1>5. disk' \in Seq(Entries) /\ Sound(disk')
    BY <1>2, <1>3, <1>4, AppendSound
<1>6. QED
    BY <1>1, <1>5, EndStoreInv

LEMMA WriteErrorInv ==
    ASSUME IInv, NEW c \in Clients, WriteError(c)
    PROVE  IInv'
<1>1. /\ pc[c] \in Storing /\ EndStore(c, "error") /\ Release(c)
      /\ UNCHANGED <<version, disk, source, before, after, cached, parsed, seen>>
    BY DEF WriteError, Storing, local
<1>2. disk' \in Seq(Entries) /\ Sound(disk')
    BY <1>1 DEF IInv, Typed
<1>3. QED
    BY <1>1, <1>2, EndStoreInv

-----------------------------------------------------------------------------
(* The end of calls.                                                       *)

LEMMA ForgetInv ==
    ASSUME IInv, NEW cs, Forget(cs), UNCHANGED <<version, disk>>, DOMAIN lock' = DOMAIN lock
    PROVE  IInv'
<1>1. Typed
    BY DEF IInv
<1>2. version' \in [Files -> Versions] /\ \A g \in Files : version[g] <= version'[g]
    BY <1>1, BoundsAssumption DEF Typed, Versions
<1>3. /\ pc' \in [Clients -> Labels] /\ source' \in [Clients -> Sources \cup {None}]
      /\ cached' \in [Clients -> Keys \cup {None}]
      /\ seen' \in [Clients -> (UNION {ContentsOf(s) : s \in Sources}) \cup {None}]
      /\ reply' \in [Clients -> Keys \cup {None, Raised, Unchecked}]
    BY <1>1 DEF Typed, Forget, Labels
<1>4. before' \in [Clients -> Reads] /\ after' \in [Clients -> Reads] /\ parsed' \in [Clients -> Reads]
    <2>1. <<>> \in Reads
        BY NothingRead
    <2>2. QED
        BY <1>1, <2>1 DEF Typed, Forget
<1>5. Typed'
    BY <1>1, <1>2, <1>3, <1>4 DEF Typed
<1>6. ASSUME NEW c \in Clients PROVE Call(c)'
    <2>1. CASE c \in cs
        <3>1. /\ pc'[c] = "idle" /\ source'[c] = None /\ before'[c] = <<>> /\ after'[c] = <<>>
              /\ cached'[c] = None /\ parsed'[c] = <<>> /\ seen'[c] = None /\ reply'[c] = None
            BY <2>1 DEF Forget
        <3>2. NotYet(c)'
            BY <3>1 DEF NotYet
        <3>3. QED
            BY <3>1, <3>2 DEF Call, Looking, Storing
    <2>2. CASE c \notin cs
        <3>1. Same(c)
            BY <2>2 DEF Forget, Same
        <3>2. QED
            BY <1>1, <1>2, <3>1, CallKept DEF IInv
    <2>3. QED
        BY <2>1, <2>2
<1>7. QED
    BY <1>5, <1>6 DEF IInv

LEMMA ReturnInv ==
    ASSUME IInv, NEW c \in Clients, Return(c)
    PROVE  IInv'
BY ForgetInv DEF Return

LEMMA CrashInv ==
    ASSUME IInv, NEW p \in DOMAIN lock, Crash(p)
    PROVE  IInv'
BY ForgetInv DEF Crash

LEMMA StepInv ==
    ASSUME IInv, NEW c \in Clients, Step(c)
    PROVE  IInv'
BY ParseUncachedInv, FingerprintBeforeInv, LoadInv, ParseInv, ParseRaisesInv,
   FingerprintAfterInv, CompareInv, AcquireInv, MakeRoomInv, EvictInv, WriteTemporaryInv,
   ReplaceInv, WriteErrorInv, ReturnInv DEF Step

LEMMA StutterInv ==
    ASSUME IInv, UNCHANGED vars
    PROVE  IInv'
<1>1. UNCHANGED <<version, disk, lock, pc, source, before, after, cached, parsed, seen, reply>>
    BY DEF vars, local
<1>2. Typed'
    BY <1>1 DEF IInv, Typed
<1>3. version' \in [Files -> Versions] /\ \A g \in Files : version[g] <= version'[g]
    BY <1>1, BoundsAssumption DEF IInv, Typed, Versions
<1>4. \A c \in Clients : Same(c)
    BY <1>1 DEF Same
<1>5. QED
    BY <1>2, <1>3, <1>4, CallKept DEF IInv

LEMMA NextInv ==
    ASSUME IInv, [Next]_vars
    PROVE  IInv'
<1>1. CASE \E f \in Files : Edit(f)
    BY <1>1, EditInv
<1>2. CASE \E i \in DOMAIN disk : Damage(i)
    BY <1>2, DamageInv
<1>3. CASE \E c \in Clients : Step(c)
    BY <1>3, StepInv
<1>4. CASE \E c \in Clients : \E s \in Sources : Begin(c, s)
    BY <1>4, BeginInv
<1>5. CASE \E p \in DOMAIN lock : Crash(p)
    BY <1>5, CrashInv
<1>6. CASE UNCHANGED vars
    BY <1>6, StutterInv
<1>7. QED
    BY <1>1, <1>2, <1>3, <1>4, <1>5, <1>6 DEF Next

(* Every entry of the directory is the parse its key names or damaged, and  *)
(* every call stands between its two fingerprints: contents only get newer, *)
(* so whatever a file is read at lies between what the fingerprints read.   *)
THEOREM InductiveInvariant == Spec => []IInv
<1>1. Init => IInv
    BY InitInv
<1>2. IInv /\ [Next]_vars => IInv'
    BY NextInv
<1>3. QED
    BY <1>1, <1>2, PTL DEF Spec

-----------------------------------------------------------------------------
(* Every step is one of FreshParse, or none.                               *)

Replies == [c \in Clients |-> Shown(reply[c])]

LEMMA ShownNone == Shown(None) = None /\ Shown(Raised) = Raised /\ Shown(Unchecked) = Unchecked
BY DEF Shown

LEMMA RepliesMove ==
    ASSUME Typed, NEW c \in Clients, NEW r, reply' = [reply EXCEPT ![c] = r]
    PROVE  Replies' = [Replies EXCEPT ![c] = Shown(r)]
<1>1. \A d \in Clients : reply'[d] = IF d = c THEN r ELSE reply[d]
    BY DEF Typed
<1>2. Replies' = [d \in Clients |-> Shown(reply'[d])]
    BY DEF Replies
<1>3. \A d \in Clients : Replies'[d] = IF d = c THEN Shown(r) ELSE Shown(reply[d])
    BY <1>1, <1>2
<1>4. QED
    BY <1>2, <1>3 DEF Replies

LEMMA Waiting ==
    ASSUME IInv, NEW c \in Clients, pc[c] # "idle", pc[c] # "done"
    PROVE  /\ source[c] \in Sources /\ source[c] # None /\ reply[c] = None
           /\ Replies[c] = None
<1>1. source[c] \in Sources /\ reply[c] = None
    BY DEF IInv, Call, NotYet
<1>2. QED
    BY <1>1, AnswersAssumption, ShownNone DEF Replies

LEMMA Hidden ==
    ASSUME UNCHANGED <<version, source, seen, reply>>
    PROVE  UNCHANGED Abstract!absVars
<1>1. Replies' = Replies
    BY DEF Replies
<1>2. QED
    BY <1>1 DEF Abstract!absVars, Replies

LEMMA Edited ==
    ASSUME NEW f \in Files, Edit(f)
    PROVE  Abstract!Edit
<1>1. version' = [version EXCEPT ![f] = @ + 1] /\ UNCHANGED <<source, seen, reply>>
    BY DEF Edit, local
<1>2. Replies' = Replies
    BY <1>1 DEF Replies
<1>3. QED
    BY <1>1, <1>2 DEF Abstract!Edit, Replies

LEMMA Asked ==
    ASSUME IInv, NEW c \in Clients, NEW s \in Sources, Begin(c, s)
    PROVE  Abstract!Ask(c, s)
<1>1. source[c] = None /\ source' = [source EXCEPT ![c] = s] /\ UNCHANGED <<version, seen, reply>>
    BY DEF Begin, IInv, Call, NotYet
<1>2. Replies' = Replies
    BY <1>1 DEF Replies
<1>3. QED
    BY <1>1, <1>2 DEF Abstract!Ask, Replies

LEMMA Refused ==
    ASSUME IInv, NEW c \in Clients, pc[c] # "idle", pc[c] # "done", NEW r \in {Raised, Unchecked},
           reply' = [reply EXCEPT ![c] = r], UNCHANGED <<version, source, seen>>
    PROVE  Abstract!Refuse(c)
<1>1. source[c] # None /\ Replies[c] = None
    BY Waiting
<1>2. Replies' = [Replies EXCEPT ![c] = r]
    BY RepliesMove, ShownNone DEF IInv
<1>3. QED
    BY <1>1, <1>2 DEF Abstract!Refuse, Replies

LEMMA Answered ==
    ASSUME IInv, NEW c \in Clients,
           \/ pc[c] \in Storing
           \/ pc[c] = "after" /\ Unread(c, after[c]) = {} /\ Stable(c),
           reply' = [reply EXCEPT ![c] = Observation(c)], UNCHANGED <<version, source, seen>>
    PROVE  Abstract!Answer(c)
<1>1. Replies[c] = None
    BY Waiting DEF Storing
<1>2. /\ Observation(c) = Observed(source[c], seen[c])
      /\ source[c] \in Sources /\ seen[c] \in ContentsOf(source[c])
    BY MomentObserved
<1>3. seen[c] # None /\ Shown(Observation(c)) = <<source[c], seen[c]>>
    BY <1>2, ObservationIsKey
<1>4. Replies' = [Replies EXCEPT ![c] = <<source[c], seen[c]>>]
    BY <1>3, RepliesMove DEF IInv
<1>5. QED
    BY <1>1, <1>3, <1>4 DEF Abstract!Answer, Replies

LEMMA Left ==
    ASSUME NEW cs, Forget(cs), version' = version
    PROVE  Abstract!Leave(cs)
<1>1. \A c \in Clients : reply'[c] = IF c \in cs THEN None ELSE reply[c]
    BY DEF Forget
<1>2. Replies' = [c \in Clients |-> IF c \in cs THEN None ELSE Replies[c]]
    BY <1>1, ShownNone DEF Replies
<1>3. QED
    BY <1>2 DEF Forget, Abstract!Leave, Replies

LEMMA SeenOrNot ==
    ASSUME IInv, NEW c \in Clients, FingerprintBefore(c)
    PROVE  Abstract!See(c) \/ UNCHANGED Abstract!absVars
<1>1. /\ pc[c] = "before" /\ UNCHANGED <<version, source, reply>>
      /\ \/ seen' = [seen EXCEPT ![c] = [g \in FilesOf[source[c]] |-> version[g]]]
         \/ seen' = seen
    BY DEF FingerprintBefore
<1>2. CASE seen' = seen
    BY <1>1, <1>2, Hidden
<1>3. CASE seen' = [seen EXCEPT ![c] = [g \in FilesOf[source[c]] |-> version[g]]]
    <2>1. source[c] # None /\ seen[c] = None
        BY <1>1, Waiting DEF IInv, Call, NotYet
    <2>2. Replies' = Replies
        BY <1>1 DEF Replies
    <2>3. QED
        BY <1>1, <1>3, <2>1, <2>2 DEF Abstract!See, Abstract!Contents, Replies
<1>4. QED
    BY <1>1, <1>2, <1>3

LEMMA Compared ==
    ASSUME IInv, NEW c \in Clients, Compare(c)
    PROVE  Abstract!Answer(c) \/ Abstract!Refuse(c) \/ UNCHANGED Abstract!absVars
<1>1. pc[c] = "after" /\ Unread(c, after[c]) = {} /\ UNCHANGED <<version, source, seen>>
    BY DEF Compare, local
<1>2. CASE reply' = [reply EXCEPT ![c] = Raised]
    <2>1. pc[c] # "idle" /\ pc[c] # "done"
        BY <1>1
    <2>2. QED
        BY <1>1, <1>2, <2>1, Refused
<1>3. CASE Stable(c) /\ reply' = [reply EXCEPT ![c] = Observation(c)]
    BY <1>1, <1>3, Answered
<1>4. CASE reply' = reply
    BY <1>1, <1>4, Hidden
<1>5. QED
    BY <1>2, <1>3, <1>4 DEF Compare, EndStore

LEMMA Stored ==
    ASSUME IInv, NEW c \in Clients, MakeRoom(c) \/ Replace(c) \/ WriteError(c)
    PROVE  Abstract!Answer(c) \/ UNCHANGED Abstract!absVars
<1>1. /\ pc[c] \in Storing /\ UNCHANGED <<version, source, seen>>
      /\ reply' = [reply EXCEPT ![c] = Observation(c)] \/ reply' = reply
    BY DEF MakeRoom, Replace, WriteError, EndStore, Storing, local
<1>2. QED
    BY <1>1, Answered, Hidden

LEMMA StepAnswers ==
    ASSUME IInv, NEW c \in Clients, Step(c)
    PROVE  \/ Abstract!See(c) \/ Abstract!Answer(c) \/ Abstract!Refuse(c)
           \/ \E cs \in SUBSET Clients : Abstract!Leave(cs)
           \/ UNCHANGED Abstract!absVars
<1>1. CASE ParseUncached(c)
    <2>1. /\ pc[c] # "idle" /\ pc[c] # "done" /\ reply' = [reply EXCEPT ![c] = Unchecked]
          /\ UNCHANGED <<version, source, seen>>
        BY <1>1 DEF ParseUncached, local
    <2>2. QED
        BY <2>1, Refused
<1>2. CASE ParseRaises(c)
    <2>1. /\ pc[c] # "idle" /\ pc[c] # "done" /\ reply' = [reply EXCEPT ![c] = Raised]
          /\ UNCHANGED <<version, source, seen>>
        BY <1>2 DEF ParseRaises, local
    <2>2. QED
        BY <2>1, Refused
<1>3. CASE FingerprintBefore(c)
    BY <1>3, SeenOrNot
<1>4. CASE \/ Load(c) \/ Parse(c) \/ FingerprintAfter(c) \/ Acquire(c) \/ Evict(c)
           \/ WriteTemporary(c)
    <2>1. UNCHANGED <<version, source, seen, reply>>
        BY <1>4 DEF Load, Parse, FingerprintAfter, Acquire, Evict, WriteTemporary, local
    <2>2. QED
        BY <2>1, Hidden
<1>5. CASE Compare(c)
    BY <1>5, Compared
<1>6. CASE MakeRoom(c) \/ Replace(c) \/ WriteError(c)
    BY <1>6, Stored
<1>7. CASE Return(c)
    <2>1. Forget({c}) /\ version' = version /\ {c} \in SUBSET Clients
        BY <1>7 DEF Return
    <2>2. Abstract!Leave({c})
        BY <2>1, Left
    <2>3. QED
        BY <2>1, <2>2
<1>8. QED
    BY <1>1, <1>2, <1>3, <1>4, <1>5, <1>6, <1>7 DEF Step

LEMMA NextImplements ==
    ASSUME IInv, [Next]_vars
    PROVE  [Abstract!Next]_Abstract!absVars
<1>1. ASSUME NEW f \in Files, Edit(f) PROVE Abstract!Next
    BY <1>1, Edited DEF Abstract!Next
<1>2. ASSUME NEW i \in DOMAIN disk, Damage(i) PROVE UNCHANGED Abstract!absVars
    <2>1. UNCHANGED <<version, source, seen, reply>>
        BY <1>2 DEF Damage, local
    <2>2. QED
        BY <2>1, Hidden
<1>3. ASSUME NEW c \in Clients, Step(c) PROVE [Abstract!Next]_Abstract!absVars
    BY <1>3, StepAnswers DEF Abstract!Next
<1>4. ASSUME NEW c \in Clients, NEW s \in Sources, Begin(c, s) PROVE Abstract!Next
    BY <1>4, Asked DEF Abstract!Next
<1>5. ASSUME NEW p \in DOMAIN lock, Crash(p) PROVE Abstract!Next
    <2>1. Forget(p) /\ version' = version /\ p \in SUBSET Clients
        BY <1>5 DEF Crash, IInv, Typed
    <2>2. QED
        BY <2>1, Left DEF Abstract!Next
<1>6. ASSUME UNCHANGED vars PROVE UNCHANGED Abstract!absVars
    <2>1. UNCHANGED <<version, source, seen, reply>>
        BY <1>6 DEF vars, local
    <2>2. QED
        BY <2>1, Hidden
<1>7. QED
    BY <1>1, <1>2, <1>3, <1>4, <1>5, <1>6 DEF Next

LEMMA InitImplements ==
    ASSUME Init
    PROVE  Abstract!Init
<1>1. Replies = [c \in Clients |-> None]
    BY ShownNone DEF Init, Replies
<1>2. QED
    BY <1>1 DEF Init, Abstract!Init, Replies

(* parse keeps the promise of FreshParse: hits, misses, damaged entries,    *)
(* lost writes, evictions by others and crashes cannot be told from a       *)
(* parser that reads all files of the source at one moment of the call.     *)
THEOREM CacheIsInvisible == Spec => ImplementsFreshParse
<1>1. Init => Abstract!Init
    BY InitImplements
<1>2. IInv /\ [Next]_vars => [Abstract!Next]_Abstract!absVars
    BY NextImplements
<1>3. QED
    BY <1>1, <1>2, InductiveInvariant, PTL DEF Spec, ImplementsFreshParse, Abstract!Spec

-----------------------------------------------------------------------------
(* The bytes of a directory.                                               *)

LEMMA FileBytes ==
    ASSUME NEW k \in Keys
    PROVE  /\ Size[k.source] \in Nat \ {0}
           /\ IsFiniteSet({k} \X (1..Size[k.source]))
           /\ Cardinality({k} \X (1..Size[k.source])) = Size[k.source]
<1> DEFINE n == Size[k.source]
           bytes == 1..n
<1>1. n \in Nat \ {0}
    BY SourcesAssumption DEF Keys
<1> HIDE DEF n
<1>2. IsFiniteSet({k}) /\ Cardinality({k}) = 1
    BY FS_Singleton
<1>3. IsFiniteSet(bytes) /\ Cardinality(bytes) = n
    BY <1>1, FS_Interval
<1> HIDE DEF bytes
<1>4. /\ IsFiniteSet({k} \X bytes)
      /\ Cardinality({k} \X bytes) = Cardinality({k}) * Cardinality(bytes)
    BY <1>2, <1>3, FS_Product, Zenon
<1>5. Cardinality({k}) * Cardinality(bytes) = n
    BY <1>1, <1>2, <1>3
<1>6. QED
    BY <1>1, <1>4, <1>5 DEF n, bytes

LEMMA OccupiedFinite ==
    ASSUME NEW names \in SUBSET Keys, IsFiniteSet(names)
    PROVE  IsFiniteSet(Occupied(names)) /\ Cardinality(Occupied(names)) \in Nat
<1> DEFINE f == [k \in names |-> {k} \X (1..Size[k.source])]
           files == {{k} \X (1..Size[k.source]) : k \in names}
<1>1. f \in Surjection(names, files)
    BY DEF Surjection
<1>2. IsFiniteSet(files)
    BY <1>1, FS_Surjection
<1>3. \A file \in files : IsFiniteSet(file)
    BY FileBytes
<1>4. IsFiniteSet(UNION files)
    BY <1>2, <1>3, FS_UNION
<1>5. QED
    BY <1>4, FS_CardinalityType DEF Occupied

(* A file more is as many bytes more as it has.                            *)
LEMMA OccupiedAdds ==
    ASSUME NEW names \in SUBSET Keys, IsFiniteSet(names), NEW k \in Keys, k \notin names
    PROVE  Cardinality(Occupied(names \cup {k})) = Cardinality(Occupied(names)) + Size[k.source]
<1> DEFINE file == {k} \X (1..Size[k.source])
<1>1. Occupied(names \cup {k}) = Occupied(names) \cup file
    BY DEF Occupied
<1>2. Occupied(names) \cap file = {}
    BY DEF Occupied
<1>3. IsFiniteSet(Occupied(names)) /\ Cardinality(Occupied(names)) \in Nat
    BY OccupiedFinite
<1>4. IsFiniteSet(file) /\ Cardinality(file) = Size[k.source] /\ Size[k.source] \in Nat
    BY FileBytes
<1>5. Cardinality(Occupied(names) \cup file)
        = Cardinality(Occupied(names)) + Cardinality(file) - Cardinality(Occupied(names) \cap file)
    BY <1>3, <1>4, FS_Union
<1>6. Cardinality(Occupied(names) \cap file) = 0
    BY <1>2, FS_EmptySet
<1> DEFINE old == Cardinality(Occupied(names))
           new == Cardinality(Occupied(names \cup {k}))
           more == Cardinality(file)
           both == Cardinality(Occupied(names) \cap file)
<1>7. new = old + more - both /\ old \in Nat /\ more \in Nat /\ more = Size[k.source] /\ both = 0
    BY <1>1, <1>3, <1>4, <1>5, <1>6, Zenon
<1> HIDE DEF file, old, new, more, both
<1>8. new = old + Size[k.source]
    BY <1>7
<1>9. QED
    BY <1>8 DEF old, new

LEMMA OccupiedRemoves ==
    ASSUME NEW names \in SUBSET Keys, IsFiniteSet(names), NEW k \in names
    PROVE  Cardinality(Occupied(names \ {k})) = Cardinality(Occupied(names)) - Size[k.source]
<1>1. IsFiniteSet(names \ {k}) /\ names \ {k} \in SUBSET Keys /\ k \notin names \ {k} /\ k \in Keys
    BY FS_RemoveElement
<1>2. Cardinality(Occupied((names \ {k}) \cup {k}))
        = Cardinality(Occupied(names \ {k})) + Size[k.source]
    BY <1>1, OccupiedAdds
<1>3. (names \ {k}) \cup {k} = names
    OBVIOUS
<1> DEFINE rest == Cardinality(Occupied(names \ {k}))
           all == Cardinality(Occupied(names))
<1>4. rest \in Nat /\ Size[k.source] \in Nat
    BY <1>1, OccupiedFinite, FileBytes
<1>5. all = rest + Size[k.source]
    BY <1>2, <1>3, Zenon
<1> HIDE DEF rest, all
<1>6. rest = all - Size[k.source]
    BY <1>4, <1>5
<1>7. QED
    BY <1>6 DEF rest, all

LEMMA OccupiedShrinks ==
    ASSUME NEW names \in SUBSET Keys, IsFiniteSet(names), NEW fewer \in SUBSET names
    PROVE  Cardinality(Occupied(fewer)) <= Cardinality(Occupied(names))
<1>1. Occupied(fewer) \in SUBSET Occupied(names)
    BY DEF Occupied
<1>2. QED
    BY <1>1, OccupiedFinite, FS_Subset

LEMMA NothingOccupied == Cardinality(Occupied({})) = 0
<1>1. Occupied({}) = {}
    BY DEF Occupied
<1>2. QED
    BY <1>1, FS_EmptySet

LEMMA NamesFinite ==
    ASSUME NEW d \in Seq(Entries)
    PROVE  /\ Names(d) \in SUBSET Keys /\ IsFiniteSet(Names(d))
           /\ Bytes(d) \in Nat
<1> DEFINE f == [i \in 1..Len(d) |-> d[i].key]
<1>1. \A i \in 1..Len(d) : d[i] \in Entries /\ d[i].key \in Keys
    <2>1. \A i \in 1..Len(d) : d[i] \in Entries
        OBVIOUS
    <2>2. QED
        BY <2>1 DEF Entries
<1>2. f \in Surjection(1..Len(d), Names(d))
    BY DEF Surjection, Names
<1>3. IsFiniteSet(1..Len(d))
    BY FS_Interval
<1>4. Names(d) \in SUBSET Keys /\ IsFiniteSet(Names(d))
    BY <1>1, <1>2, <1>3, FS_Surjection DEF Names
<1>5. QED
    BY <1>4, OccupiedFinite DEF Bytes

-----------------------------------------------------------------------------
(* A directory has one file of a name.                                     *)

Distinct(entries) == \A i, j \in DOMAIN entries : entries[i].key = entries[j].key => i = j

(* All of d but its i-th entry.                                            *)
LEMMA AllButOne ==
    ASSUME NEW d \in Seq(Entries), NEW i \in 1..Len(d), NEW r \in Seq(Entries),
           Len(r) = Len(d) - 1,
           \A j \in 1..Len(r) : r[j] = IF j < i THEN d[j] ELSE d[j + 1],
           Distinct(d)
    PROVE  Distinct(r) /\ Names(r) = Names(d) \ {d[i].key}
<1> DEFINE from(j) == IF j < i THEN j ELSE j + 1
<1>1. Len(d) \in Nat /\ Len(r) \in Nat /\ DOMAIN d = 1..Len(d) /\ DOMAIN r = 1..Len(r)
    OBVIOUS
<1>2. \A j \in 1..Len(r) : from(j) \in 1..Len(d) /\ from(j) # i /\ r[j] = d[from(j)]
    BY <1>1
<1>3. \A j, k \in 1..Len(r) : from(j) = from(k) => j = k
    BY <1>1
<1>4. Distinct(r)
    <2>1. SUFFICES ASSUME NEW j \in 1..Len(r), NEW k \in 1..Len(r), r[j].key = r[k].key
                   PROVE  j = k
        BY <1>1 DEF Distinct
    <2>2. from(j) \in DOMAIN d /\ from(k) \in DOMAIN d /\ d[from(j)].key = d[from(k)].key
        BY <1>1, <1>2, <2>1
    <2> HIDE DEF from
    <2>3. from(j) = from(k)
        BY <2>2 DEF Distinct
    <2>4. QED
        BY <1>3, <2>3
<1>5. \A m \in 1..Len(d) : m # i => \E j \in 1..Len(r) : from(j) = m
    <2>1. SUFFICES ASSUME NEW m \in 1..Len(d), m # i
                   PROVE  \E j \in 1..Len(r) : from(j) = m
        OBVIOUS
    <2>2. CASE m < i
        <3>1. m \in 1..Len(r) /\ from(m) = m
            BY <1>1, <2>2
        <3>2. QED
            BY <3>1
    <2>3. CASE i < m
        <3>1. m - 1 \in 1..Len(r) /\ from(m - 1) = m
            BY <1>1, <2>3
        <3>2. QED
            BY <3>1
    <2>4. QED
        BY <1>1, <2>1, <2>2, <2>3
<1>6. Names(r) \subseteq Names(d) \ {d[i].key}
    <2>1. SUFFICES ASSUME NEW j \in 1..Len(r)
                   PROVE  r[j].key \in Names(d) \ {d[i].key}
        BY <1>1 DEF Names
    <2>2. r[j] = d[from(j)] /\ from(j) \in 1..Len(d) /\ from(j) # i
        BY <1>2
    <2>3. QED
        BY <1>1, <2>2 DEF Distinct, Names
<1>7. Names(d) \ {d[i].key} \subseteq Names(r)
    <2>1. SUFFICES ASSUME NEW m \in 1..Len(d), d[m].key # d[i].key
                   PROVE  d[m].key \in Names(r)
        BY <1>1 DEF Names
    <2>2. PICK j \in 1..Len(r) : from(j) = m
        BY <1>5, <2>1
    <2>3. QED
        BY <1>1, <1>2, <2>2 DEF Names
<1>8. QED
    BY <1>4, <1>6, <1>7

LEMMA WithoutNames ==
    ASSUME NEW d \in Seq(Entries), Distinct(d), NEW k
    PROVE  Distinct(Without(d, k)) /\ Names(Without(d, k)) = Names(d) \ {k}
<1> DEFINE named == {i \in DOMAIN d : d[i].key = k}
           i == CHOOSE j \in named : TRUE
           r == RemoveAt(d, i)
<1>1. CASE named = {}
    <2>1. Without(d, k) = d /\ k \notin Names(d)
        BY <1>1 DEF Without, Names
    <2>2. QED
        BY <2>1
<1>2. CASE named # {}
    <2>1. i \in 1..Len(d) /\ d[i].key = k /\ Len(d) \in Nat
        BY <1>2
    <2>2. Without(d, k) = r
        BY <1>2 DEF Without
    <2> HIDE DEF i
    <2>3. /\ r \in Seq(Entries) /\ Len(r) = Len(d) - 1
          /\ \A j \in 1..(Len(d) - 1) : r[j] = IF j < i THEN d[j] ELSE d[j + 1]
        BY <2>1, RemoveAtElements
    <2>4. \A j \in 1..Len(r) : r[j] = IF j < i THEN d[j] ELSE d[j + 1]
        BY <2>3
    <2> HIDE DEF r
    <2>5. Distinct(r) /\ Names(r) = Names(d) \ {d[i].key}
        BY <2>1, <2>3, <2>4, AllButOne
    <2>6. QED
        BY <2>1, <2>2, <2>5
<1>3. QED
    BY <1>1, <1>2

-----------------------------------------------------------------------------
(* The byte target.                                                        *)

\* One process has all the threads.
Alone == DOMAIN lock = {Clients}

Critical == {"room", "evict", "replace"}

\* What _make_room believes of the directory while it evicts.
Listed(c) ==
    /\ victims[c] \in Seq(Entries) /\ Distinct(victims[c])
    /\ Names(victims[c]) = Names(disk) \ {Key(c)}
    /\ total[c] = Bytes(victims[c])
    /\ Size[source[c]] <= MaxBytes

\* The entry to be written fits beside those it does not replace.
Fitting(c) == Cardinality(Occupied(Names(disk) \ {Key(c)})) + Size[source[c]] <= MaxBytes

Writing(c) ==
    /\ pc[c] \in Critical => lock[Clients] = c
    /\ pc[c] = "evict" => Listed(c)
    /\ pc[c] = "replace" => Fitting(c)

Directory ==
    /\ Distinct(disk)
    /\ DOMAIN victims = Clients /\ DOMAIN total = Clients
    /\ Alone => Bytes(disk) <= MaxBytes /\ \A c \in Clients : Writing(c)

LEMMA InitDirectory ==
    ASSUME Init
    PROVE  Directory
<1>1. disk = <<>> /\ DOMAIN disk = {} /\ DOMAIN victims = Clients /\ DOMAIN total = Clients
    <2>1. <<>> \in Seq(Entries) /\ Len(<<>>) = 0
        BY EmptySeq
    <2>2. DOMAIN <<>> = 1..Len(<<>>) /\ 1..Len(<<>>) = {}
        BY <2>1
    <2>3. QED
        BY <2>2 DEF Init
<1>2. Names(disk) = {}
    BY <1>1 DEF Names
<1>3. Bytes(disk) = 0
    BY <1>2, NothingOccupied DEF Bytes
<1>4. Bytes(disk) <= MaxBytes
    BY <1>3, BoundsAssumption
<1>5. \A c \in Clients : Writing(c)
    BY DEF Init, Writing, Critical
<1>6. QED
    BY <1>1, <1>4, <1>5 DEF Directory, Distinct

(* Threads of one process share one lock.                                  *)
LEMMA OneWriter ==
    ASSUME Directory, Alone, NEW c \in Clients, pc[c] \in Critical
    PROVE  \A d \in Clients : pc[d] \in Critical => d = c
BY DEF Directory, Writing

LEMMA OneLock ==
    ASSUME Alone, NEW c \in Clients
    PROVE  Process(c) = Clients
BY DEF Alone, Process

(* What a writer knows of the directory lasts while only others move.      *)
Unmoved(c) ==
    /\ pc'[c] = pc[c] /\ source'[c] = source[c] /\ before'[c] = before[c]
    /\ victims'[c] = victims[c] /\ total'[c] = total[c]
    /\ lock'[Clients] = lock[Clients]

LEMMA UnmovedDirectory ==
    ASSUME Directory, Distinct(disk'), Names(disk') = Names(disk),
           DOMAIN victims' = Clients, DOMAIN total' = Clients, DOMAIN lock' = DOMAIN lock,
           Alone => \A c \in Clients : pc'[c] \in Critical => Unmoved(c)
    PROVE  Directory'
<1>1. Alone' => Alone
    BY DEF Alone
<1>2. ASSUME Alone, NEW c \in Clients PROVE Writing(c)'
    <2>1. CASE pc'[c] \notin Critical
        BY <2>1 DEF Writing, Critical
    <2>2. CASE pc'[c] \in Critical
        <3>1. Unmoved(c) /\ Writing(c)
            BY <1>2, <2>2 DEF Directory
        <3>2. Key(c)' = Key(c)
            BY <3>1 DEF Unmoved, Key
        <3>3. QED
            BY <3>1, <3>2 DEF Unmoved, Writing, Listed, Fitting
    <2>3. QED
        BY <2>1, <2>2
<1>3. Bytes(disk') = Bytes(disk)
    BY DEF Bytes
<1>4. QED
    BY <1>1, <1>2, <1>3 DEF Directory

LEMMA DamageDirectory ==
    ASSUME IInv, Directory, NEW i \in DOMAIN disk, Damage(i)
    PROVE  Directory'
<1>1. /\ disk' = [disk EXCEPT ![i].observation = Damaged]
      /\ UNCHANGED <<lock, pc, source, before, victims, total>>
    BY DEF Damage, local, storing
<1>2. disk \in Seq(Entries) /\ DOMAIN disk' = DOMAIN disk
    BY <1>1 DEF IInv, Typed
<1>3. \A j \in DOMAIN disk : disk'[j].key = disk[j].key
    <2>1. ASSUME NEW j \in DOMAIN disk PROVE disk'[j].key = disk[j].key
        <3>1. disk[j] \in Entries
            BY <1>2
        <3>2. disk'[j] = disk[j] \/ disk'[j] = [disk[j] EXCEPT !.observation = Damaged]
            BY <1>1
        <3>3. QED
            BY <3>1, <3>2 DEF Entries
    <2>2. QED
        BY <2>1
<1>4. Distinct(disk') /\ Names(disk') = Names(disk)
    BY <1>2, <1>3 DEF Directory, Distinct, Names
<1>5. QED
    BY <1>1, <1>4, UnmovedDirectory DEF Directory, Unmoved

(* Steps outside of the store.                                             *)
LEMMA OutsideDirectory ==
    ASSUME IInv, Directory, NEW c \in Clients, pc[c] \notin Critical,
           NEW label, label \notin Critical, pc' = [pc EXCEPT ![c] = label],
           \A d \in Clients \ {c} : source'[d] = source[d] /\ before'[d] = before[d],
           UNCHANGED <<disk, lock, victims, total>>
    PROVE  Directory'
<1>1. pc'[c] = label /\ \A d \in Clients \ {c} : pc'[d] = pc[d]
    BY DEF IInv, Typed
<1>2. \A d \in Clients : pc'[d] \in Critical => Unmoved(d)
    BY <1>1 DEF Unmoved
<1>3. QED
    BY <1>2, UnmovedDirectory DEF Directory

LEMMA StepOutside ==
    ASSUME IInv, Directory, NEW c \in Clients,
           \/ ParseUncached(c) \/ FingerprintBefore(c) \/ Load(c) \/ Parse(c) \/ ParseRaises(c)
           \/ FingerprintAfter(c) \/ Compare(c)
    PROVE  Directory'
<1>1. pc \in [Clients -> Labels] /\ before \in [Clients -> Reads]
    BY DEF IInv, Typed
<1>2. \A d \in Clients \ {c} : source'[d] = source[d] /\ before'[d] = before[d]
    BY <1>1 DEF ParseUncached, FingerprintBefore, Load, Parse, ParseRaises, FingerprintAfter,
                Compare, local
<1>3. UNCHANGED <<disk, lock, victims, total>>
    BY DEF ParseUncached, FingerprintBefore, Load, Parse, ParseRaises, FingerprintAfter,
           Compare, storing
<1>4. pc[c] \notin Critical
    BY DEF ParseUncached, FingerprintBefore, Load, Parse, ParseRaises, FingerprintAfter,
           Compare, Critical
<1>5. pc' = [pc EXCEPT ![c] = pc[c]]
      \/ \E label \in {"uncached", "load", "parse", "after", "encoded", "done"} :
            pc' = [pc EXCEPT ![c] = label]
    <2>1. CASE FingerprintBefore(c)
        BY <1>1, <2>1 DEF FingerprintBefore, Goto
    <2>2. CASE ParseUncached(c) \/ ParseRaises(c) \/ Load(c)
        BY <1>1, <2>2 DEF ParseUncached, ParseRaises, Load, Goto
    <2>3. CASE Parse(c) \/ FingerprintAfter(c)
        BY <1>1, <2>3 DEF Parse, FingerprintAfter, Goto
    <2>4. CASE Compare(c)
        BY <1>1, <2>4 DEF Compare, EndStore, Goto
    <2>5. QED
        BY <2>1, <2>2, <2>3, <2>4
<1>6. {"uncached", "load", "parse", "after", "encoded", "done"} \cap Critical = {}
    BY DEF Critical
<1>7. CASE pc' = [pc EXCEPT ![c] = pc[c]]
    BY <1>2, <1>3, <1>4, <1>7, OutsideDirectory
<1>8. CASE \E label \in {"uncached", "load", "parse", "after", "encoded", "done"} :
              pc' = [pc EXCEPT ![c] = label]
    <2>1. PICK label \in {"uncached", "load", "parse", "after", "encoded", "done"} :
              pc' = [pc EXCEPT ![c] = label]
        BY <1>8
    <2>2. label \notin Critical
        BY <1>6
    <2>3. QED
        BY <1>2, <1>3, <1>4, <2>1, <2>2, OutsideDirectory
<1>9. QED
    BY <1>5, <1>7, <1>8

LEMMA BeginDirectory ==
    ASSUME IInv, Directory, NEW c \in Clients, NEW s \in Sources, Begin(c, s)
    PROVE  Directory'
<1> DEFINE label == IF s \in Cacheable THEN "before" ELSE "uncached"
<1>1. pc[c] = "idle" /\ pc' = [pc EXCEPT ![c] = label]
    BY DEF Begin, Goto
<1>2. UNCHANGED <<disk, lock, before, victims, total>> /\ source' = [source EXCEPT ![c] = s]
    BY DEF Begin, storing
<1>3. \A d \in Clients \ {c} : source'[d] = source[d] /\ before'[d] = before[d]
    BY <1>2 DEF IInv, Typed
<1>4. pc[c] \notin Critical /\ label \notin Critical
    BY <1>1 DEF Critical
<1> HIDE DEF label
<1>5. QED
    BY <1>1, <1>2, <1>3, <1>4, OutsideDirectory

LEMMA ForgetDirectory ==
    ASSUME IInv, Directory, NEW cs, Forget(cs), disk' = disk, DOMAIN lock' = DOMAIN lock,
           Alone => lock'[Clients] = lock[Clients] \/ Clients \subseteq cs
    PROVE  Directory'
<1>1. ASSUME Alone, NEW d \in Clients, pc'[d] \in Critical PROVE Unmoved(d)
    <2>1. d \notin cs
        BY <1>1 DEF Forget, Critical
    <2>2. QED
        BY <1>1, <2>1 DEF Forget, Unmoved
<1>2. DOMAIN victims' = Clients /\ DOMAIN total' = Clients
    BY DEF Forget
<1>3. QED
    BY <1>1, <1>2, UnmovedDirectory DEF Directory

LEMMA CrashDirectory ==
    ASSUME IInv, Directory, NEW p \in DOMAIN lock, Crash(p)
    PROVE  Directory'
<1>1. Forget(p) /\ disk' = disk /\ DOMAIN lock' = DOMAIN lock
    BY DEF Crash
<1>2. Alone => Clients \subseteq p
    BY DEF Alone
<1>3. QED
    BY <1>1, <1>2, ForgetDirectory

-----------------------------------------------------------------------------
(* Steps of the store.                                                     *)

(* The writer leaves, with or without its entry.                           *)
LEMMA LeaveDirectory ==
    ASSUME IInv, Directory, NEW c \in Clients, pc[c] \in Critical, NEW how,
           EndStore(c, how), Release(c), UNCHANGED <<disk, source, before, victims, total>>
    PROVE  Directory'
<1>1. DOMAIN lock' = DOMAIN lock
    BY DEF Release
<1>2. pc' = [pc EXCEPT ![c] = "done"]
    BY DEF EndStore, Goto
<1>3. Alone => \A d \in Clients : pc'[d] \notin Critical
    <2>1. ASSUME Alone, NEW d \in Clients PROVE pc'[d] \notin Critical
        <3>1. CASE d = c
            BY <1>2, <3>1 DEF IInv, Typed, Critical
        <3>2. CASE d # c
            BY <1>2, <2>1, <3>2, OneWriter DEF IInv, Typed
        <3>3. QED
            BY <3>1, <3>2
    <2>2. QED
        BY <2>1
<1>4. QED
    BY <1>1, <1>3, UnmovedDirectory DEF Directory

(* The writer moves on: no other is in the store.                          *)
LEMMA MoveDirectory ==
    ASSUME IInv, Directory, NEW c \in Clients, pc[c] \in Critical,
           NEW label \in Critical, pc' = [pc EXCEPT ![c] = label], lock' = lock,
           Distinct(disk'), DOMAIN victims' = Clients, DOMAIN total' = Clients,
           Alone => Bytes(disk') <= MaxBytes,
           Alone /\ label = "evict" => Listed(c)',
           Alone /\ label = "replace" => Fitting(c)'
    PROVE  Directory'
<1>1. pc'[c] = label /\ \A d \in Clients \ {c} : pc'[d] = pc[d]
    BY DEF IInv, Typed
<1>2. Alone' => Alone
    BY DEF Alone
<1>3. ASSUME Alone, NEW d \in Clients PROVE Writing(d)'
    <2>1. CASE d = c
        <3>1. lock'[Clients] = c
            BY <1>3 DEF Directory, Writing
        <3>2. QED
            BY <1>1, <1>3, <2>1, <3>1 DEF Writing
    <2>2. CASE d # c
        <3>1. pc'[d] \notin Critical
            BY <1>1, <1>3, <2>2, OneWriter
        <3>2. QED
            BY <3>1 DEF Writing, Critical
    <2>3. QED
        BY <2>1, <2>2
<1>4. QED
    BY <1>2, <1>3 DEF Directory

LEMMA AcquireDirectory ==
    ASSUME IInv, Directory, NEW c \in Clients, Acquire(c)
    PROVE  Directory'
<1>1. /\ lock[Process(c)] = None /\ lock' = [lock EXCEPT ![Process(c)] = c]
      /\ pc' = [pc EXCEPT ![c] = "room"]
      /\ UNCHANGED <<disk, source, before, victims, total>>
    BY DEF Acquire, Goto, local, storing
<1>2. pc'[c] = "room" /\ \A d \in Clients \ {c} : pc'[d] = pc[d]
    BY <1>1 DEF IInv, Typed
<1>3. DOMAIN lock' = DOMAIN lock /\ (Alone' => Alone)
    BY <1>1 DEF Alone
<1>4. ASSUME Alone, NEW d \in Clients PROVE Writing(d)'
    <2>1. lock[Clients] = None /\ lock' = [lock EXCEPT ![Clients] = c] /\ Clients \in DOMAIN lock
        BY <1>1, <1>4, OneLock DEF Alone
    <2>2. CASE d = c
        BY <1>2, <2>1, <2>2 DEF Writing
    <2>3. CASE d # c
        <3>1. lock[Clients] # d /\ Writing(d)
            BY <1>4, <2>1, ClientsAssumption DEF Directory
        <3>2. pc'[d] \notin Critical
            BY <1>2, <2>3, <3>1 DEF Writing
        <3>3. QED
            BY <3>2 DEF Writing, Critical
    <2>4. QED
        BY <2>2, <2>3
<1>5. QED
    BY <1>1, <1>3, <1>4 DEF Directory

LEMMA MakeRoomDirectory ==
    ASSUME IInv, Directory, NEW c \in Clients, MakeRoom(c)
    PROVE  Directory'
<1>1. pc[c] \in Critical /\ UNCHANGED <<disk, source, before>>
    BY DEF MakeRoom, Critical, local
<1>2. CASE EndStore(c, "no room") /\ Release(c) /\ UNCHANGED <<victims, total>>
    BY <1>1, <1>2, LeaveDirectory
<1>3. CASE /\ ~(Size[source[c]] > MaxBytes)
           /\ victims' = [victims EXCEPT ![c] = Without(disk, Key(c))]
           /\ total' = [total EXCEPT ![c] = Bytes(Without(disk, Key(c)))]
           /\ Goto(c, "evict") /\ lock' = lock
    <2> DEFINE others == Without(disk, Key(c))
    <2>1. disk \in Seq(Entries) /\ Sound(disk) /\ Distinct(disk)
        BY DEF IInv, Typed, Directory
    <2>2. others \in Seq(Entries) /\ Distinct(others) /\ Names(others) = Names(disk) \ {Key(c)}
        BY <2>1, WithoutSound, WithoutNames
    <2> HIDE DEF others
    <2>3. victims'[c] = others /\ total'[c] = Bytes(others)
        BY <1>3 DEF Directory, others
    <2>4. Size[source[c]] <= MaxBytes
        <3>1. source[c] \in Sources
            BY <1>1 DEF IInv, Call, NotYet, Critical
        <3>2. QED
            BY <1>3, <3>1, SourcesAssumption, BoundsAssumption
    <2>5. Key(c)' = Key(c)
        BY <1>1 DEF Key
    <2>6. Listed(c)'
        BY <1>1, <2>2, <2>3, <2>4, <2>5 DEF Listed
    <2>7. "evict" \in Critical /\ pc' = [pc EXCEPT ![c] = "evict"] /\ "evict" # "replace"
        BY <1>3 DEF Critical, Goto
    <2>8. DOMAIN victims' = Clients /\ DOMAIN total' = Clients
        BY <1>3 DEF Directory
    <2>9. QED
        BY <1>1, <1>3, <2>6, <2>7, <2>8, MoveDirectory DEF Directory
<1>4. QED
    BY <1>2, <1>3 DEF MakeRoom

(* While the new entry does not fit, an entry is left to evict.            *)
LEMMA SomethingToEvict ==
    ASSUME IInv, NEW c \in Clients, pc[c] = "evict", Listed(c), ~Fits(c)
    PROVE  victims[c] # <<>>
<1>1. source[c] \in Sources
    BY DEF IInv, Call, NotYet
<1>2. Size[source[c]] \in Nat /\ MaxBytes \in Nat
    BY <1>1, SourcesAssumption, BoundsAssumption
<1>3. ASSUME victims[c] = <<>> PROVE total[c] = 0
    <2>1. DOMAIN <<>> = {}
        BY NothingRead
    <2>2. Names(victims[c]) = {}
        BY <1>3, <2>1 DEF Names
    <2>3. QED
        BY <2>2, NothingOccupied DEF Listed, Bytes
<1>4. QED
    BY <1>2, <1>3 DEF Fits, Listed

LEMMA EvictDirectory ==
    ASSUME IInv, Directory, NEW c \in Clients, Evict(c)
    PROVE  Directory'
<1> DEFINE v == victims[c]
           oldest == Head(v)
           k == oldest.key
<1>1. /\ pc[c] = "evict" /\ pc[c] \in Critical /\ ~Fits(c)
      /\ disk' = Without(disk, k)
      /\ total' = [total EXCEPT ![c] = total[c] - Size[k.source]]
      /\ victims' = [victims EXCEPT ![c] = Tail(v)]
      /\ UNCHANGED <<lock, pc, source, before>>
    BY DEF Evict, Critical, local
<1>2. disk \in Seq(Entries) /\ Sound(disk) /\ Distinct(disk)
    BY DEF IInv, Typed, Directory
<1>3. disk' \in Seq(Entries) /\ Distinct(disk') /\ Names(disk') = Names(disk) \ {k}
    BY <1>1, <1>2, WithoutSound, WithoutNames
<1>4. Bytes(disk') <= Bytes(disk) /\ Bytes(disk') \in Nat /\ Bytes(disk) \in Nat
    BY <1>2, <1>3, NamesFinite, OccupiedShrinks DEF Bytes
<1>5. ASSUME Alone PROVE Listed(c)'
    <2>1. Listed(c)
        BY <1>1, <1>5 DEF Directory, Writing
    <2>2. v \in Seq(Entries) /\ Distinct(v) /\ v # <<>>
        BY <1>1, <2>1, SomethingToEvict DEF Listed
    <2>3. /\ Tail(v) \in Seq(Entries) /\ Len(Tail(v)) = Len(v) - 1 /\ 1 \in 1..Len(v)
          /\ \A j \in 1..Len(Tail(v)) : Tail(v)[j] = v[j + 1]
        BY <2>2
    <2>4. Head(v) = v[1] /\ Len(v) \in Nat
        BY <2>2
    <2>5. \A j \in 1..Len(Tail(v)) : Tail(v)[j] = IF j < 1 THEN v[j] ELSE v[j + 1]
        BY <2>3
    <2>6. Distinct(Tail(v)) /\ Names(Tail(v)) = Names(v) \ {v[1].key}
        <3> DEFINE t == Tail(v)
        <3>1. /\ v \in Seq(Entries) /\ 1 \in 1..Len(v) /\ t \in Seq(Entries) /\ Len(t) = Len(v) - 1
              /\ \A j \in 1..Len(t) : t[j] = IF j < 1 THEN v[j] ELSE v[j + 1]
              /\ Distinct(v)
            BY <2>2, <2>3, <2>5
        <3> HIDE DEF t, v
        <3>2. QED
            BY <3>1, AllButOne DEF t
    <2>7. k \in Names(v) /\ k = v[1].key
        BY <2>2, <2>3, <2>4 DEF Names
    <2>8. Bytes(Tail(v)) = Bytes(v) - Size[k.source]
        BY <2>2, <2>6, <2>7, NamesFinite, OccupiedRemoves DEF Bytes
    <2>9. victims'[c] = Tail(v) /\ total'[c] = Bytes(Tail(v))
        BY <1>1, <2>1, <2>8 DEF Directory, Listed
    <2>10. Names(Tail(v)) = Names(disk') \ {Key(c)}
        BY <1>3, <2>1, <2>6, <2>7 DEF Listed
    <2>11. Key(c)' = Key(c)
        BY <1>1 DEF Key
    <2>12. QED
        BY <1>1, <2>1, <2>3, <2>6, <2>9, <2>10, <2>11 DEF Listed
<1>6. pc' = [pc EXCEPT ![c] = "evict"] /\ "evict" \in Critical /\ "evict" # "replace"
    BY <1>1 DEF IInv, Typed, Critical
<1>7. DOMAIN victims' = Clients /\ DOMAIN total' = Clients
    BY <1>1 DEF Directory
<1>8. Alone => Bytes(disk') <= MaxBytes
    BY <1>4, BoundsAssumption DEF Directory
<1>9. QED
    BY <1>1, <1>3, <1>5, <1>6, <1>7, <1>8, MoveDirectory

LEMMA WriteTemporaryDirectory ==
    ASSUME IInv, Directory, NEW c \in Clients, WriteTemporary(c)
    PROVE  Directory'
<1>1. /\ pc[c] = "evict" /\ pc[c] \in Critical /\ Fits(c) /\ pc' = [pc EXCEPT ![c] = "replace"]
      /\ UNCHANGED <<disk, lock, source, before, victims, total>>
    BY DEF WriteTemporary, Goto, Critical, local
<1>2. ASSUME Alone PROVE Fitting(c)'
    <2>1. Listed(c)
        BY <1>1, <1>2 DEF Directory, Writing
    <2>2. total[c] = Cardinality(Occupied(Names(disk) \ {Key(c)}))
        BY <2>1 DEF Listed, Bytes
    <2>3. Fitting(c)
        BY <1>1, <2>2 DEF Fitting, Fits
    <2>4. QED
        BY <1>1, <2>3 DEF Fitting, Key
<1>3. "replace" \in Critical /\ "replace" # "evict"
    BY DEF Critical
<1>4. QED
    BY <1>1, <1>2, <1>3, MoveDirectory DEF Directory

LEMMA AppendNames ==
    ASSUME NEW d \in Seq(Entries), Distinct(d), NEW e \in Entries, e.key \notin Names(d)
    PROVE  Distinct(Append(d, e)) /\ Names(Append(d, e)) = Names(d) \cup {e.key}
<1>1. /\ DOMAIN Append(d, e) = 1..(Len(d) + 1) /\ DOMAIN d = 1..Len(d) /\ Len(d) \in Nat
      /\ \A j \in 1..Len(d) : Append(d, e)[j] = d[j]
      /\ Append(d, e)[Len(d) + 1] = e
    OBVIOUS
<1>2. \A j \in 1..(Len(d) + 1) : j \in 1..Len(d) \/ j = Len(d) + 1
    BY <1>1
<1>3. 1..Len(d) \subseteq 1..(Len(d) + 1) /\ Len(d) + 1 \in 1..(Len(d) + 1)
    BY <1>1
<1>4. \A j \in 1..Len(d) : d[j].key # e.key
    BY <1>1 DEF Names
<1>5. Distinct(Append(d, e))
    BY <1>1, <1>2, <1>4 DEF Distinct
<1>6. Names(Append(d, e)) = Names(d) \cup {e.key}
    BY <1>1, <1>2, <1>3 DEF Names
<1>7. QED
    BY <1>5, <1>6

LEMMA ReplaceDirectory ==
    ASSUME IInv, Directory, NEW c \in Clients, Replace(c)
    PROVE  Directory'
<1> DEFINE e == [key |-> Key(c), observation |-> Observation(c)]
           rest == Without(disk, Key(c))
<1>1. /\ pc[c] = "replace" /\ pc[c] \in Critical /\ pc[c] \in Storing
      /\ EndStore(c, "stored") /\ Release(c)
      /\ disk' = Append(rest, e)
      /\ UNCHANGED <<source, before, victims, total>>
    BY DEF Replace, Critical, Storing, local
<1>2. disk \in Seq(Entries) /\ Sound(disk) /\ Distinct(disk)
    BY DEF IInv, Typed, Directory
<1>3. rest \in Seq(Entries) /\ Distinct(rest) /\ Names(rest) = Names(disk) \ {Key(c)}
    BY <1>2, WithoutSound, WithoutNames
<1>4. e \in Entries /\ e.key = Key(c) /\ Key(c) \in Keys
    <2>1. Key(c) = Observation(c) /\ Key(c) \in Keys
        BY <1>1, MomentObserved
    <2>2. QED
        BY <2>1 DEF Entries
<1> HIDE DEF e, rest
<1>5. Distinct(disk') /\ Names(disk') = Names(rest) \cup {Key(c)}
    BY <1>1, <1>3, <1>4, AppendNames
<1>6. Bytes(disk') = Cardinality(Occupied(Names(disk) \ {Key(c)})) + Size[source[c]]
    <2>1. Names(rest) \in SUBSET Keys /\ IsFiniteSet(Names(rest)) /\ Key(c) \notin Names(rest)
        BY <1>3, NamesFinite
    <2>2. Key(c).source = source[c]
        BY DEF Key
    <2>3. QED
        BY <1>3, <1>4, <1>5, <2>1, <2>2, OccupiedAdds DEF Bytes
<1>7. pc' = [pc EXCEPT ![c] = "done"] /\ DOMAIN lock' = DOMAIN lock
    BY <1>1 DEF EndStore, Goto, Release
<1>8. ASSUME Alone PROVE Bytes(disk') <= MaxBytes
    BY <1>1, <1>6, <1>8 DEF Directory, Writing, Fitting
<1>9. ASSUME Alone, NEW d \in Clients PROVE Writing(d)'
    <2>1. pc'[d] \notin Critical
        <3>1. CASE d = c
            BY <1>7, <3>1 DEF IInv, Typed, Critical
        <3>2. CASE d # c
            BY <1>1, <1>7, <1>9, <3>2, OneWriter DEF IInv, Typed
        <3>3. QED
            BY <3>1, <3>2
    <2>2. QED
        BY <2>1 DEF Writing, Critical
<1>10. Alone' => Alone
    BY <1>7 DEF Alone
<1>11. QED
    BY <1>1, <1>5, <1>8, <1>9, <1>10 DEF Directory

LEMMA NextDirectory ==
    ASSUME IInv, Directory, [Next]_vars
    PROVE  Directory'
<1>1. ASSUME NEW f \in Files, Edit(f) PROVE Directory'
    <2>1. UNCHANGED <<disk, lock, pc, source, before, victims, total>>
        BY <1>1 DEF Edit, local, storing
    <2>2. QED
        BY <2>1, UnmovedDirectory DEF Directory, Unmoved
<1>2. ASSUME NEW i \in DOMAIN disk, Damage(i) PROVE Directory'
    BY <1>2, DamageDirectory
<1>3. ASSUME NEW c \in Clients, NEW s \in Sources, Begin(c, s) PROVE Directory'
    BY <1>3, BeginDirectory
<1>4. ASSUME NEW c \in Clients, Step(c) PROVE Directory'
    <2>1. CASE Return(c)
        BY <2>1, ForgetDirectory DEF Return
    <2>2. CASE WriteError(c)
        <3>1. /\ pc[c] \in Critical /\ EndStore(c, "error") /\ Release(c)
              /\ UNCHANGED <<disk, source, before, victims, total>>
            BY <2>2 DEF WriteError, Critical, local
        <3>2. QED
            BY <3>1, LeaveDirectory
    <2>3. QED
        BY <1>4, <2>1, <2>2, StepOutside, AcquireDirectory, MakeRoomDirectory, EvictDirectory,
           WriteTemporaryDirectory, ReplaceDirectory DEF Step
<1>5. ASSUME NEW p \in DOMAIN lock, Crash(p) PROVE Directory'
    BY <1>5, CrashDirectory
<1>6. ASSUME UNCHANGED vars PROVE Directory'
    <2>1. UNCHANGED <<disk, lock, pc, source, before, victims, total>>
        BY <1>6 DEF vars, local, storing
    <2>2. QED
        BY <2>1, UnmovedDirectory DEF Directory, Unmoved
<1>7. QED
    BY <1>1, <1>2, <1>3, <1>4, <1>5, <1>6 DEF Next

-----------------------------------------------------------------------------
(* The only process that runs has all the threads.                         *)

Partition ==
    /\ DOMAIN lock \subseteq SUBSET Clients
    /\ UNION DOMAIN lock = Clients

LEMMA InitPartition ==
    ASSUME Init
    PROVE  Partition
<1>1. PICK d \in Deployments : lock = [p \in d.processes |-> None]
    BY DEF Init
<1>2. UNION d.processes = Clients
    BY ClientsAssumption
<1>3. QED
    BY <1>1, <1>2 DEF Partition

LEMMA SameProcesses ==
    ASSUME [Next]_vars
    PROVE  DOMAIN lock' = DOMAIN lock
<1>1. ASSUME NEW c \in Clients, Step(c) PROVE DOMAIN lock' = DOMAIN lock
    BY <1>1 DEF Step, ParseUncached, FingerprintBefore, Load, Parse, ParseRaises,
                FingerprintAfter, Compare, Acquire, MakeRoom, Evict, WriteTemporary, Replace,
                WriteError, Return, Release
<1>2. QED
    BY <1>1 DEF Next, Edit, Damage, Begin, Crash, vars

LEMMA OnlyProcess ==
    ASSUME Partition, Cardinality(DOMAIN lock) = 1
    PROVE  Alone
<1>1. IsFiniteSet(SUBSET Clients)
    BY ClientsAssumption, FS_SUBSET
<1>2. IsFiniteSet(DOMAIN lock)
    BY <1>1, FS_Subset DEF Partition
<1>3. PICK p : DOMAIN lock = {p}
    BY <1>2, FS_Singleton
<1>4. QED
    BY <1>3 DEF Partition, Alone

(* A thread has a temporary file only between writing and renaming it.      *)
Temporaries ==
    /\ temp \in [Clients -> BOOLEAN]
    /\ \A c \in Clients : temp[c] => pc[c] = "replace"

LEMMA NextTemporaries ==
    ASSUME IInv, Temporaries, [Next]_vars
    PROVE  Temporaries'
<1>1. pc \in [Clients -> Labels] /\ temp \in [Clients -> BOOLEAN]
    BY DEF IInv, Typed, Temporaries
<1>2. ASSUME NEW c \in Clients, temp' = temp, pc[c] # "replace",
             \A d \in Clients \ {c} : pc'[d] = pc[d]
      PROVE  Temporaries'
    BY <1>2 DEF Temporaries
<1>3. ASSUME NEW c \in Clients, NEW label, pc' = [pc EXCEPT ![c] = label]
      PROVE  pc'[c] = label /\ \A d \in Clients \ {c} : pc'[d] = pc[d]
    BY <1>1, <1>3
<1>4. ASSUME NEW c \in Clients, NEW s \in Sources, Begin(c, s) PROVE Temporaries'
    <2>1. temp' = temp /\ pc[c] = "idle"
        BY <1>4 DEF Begin, storing
    <2>2. \A d \in Clients \ {c} : pc'[d] = pc[d]
        BY <1>1, <1>4 DEF Begin, Goto
    <2>3. QED
        BY <1>2, <2>1, <2>2
<1>5. ASSUME NEW c \in Clients, Step(c) PROVE Temporaries'
    <2>1. CASE WriteTemporary(c)
        <3>1. /\ temp' = [temp EXCEPT ![c] = TRUE]
              /\ pc'[c] = "replace" /\ \A d \in Clients \ {c} : pc'[d] = pc[d]
            BY <1>3, <2>1 DEF WriteTemporary, Goto
        <3>2. QED
            BY <1>1, <3>1 DEF Temporaries
    <2>2. CASE Replace(c) \/ WriteError(c)
        <3>1. /\ temp' = [temp EXCEPT ![c] = FALSE]
              /\ \A d \in Clients \ {c} : pc'[d] = pc[d]
            BY <1>3, <2>2 DEF Replace, WriteError, EndStore, Goto
        <3>2. QED
            BY <1>1, <3>1 DEF Temporaries
    <2>3. CASE Return(c)
        BY <1>1, <2>3 DEF Return, Forget, Temporaries
    <2>4. CASE ~(WriteTemporary(c) \/ Replace(c) \/ WriteError(c) \/ Return(c))
        <3>1. temp' = temp /\ pc[c] # "replace"
            BY <1>5, <2>4 DEF Step, ParseUncached, FingerprintBefore, Load, Parse, ParseRaises,
                              FingerprintAfter, Compare, Acquire, MakeRoom, Evict, storing
        <3>2. \A d \in Clients \ {c} : pc'[d] = pc[d]
            BY <1>1, <1>5, <2>4 DEF Step, ParseUncached, FingerprintBefore, Load, Parse,
                              ParseRaises, FingerprintAfter, Compare, Acquire, MakeRoom, Evict,
                              EndStore, Goto
        <3>3. QED
            BY <1>2, <3>1, <3>2
    <2>5. QED
        BY <2>1, <2>2, <2>3, <2>4
<1>6. ASSUME NEW p \in DOMAIN lock, Crash(p) PROVE Temporaries'
    BY <1>1, <1>6 DEF Crash, Forget, Temporaries
<1>7. CASE \/ \E f \in Files : Edit(f)
           \/ \E i \in DOMAIN disk : Damage(i)
           \/ UNCHANGED vars
    BY <1>7 DEF Edit, Damage, vars, storing, Temporaries
<1>8. QED
    BY <1>4, <1>5, <1>6, <1>7 DEF Next

LEMMA WrittenFits ==
    ASSUME IInv, Directory, Temporaries, Alone, NEW c \in Clients, temp[c]
    PROVE  Bytes(Without(disk, Key(c))) + Size[source[c]] <= MaxBytes
<1>1. disk \in Seq(Entries) /\ Distinct(disk)
    BY DEF IInv, Typed, Directory
<1>2. Names(Without(disk, Key(c))) = Names(disk) \ {Key(c)}
    BY <1>1, WithoutNames
<1>3. Fitting(c)
    BY DEF Temporaries, Directory, Writing
<1>4. QED
    BY <1>2, <1>3 DEF Fitting, Bytes

(* One process keeps its entries within the byte target, the one that is    *)
(* being written included, with any number of threads, whatever is evicted, *)
(* fails half-way or dies: the lock admits one writer, and what it listed   *)
(* stays what the directory holds.                                          *)
THEOREM ByteTargetKept == Spec => []EntriesBounded
<1>1. Init => Directory /\ Partition /\ Temporaries
    BY InitDirectory, InitPartition DEF Init, Temporaries
<1>2. IInv /\ Directory /\ Partition /\ Temporaries /\ [Next]_vars
        => Directory' /\ Partition' /\ Temporaries'
    BY NextDirectory, NextTemporaries, SameProcesses DEF Partition
<1>3. IInv /\ Directory /\ Partition /\ Temporaries => EntriesBounded
    BY OnlyProcess, WrittenFits DEF EntriesBounded, Directory
<1>4. QED
    BY <1>1, <1>2, <1>3, InductiveInvariant, PTL DEF Spec
=============================================================================
