--------------------------- MODULE KInductionProofs ---------------------------
(***************************************************************************)
(* What is proven with a bound is true without one: the soundness of the   *)
(* bounded search and of k-induction, for every design, every reset        *)
(* protocol, every request and every depth.                                *)
(***************************************************************************)
EXTENDS KInduction, FiniteSetTheorems, SequenceTheorems, TLAPS

-----------------------------------------------------------------------------
(* The window of a property.                                               *)

(* Finitely many guards look back a bounded number of cycles.              *)
LEMMA LagsBounded ==
    ASSUME NEW G, G \subseteq Guards, IsFiniteSet(G)
    PROVE  \E b \in Nat : \A g \in G : g.lag <= b
<1> DEFINE Bound(T) == \E b \in Nat : \A g \in T : g.lag <= b
           Bad == {n \in Nat : \E T \in SUBSET G : Cardinality(T) = n /\ ~Bound(T)}
<1>1. ASSUME NEW n \in Bad PROVE \E m \in Bad : m < n
    <2>1. PICK T \in SUBSET G : Cardinality(T) = n /\ ~Bound(T)
        OBVIOUS
    <2>2. IsFiniteSet(T)
        BY FS_Subset
    <2>3. Bound({})
        BY 0 \in Nat
    <2>4. PICK g \in T : TRUE
        BY <2>1, <2>3
    <2>5. /\ Cardinality(T \ {g}) = n - 1 /\ n \in Nat
          /\ Cardinality(T \ {g}) \in Nat
        BY <2>1, <2>2, <2>4, FS_RemoveElement, FS_CardinalityType
    <2>6. ~Bound(T \ {g})
        <3>1. SUFFICES ASSUME NEW b \in Nat, \A h \in T \ {g} : h.lag <= b
                       PROVE  FALSE
            OBVIOUS
        <3>2. \A h \in T : h.lag \in Nat
            BY DEF Guards
        <3>3. PICK c \in Nat : c >= b /\ c >= g.lag
            <4>1. g.lag \in Nat
                BY <2>4, <3>2
            <4>2. b + g.lag \in Nat /\ b + g.lag >= b /\ b + g.lag >= g.lag
                BY <4>1
            <4>3. QED
                BY <4>2
        <3>4. \A h \in T : h.lag <= c
            BY <3>1, <3>2, <3>3
        <3>5. QED
            BY <2>1, <3>4
    <2>7. QED
        BY <2>5, <2>6
<1>2. Bad = {}
    <2>1. SUFFICES ASSUME Bad # {} PROVE FALSE
        OBVIOUS
    <2>2. PICK n \in Bad : \A m \in Bad : ~(<<m, n>> \in OpToRel(<, Nat))
        BY <2>1, NatLessThanWellFounded, WFMin
    <2>3. PICK m \in Bad : m < n
        BY <1>1
    <2>4. <<m, n>> \in OpToRel(<, Nat)
        BY <2>3 DEF OpToRel
    <2>5. QED
        BY <2>2, <2>4
<1>3. Cardinality(G) \in Nat
    BY FS_CardinalityType
<1>4. Bound(G)
    BY <1>2, <1>3
<1>5. QED
    BY <1>4

(* A set of naturals that is bounded has the maximum that Max chooses.     *)
LEMMA MaxOfBounded ==
    ASSUME NEW S, S \subseteq Nat, S # {}, NEW b \in Nat, \A x \in S : x <= b
    PROVE  Max(S) \in S /\ \A x \in S : x <= Max(S)
<1> DEFINE Gaps == {n \in Nat : b - n \in S}
<1>1. Gaps # {}
    <2>1. PICK x \in S : TRUE
        OBVIOUS
    <2>2. b - x \in Nat /\ b - (b - x) = x
        BY <2>1
    <2>3. QED
        BY <2>1, <2>2
<1>2. PICK n \in Gaps : \A m \in Gaps : ~(<<m, n>> \in OpToRel(<, Nat))
    BY <1>1, NatLessThanWellFounded, WFMin
<1>3. ASSUME NEW x \in S PROVE b - n >= x
    <2>1. b - x \in Gaps /\ n \in Nat /\ x \in Nat
        OBVIOUS
    <2>2. ~(b - x < n)
        BY <1>2, <2>1 DEF OpToRel
    <2>3. QED
        BY <2>1, <2>2
<1>4. \E x \in S : \A y \in S : x >= y
    BY <1>3
<1>5. Max(S) \in S /\ \A y \in S : Max(S) >= y
    BY <1>4 DEF Max
<1>6. QED
    BY <1>5

(* No guard of a property and no expected value is older than its history. *)
Sane(p) == p \in Properties /\ IsFiniteSet(p.when)

LEMMA HistoryBounds ==
    ASSUME NEW p, Sane(p)
    PROVE  /\ History(p) \in Nat
           /\ p.latency \in Nat /\ p.latency <= History(p)
           /\ \A g \in p.when : g.lag \in Nat /\ g.lag <= History(p)
<1> DEFINE Lags == {g.lag : g \in p.when} \cup {p.latency}
<1>1. p.when \subseteq Guards /\ p.latency \in Nat
    BY DEF Sane, Properties
<1>2. \A g \in p.when : g.lag \in Nat
    BY <1>1 DEF Guards
<1>3. PICK b \in Nat : \A g \in p.when : g.lag <= b
    BY <1>1, LagsBounded DEF Sane
<1>4. b + p.latency \in Nat /\ \A x \in Lags : x <= b + p.latency
    BY <1>1, <1>2, <1>3
<1>5. Lags \subseteq Nat /\ Lags # {}
    BY <1>1, <1>2
<1>6. Max(Lags) \in Lags /\ \A x \in Lags : x <= Max(Lags)
    BY <1>4, <1>5, MaxOfBounded
<1>7. QED
    BY <1>1, <1>2, <1>5, <1>6 DEF History

(* The verdict on a cycle depends on the window of frames up to it only.   *)
LEMMA SameWindow ==
    ASSUME NEW p, Sane(p), NEW f, NEW h, NEW t \in Nat, NEW u \in Nat,
           History(p) <= t, History(p) <= u,
           \A lag \in 0..History(p) : f[t - lag + 1] = h[u - lag + 1]
    PROVE  Holds(p, f, t) <=> Holds(p, h, u)
<1>1. History(p) \in Nat /\ p.latency \in 0..History(p)
    BY HistoryBounds
<1>2. \A g \in p.when : g.lag \in 0..History(p)
    BY HistoryBounds
<1>3. Enabled(p, f, t) <=> Enabled(p, h, u)
    BY <1>2 DEF Enabled, At
<1>4. Expected(p, f, t) = Expected(p, h, u)
    BY <1>1 DEF Expected, At
<1>5. At(f, t, p.sink) = At(h, u, p.sink)
    <2>1. f[t - 0 + 1] = h[u - 0 + 1]
        BY <1>1
    <2>2. t - 0 + 1 = t + 1 /\ u - 0 + 1 = u + 1
        OBVIOUS
    <2>3. QED
        BY <2>1, <2>2 DEF At
<1>6. QED
    BY <1>3, <1>4, <1>5 DEF Holds

-----------------------------------------------------------------------------
(* The unrolling.                                                          *)

Linked(c, f) == \A j \in 2..Len(f) : f[j].state = c[f[j - 1]]

Protocol(f) ==
    \A j \in 1..Len(f) :
        /\ f[j].input \in Inputs
        /\ Active # {} => (f[j].input \in Active <=> j <= ResetCycles)

Quiet(f) == \A j \in 1..Len(f) : f[j].input \in Inputs \ Active

IsRun(c, f) == f \in Seq(Frames) /\ Protocol(f) /\ Linked(c, f)

IsWindow(c, f) == f \in Seq(Frames) /\ Quiet(f) /\ Linked(c, f)

Runs(c, n) == {f \in Seq(Frames) : Len(f) = n /\ IsRun(c, f)}

Windows(c, n) == {f \in Seq(Frames) : Len(f) = n /\ IsWindow(c, f)}

(* The first n frames of a sequence, and a frame added to it.              *)
LEMMA FirstFrames ==
    ASSUME NEW f \in Seq(Frames), NEW n \in 0..Len(f)
    PROVE  /\ SubSeq(f, 1, n) \in Seq(Frames)
           /\ Len(SubSeq(f, 1, n)) = n
           /\ \A j \in 1..n : SubSeq(f, 1, n)[j] = f[j]
<1>1. \A j \in 1..n : f[j] \in Frames
    OBVIOUS
<1>2. QED
    BY <1>1, SubSeqProperties

LEMMA Appending ==
    ASSUME NEW f \in Seq(Frames), NEW g \in Frames
    PROVE  /\ Append(f, g) \in Seq(Frames)
           /\ Len(Append(f, g)) = Len(f) + 1
           /\ Append(f, g)[Len(f) + 1] = g
           /\ \A j \in 1..Len(f) : Append(f, g)[j] = f[j]
OBVIOUS

LEMMA FramesEqual ==
    ASSUME NEW f \in Seq(Frames), NEW h \in Seq(Frames), Len(f) = Len(h),
           \A j \in 1..Len(f) : f[j] = h[j]
    PROVE  f = h
BY SeqEqual

(* What the solver context holds after one more frame.                     *)
LEMMA Extension ==
    ASSUME circuit \in Circuits, NEW C, NEW n \in Nat,
           \A f \in C : f \in Seq(Frames) /\ Len(f) = n,
           NEW resetting
    PROVE  \A h : h \in Extended(C, resetting) <=>
                    /\ h \in Seq(Frames) /\ Len(h) = n + 1
                    /\ SubSeq(h, 1, n) \in C
                    /\ h[n + 1].input \in InputsWhen(resetting)
                    /\ n > 0 => h[n + 1].state = circuit[h[n]]
<1>1. \A f \in Seq(Frames) : Successors(f, resetting) \subseteq Frames
    <2>1. ASSUME NEW f \in Seq(Frames), f # <<>> PROVE circuit[Last(f)] \in States
        <3>1. Last(f) \in Frames
            BY <2>1, Len(f) \in 1..Len(f) DEF Last
        <3>2. circuit \in [Frames -> States]
            BY DesignAssumption
        <3>3. QED
            BY <3>1, <3>2
    <2>2. InputsWhen(resetting) \subseteq Inputs
        BY DEF InputsWhen
    <2>3. QED
        BY <2>1, <2>2 DEF Successors, Frames
<1>2. ASSUME NEW h, h \in Extended(C, resetting)
      PROVE  /\ h \in Seq(Frames) /\ Len(h) = n + 1
             /\ SubSeq(h, 1, n) \in C
             /\ h[n + 1].input \in InputsWhen(resetting)
             /\ n > 0 => h[n + 1].state = circuit[h[n]]
    <2>1. PICK f \in C : h \in {Append(f, g) : g \in Successors(f, resetting)}
        BY <1>2 DEF Extended
    <2>2. PICK g \in Successors(f, resetting) : h = Append(f, g)
        BY <2>1
    <2>3. f \in Seq(Frames) /\ Len(f) = n /\ g \in Frames
        BY <1>1
    <2>4. /\ h \in Seq(Frames) /\ Len(h) = n + 1 /\ h[n + 1] = g
          /\ \A j \in 1..n : h[j] = f[j]
        BY <2>2, <2>3, Appending
    <2>5. SubSeq(h, 1, n) = f
        <3>1. /\ SubSeq(h, 1, n) \in Seq(Frames) /\ Len(SubSeq(h, 1, n)) = n
              /\ \A j \in 1..n : SubSeq(h, 1, n)[j] = h[j]
            BY <2>4, n \in 0..Len(h), FirstFrames
        <3>2. QED
            BY <2>3, <2>4, <3>1, FramesEqual
    <2>6. g.input \in InputsWhen(resetting)
        BY DEF Successors
    <2>7. ASSUME n > 0 PROVE g.state = circuit[h[n]]
        <3>1. f # <<>>
            BY <2>3, <2>7
        <3>2. Last(f) = h[n]
            BY <2>3, <2>4, <2>7 DEF Last
        <3>3. QED
            BY <3>1, <3>2 DEF Successors
    <2>8. QED
        BY <2>4, <2>5, <2>6, <2>7
<1>3. ASSUME NEW h \in Seq(Frames), Len(h) = n + 1, SubSeq(h, 1, n) \in C,
             h[n + 1].input \in InputsWhen(resetting),
             n > 0 => h[n + 1].state = circuit[h[n]]
      PROVE  h \in Extended(C, resetting)
    <2> DEFINE f == SubSeq(h, 1, n)
               g == h[n + 1]
    <2>1. /\ f \in Seq(Frames) /\ Len(f) = n /\ g \in Frames
          /\ \A j \in 1..n : f[j] = h[j]
        <3>1. n \in 0..Len(h) /\ h[n + 1] \in Frames
            BY <1>3
        <3>2. QED
            BY <1>3, <3>1, FirstFrames
    <2>2. h = Append(f, g)
        <3>1. /\ Append(f, g) \in Seq(Frames) /\ Len(Append(f, g)) = n + 1
              /\ Append(f, g)[n + 1] = g
              /\ \A j \in 1..n : Append(f, g)[j] = f[j]
            BY <2>1, Appending
        <3>2. \A j \in 1..(n + 1) : h[j] = Append(f, g)[j]
            BY <2>1, <3>1
        <3>3. QED
            BY <1>3, <3>1, <3>2, FramesEqual
    <2>3. g \in Successors(f, resetting)
        <3>1. CASE n = 0
            <4>1. f = <<>>
                BY <2>1, <3>1
            <4>2. QED
                BY <1>3, <2>1, <4>1 DEF Successors, Frames
        <3>2. CASE n > 0
            <4>1. f[n] = h[n]
                BY <2>1, <3>2
            <4>2. f # <<>>
                <5> HIDE DEF f
                <5>1. Len(f) # 0
                    BY <2>1, <3>2
                <5>2. QED
                    BY <5>1, EmptySeq
            <4>3. Last(f) = h[n]
                BY <2>1, <4>1 DEF Last
            <4>4. QED
                BY <1>3, <2>1, <3>2, <4>2, <4>3 DEF Successors, Frames
        <3>3. QED
            BY <3>1, <3>2
    <2>4. h \in {Append(f, x) : x \in Successors(f, resetting)} /\ f \in C
        BY <1>3, <2>2, <2>3
    <2>5. QED
        BY <2>4 DEF Extended
<1>4. QED
    BY <1>2, <1>3

(* A link more for a frame more.                                           *)
LEMMA LinkedGrows ==
    ASSUME NEW n \in Nat, NEW c, NEW f \in Seq(Frames), Len(f) = n,
           NEW h \in Seq(Frames), Len(h) = n + 1, \A j \in 1..n : f[j] = h[j]
    PROVE  Linked(c, h) <=> Linked(c, f) /\ (n > 0 => h[n + 1].state = c[h[n]])
<1>1. \A j \in 2..n : j \in 1..n /\ j - 1 \in 1..n
    OBVIOUS
<1>2. Linked(c, f) <=> \A j \in 2..n : h[j].state = c[h[j - 1]]
    BY <1>1 DEF Linked
<1>3. CASE n > 0
    <2>1. 2..(n + 1) = 2..n \cup {n + 1} /\ n + 1 - 1 = n
        BY <1>3
    <2>2. QED
        BY <1>2, <1>3, <2>1 DEF Linked
<1>4. CASE n = 0
    <2>1. 2..(n + 1) = {} /\ 2..n = {}
        BY <1>4
    <2>2. QED
        BY <1>2, <1>4, <2>1 DEF Linked
<1>5. QED
    BY <1>3, <1>4

(* The context of the base case is exactly the runs of its length.         *)
LEMMA RunsGrow ==
    ASSUME circuit \in Circuits, NEW n \in Nat
    PROVE  Extended(Runs(circuit, n), ResetAt(n)) = Runs(circuit, n + 1)
<1> DEFINE E == Extended(Runs(circuit, n), ResetAt(n))
<1>1. \A h : h \in E <=>
               /\ h \in Seq(Frames) /\ Len(h) = n + 1
               /\ SubSeq(h, 1, n) \in Runs(circuit, n)
               /\ h[n + 1].input \in InputsWhen(ResetAt(n))
               /\ n > 0 => h[n + 1].state = circuit[h[n]]
    <2>1. \A f \in Runs(circuit, n) : f \in Seq(Frames) /\ Len(f) = n
        BY DEF Runs
    <2>2. QED
        BY <2>1, Extension
<1>2. ASSUME NEW h \in Seq(Frames), Len(h) = n + 1
      PROVE  h \in E <=> IsRun(circuit, h)
    <2> DEFINE f == SubSeq(h, 1, n)
    <2>1. f \in Seq(Frames) /\ Len(f) = n /\ \A j \in 1..n : f[j] = h[j]
        BY <1>2, n \in 0..Len(h), FirstFrames
    <2>2. h[n + 1].input \in InputsWhen(ResetAt(n)) <=>
            /\ h[n + 1].input \in Inputs
            /\ Active # {} => (h[n + 1].input \in Active <=> n + 1 <= ResetCycles)
        <3>1. ResetAt(n) <=> n + 1 <= ResetCycles
            BY DesignAssumption DEF ResetAt
        <3>2. QED
            BY <3>1 DEF InputsWhen
    <2>3. Protocol(h) <=> Protocol(f) /\ h[n + 1].input \in InputsWhen(ResetAt(n))
        <3>1. 1..Len(h) = 1..Len(f) \cup {n + 1}
            BY <1>2, <2>1
        <3>2. QED
            BY <2>1, <2>2, <3>1 DEF Protocol
    <2>4. Linked(circuit, h) <=>
            Linked(circuit, f) /\ (n > 0 => h[n + 1].state = circuit[h[n]])
        BY <1>2, <2>1, LinkedGrows
    <2>5. f \in Runs(circuit, n) <=> IsRun(circuit, f)
        BY <2>1 DEF Runs
    <2>6. QED
        BY <1>1, <1>2, <2>1, <2>3, <2>4, <2>5 DEF IsRun
<1>3. QED
    BY <1>1, <1>2 DEF Runs

(* The context of the step is made of windows, whose prefixes it extends.  *)
LEMMA WindowsGrow ==
    ASSUME circuit \in Circuits, NEW n \in Nat, NEW C, C \subseteq Windows(circuit, n)
    PROVE  Extended(C, FALSE) = {h \in Windows(circuit, n + 1) : SubSeq(h, 1, n) \in C}
<1> DEFINE E == Extended(C, FALSE)
<1>1. \A h : h \in E <=>
               /\ h \in Seq(Frames) /\ Len(h) = n + 1
               /\ SubSeq(h, 1, n) \in C
               /\ h[n + 1].input \in InputsWhen(FALSE)
               /\ n > 0 => h[n + 1].state = circuit[h[n]]
    <2>1. \A f \in C : f \in Seq(Frames) /\ Len(f) = n
        BY DEF Windows
    <2>2. QED
        BY <2>1, Extension
<1>2. InputsWhen(FALSE) = Inputs \ Active
    BY DEF InputsWhen
<1>3. ASSUME NEW h \in Seq(Frames), Len(h) = n + 1, SubSeq(h, 1, n) \in C
      PROVE  h \in E <=> IsWindow(circuit, h)
    <2> DEFINE f == SubSeq(h, 1, n)
    <2>1. f \in Seq(Frames) /\ Len(f) = n /\ \A j \in 1..n : f[j] = h[j]
        BY <1>3, n \in 0..Len(h), FirstFrames
    <2>2. Quiet(h) <=> Quiet(f) /\ h[n + 1].input \in Inputs \ Active
        <3>1. 1..Len(h) = 1..Len(f) \cup {n + 1}
            BY <1>3, <2>1
        <3>2. QED
            BY <2>1, <3>1 DEF Quiet
    <2>3. Linked(circuit, h) <=>
            Linked(circuit, f) /\ (n > 0 => h[n + 1].state = circuit[h[n]])
        BY <1>3, <2>1, LinkedGrows
    <2>4. IsWindow(circuit, f)
        BY <1>3 DEF Windows
    <2>5. QED
        BY <1>1, <1>2, <1>3, <2>2, <2>3, <2>4 DEF IsWindow
<1>4. QED
    BY <1>1, <1>3 DEF Windows

-----------------------------------------------------------------------------
(* What a query that fails says of every run.                              *)

Good(p) == Sane(p) /\ History(p) <= p.start /\ p.start <= Depth

Checked(c, p, n) ==
    \A r \in Seq(Frames) : IsRun(c, r) =>
        \A t \in p.start..n : t < Len(r) => Holds(p, r, t)

Inductive(c, p, n) ==
    \A f \in Windows(c, History(p) + 1 + n) :
        (\A t \in History(p)..(History(p) + n - 1) : Holds(p, f, t))
            => Holds(p, f, History(p) + n)

PrefixOf(p) == Max({p.start, ResetCycles + History(p)})

Proven(c, p) ==
    /\ Checked(c, p, Depth)
    /\ \E n \in Nat \ {0} : PrefixOf(p) + n <= Depth /\ Inductive(c, p, n)

LEMMA GoodTypes ==
    ASSUME NEW p, Good(p)
    PROVE  /\ p.start \in Nat /\ History(p) \in Nat /\ Depth \in Nat
           /\ ResetCycles \in Nat
           /\ History(p) <= p.start /\ p.start <= Depth
           /\ PrefixOf(p) \in Nat /\ p.start <= PrefixOf(p)
           /\ ResetCycles + History(p) <= PrefixOf(p)
<1>1. /\ p.start \in Nat /\ History(p) \in Nat /\ Depth \in Nat /\ ResetCycles \in Nat
      /\ History(p) <= p.start /\ p.start <= Depth
    <2>1. p.start \in Nat
        BY DEF Good, Sane, Properties
    <2>2. History(p) \in Nat
        BY HistoryBounds DEF Good
    <2>3. QED
        BY <2>1, <2>2, DesignAssumption, BoundsAssumption DEF Good
<1>2. DEFINE a == p.start
             b == ResetCycles + History(p)
<1>3. a \in Nat /\ b \in Nat
    BY <1>1
<1>4. \E x \in {a, b} : \A y \in {a, b} : x >= y
    <2> HIDE DEF a, b
    <2>1. CASE a >= b
        BY <1>3, <2>1
    <2>2. CASE b >= a
        BY <1>3, <2>2
    <2>3. QED
        BY <1>3, <2>1, <2>2
<1>5. PrefixOf(p) \in {a, b} /\ \A y \in {a, b} : PrefixOf(p) >= y
    <2> HIDE DEF a, b
    <2>1. PrefixOf(p) = Max({a, b})
        BY DEF PrefixOf, a, b
    <2>2. QED
        BY <1>4, <2>1 DEF Max
<1>6. PrefixOf(p) \in Nat /\ a <= PrefixOf(p) /\ b <= PrefixOf(p)
    <2> HIDE DEF a, b
    <2>1. QED
        BY <1>3, <1>5
<1>7. QED
    BY <1>1, <1>6

(* A run from its first frame on is a run, and from any frame past the     *)
(* reset it is a window.                                                   *)
LEMMA RunPrefix ==
    ASSUME NEW c, NEW r \in Seq(Frames), IsRun(c, r), NEW n \in 0..Len(r)
    PROVE  /\ SubSeq(r, 1, n) \in Runs(c, n)
           /\ \A j \in 1..n : SubSeq(r, 1, n)[j] = r[j]
<1> DEFINE f == SubSeq(r, 1, n)
<1>1. f \in Seq(Frames) /\ Len(f) = n /\ \A j \in 1..n : f[j] = r[j]
    BY FirstFrames
<1>2. \A j \in 1..n : j \in 1..Len(r)
    OBVIOUS
<1>3. \A j \in 2..n : j \in 2..Len(r) /\ j \in 1..n /\ j - 1 \in 1..n
    OBVIOUS
<1>4. Protocol(f)
    BY <1>1, <1>2 DEF IsRun, Protocol
<1>5. Linked(c, f)
    BY <1>1, <1>3 DEF IsRun, Linked
<1>6. QED
    BY <1>1, <1>4, <1>5 DEF Runs, IsRun

LEMMA RunWindow ==
    ASSUME NEW c, NEW r \in Seq(Frames), IsRun(c, r), NEW a \in Nat, NEW w \in Nat,
           ResetCycles <= a, a + w <= Len(r)
    PROVE  /\ SubSeq(r, a + 1, a + w) \in Windows(c, w)
           /\ \A j \in 1..w : SubSeq(r, a + 1, a + w)[j] = r[a + j]
<1> DEFINE f == SubSeq(r, a + 1, a + w)
<1>1. f \in Seq(Frames) /\ Len(f) = w /\ \A j \in 1..w : f[j] = r[a + j]
    <2>1. a + 1 \in Int /\ a + w \in Int /\ \A i \in (a + 1)..(a + w) : r[i] \in Frames
        OBVIOUS
    <2>2. /\ f \in Seq(Frames)
          /\ Len(f) = IF a + 1 <= a + w THEN (a + w) - (a + 1) + 1 ELSE 0
          /\ \A i \in 1..((a + w) - (a + 1) + 1) : f[i] = r[(a + 1) + i - 1]
        BY <2>1, SubSeqProperties
    <2>3. /\ (a + w) - (a + 1) + 1 = w
          /\ (IF a + 1 <= a + w THEN (a + w) - (a + 1) + 1 ELSE 0) = w
          /\ \A i \in 1..w : (a + 1) + i - 1 = a + i
        OBVIOUS
    <2> HIDE DEF f
    <2>4. QED
        BY <2>2, <2>3
<1> HIDE DEF f
<1>2. Quiet(f)
    <2>1. \A j \in 1..w : a + j \in 1..Len(r) /\ ~(a + j <= ResetCycles)
        BY DesignAssumption
    <2>2. QED
        BY <1>1, <2>1 DEF Quiet, IsRun, Protocol
<1>3. Linked(c, f)
    <2>1. \A j \in 2..w : /\ j \in 1..w /\ j - 1 \in 1..w
                          /\ a + j \in 2..Len(r) /\ a + j - 1 = a + (j - 1)
        OBVIOUS
    <2>2. QED
        BY <1>1, <2>1 DEF Linked, IsRun
<1>4. QED
    BY <1>1, <1>2, <1>3 DEF Windows, IsWindow, f

(* One cycle more is checked when no run of its length fails in it.        *)
LEMMA CheckedOneMore ==
    ASSUME NEW c, NEW p, Good(p), NEW n \in Nat, Checked(c, p, n - 1),
           n >= p.start => \A f \in Runs(c, n + 1) : Holds(p, f, n)
    PROVE  Checked(c, p, n)
<1>1. SUFFICES ASSUME NEW r \in Seq(Frames), IsRun(c, r),
                      NEW t \in p.start..n, t < Len(r)
               PROVE  Holds(p, r, t)
    BY DEF Checked
<1>2. CASE t < n
    <2>1. t \in p.start..(n - 1)
        BY <1>2, GoodTypes
    <2>2. QED
        BY <1>1, <2>1 DEF Checked
<1>3. CASE t = n
    <2> DEFINE f == SubSeq(r, 1, n + 1)
    <2>1. n + 1 \in 0..Len(r)
        BY <1>1, <1>3
    <2>2. f \in Runs(c, n + 1) /\ \A j \in 1..(n + 1) : f[j] = r[j]
        BY <1>1, <2>1, RunPrefix
    <2> HIDE DEF f
    <2>3. Holds(p, f, n)
        BY <1>3, <2>2, GoodTypes
    <2>4. \A lag \in 0..History(p) : n - lag + 1 \in 1..(n + 1)
        BY <1>3, GoodTypes
    <2>5. \A lag \in 0..History(p) : f[n - lag + 1] = r[n - lag + 1]
        BY <2>2, <2>4
    <2>6. Sane(p) /\ History(p) <= n
        BY <1>3, GoodTypes DEF Good
    <2>7. Holds(p, f, n) <=> Holds(p, r, n)
        BY <2>5, <2>6, SameWindow
    <2>8. QED
        BY <1>3, <2>3, <2>7
<1>4. QED
    BY <1>2, <1>3, GoodTypes

(* A window of a run gives the verdicts of the run.                        *)
LEMMA WindowVerdict ==
    ASSUME NEW c, NEW p, Good(p), NEW r \in Seq(Frames), IsRun(c, r),
           NEW a \in Nat, NEW w \in Nat, ResetCycles <= a, a + w <= Len(r),
           NEW t \in History(p)..(w - 1)
    PROVE  Holds(p, SubSeq(r, a + 1, a + w), t) <=> Holds(p, r, a + t)
<1> DEFINE f == SubSeq(r, a + 1, a + w)
           u == a + t
<1>1. Sane(p) /\ History(p) \in Nat
    BY GoodTypes DEF Good
<1>2. \A j \in 1..w : f[j] = r[a + j]
    BY RunWindow
<1> HIDE DEF f
<1>3. t \in Nat /\ u \in Nat /\ History(p) <= t /\ History(p) <= u
    BY <1>1
<1>4. ASSUME NEW lag \in 0..History(p)
      PROVE  f[t - lag + 1] = r[u - lag + 1]
    <2>1. t - lag + 1 \in 1..w
        BY <1>1
    <2>2. a + (t - lag + 1) = u - lag + 1
        BY <1>1
    <2>3. QED
        BY <1>2, <2>1, <2>2
<1> HIDE DEF u
<1>5. Holds(p, f, t) <=> Holds(p, r, u)
    BY <1>1, <1>3, <1>4, SameWindow
<1>6. QED
    BY <1>5 DEF f, u

(* A cycle that is not checked is past the reset by a window: the cycles   *)
(* before it carry the induction over.                                     *)
LEMMA InductionCarries ==
    ASSUME NEW c, NEW p, Good(p), NEW n \in Nat \ {0}, Inductive(c, p, n),
           NEW r \in Seq(Frames), IsRun(c, r), NEW t \in Nat, t = Len(r) - 1,
           ResetCycles + History(p) + n <= t,
           \A u \in (t - n)..(t - 1) : Holds(p, r, u)
    PROVE  Holds(p, r, t)
<1> DEFINE H == History(p)
           a == t - H - n
           w == H + 1 + n
           f == SubSeq(r, a + 1, a + w)
<1>1. Sane(p) /\ H \in Nat /\ ResetCycles \in Nat
    BY GoodTypes DEF Good
<1>2. a \in Nat /\ w \in Nat /\ ResetCycles <= a /\ a + w = t + 1 /\ a + w <= Len(r)
    BY <1>1
<1> HIDE DEF a, w
<1>3. f \in Windows(c, w) /\ \A j \in 1..w : f[j] = r[a + j]
    BY <1>2, RunWindow
<1> HIDE DEF f
<1>4. ASSUME NEW u \in H..(H + n)
      PROVE  Holds(p, f, u) <=> Holds(p, r, a + u)
    <2>1. u \in History(p)..(w - 1)
        BY <1>1 DEF w
    <2>2. QED
        BY <1>2, <2>1, WindowVerdict DEF f
<1>5. ASSUME NEW u \in H..(H + n - 1)
      PROVE  Holds(p, f, u)
    <2>1. u \in H..(H + n) /\ a + u \in (t - n)..(t - 1)
        BY <1>1 DEF a
    <2>2. QED
        BY <1>4, <2>1
<1>6. Holds(p, f, H + n)
    BY <1>3, <1>5 DEF Inductive, w
<1>7. a + (H + n) = t /\ H + n \in H..(H + n)
    BY <1>1 DEF a
<1>8. QED
    BY <1>4, <1>6, <1>7

(* What is proven holds in the last cycle of a run if it does before it.   *)
LEMMA ProvenCarries ==
    ASSUME NEW c, NEW p, Good(p), Proven(c, p),
           NEW r \in Seq(Frames), IsRun(c, r),
           \A u \in p.start..(Len(r) - 2) : Holds(p, r, u)
    PROVE  \A u \in p.start..(Len(r) - 1) : Holds(p, r, u)
<1> SUFFICES ASSUME NEW t \in p.start..(Len(r) - 1)
             PROVE  Holds(p, r, t)
    OBVIOUS
<1>1. p.start \in Nat /\ t \in Nat /\ Len(r) \in Nat /\ Depth \in Nat
    BY GoodTypes
<1>2. CASE t <= Len(r) - 2
    BY <1>1, <1>2
<1>3. CASE t = Len(r) - 1 /\ t <= Depth
    <2>1. t \in p.start..Depth /\ t < Len(r)
        BY <1>1, <1>3
    <2>2. QED
        BY <2>1 DEF Proven, Checked
<1>4. CASE t = Len(r) - 1 /\ t > Depth
    <2>1. PICK n \in Nat \ {0} : PrefixOf(p) + n <= Depth /\ Inductive(c, p, n)
        BY DEF Proven
    <2>2. ResetCycles + History(p) + n <= t
        BY <1>1, <1>4, <2>1, GoodTypes
    <2>3. \A u \in (t - n)..(t - 1) : u \in p.start..(Len(r) - 2)
        BY <1>1, <1>4, <2>1, GoodTypes
    <2>4. \A u \in (t - n)..(t - 1) : Holds(p, r, u)
        BY <2>3
    <2>5. QED
        BY <1>1, <1>4, <2>1, <2>2, <2>4, InductionCarries
<1>5. QED
    BY <1>1, <1>2, <1>3, <1>4

-----------------------------------------------------------------------------
(* The induction step.                                                     *)

Steps(c, p, w) ==
    {f \in Windows(c, w) : \A t \in History(p)..(w - 2) : Holds(p, f, t)}

LEMMA Empties ==
    ASSUME NEW c
    PROVE  Runs(c, 0) = {<<>>} /\ Windows(c, 0) = {<<>>}
<1>1. \A f \in Seq(Frames) : Len(f) = 0 <=> f = <<>>
    BY EmptySeq
<1>2. <<>> \in Seq(Frames) /\ Len(<<>>) = 0
    BY EmptySeq
<1>3. IsRun(c, <<>>) /\ IsWindow(c, <<>>)
    <2>1. 1..0 = {} /\ 2..0 = {}
        OBVIOUS
    <2>2. QED
        BY <1>2, <2>1 DEF IsRun, IsWindow, Protocol, Quiet, Linked
<1>4. QED
    BY <1>1, <1>2, <1>3 DEF Runs, Windows

LEMMA WindowPrefix ==
    ASSUME NEW c, NEW n \in Nat, NEW h \in Windows(c, n + 1)
    PROVE  /\ SubSeq(h, 1, n) \in Windows(c, n)
           /\ \A j \in 1..n : SubSeq(h, 1, n)[j] = h[j]
<1> DEFINE f == SubSeq(h, 1, n)
<1>1. h \in Seq(Frames) /\ Len(h) = n + 1 /\ Quiet(h) /\ Linked(c, h)
    BY DEF Windows, IsWindow
<1>2. f \in Seq(Frames) /\ Len(f) = n /\ \A j \in 1..n : f[j] = h[j]
    BY <1>1, n \in 0..Len(h), FirstFrames
<1> HIDE DEF f
<1>3. Quiet(f)
    BY <1>1, <1>2 DEF Quiet
<1>4. Linked(c, f)
    BY <1>1, <1>2, LinkedGrows
<1>5. QED
    BY <1>2, <1>3, <1>4 DEF Windows, IsWindow, f

(* The context that the code keeps and extends is the windows in which the *)
(* property holds in every cycle but the last.                             *)
LEMMA StepsGrow ==
    ASSUME circuit \in Circuits, NEW p, Good(p), NEW w \in Nat
    PROVE  Extended({f \in Steps(circuit, p, w) : w > History(p) => Holds(p, f, w - 1)}, FALSE)
             = Steps(circuit, p, w + 1)
<1> DEFINE C == {f \in Steps(circuit, p, w) : w > History(p) => Holds(p, f, w - 1)}
<1>1. Sane(p) /\ History(p) \in Nat
    BY GoodTypes DEF Good
<1>2. C \subseteq Windows(circuit, w)
    BY DEF Steps
<1>3. Extended(C, FALSE) = {h \in Windows(circuit, w + 1) : SubSeq(h, 1, w) \in C}
    BY <1>2, WindowsGrow
<1>4. ASSUME NEW f \in Windows(circuit, w)
      PROVE  f \in C <=> \A t \in History(p)..(w - 1) : Holds(p, f, t)
    <2>1. CASE w > History(p)
        <3>1. History(p)..(w - 1) = History(p)..(w - 2) \cup {w - 1}
            BY <1>1, <2>1
        <3>2. QED
            BY <2>1, <3>1 DEF Steps
    <2>2. CASE ~(w > History(p))
        <3>1. History(p)..(w - 1) = {} /\ History(p)..(w - 2) = {}
            BY <1>1, <2>2
        <3>2. QED
            BY <2>2, <3>1 DEF Steps
    <2>3. QED
        BY <2>1, <2>2
<1>5. ASSUME NEW h \in Windows(circuit, w + 1)
      PROVE  SubSeq(h, 1, w) \in C <=> \A t \in History(p)..(w - 1) : Holds(p, h, t)
    <2> DEFINE f == SubSeq(h, 1, w)
    <2>1. f \in Windows(circuit, w) /\ \A j \in 1..w : f[j] = h[j]
        BY WindowPrefix
    <2> HIDE DEF f, C
    <2>2. ASSUME NEW t \in History(p)..(w - 1)
          PROVE  Holds(p, f, t) <=> Holds(p, h, t)
        <3>1. \A lag \in 0..History(p) : t - lag + 1 \in 1..w
            BY <1>1
        <3>2. \A lag \in 0..History(p) : f[t - lag + 1] = h[t - lag + 1]
            BY <2>1, <3>1
        <3>3. t \in Nat /\ History(p) <= t
            BY <1>1
        <3>4. QED
            BY <1>1, <3>2, <3>3, SameWindow
    <2>3. f \in C <=> \A t \in History(p)..(w - 1) : Holds(p, f, t)
        BY <1>4, <2>1
    <2>4. QED
        BY <2>2, <2>3 DEF f
<1>6. w + 1 - 2 = w - 1
    OBVIOUS
<1> HIDE DEF C
<1>7. QED
    <2>1. Steps(circuit, p, w + 1) =
            {h \in Windows(circuit, w + 1) : \A t \in History(p)..(w - 1) : Holds(p, h, t)}
        BY <1>6 DEF Steps
    <2>2. Extended(C, FALSE) = Steps(circuit, p, w + 1)
        BY <1>3, <1>5, <2>1
    <2>3. QED
        BY <2>2 DEF C

(* A frame can always be added: no context becomes contradictory by being  *)
(* extended.                                                               *)
LEMMA ExtendedNonempty ==
    ASSUME circuit \in Circuits, NEW C, C # {}, C \subseteq Seq(Frames),
           NEW resetting \in BOOLEAN
    PROVE  Extended(C, resetting) # {}
<1>1. PICK f \in C : f \in Seq(Frames)
    OBVIOUS
<1>2. PICK i \in InputsWhen(resetting) : i \in Inputs
    <2>1. CASE Active = {}
        BY <2>1, DesignAssumption DEF InputsWhen
    <2>2. CASE Active # {} /\ resetting
        BY <2>2, DesignAssumption DEF InputsWhen
    <2>3. CASE Active # {} /\ ~resetting
        BY <2>3, DesignAssumption DEF InputsWhen
    <2>4. QED
        BY <2>1, <2>2, <2>3
<1>3. \E s : s \in (IF f = <<>> THEN States ELSE {circuit[Last(f)]})
    BY DesignAssumption
<1> DEFINE firsts == IF f = <<>> THEN States ELSE {circuit[Last(f)]}
<1>4. Successors(f, resetting) = [state : firsts, input : InputsWhen(resetting)]
    BY DEF Successors
<1>5. PICK s : s \in firsts
    BY <1>3
<1> HIDE DEF firsts
<1>6. [state |-> s, input |-> i] \in Successors(f, resetting)
    BY <1>2, <1>4, <1>5
<1>7. PICK g \in Successors(f, resetting) : TRUE
    BY <1>6
<1>8. Append(f, g) \in {Append(f, x) : x \in Successors(f, resetting)}
    OBVIOUS
<1>9. Append(f, g) \in Extended(C, resetting)
    BY <1>1, <1>8 DEF Extended
<1>10. QED
    BY <1>9

(* The hypotheses of the step can be met: past the reset, the windows of a *)
(* run of the base case meet them, because the base case was checked.      *)
LEMMA StepsMet ==
    ASSUME NEW c, NEW p, Good(p), Checked(c, p, Depth), Runs(c, Depth + 1) # {},
           NEW n \in Nat, PrefixOf(p) + n <= Depth
    PROVE  \E f \in Steps(c, p, History(p) + 1 + n) : Holds(p, f, History(p) + n)
<1> DEFINE H == History(p)
           a == PrefixOf(p) - H
           w == H + 1 + n
<1>1. PICK r \in Runs(c, Depth + 1) : TRUE
    OBVIOUS
<1>2. r \in Seq(Frames) /\ Len(r) = Depth + 1 /\ IsRun(c, r)
    BY <1>1 DEF Runs
<1>3. /\ Sane(p) /\ H \in Nat /\ p.start \in Nat /\ Depth \in Nat /\ ResetCycles \in Nat
      /\ PrefixOf(p) \in Nat /\ ResetCycles + H <= PrefixOf(p) /\ p.start <= PrefixOf(p)
    BY GoodTypes DEF Good
<1>10. /\ a \in Nat /\ ResetCycles <= a /\ a + H = PrefixOf(p) /\ p.start <= a + H
      /\ w \in Nat /\ a + w <= Len(r) /\ w - 1 = H + n
    <2> DEFINE P == PrefixOf(p)
               R == ResetCycles
    <2>1. H \in Nat /\ P \in Nat /\ R + H <= P /\ p.start <= P /\ P + n <= Depth
          /\ R \in Nat /\ Depth \in Nat /\ Len(r) = Depth + 1 /\ a = P - H
        BY <1>2, <1>3
    <2> HIDE DEF H, P, R, a
    <2>2. a \in Nat /\ R <= a /\ a + H = P
        BY <2>1
    <2>3. w \in Nat /\ a + w <= Len(r) /\ w - 1 = H + n
        BY <2>1
    <2>4. QED
        BY <2>1, <2>2, <2>3 DEF P, R
<1> HIDE DEF a, w
<1> DEFINE f == SubSeq(r, a + 1, a + w)
<1>4. f \in Windows(c, w)
    BY <1>2, <1>3, <1>10, RunWindow
<1>5. ASSUME NEW t \in H..(w - 1)
      PROVE  Holds(p, f, t)
    <2>1. Holds(p, f, t) <=> Holds(p, r, a + t)
        BY <1>2, <1>3, <1>10, WindowVerdict
    <2>2. a + t \in p.start..Depth /\ a + t < Len(r)
        <3> HIDE DEF H
        <3> QED BY <1>2, <1>3, <1>10
    <2>3. Holds(p, r, a + t)
        BY <1>2, <2>2 DEF Checked
    <2>4. QED
        BY <2>1, <2>3
<1> HIDE DEF f
<1>6. H + n \in H..(w - 1) /\ \A t \in H..(w - 2) : t \in H..(w - 1)
    <2> HIDE DEF H
    <2> QED BY <1>3, <1>10
<1>7. QED
    BY <1>4, <1>5, <1>6 DEF Steps, w

-----------------------------------------------------------------------------
(* The inductive invariant.                                                *)

Idle == {"next property", "done"}

Verdicts ==
    [status : {"proven", "counterexample", "uncovered", "bounded", "inconclusive"},
     through : Int, trace : Seq(Frames)]

Typed ==
    /\ pc \in Idle \cup {"base", "ask", "step", "prove"}
    /\ circuit \in Circuits /\ request \in Requests
    /\ results \in Seq(Verdicts) /\ Len(results) <= Len(request)
    /\ pc \notin Idle => Len(results) < Len(request)
    /\ pc = "done" => Len(results) = Len(request)
    /\ through \in -1..Depth /\ width \in Nat /\ k \in Nat

\* The solver contexts go with the property under way.
Cleared == pc \in Idle => through = -1 /\ width = 0 /\ k = 0

BaseExact == base = Runs(circuit, through + 1)

StepExact ==
    step = IF pc \in Idle THEN {<<>>} ELSE Steps(circuit, Property, width)

\* What the unrolling has established.
Searched ==
    pc \notin Idle =>
        /\ pc # "ask" => Checked(circuit, Property, through)
        /\ pc = "ask" => Property.start <= through /\ Checked(circuit, Property, through - 1)

\* What the width of the step's window means.
Stepping ==
    /\ pc \in {"base", "ask"} =>
        k = 0 /\ width <= History(Property) /\ (width > 0 => through = Depth)
    /\ pc = "ask" => width = 0
    /\ pc \in {"step", "prove"} => through = Depth /\ width = History(Property) + 1 + k
    /\ pc = "prove" => k > 0 /\ PrefixOf(Property) + k <= Depth

\* What a verdict claims.
ReplaysIn(c, p, f) ==
    /\ IsRun(c, f) /\ Len(f) > p.start
    /\ \A t \in p.start..Len(f) - 2 : Holds(p, f, t)
    /\ ~Holds(p, f, Len(f) - 1)

Kept(c, p, v) ==
    /\ v.status # "counterexample" => Checked(c, p, v.through)
    /\ v.status = "proven" => Proven(c, p)
    /\ v.status = "counterexample" =>
        ReplaysIn(c, p, v.trace) /\ v.through = Len(v.trace) - 1

AllKept == \A i \in 1..Len(results) : Kept(circuit, request[i], results[i])

\* Only when every property is proven is the exit status 0.
Exiting ==
    /\ exit # None => pc = "done"
    /\ exit = 0 => \A i \in 1..Len(request) : results[i].status = "proven"

HoldsOn(p, r) == \A t \in p.start..Len(r) - 1 : Holds(p, r, t)

Operating ==
    /\ IsRun(circuit, run)
    /\ pc # "done" => run = <<>>
    /\ pc = "done" => \A i \in 1..Len(request) :
                        results[i].status = "proven" => HoldsOn(request[i], run)

IInv ==
    /\ Typed /\ Cleared /\ BaseExact /\ StepExact /\ Searched /\ Stepping
    /\ AllKept /\ Exiting /\ Operating /\ NeverVacuous

LEMMA RequestsGood ==
    ASSUME NEW r \in Requests
    PROVE  /\ r \in Seq(Properties) /\ Len(r) \in Nat \ {0}
           /\ \A i \in 1..Len(r) : Good(r[i])
<1>1. r \in Seq(Properties) /\ r # <<>> /\ DOMAIN r = 1..Len(r) /\ Len(r) \in Nat
    BY RequestsAssumption
<1>2. \A i \in 1..Len(r) : r[i] \in Properties
    BY <1>1
<1>3. \A i \in 1..Len(r) : Good(r[i])
    BY <1>1, <1>2, RequestsAssumption DEF Good, Sane
<1>4. Len(r) # 0
    BY <1>1, EmptySeq
<1>5. QED
    BY <1>1, <1>3, <1>4

LEMMA UnderWay ==
    ASSUME Typed, Len(results) < Len(request)
    PROVE  Good(Property) /\ Property = request[Len(results) + 1]
<1>1. Len(results) + 1 \in 1..Len(request)
    BY RequestsGood DEF Typed
<1>2. QED
    BY <1>1, RequestsGood DEF Typed, Property

LEMMA Beginnings == -1 \in -1..Depth /\ -1 + 1 = 0 /\ 0 \in Nat /\ None # 0
<1>1. None # 0
    BY NoneAssumption, 0 \in 0..2
<1>2. QED
    BY <1>1, BoundsAssumption

LEMMA NothingSearched ==
    ASSUME NEW c, NEW p, Good(p)
    PROVE  /\ Checked(c, p, -1)
           /\ Steps(c, p, 0) = {<<>>}
<1>1. p.start..(-1) = {} /\ History(p)..(0 - 2) = {}
    BY GoodTypes
<1>2. QED
    BY <1>1, Empties DEF Checked, Steps

LEMMA InitInv ==
    ASSUME Init
    PROVE  IInv
<1>1. Typed
    <2>1. <<>> \in Seq(Verdicts) /\ Len(<<>>) = 0
        BY EmptySeq
    <2>2. -1 \in -1..Depth /\ 0 \in Nat
        BY BoundsAssumption
    <2>3. request \in Requests /\ results = <<>> /\ pc = "next property"
        BY DEF Init
    <2>4. Len(request) \in Nat \ {0}
        BY <2>3, RequestsGood
    <2>5. results \in Seq(Verdicts) /\ Len(results) = 0
        BY <2>1, <2>3
    <2>6. Len(results) <= Len(request)
        BY <2>4, <2>5
    <2>7. QED
        BY <2>2, <2>3, <2>5, <2>6 DEF Init, Typed, Idle
<1>2. Cleared
    BY DEF Init, Cleared
<1>3. BaseExact
    BY Beginnings, Empties DEF Init, BaseExact
<1>4. StepExact /\ Searched /\ Stepping /\ NeverVacuous
    <2>1. pc = "next property" /\ base = {<<>>} /\ step = {<<>>}
        BY DEF Init
    <2>2. StepExact /\ Searched
        BY <2>1 DEF StepExact, Searched, Idle
    <2>3. Stepping
        BY <2>1 DEF Stepping
    <2>4. NeverVacuous
        BY <2>1 DEF NeverVacuous
    <2>5. QED
        BY <2>2, <2>3, <2>4
<1>5. AllKept
    <2>1. results = <<>> /\ Len(results) = 0
        BY EmptySeq DEF Init
    <2>2. 1..Len(results) = {}
        BY <2>1
    <2>3. QED
        BY <2>2 DEF AllKept
<1>6. Exiting /\ Operating
    <2>1. IsRun(circuit, <<>>)
        BY Empties DEF Runs
    <2>2. pc = "next property" /\ run = <<>> /\ exit # 0 /\ exit = None
        BY Beginnings DEF Init
    <2>3. Exiting
        BY <2>2 DEF Exiting
    <2>4. Operating
        BY <2>1, <2>2 DEF Operating
    <2>5. QED
        BY <2>3, <2>4
<1>7. QED
    BY <1>1, <1>2, <1>3, <1>4, <1>5, <1>6 DEF IInv

-----------------------------------------------------------------------------
(* Each action preserves the invariant.                                    *)

(* The steps of the search leave the verdicts and the design alone.        *)
LEMMA SearchStep ==
    ASSUME IInv, pc \notin Idle, pc' \notin Idle, pc' # "done",
           UNCHANGED <<circuit, request, results, exit, run>>
    PROVE  /\ Property' = Property
           /\ AllKept' /\ Exiting' /\ Operating' /\ Cleared'
<1>1. Property' = Property
    BY DEF Property
<1>2. AllKept'
    BY DEF IInv, AllKept
<1>3. exit = None /\ pc # "done"
    BY DEF IInv, Exiting, Idle
<1>4. Exiting' /\ Operating' /\ Cleared'
    BY <1>3, NoneAssumption DEF IInv, Exiting, Operating, Cleared
<1>5. QED
    BY <1>1, <1>2, <1>4

LEMMA BeginInv ==
    ASSUME IInv, Begin
    PROVE  IInv'
<1>1. /\ Typed /\ pc = "next property" /\ pc' = "base" /\ Len(results) < Len(request)
      /\ UNCHANGED <<circuit, request, results, base, through, cover, step, width, k, exit, run>>
      /\ through = -1 /\ width = 0 /\ k = 0 /\ step = {<<>>}
    BY DEF IInv, Begin, search, Cleared, StepExact, Idle
<1>2. Good(Property) /\ Property' = Property
    <2>1. Good(Property)
        BY <1>1, UnderWay
    <2>2. Property' = Property
        BY <1>1 DEF Property
    <2>3. QED
        BY <2>1, <2>2
<1>3. Typed' /\ Cleared'
    BY <1>1 DEF Typed, Cleared, Idle
<1>4. BaseExact' /\ NeverVacuous' /\ AllKept'
    BY <1>1 DEF IInv, BaseExact, NeverVacuous, AllKept
<1>5. StepExact' /\ Searched'
    BY <1>1, <1>2, NothingSearched DEF StepExact, Searched, Idle
<1>6. Stepping'
    <2>1. 0 <= History(Property)
        BY <1>2, GoodTypes
    <2>2. pc' = "base" /\ width' = 0 /\ k' = 0 /\ Property' = Property
        BY <1>1, <1>2
    <2>3. QED
        BY <2>1, <2>2 DEF Stepping
<1>7. Exiting' /\ Operating'
    <2>1. exit = None /\ exit' = None /\ run' = run /\ run = <<>> /\ circuit' = circuit
          /\ IsRun(circuit, run)
        BY <1>1 DEF IInv, Exiting, Operating
    <2>2. Exiting'
        BY <1>1, <2>1, Beginnings DEF Exiting
    <2>3. Operating'
        BY <1>1, <2>1 DEF Operating
    <2>4. QED
        BY <2>2, <2>3
<1>8. QED
    BY <1>3, <1>4, <1>5, <1>6, <1>7 DEF IInv

LEMMA UnrollInv ==
    ASSUME IInv, Unroll
    PROVE  IInv'
<1>1. /\ Typed /\ pc = "base" /\ through < Depth /\ through' = through + 1
      /\ base = Runs(circuit, through + 1)
      /\ base' = Extended(base, ResetAt(through + 1))
      /\ pc' = IF through' >= Property.start THEN "ask" ELSE "base"
      /\ UNCHANGED <<circuit, request, results, cover, step, width, k, exit, run>>
    BY DEF IInv, Unroll, BaseExact
<1>2. /\ pc \notin Idle /\ pc' \in {"ask", "base"} /\ pc' \notin Idle
      /\ circuit \in Circuits /\ Len(results) < Len(request)
      /\ through \in -1..Depth /\ through + 1 \in Nat /\ Depth \in Nat
    BY <1>1, BoundsAssumption DEF Typed, Idle
<1>3. Good(Property) /\ Property' = Property
      /\ AllKept' /\ Exiting' /\ Operating' /\ Cleared'
    <2>1. Good(Property)
        BY <1>1, <1>2, UnderWay
    <2>2. pc' # "done"
        BY <1>2
    <2>3. QED
        BY <1>1, <1>2, <2>1, <2>2, SearchStep
<1> DEFINE p == Property
<1>4. Typed'
    <2>1. through' \in -1..Depth
        BY <1>1, <1>2
    <2>2. QED
        BY <1>1, <1>2, <2>1 DEF Typed, Idle
<1>5. BaseExact'
    BY <1>1, <1>2, RunsGrow DEF BaseExact
<1>6. NeverVacuous'
    <2>1. base # {} /\ step # {} /\ base \subseteq Seq(Frames)
        BY <1>1 DEF IInv, NeverVacuous, Runs
    <2>2. base' # {}
        <3>1. ResetAt(through + 1) \in BOOLEAN
            BY DEF ResetAt
        <3>2. QED
            BY <1>1, <1>2, <2>1, <3>1, ExtendedNonempty
    <2>3. QED
        BY <1>1, <2>1, <2>2 DEF NeverVacuous
<1>7. StepExact'
    BY <1>1, <1>2, <1>3 DEF IInv, StepExact
<1>8. width = 0 /\ k = 0
    BY <1>1, <1>2 DEF IInv, Stepping, Typed
<1>9. Stepping'
    BY <1>1, <1>2, <1>3, <1>8, GoodTypes DEF Stepping
<1>10. Searched'
    <2>1. Checked(circuit, p, through) /\ p.start \in Nat /\ circuit' = circuit
        BY <1>1, <1>2, <1>3, GoodTypes DEF IInv, Searched
    <2>2. CASE through' >= p.start
        <3>1. pc' = "ask" /\ through' - 1 = through /\ p.start <= through'
            BY <1>1, <1>2, <2>1, <2>2
        <3>2. QED
            BY <1>3, <2>1, <3>1 DEF Searched
    <2>3. CASE ~(through' >= p.start)
        <3>1. pc' = "base" /\ p.start..through' = {}
            BY <1>1, <1>2, <2>1, <2>3
        <3>2. Checked(circuit, p, through')
            BY <3>1 DEF Checked
        <3>3. QED
            BY <1>3, <2>1, <3>1, <3>2 DEF Searched
    <2>4. QED
        BY <2>2, <2>3
<1>11. QED
    BY <1>3, <1>4, <1>5, <1>6, <1>7, <1>9, <1>10 DEF IInv

(* A verdict that keeps what it claims may be added.                       *)
Verdict(status, last, trace) == [status |-> status, through |-> last, trace |-> trace]

LEMMA VerdictAdded ==
    ASSUME Typed, AllKept, Len(results) < Len(request),
           NEW v \in Verdicts, Kept(circuit, Property, v),
           results' = Append(results, v), UNCHANGED <<circuit, request>>
    PROVE  /\ AllKept'
           /\ results' \in Seq(Verdicts) /\ Len(results') <= Len(request')
<1>1. results \in Seq(Verdicts) /\ Len(results) \in Nat /\ Len(request) \in Nat
    BY RequestsGood DEF Typed
<1>2. /\ results' \in Seq(Verdicts) /\ Len(results') = Len(results) + 1
      /\ results'[Len(results) + 1] = v
      /\ \A i \in 1..Len(results) : results'[i] = results[i]
    BY <1>1
<1>3. ASSUME NEW i \in 1..Len(results')
      PROVE  Kept(circuit, request[i], results'[i])
    <2>1. CASE i \in 1..Len(results)
        BY <1>2, <2>1 DEF AllKept
    <2>2. CASE i = Len(results) + 1
        BY <1>2, <2>2, UnderWay
    <2>3. QED
        BY <1>1, <1>2, <2>1, <2>2
<1>4. AllKept'
    BY <1>3 DEF AllKept
<1>5. QED
    BY <1>1, <1>2, <1>4

(* Between two properties nothing of the search is left.                   *)
LEMMA ClearedInv ==
    ASSUME IInv, pc # "done", pc' = "next property", Clear, AllKept',
           results' \in Seq(Verdicts), Len(results') <= Len(request'),
           UNCHANGED <<circuit, request, exit, run>>
    PROVE  IInv'
<1>1. /\ base' = {<<>>} /\ through' = -1 /\ step' = {<<>>} /\ width' = 0 /\ k' = 0
      /\ Typed /\ exit = None /\ IsRun(circuit, run) /\ run = <<>>
    BY DEF Clear, IInv, Exiting, Operating
<1>2. Typed'
    <2>1. through' \in -1..Depth /\ width' \in Nat /\ k' \in Nat
        BY <1>1, Beginnings
    <2>2. QED
        BY <1>1, <2>1 DEF Typed, Idle
<1>3. Cleared' /\ StepExact' /\ Searched'
    BY <1>1 DEF Cleared, StepExact, Searched, Idle
<1>4. Stepping'
    BY DEF Stepping
<1>5. BaseExact'
    BY <1>1, Beginnings, Empties DEF BaseExact
<1>6. NeverVacuous'
    BY <1>1 DEF NeverVacuous
<1>7. Exiting'
    BY <1>1, Beginnings DEF Exiting
<1>8. Operating'
    BY <1>1 DEF Operating
<1>9. QED
    BY <1>2, <1>3, <1>4, <1>5, <1>6, <1>7, <1>8 DEF IInv

LEMMA ConcludeInv ==
    ASSUME IInv, pc \notin Idle, NEW status, NEW last, NEW trace,
           Verdict(status, last, trace) \in Verdicts,
           Kept(circuit, Property, Verdict(status, last, trace)),
           Conclude(status, last, trace)
    PROVE  IInv'
<1>1. /\ pc' = "next property" /\ Clear
      /\ results' = Append(results, Verdict(status, last, trace))
      /\ UNCHANGED <<circuit, request, exit, run>>
    BY DEF Conclude, Verdict
<1>2. Typed /\ AllKept /\ Len(results) < Len(request) /\ pc # "done"
    BY DEF IInv, Typed, Idle
<1>3. /\ AllKept'
      /\ results' \in Seq(Verdicts) /\ Len(results') <= Len(request')
    BY <1>1, <1>2, VerdictAdded
<1>4. QED
    BY <1>1, <1>2, <1>3, ClearedInv

LEMMA AskCycleInv ==
    ASSUME IInv, AskCycle
    PROVE  IInv'
<1> DEFINE failing == {f \in base : ~Holds(Property, f, through)}
           p == Property
<1>1. /\ Typed /\ pc = "ask" /\ pc \notin Idle /\ Len(results) < Len(request)
      /\ p.start <= through /\ Checked(circuit, p, through - 1)
      /\ base = Runs(circuit, through + 1) /\ through \in -1..Depth
    BY DEF IInv, AskCycle, Typed, Idle, Searched, BaseExact
<1>2. Good(p) /\ p.start \in Nat /\ through \in Nat /\ Depth \in Nat
    <2>1. Good(p) /\ p.start \in Nat /\ Depth \in Nat
        BY <1>1, UnderWay, GoodTypes
    <2>2. QED
        BY <1>1, <2>1
<1>3. ASSUME NEW f \in failing, Conclude("counterexample", through, f)
      PROVE  IInv'
    <2>1. f \in Seq(Frames) /\ Len(f) = through + 1 /\ IsRun(circuit, f)
          /\ ~Holds(p, f, through)
        BY <1>1 DEF Runs
    <2>2. Len(f) > p.start /\ Len(f) - 1 = through /\ Len(f) - 2 = through - 1
          /\ through \in Int
        BY <1>1, <1>2, <2>1
    <2>3. \A t \in p.start..Len(f) - 2 : Holds(p, f, t)
        <3>1. \A t \in p.start..through - 1 : t < Len(f)
            BY <1>2, <2>1
        <3>2. QED
            BY <1>1, <2>1, <2>2, <3>1 DEF Checked
    <2>4. ReplaysIn(circuit, p, f)
        BY <2>1, <2>2, <2>3 DEF ReplaysIn
    <2> DEFINE v == Verdict("counterexample", through, f)
    <2>5. v \in Verdicts /\ v.status = "counterexample" /\ v.through = through /\ v.trace = f
        BY <2>1, <2>2 DEF Verdict, Verdicts
    <2> HIDE DEF v
    <2>6. Kept(circuit, p, v)
        BY <2>2, <2>4, <2>5 DEF Kept
    <2>7. QED
        BY <1>1, <1>3, <2>5, <2>6, ConcludeInv DEF v
<1>4. ASSUME failing = {}, pc' = "base",
             UNCHANGED <<circuit, request, results, base, through, step, width, k, exit, run>>
      PROVE  IInv'
    <2>1. /\ pc' \notin Idle /\ pc' # "done" /\ Property' = Property
          /\ AllKept' /\ Exiting' /\ Operating' /\ Cleared'
        BY <1>1, <1>4, SearchStep DEF Idle
    <2>2. Typed' /\ BaseExact' /\ NeverVacuous'
        BY <1>1, <1>4, <2>1 DEF IInv, Typed, BaseExact, NeverVacuous
    <2>3. StepExact'
        BY <1>1, <1>4, <2>1 DEF IInv, StepExact
    <2>4. Stepping'
        BY <1>1, <1>4, <2>1 DEF IInv, Stepping
    <2>5. Checked(circuit, p, through)
        BY <1>1, <1>2, <1>4, CheckedOneMore
    <2>6. Searched'
        BY <1>4, <2>1, <2>5 DEF Searched
    <2>7. QED
        BY <2>1, <2>2, <2>3, <2>4, <2>6 DEF IInv
<1>5. QED
    BY <1>3, <1>4 DEF AskCycle

(* A search that gives up claims the cycles it has checked.                *)
LEMMA GivesUpInv ==
    ASSUME IInv, pc \notin Idle,
           NEW status \in {"uncovered", "bounded", "inconclusive"},
           Conclude(status, IF pc = "ask" THEN through - 1 ELSE through, <<>>)
    PROVE  IInv'
<1> DEFINE last == IF pc = "ask" THEN through - 1 ELSE through
           v == Verdict(status, last, <<>>)
<1>1. Checked(circuit, Property, last) /\ last \in Int
    <2>1. through \in -1..Depth
        BY DEF IInv, Typed
    <2>2. through \in Int
        BY <2>1, BoundsAssumption
    <2>3. QED
        BY <2>2 DEF IInv, Searched
<1>2. <<>> \in Seq(Frames)
    BY EmptySeq
<1> HIDE DEF last
<1>3. v \in Verdicts /\ v.status = status /\ v.through = last
    BY <1>1, <1>2 DEF Verdict, Verdicts
<1>4. status # "counterexample" /\ status # "proven"
    OBVIOUS
<1> HIDE DEF v
<1>5. Kept(circuit, Property, v)
    BY <1>1, <1>3, <1>4 DEF Kept
<1>6. Conclude(status, last, <<>>)
    BY DEF last
<1>7. QED
    BY <1>3, <1>5, <1>6, ConcludeInv DEF v

LEMMA UncoveredInv ==
    ASSUME IInv, Uncovered
    PROVE  IInv'
<1>1. /\ pc = "base" /\ pc # "ask" /\ pc \notin Idle
      /\ Conclude("uncovered", through, <<>>)
    BY DEF Uncovered, Idle
<1>2. Conclude("uncovered", IF pc = "ask" THEN through - 1 ELSE through, <<>>)
    BY <1>1
<1>3. QED
    BY <1>1, <1>2, GivesUpInv

LEMMA BoundedInv ==
    ASSUME IInv, Bounded
    PROVE  IInv'
<1>1. /\ pc = "step" /\ pc # "ask" /\ pc \notin Idle
      /\ Conclude("bounded", through, <<>>)
    BY DEF Bounded, Idle
<1>2. Conclude("bounded", IF pc = "ask" THEN through - 1 ELSE through, <<>>)
    BY <1>1
<1>3. QED
    BY <1>1, <1>2, GivesUpInv

LEMMA InconclusiveInv ==
    ASSUME IInv, Inconclusive
    PROVE  IInv'
<1>1. pc \notin Idle /\ Conclude("inconclusive", IF pc = "ask" THEN through - 1 ELSE through, <<>>)
    BY DEF Inconclusive, Idle
<1>2. QED
    BY <1>1, GivesUpInv

LEMMA FillWindowInv ==
    ASSUME IInv, FillWindow
    PROVE  IInv'
<1> DEFINE p == Property
           H == History(Property)
<1>1. /\ Typed /\ pc = "base" /\ pc \notin Idle /\ through = Depth
      /\ step' = Extended(step, FALSE) /\ width' = width + 1
      /\ pc' = IF width = H THEN "step" ELSE "base"
      /\ UNCHANGED <<circuit, request, results, base, through, cover, k, exit, run>>
      /\ step = Steps(circuit, p, width) /\ step # {} /\ base # {}
      /\ k = 0 /\ width <= H /\ Checked(circuit, p, through)
    BY DEF IInv, FillWindow, Idle, StepExact, Stepping, NeverVacuous, Searched
<1>2. /\ pc' \in {"step", "base"} /\ pc' \notin Idle /\ pc' # "done" /\ pc' # "ask" /\ pc' # "prove"
      /\ circuit \in Circuits /\ Len(results) < Len(request) /\ width \in Nat
    BY <1>1 DEF Typed, Idle
<1>3. Good(p) /\ H \in Nat
    BY <1>1, <1>2, UnderWay, GoodTypes
<1>4. Property' = Property /\ AllKept' /\ Exiting' /\ Operating' /\ Cleared'
    BY <1>1, <1>2, SearchStep
<1>5. step' = Steps(circuit, p, width + 1)
    <2>1. ~(width > H)
        BY <1>1, <1>2, <1>3
    <2>2. {f \in Steps(circuit, p, width) : width > H => Holds(p, f, width - 1)} = step
        BY <1>1, <2>1
    <2>3. QED
        BY <1>1, <1>2, <1>3, <2>2, StepsGrow
<1>6. step' # {}
    <2>1. step \subseteq Seq(Frames)
        BY <1>1 DEF Steps, Windows
    <2>2. QED
        BY <1>1, <1>2, <2>1, ExtendedNonempty
<1>7. Typed'
    <2>1. width' \in Nat
        BY <1>1, <1>2
    <2>2. QED
        BY <1>1, <1>2, <2>1 DEF Typed
<1>8. BaseExact' /\ NeverVacuous'
    BY <1>1, <1>6 DEF IInv, BaseExact, NeverVacuous
<1>9. StepExact' /\ Searched'
    BY <1>1, <1>2, <1>4, <1>5 DEF StepExact, Searched
<1>10. Stepping'
    <2>1. CASE width = H
        <3>1. pc' = "step" /\ width' = H + 1 + k
            BY <1>1, <1>3, <2>1
        <3>2. QED
            BY <1>1, <1>4, <3>1 DEF Stepping
    <2>2. CASE width # H
        <3>1. pc' = "base" /\ width' <= H
            BY <1>1, <1>2, <1>3, <2>2
        <3>2. QED
            BY <1>1, <1>4, <3>1 DEF Stepping
    <2>3. QED
        BY <2>1, <2>2
<1>11. QED
    BY <1>4, <1>7, <1>8, <1>9, <1>10 DEF IInv

LEMMA AssumeInv ==
    ASSUME IInv, Assume
    PROVE  IInv'
<1> DEFINE p == Property
           H == History(Property)
           C == {f \in step : Holds(Property, f, width - 1)}
<1>1. /\ Typed /\ pc = "step" /\ pc \notin Idle /\ through = Depth
      /\ k' = k + 1 /\ width' = width + 1 /\ step' = Extended(C, FALSE)
      /\ pc' = "prove"
      /\ UNCHANGED <<circuit, request, results, base, through, cover, exit, run>>
      /\ step = Steps(circuit, p, width) /\ base # {}
      /\ width = H + 1 + k /\ Checked(circuit, p, through)
      /\ PrefixOf(p) + k + 1 <= Depth /\ base = Runs(circuit, through + 1)
    BY DEF IInv, Assume, Tryable, Prefix, PrefixOf, Idle, StepExact, Stepping, NeverVacuous,
           Searched, BaseExact
<1>2. /\ pc' \notin Idle /\ pc' # "done"
      /\ circuit \in Circuits /\ Len(results) < Len(request) /\ width \in Nat /\ k \in Nat
    BY <1>1 DEF Typed, Idle
<1>3. Good(p) /\ H \in Nat /\ PrefixOf(p) \in Nat /\ Depth \in Nat
    BY <1>1, <1>2, UnderWay, GoodTypes
<1>4. Property' = Property /\ AllKept' /\ Exiting' /\ Operating' /\ Cleared'
    BY <1>1, <1>2, SearchStep
<1>5. step' = Steps(circuit, p, width + 1)
    <2>1. width > H
        BY <1>1, <1>2, <1>3
    <2>2. {f \in Steps(circuit, p, width) : width > H => Holds(p, f, width - 1)} = C
        BY <1>1, <2>1
    <2>3. QED
        BY <1>1, <1>2, <1>3, <2>2, StepsGrow
<1>6. step' # {}
    <2>1. C \subseteq Seq(Frames)
        BY <1>1 DEF Steps, Windows
    <2>2. Runs(circuit, Depth + 1) # {} /\ Checked(circuit, p, Depth)
        BY <1>1
    <2>3. PrefixOf(p) + k <= Depth /\ width - 1 = H + k
        BY <1>1, <1>2, <1>3
    <2>4. \E f \in Steps(circuit, p, H + 1 + k) : Holds(p, f, H + k)
        BY <1>2, <1>3, <2>2, <2>3, StepsMet
    <2>5. C # {}
        BY <1>1, <2>3, <2>4
    <2>6. QED
        BY <1>1, <1>2, <2>1, <2>5, ExtendedNonempty
<1>7. Typed'
    <2>1. width' \in Nat /\ k' \in Nat
        BY <1>1, <1>2
    <2>2. QED
        BY <1>1, <1>2, <2>1 DEF Typed
<1>8. BaseExact' /\ NeverVacuous'
    BY <1>1, <1>6 DEF BaseExact, NeverVacuous
<1>9. StepExact' /\ Searched'
    BY <1>1, <1>2, <1>4, <1>5 DEF StepExact, Searched
<1>10. Stepping'
    <2>1. width' = H + 1 + k' /\ k' > 0 /\ PrefixOf(p) + k' <= Depth
        <3> DEFINE P == PrefixOf(p)
        <3>1. /\ width = H + 1 + k /\ width' = width + 1 /\ k' = k + 1
              /\ P + k + 1 <= Depth
              /\ H \in Nat /\ P \in Nat /\ k \in Nat /\ Depth \in Nat
            BY <1>1, <1>2, <1>3
        <3> HIDE DEF H, P
        <3>2. width' = H + 1 + k' /\ k' > 0 /\ P + k' <= Depth
            BY <3>1
        <3>3. QED
            BY <3>2 DEF P
    <2>2. QED
        BY <1>1, <1>4, <2>1 DEF Stepping
<1>11. QED
    BY <1>4, <1>7, <1>8, <1>9, <1>10 DEF IInv

LEMMA ProveInv ==
    ASSUME IInv, Prove
    PROVE  IInv'
<1> DEFINE p == Property
           H == History(Property)
<1>1. /\ Typed /\ pc = "prove" /\ pc \notin Idle /\ through = Depth
      /\ step = Steps(circuit, p, width) /\ width = H + 1 + k
      /\ k > 0 /\ PrefixOf(p) + k <= Depth /\ Checked(circuit, p, Depth)
    BY DEF IInv, Prove, Idle, StepExact, Stepping, Searched
<1>2. circuit \in Circuits /\ Len(results) < Len(request) /\ width \in Nat /\ k \in Nat
    BY <1>1 DEF Typed, Idle
<1>3. Good(p) /\ H \in Nat /\ Depth \in Nat
    BY <1>1, <1>2, UnderWay, GoodTypes
<1>4. ASSUME \A f \in step : Holds(p, f, width - 1), Conclude("proven", through, <<>>)
      PROVE  IInv'
    <2>1. width - 1 = H + k /\ width - 2 = H + k - 1 /\ k \in Nat \ {0}
        <3> HIDE DEF H
        <3>1. QED
            BY <1>1, <1>2, <1>3
    <2>2. Inductive(circuit, p, k)
        <3>1. SUFFICES ASSUME NEW f \in Windows(circuit, H + 1 + k),
                              \A t \in H..(H + k - 1) : Holds(p, f, t)
                       PROVE  Holds(p, f, H + k)
            BY DEF Inductive
        <3>2. f \in step
            BY <1>1, <2>1, <3>1 DEF Steps
        <3>3. QED
            BY <1>4, <2>1, <3>2
    <2>3. Proven(circuit, p)
        BY <1>1, <2>1, <2>2 DEF Proven
    <2> DEFINE v == Verdict("proven", through, <<>>)
    <2>4. v \in Verdicts /\ v.status = "proven" /\ v.through = Depth
        <3>1. <<>> \in Seq(Frames) /\ through \in Int
            BY <1>1, <1>3, EmptySeq
        <3>2. QED
            BY <1>1, <3>1 DEF Verdict, Verdicts
    <2> HIDE DEF v
    <2>5. Kept(circuit, p, v)
        BY <1>1, <2>3, <2>4 DEF Kept
    <2>6. QED
        BY <1>1, <1>4, <2>4, <2>5, ConcludeInv DEF v
<1>5. ASSUME pc' = "step",
             UNCHANGED <<circuit, request, results, base, through, cover, step, width, k, exit, run>>
      PROVE  IInv'
    <2>1. /\ pc' \notin Idle /\ pc' # "done" /\ Property' = Property
          /\ AllKept' /\ Exiting' /\ Operating' /\ Cleared'
        BY <1>1, <1>5, SearchStep DEF Idle
    <2>2. Typed' /\ BaseExact' /\ NeverVacuous'
        BY <1>1, <1>5, <2>1 DEF IInv, Typed, BaseExact, NeverVacuous
    <2>3. StepExact' /\ Searched'
        BY <1>1, <1>5, <2>1 DEF StepExact, Searched
    <2>4. Stepping'
        BY <1>1, <1>5, <2>1 DEF Stepping
    <2>5. QED
        BY <2>1, <2>2, <2>3, <2>4 DEF IInv
<1>6. QED
    BY <1>4, <1>5 DEF Prove, search

LEMMA BackendFailsInv ==
    ASSUME IInv, BackendFails
    PROVE  IInv'
<1> DEFINE m == Len(request) - Len(results)
           v == [status |-> "inconclusive", through |-> -1, trace |-> <<>>]
           rest == [i \in 1..m |-> v]
<1>1. /\ Typed /\ AllKept /\ Len(results) < Len(request)
      /\ pc # "done" /\ pc' = "next property" /\ Clear
      /\ results' = results \o rest
      /\ UNCHANGED <<circuit, request, exit, run>>
    BY DEF IInv, BackendFails
<1> HIDE DEF m, v, rest
<1>2. /\ results \in Seq(Verdicts) /\ Len(results) \in Nat /\ Len(request) \in Nat
      /\ m \in Nat /\ \A i \in 1..Len(request) : Good(request[i])
    <2>1. results \in Seq(Verdicts) /\ request \in Requests
        BY <1>1 DEF Typed
    <2>2. Len(request) \in Nat /\ \A i \in 1..Len(request) : Good(request[i])
        BY <2>1, RequestsGood
    <2>3. Len(results) \in Nat
        BY <2>1
    <2>4. Len(results) < Len(request)
        BY <1>1
    <2>5. m \in Nat
        BY <2>2, <2>3, <2>4 DEF m
    <2>6. QED
        BY <2>1, <2>2, <2>3, <2>5
<1>3. v \in Verdicts /\ v.status = "inconclusive" /\ v.through = -1
    BY EmptySeq DEF Verdicts, v
<1>4. rest \in Seq(Verdicts) /\ Len(rest) = m /\ \A i \in 1..m : rest[i] = v
    BY <1>2, <1>3 DEF rest
<1>5. /\ results' \in Seq(Verdicts) /\ Len(results') = Len(results) + m
      /\ \A i \in 1..Len(results') :
            results'[i] = IF i <= Len(results) THEN results[i] ELSE rest[i - Len(results)]
    BY <1>1, <1>2, <1>4, ConcatProperties
<1>6. Len(results) + m = Len(request)
    BY <1>2 DEF m
<1>7. ASSUME NEW i \in 1..Len(results')
      PROVE  Kept(circuit, request[i], results'[i])
    <2>1. CASE i <= Len(results)
        <3>1. results'[i] = results[i] /\ i \in 1..Len(results)
            BY <1>2, <1>5, <2>1
        <3>2. QED
            BY <1>1, <3>1 DEF AllKept
    <2>2. CASE ~(i <= Len(results))
        <3>1. i - Len(results) \in 1..m /\ i \in 1..Len(request)
            BY <1>2, <1>5, <1>6, <2>2
        <3>2. results'[i] = v /\ Good(request[i])
            BY <1>2, <1>4, <1>5, <2>2, <3>1
        <3>3. Checked(circuit, request[i], -1)
            BY <3>2, NothingSearched
        <3>4. QED
            BY <1>3, <3>2, <3>3 DEF Kept
    <2>3. QED
        BY <2>1, <2>2
<1>8. AllKept' /\ Len(results') <= Len(request')
    <2>1. AllKept'
        BY <1>1, <1>7 DEF AllKept
    <2>2. Len(results') = Len(request)
        BY <1>5, <1>6
    <2>3. request' = request
        BY <1>1
    <2>4. Len(results') <= Len(request')
        BY <1>2, <2>2, <2>3
    <2>5. QED
        BY <2>1, <2>4
<1>9. QED
    BY <1>1, <1>5, <1>8, ClearedInv

LEMMA FinishInv ==
    ASSUME IInv, Finish
    PROVE  IInv'
<1>1. /\ Typed /\ pc = "next property" /\ pc' = "done" /\ Len(results) = Len(request)
      /\ exit' = ExitCode
      /\ UNCHANGED <<circuit, request, results, base, through, cover, step, width, k, run>>
    BY DEF IInv, Finish, search
<1>2. Typed' /\ Cleared'
    BY <1>1 DEF IInv, Typed, Cleared, Idle
<1>3. BaseExact' /\ NeverVacuous' /\ AllKept'
    BY <1>1 DEF IInv, BaseExact, NeverVacuous, AllKept
<1>4. StepExact' /\ Searched' /\ Stepping'
    BY <1>1 DEF IInv, StepExact, Searched, Stepping, Idle
<1>5. DOMAIN results = 1..Len(request)
    <2>1. results \in Seq(Verdicts)
        BY <1>1 DEF Typed
    <2>2. Len(results) = Len(request)
        BY <1>1
    <2>3. DOMAIN results = 1..Len(results)
        BY <2>1
    <2>4. QED
        BY <2>2, <2>3
<1>6. ASSUME ExitCode = 0, NEW i \in 1..Len(request)
      PROVE  results[i].status = "proven"
    <2>1. i \in DOMAIN results
        BY <1>5
    <2>2. results[i].status \in Statuses
        BY <2>1 DEF Statuses
    <2>3. Statuses \ {"proven", "counterexample"} = {} /\ "counterexample" \notin Statuses
        BY <1>6 DEF ExitCode
    <2>4. QED
        BY <2>2, <2>3
<1>7. Exiting'
    BY <1>1, <1>6 DEF Exiting
<1>8. Operating'
    <2>1. run = <<>> /\ IsRun(circuit, run)
        BY <1>1 DEF IInv, Operating
    <2>2. \A i \in 1..Len(request) : HoldsOn(request[i], run)
        <3>1. ASSUME NEW i \in 1..Len(request)
              PROVE  request[i].start \in Nat
            BY <1>1, RequestsGood, GoodTypes DEF Typed
        <3>2. Len(run) = 0
            BY <2>1, EmptySeq
        <3>3. \A i \in 1..Len(request) : request[i].start..Len(run) - 1 = {}
            BY <3>1, <3>2
        <3>4. QED
            BY <3>3 DEF HoldsOn
    <2>3. QED
        BY <1>1, <2>1, <2>2 DEF Operating
<1>9. QED
    BY <1>2, <1>3, <1>4, <1>7, <1>8 DEF IInv

(* What was proven goes on holding when the design runs a cycle longer.    *)
LEMMA OperateInv ==
    ASSUME IInv, Operate
    PROVE  IInv'
<1>1. /\ Typed /\ pc = "done" /\ pc' = "done" /\ Len(results) = Len(request)
      /\ UNCHANGED <<circuit, request, results, base, through, cover, step, width, k, exit>>
      /\ \E f \in Successors(run, ResetAt(Len(run))) : run' = Append(run, f)
      /\ circuit \in Circuits /\ IsRun(circuit, run)
    BY DEF IInv, Operate, search, Typed, Operating, ResetAt
<1>2. run \in Seq(Frames) /\ Len(run) \in Nat
    BY <1>1 DEF IsRun
<1>3. /\ IsRun(circuit, run') /\ run' \in Seq(Frames) /\ Len(run') = Len(run) + 1
      /\ \A j \in 1..Len(run) : run'[j] = run[j]
    <2>1. PICK g \in Successors(run, ResetAt(Len(run))) : run' = Append(run, g)
        BY <1>1
    <2>2. run \in Runs(circuit, Len(run))
        BY <1>1, <1>2 DEF Runs
    <2>3. run' \in {Append(run, x) : x \in Successors(run, ResetAt(Len(run)))}
        BY <2>1
    <2>4. run' \in Extended(Runs(circuit, Len(run)), ResetAt(Len(run)))
        BY <2>2, <2>3 DEF Extended
    <2>5. run' \in Runs(circuit, Len(run) + 1)
        BY <1>1, <1>2, <2>4, RunsGrow
    <2>6. run' \in Seq(Frames) /\ Len(run') = Len(run) + 1 /\ IsRun(circuit, run')
        BY <2>5 DEF Runs
    <2>7. run'[Len(run) + 1] \in Frames
        BY <1>2, <2>6
    <2>8. g \in Frames
        BY <1>2, <2>1, <2>7
    <2>9. \A j \in 1..Len(run) : run'[j] = run[j]
        BY <1>2, <2>1, <2>8, Appending
    <2>10. QED
        BY <2>6, <2>9
<1>4. Typed' /\ Cleared'
    BY <1>1 DEF IInv, Typed, Cleared, Idle
<1>5. BaseExact' /\ NeverVacuous' /\ AllKept'
    BY <1>1 DEF IInv, BaseExact, NeverVacuous, AllKept
<1>6. StepExact' /\ Searched' /\ Stepping'
    BY <1>1 DEF IInv, StepExact, Searched, Stepping, Idle
<1>7. Exiting'
    BY <1>1 DEF IInv, Exiting
<1>8. ASSUME NEW i \in 1..Len(request), results[i].status = "proven"
      PROVE  HoldsOn(request[i], run')
    <2> DEFINE p == request[i]
    <2>1. Good(p) /\ Sane(p)
        BY <1>1, <1>8, RequestsGood DEF Typed, Good
    <2>2. p.start \in Nat /\ History(p) \in Nat /\ History(p) <= p.start
        BY <2>1, GoodTypes
    <2>3. Proven(circuit, p)
        BY <1>1, <1>8 DEF IInv, AllKept, Kept
    <2>4. HoldsOn(p, run)
        BY <1>1, <1>8 DEF IInv, Operating
    <2>5. ASSUME NEW t \in p.start..(Len(run') - 2)
          PROVE  Holds(p, run', t)
        <3>1. t \in p.start..Len(run) - 1 /\ t \in Nat /\ History(p) <= t
            BY <1>2, <1>3, <2>2
        <3>2. \A lag \in 0..History(p) : t - lag + 1 \in 1..Len(run)
            BY <1>2, <2>2, <3>1
        <3>3. \A lag \in 0..History(p) : run'[t - lag + 1] = run[t - lag + 1]
            BY <1>3, <3>2
        <3>4. Holds(p, run', t) <=> Holds(p, run, t)
            BY <2>1, <3>1, <3>3, SameWindow
        <3>5. QED
            BY <2>4, <3>1, <3>4 DEF HoldsOn
    <2>6. QED
        BY <1>3, <2>1, <2>3, <2>5, ProvenCarries DEF HoldsOn
<1>9. Operating'
    BY <1>1, <1>3, <1>8 DEF Operating
<1>10. QED
    BY <1>4, <1>5, <1>6, <1>7, <1>9 DEF IInv

LEMMA StutterInv ==
    ASSUME IInv, UNCHANGED vars
    PROVE  IInv'
<1>1. UNCHANGED <<pc, circuit, request, results, base, through, cover, step, width, k, exit, run>>
    BY DEF vars, search
<1>2. Typed' /\ Cleared' /\ BaseExact' /\ NeverVacuous' /\ AllKept' /\ Exiting'
    BY <1>1 DEF IInv, Typed, Cleared, BaseExact, NeverVacuous, AllKept, Exiting
<1>3. StepExact' /\ Searched' /\ Stepping'
    <2>1. Property' = Property
        BY <1>1 DEF Property
    <2>2. QED
        BY <1>1, <2>1 DEF IInv, StepExact, Searched, Stepping
<1>4. Operating'
    BY <1>1 DEF IInv, Operating
<1>5. QED
    BY <1>2, <1>3, <1>4 DEF IInv

THEOREM InductiveInvariant == Spec => []IInv
<1>1. Init => IInv
    BY InitInv
<1>2. IInv /\ [Next]_vars => IInv'
    BY BeginInv, UnrollInv, AskCycleInv, UncoveredInv, FillWindowInv, AssumeInv, ProveInv,
       BoundedInv, InconclusiveInv, BackendFailsInv, FinishInv, OperateInv, StutterInv
       DEF Next
<1>3. QED
    BY <1>1, <1>2, PTL DEF Spec

-----------------------------------------------------------------------------
(* What follows.                                                           *)

(* The smaller of what was checked and what was run.                       *)
LEMMA MinOfTwo ==
    ASSUME NEW a \in Int, NEW b \in Int
    PROVE  Min({a, b}) \in Int /\ Min({a, b}) <= a /\ Min({a, b}) <= b
<1>1. \E x \in {a, b} : \A y \in {a, b} : x <= y
    <2>1. CASE a <= b
        BY <2>1
    <2>2. CASE b <= a
        BY <2>2
    <2>3. QED
        BY <2>1, <2>2
<1>2. Min({a, b}) \in {a, b} /\ \A y \in {a, b} : Min({a, b}) <= y
    BY <1>1 DEF Min
<1>3. QED
    BY <1>2

(* Exit status 0 of run_request is a promise without a bound: every        *)
(* property of the request holds in every cycle from its start on, for as  *)
(* long as the design runs, and no context of either solver was ever       *)
(* contradictory, so nothing was proven from hypotheses that cannot be met *)
THEOREM ProvenIsSound == Spec => []Soundness
<1>1. IInv => Soundness
    <2>1. SUFFICES ASSUME IInv, exit = 0, NEW i \in DOMAIN request
                   PROVE  HoldsFor(request[i], request[i].start, Len(run) - 1)
        BY DEF Soundness, IInv
    <2>2. i \in 1..Len(request) /\ pc = "done"
        <3>1. request \in Requests /\ exit # None
            BY <2>1, Beginnings DEF IInv, Typed
        <3>2. request \in Seq(Properties)
            BY <3>1, RequestsGood
        <3>3. QED
            BY <2>1, <3>1, <3>2 DEF IInv, Exiting
    <2>3. HoldsOn(request[i], run)
        BY <2>1, <2>2 DEF IInv, Exiting, Operating
    <2>4. QED
        BY <2>3 DEF HoldsOn, HoldsFor
<1>2. QED
    BY <1>1, InductiveInvariant, PTL

(* checked_through of any result but a counterexample is kept by the       *)
(* design, the one of a search that was cut off included: an unknown       *)
(* answer, an exhausted budget or a failed backend claims no cycle that    *)
(* was not checked.                                                        *)
THEOREM CheckedThroughIsKept == Spec => []CheckedThrough
<1>1. IInv => CheckedThrough
    <2>1. SUFFICES ASSUME IInv, pc = "done", NEW i \in DOMAIN results,
                          results[i].status # "counterexample",
                          NEW t \in request[i].start..Min({results[i].through, Len(run) - 1})
                   PROVE  Holds(request[i], run, t)
        BY DEF CheckedThrough, HoldsFor
    <2>2. i \in 1..Len(results) /\ results[i].through \in Int
        <3>1. results \in Seq(Verdicts)
            BY <2>1 DEF IInv, Typed
        <3>2. i \in 1..Len(results) /\ results[i] \in Verdicts
            BY <2>1, <3>1
        <3>3. QED
            BY <3>2 DEF Verdicts
    <2>3. Checked(circuit, request[i], results[i].through)
        BY <2>1, <2>2 DEF IInv, AllKept, Kept
    <2>4. run \in Seq(Frames) /\ IsRun(circuit, run) /\ Len(run) \in Nat
        BY <2>1 DEF IInv, Operating, IsRun
    <2>5. request[i].start \in Nat
        <3>1. request \in Requests /\ i \in 1..Len(request)
            BY <2>1, <2>2, RequestsGood DEF IInv, Typed
        <3>2. QED
            BY <3>1, RequestsGood, GoodTypes
    <2>6. t \in request[i].start..results[i].through /\ t < Len(run)
        <3> DEFINE m == Min({results[i].through, Len(run) - 1})
        <3>1. m \in Int /\ m <= results[i].through /\ m <= Len(run) - 1
            <4>1. Len(run) - 1 \in Int
                BY <2>4
            <4>2. QED
                BY <2>2, <4>1, MinOfTwo
        <3>2. t \in request[i].start..m
            OBVIOUS
        <3> HIDE DEF m
        <3>3. QED
            BY <2>2, <2>4, <2>5, <3>1, <3>2
    <2>7. QED
        BY <2>3, <2>4, <2>6 DEF Checked
<1>2. QED
    BY <1>1, InductiveInvariant, PTL

(* A counterexample is a run of the design under its reset protocol that   *)
(* fails for the first time in its last frame: replay_trace, which knows   *)
(* no solver, accepts it.                                                  *)
THEOREM CounterexamplesAreReal == Spec => []CounterexamplesReplay
<1>1. IInv => CounterexamplesReplay
    <2>1. SUFFICES ASSUME IInv, NEW i \in DOMAIN results,
                          results[i].status = "counterexample"
                   PROVE  /\ Replays(request[i], results[i].trace)
                          /\ results[i].through = Len(results[i].trace) - 1
        BY DEF CounterexamplesReplay
    <2> DEFINE f == results[i].trace
               p == request[i]
    <2>2. i \in 1..Len(results)
        BY <2>1 DEF IInv, Typed
    <2>3. ReplaysIn(circuit, p, f) /\ results[i].through = Len(f) - 1
        BY <2>1, <2>2 DEF IInv, AllKept, Kept
    <2> HIDE DEF f, p
    <2>4. /\ f \in Seq(Frames) /\ Protocol(f) /\ Linked(circuit, f)
          /\ DOMAIN f = 1..Len(f) /\ Len(f) \in Nat
        BY <2>3 DEF ReplaysIn, IsRun
    <2>5. ASSUME NEW j \in DOMAIN f
          PROVE  /\ f[j].input \in Inputs
                 /\ Active # {} => ((f[j].input \in Active) <=> (j <= ResetCycles))
                 /\ j > 1 => f[j].state = circuit[f[j - 1]]
        <3>1. j \in 1..Len(f) /\ (j > 1 => j \in 2..Len(f))
            BY <2>4
        <3>2. QED
            BY <2>4, <3>1 DEF Protocol, Linked
    <2>6. Replays(p, f)
        BY <2>3, <2>5 DEF ReplaysIn, Replays
    <2>7. QED
        BY <2>3, <2>6 DEF f, p
<1>2. QED
    BY <1>1, InductiveInvariant, PTL
=============================================================================
