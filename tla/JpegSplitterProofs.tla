------------------------- MODULE JpegSplitterProofs -------------------------
(***************************************************************************)
(* The loops of jpegSplitter do what a frame should be, for every output:  *)
(* next returns the image that follows, whole, and reports the end of the  *)
(* output only if no image follows, as long as no fill byte precedes an    *)
(* EOI; with fill bytes, what its loop looks for is LoopEndsAt.            *)
(*                                                                         *)
(* A loop is a recursive function of a position.  That the recursion has a *)
(* solution is shown with the answer itself, said without recursion; that  *)
(* it has no other, by the least distance from the end at which two        *)
(* solutions would differ.                                                 *)
(***************************************************************************)
EXTENDS JpegSplitter, FiniteSets, FiniteSetTheorems, WellFoundedInduction, TLAPS

-----------------------------------------------------------------------------
(* Least elements, and recursion from the end of the output.               *)

Least(T) == CHOOSE n \in T : \A m \in T : n <= m

LEMMA LeastNat ==
    ASSUME NEW T \in SUBSET Nat, T # {}
    PROVE  Least(T) \in T /\ \A m \in T : Least(T) <= m
<1> DEFINE R == {ss \in Nat \X Nat : ss[1] < ss[2]}
<1>1. IsWellFoundedOn(R, Nat)
    BY NatLessThanWellFounded DEF OpToRel
<1>2. \E n \in T : \A m \in T : <<m, n>> \notin R
  <2> HIDE DEF R
  <2> QED BY <1>1, WFMin
<1>3. \A m, n \in T : <<m, n>> \notin R => n <= m
    OBVIOUS
<1>4. \E n \in T : \A m \in T : n <= m
    BY <1>2, <1>3
<1> QED BY <1>4 DEF Least

LEMMA LeastIs ==
    ASSUME NEW T \in SUBSET Nat, NEW n \in T, \A m \in T : n <= m
    PROVE  Least(T) = n
<1>1. Least(T) \in T /\ Least(T) <= n
    BY LeastNat
<1>2. n <= Least(T) /\ n \in Nat /\ Least(T) \in Nat
    BY <1>1
<1> QED BY <1>1, <1>2

\* Two functions agree from N on, and at i when they do at i + 1 and i + 2.
AgreeFrom(N, f, h) ==
    \A i \in Nat \ {0} :
        i >= N \/ (f[i + 1] = h[i + 1] /\ f[i + 2] = h[i + 2]) => f[i] = h[i]

LEMMA Backwards ==
    ASSUME NEW N \in Nat, NEW f, NEW h, AgreeFrom(N, f, h)
    PROVE  \A i \in Nat \ {0} : f[i] = h[i]
<1> USE DEF AgreeFrom
<1> DEFINE T == {d \in Nat : \E i \in Nat \ {0} : i + d = N /\ f[i] # h[i]}
<1>1. SUFFICES ASSUME NEW k \in Nat \ {0}, f[k] # h[k] PROVE FALSE
    OBVIOUS
<1>2. k < N
    BY <1>1
<1>3. N - k \in T
    BY <1>1, <1>2
<1> DEFINE d == Least(T)
<1>4. d \in T /\ \A e \in T : d <= e
    BY <1>3, LeastNat
<1> HIDE DEF d
<1>5. PICK i \in Nat \ {0} : i + d = N /\ f[i] # h[i]
    BY <1>4
<1>6. i < N /\ d \in Nat
    BY <1>4, <1>5
<1>7. ASSUME NEW j \in {i + 1, i + 2} PROVE f[j] = h[j]
  <2>1. CASE j >= N
    BY <2>1
  <2>2. CASE j < N
    <3>1. N - j \in Nat /\ N - j < d /\ j + (N - j) = N
        BY <1>5, <1>6, <2>2
    <3>2. N - j \notin T
        BY <1>4, <3>1
    <3> QED BY <3>1, <3>2
  <2> QED BY <2>1, <2>2
<1> QED BY <1>5, <1>6, <1>7

-----------------------------------------------------------------------------
(* skipToSOI.                                                              *)

SOIs(out, i) == {a \in Nat : a >= i /\ At(out, a, "FF", "D8")}

SOIFrom(out, i) == IF SOIs(out, i) = {} THEN EOF ELSE Least(SOIs(out, i)) + 2

\* What the loop does at position i, given what it does further on.
SkipBody(out, f, i) ==
    IF i >= Len(out) THEN EOF
    ELSE IF out[i] # "FF" THEN f[i + 1]
    ELSE IF out[i + 1] = "D8" THEN i + 2
    ELSE IF out[i + 1] = "FF" THEN f[i + 1]
    ELSE f[i + 2]

LEMMA SOIFromStep ==
    ASSUME NEW out \in Seq(Byte), NEW i \in Nat \ {0}
    PROVE  SOIFrom(out, i) = SkipBody(out, [k \in Nat |-> SOIFrom(out, k)], i)
<1> DEFINE h == [k \in Nat |-> SOIFrom(out, k)]
<1>1. Len(out) \in Nat /\ h[i + 1] = SOIFrom(out, i + 1) /\ h[i + 2] = SOIFrom(out, i + 2)
    OBVIOUS
<1> HIDE DEF h
<1>2. CASE i >= Len(out)
  <2>1. SOIs(out, i) = {}
    BY <1>1, <1>2 DEF SOIs, At
  <2> QED BY <1>2, <2>1 DEF SOIFrom, SkipBody
<1>3. CASE i < Len(out) /\ out[i] = "FF" /\ out[i + 1] = "D8"
  <2>1. i \in SOIs(out, i) /\ \A a \in SOIs(out, i) : i <= a
    BY <1>1, <1>3 DEF SOIs, At
  <2>2. SOIs(out, i) \in SUBSET Nat
    BY DEF SOIs
  <2>3. Least(SOIs(out, i)) = i
    BY <2>1, <2>2, LeastIs
  <2>4. SOIs(out, i) # {}
    BY <2>1
  <2>5. SOIFrom(out, i) = i + 2
    BY <2>3, <2>4 DEF SOIFrom
  <2> QED BY <1>1, <1>3, <2>5 DEF SkipBody
<1>4. CASE i < Len(out) /\ (out[i] # "FF" \/ out[i + 1] = "FF")
  <2>1. ~At(out, i, "FF", "D8")
    BY <1>4 DEF At
  <2>2. SOIs(out, i) = SOIs(out, i + 1)
    BY <2>1 DEF SOIs
  <2> QED BY <1>1, <1>4, <2>2 DEF SOIFrom, SkipBody
<1>5. CASE i < Len(out) /\ out[i] = "FF" /\ out[i + 1] \notin {"D8", "FF"}
  <2>1. ~At(out, i, "FF", "D8") /\ ~At(out, i + 1, "FF", "D8")
    BY <1>5 DEF At
  <2>2. SOIs(out, i) = SOIs(out, i + 2)
    BY <2>1 DEF SOIs
  <2> QED BY <1>1, <1>5, <2>2 DEF SOIFrom, SkipBody
<1> QED BY <1>1, <1>2, <1>3, <1>4, <1>5

\* The loop has the answer it should have.
LEMMA SkipFindsSOI ==
    ASSUME NEW out \in Seq(Byte)
    PROVE  \A i \in Nat \ {0} : SkipToSOI(out)[i] = SOIFrom(out, i)
<1> DEFINE h == [i \in Nat |-> SOIFrom(out, i)]
           g == [i \in Nat |-> IF i = 0 THEN SkipBody(out, h, 0) ELSE SOIFrom(out, i)]
           f == SkipToSOI(out)
<1>1. g = [i \in Nat |-> SkipBody(out, g, i)]
  <2>1. ASSUME NEW i \in Nat PROVE SkipBody(out, g, i) = SkipBody(out, h, i)
    <3>1. g[i + 1] = h[i + 1] /\ g[i + 2] = h[i + 2]
        OBVIOUS
    <3> HIDE DEF g, h
    <3> QED BY <3>1 DEF SkipBody
  <2>2. \A i \in Nat : g[i] = SkipBody(out, h, i)
    BY SOIFromStep
  <2>3. \A i \in Nat : g[i] = SkipBody(out, g, i)
    BY <2>1, <2>2
  <2>4. DOMAIN g = Nat /\ g = [i \in Nat |-> g[i]]
    OBVIOUS
  <2> HIDE DEF g
  <2> QED BY <2>3, <2>4
<1>2. f = CHOOSE s : s = [i \in Nat |-> SkipBody(out, s, i)]
    BY DEF SkipToSOI, SkipBody
<1> HIDE DEF f, g
<1>3. f = [i \in Nat |-> SkipBody(out, f, i)]
    BY <1>1, <1>2
<1>4. \A i \in Nat : f[i] = SkipBody(out, f, i)
    BY <1>3
<1>5. \A i \in Nat \ {0} : h[i] = SkipBody(out, h, i)
    BY SOIFromStep
<1>6. \A i \in Nat : h[i] = SOIFrom(out, i)
    OBVIOUS
<1> HIDE DEF h
<1>7. ASSUME NEW i \in Nat \ {0},
             i >= Len(out) \/ (f[i + 1] = h[i + 1] /\ f[i + 2] = h[i + 2])
      PROVE  f[i] = h[i]
  <2>1. SkipBody(out, f, i) = SkipBody(out, h, i)
    BY <1>7 DEF SkipBody
  <2> QED BY <1>4, <1>5, <2>1
<1>8. AgreeFrom(Len(out), f, h) /\ Len(out) \in Nat
    BY <1>7 DEF AgreeFrom
<1>9. \A i \in Nat \ {0} : f[i] = h[i]
    BY ONLY <1>8, Backwards
<1> QED BY <1>6, <1>9 DEF f

-----------------------------------------------------------------------------
(* The loop of next.                                                       *)

\* The bytes before position j, back to position i, that are all 0xFF.
FillBefore(out, i, j) ==
    Cardinality({k \in i..j - 1 : \A l \in k..j - 1 : out[l] = "FF"})

\* Where the loop of next, which takes the bytes after a 0xFF in pairs, ends the
\* body that starts at i: at a 0xD9 with an odd number of 0xFF before it.
LoopEndsAt(out, i, j) ==
    /\ j \in i + 1..Len(out) /\ out[j] = "D9"
    /\ FillBefore(out, i, j) % 2 = 1

EOIs(out, i) == {j \in Nat : LoopEndsAt(out, i, j)}

EOIFrom(out, i) == IF EOIs(out, i) = {} THEN EOF ELSE Least(EOIs(out, i))

\* The positions whose bytes FillBefore counts.
Fill(out, i, j) == {k \in i..j - 1 : \A l \in k..j - 1 : out[l] = "FF"}

LEMMA FillFinite ==
    ASSUME NEW out, NEW i \in Nat, NEW j \in Nat
    PROVE  /\ IsFiniteSet(Fill(out, i, j))
           /\ FillBefore(out, i, j) = Cardinality(Fill(out, i, j))
           /\ FillBefore(out, i, j) \in Nat
<1>1. Fill(out, i, j) \in SUBSET (i..j - 1)
    BY DEF Fill
<1>2. IsFiniteSet(i..j - 1)
    BY FS_Interval
<1>3. IsFiniteSet(Fill(out, i, j))
    BY <1>1, <1>2, FS_Subset
<1> QED BY <1>3, FS_CardinalityType DEF Fill, FillBefore

\* A byte that is no 0xFF ends the run of them.
LEMMA FillStops ==
    ASSUME NEW out, NEW i \in Nat, NEW j \in Nat, i < j, out[i] # "FF"
    PROVE  FillBefore(out, i, j) = FillBefore(out, i + 1, j)
<1>1. ASSUME NEW k, k \in Fill(out, i, j) PROVE k \in Fill(out, i + 1, j)
  <2>1. k \in i..j - 1 /\ \A l \in k..j - 1 : out[l] = "FF"
    BY <1>1 DEF Fill
  <2>2. k # i
    BY <2>1
  <2> QED BY <2>1, <2>2 DEF Fill
<1>2. ASSUME NEW k, k \in Fill(out, i + 1, j) PROVE k \in Fill(out, i, j)
    BY <1>2 DEF Fill
<1>3. Fill(out, i, j) = Fill(out, i + 1, j)
    BY <1>1, <1>2
<1> QED BY <1>3, FillFinite

\* The byte after a 0xFF is of the run, and with it the 0xFF, or neither is: the
\* loop passes over the two without changing whether the run is odd.
LEMMA FillPairs ==
    ASSUME NEW out, NEW i \in Nat, NEW j \in Nat, i + 1 < j, out[i] = "FF"
    PROVE  FillBefore(out, i, j) % 2 = FillBefore(out, i + 2, j) % 2
<1> DEFINE F == Fill(out, i + 2, j)
<1>1. i \notin F /\ i + 1 \notin F /\ IsFiniteSet(F)
  <2>1. IsFiniteSet(F)
    BY FillFinite
  <2> QED BY <2>1 DEF Fill
<1>2. \A k : k \in F <=> k \in Fill(out, i, j) /\ k \notin {i, i + 1}
    BY DEF Fill
<1>3. i \in Fill(out, i, j) <=> i + 1 \in Fill(out, i, j)
  <2>1. i \in Fill(out, i, j) => i + 1 \in Fill(out, i, j)
    BY DEF Fill
  <2>2. ASSUME i + 1 \in Fill(out, i, j) PROVE i \in Fill(out, i, j)
    <3>1. \A l \in i + 1..j - 1 : out[l] = "FF"
        BY <2>2 DEF Fill
    <3>2. \A l \in i..j - 1 : out[l] = "FF"
        BY <3>1
    <3> QED BY <3>2 DEF Fill
  <2> QED BY <2>1, <2>2
<1>4. FillBefore(out, i, j) = Cardinality(Fill(out, i, j)) /\ FillBefore(out, i + 2, j) = Cardinality(F)
      /\ Cardinality(F) \in Nat
    BY FillFinite
<1>5. CASE i \in Fill(out, i, j)
  <2> HIDE DEF F
  <2>1. Fill(out, i, j) = (F \cup {i}) \cup {i + 1}
    BY <1>2, <1>3, <1>5
  <2>2. Cardinality(F \cup {i}) = Cardinality(F) + 1 /\ IsFiniteSet(F \cup {i})
    BY <1>1, FS_AddElement
  <2>3. i + 1 \notin F \cup {i}
    BY <1>1
  <2>4. Cardinality((F \cup {i}) \cup {i + 1}) = Cardinality(F \cup {i}) + 1
    BY <2>2, <2>3, FS_AddElement
  <2> DEFINE n == Cardinality(F)
  <2>5. n \in Nat /\ FillBefore(out, i + 2, j) = n /\ FillBefore(out, i, j) = n + 2
    BY <1>4, <2>1, <2>2, <2>4
  <2> HIDE DEF n
  <2>6. (n + 2) % 2 = n % 2
    BY <2>5
  <2> QED BY <2>5, <2>6
<1>6. CASE i \notin Fill(out, i, j)
  <2>1. Fill(out, i, j) = F
    BY <1>2, <1>3, <1>6
  <2> QED BY <1>4, <2>1
<1> QED BY <1>5, <1>6

FindBody(out, f, i) ==
    IF i >= Len(out) THEN EOF
    ELSE IF out[i] # "FF" THEN f[i + 1]
    ELSE IF out[i + 1] = "D9" THEN i + 1
    ELSE f[i + 2]

LEMMA EOIFromStep ==
    ASSUME NEW out \in Seq(Byte), NEW i \in Nat \ {0}
    PROVE  EOIFrom(out, i) = FindBody(out, [k \in Nat |-> EOIFrom(out, k)], i)
<1> DEFINE h == [k \in Nat |-> EOIFrom(out, k)]
<1>1. Len(out) \in Nat /\ h[i + 1] = EOIFrom(out, i + 1) /\ h[i + 2] = EOIFrom(out, i + 2)
    OBVIOUS
<1> HIDE DEF h
<1>2. FillBefore(out, i, i + 1) = IF out[i] = "FF" THEN 1 ELSE 0
  <2>1. Fill(out, i, i + 1) = IF out[i] = "FF" THEN {i} ELSE {}
    BY DEF Fill
  <2>2. Cardinality({i}) = 1 /\ Cardinality({}) = 0
    BY FS_Singleton, FS_EmptySet
  <2> QED BY <2>1, <2>2, FillFinite
<1>3. CASE i >= Len(out)
  <2>1. EOIs(out, i) = {}
    BY <1>1, <1>3 DEF EOIs, LoopEndsAt
  <2> QED BY <1>3, <2>1 DEF EOIFrom, FindBody
<1>4. CASE i < Len(out) /\ out[i] # "FF"
  <2>1. ASSUME NEW j \in Nat PROVE LoopEndsAt(out, i, j) <=> LoopEndsAt(out, i + 1, j)
    <3>1. CASE j <= i
        BY <3>1 DEF LoopEndsAt
    <3>2. CASE j = i + 1
        <4>1. ~LoopEndsAt(out, i, j)
            BY <1>2, <1>4, <3>2 DEF LoopEndsAt
        <4> QED BY <3>2, <4>1 DEF LoopEndsAt
    <3>3. CASE j > i + 1
        <4>1. FillBefore(out, i, j) = FillBefore(out, i + 1, j)
            BY <1>4, <3>3, FillStops
        <4> QED BY <3>3, <4>1 DEF LoopEndsAt
    <3> QED BY <3>1, <3>2, <3>3
  <2>2. EOIs(out, i) = EOIs(out, i + 1)
    BY <2>1 DEF EOIs
  <2> QED BY <1>1, <1>4, <2>2 DEF EOIFrom, FindBody
<1>5. CASE i < Len(out) /\ out[i] = "FF" /\ out[i + 1] = "D9"
  <2>1. LoopEndsAt(out, i, i + 1)
    BY <1>1, <1>2, <1>5 DEF LoopEndsAt
  <2>2. i + 1 \in EOIs(out, i) /\ EOIs(out, i) \in SUBSET Nat
    BY <2>1 DEF EOIs
  <2>3. \A j \in EOIs(out, i) : i + 1 <= j
    BY DEF EOIs, LoopEndsAt
  <2>4. Least(EOIs(out, i)) = i + 1
    BY <2>2, <2>3, LeastIs
  <2> QED BY <1>5, <2>2, <2>4 DEF EOIFrom, FindBody
<1>6. CASE i < Len(out) /\ out[i] = "FF" /\ out[i + 1] # "D9"
  <2>1. ASSUME NEW j \in Nat PROVE LoopEndsAt(out, i, j) <=> LoopEndsAt(out, i + 2, j)
    <3>1. CASE j <= i + 1
        BY <1>6, <3>1 DEF LoopEndsAt
    <3>2. CASE j = i + 2
        <4>1. FillBefore(out, i, j) % 2 = FillBefore(out, i + 2, j) % 2
            BY <1>6, <3>2, FillPairs
        <4>2. FillBefore(out, i + 2, i + 2) = 0
            <5>1. Fill(out, i + 2, i + 2) = {}
                BY DEF Fill
            <5> QED BY <5>1, FillFinite, FS_EmptySet
        <4>3. ~LoopEndsAt(out, i, j)
            BY <3>2, <4>1, <4>2 DEF LoopEndsAt
        <4> QED BY <3>2, <4>3 DEF LoopEndsAt
    <3>3. CASE j > i + 2
        <4>1. FillBefore(out, i, j) % 2 = FillBefore(out, i + 2, j) % 2
            BY <1>6, <3>3, FillPairs
        <4> QED BY <3>3, <4>1 DEF LoopEndsAt
    <3> QED BY <3>1, <3>2, <3>3
  <2>2. EOIs(out, i) = EOIs(out, i + 2)
    BY <2>1 DEF EOIs
  <2> QED BY <1>1, <1>6, <2>2 DEF EOIFrom, FindBody
<1> QED BY <1>1, <1>3, <1>4, <1>5, <1>6

LEMMA FindFindsEOI ==
    ASSUME NEW out \in Seq(Byte)
    PROVE  \A i \in Nat \ {0} : FindEOI(out)[i] = EOIFrom(out, i)
<1> DEFINE h == [i \in Nat |-> EOIFrom(out, i)]
           g == [i \in Nat |-> IF i = 0 THEN FindBody(out, h, 0) ELSE EOIFrom(out, i)]
           f == FindEOI(out)
<1>1. g = [i \in Nat |-> FindBody(out, g, i)]
  <2>1. ASSUME NEW i \in Nat PROVE FindBody(out, g, i) = FindBody(out, h, i)
    <3>1. g[i + 1] = h[i + 1] /\ g[i + 2] = h[i + 2]
        OBVIOUS
    <3> HIDE DEF g, h
    <3> QED BY <3>1 DEF FindBody
  <2>2. \A i \in Nat : g[i] = FindBody(out, h, i)
    BY EOIFromStep
  <2>3. \A i \in Nat : g[i] = FindBody(out, g, i)
    BY <2>1, <2>2
  <2>4. DOMAIN g = Nat /\ g = [i \in Nat |-> g[i]]
    OBVIOUS
  <2> HIDE DEF g
  <2> QED BY <2>3, <2>4
<1>2. f = CHOOSE s : s = [i \in Nat |-> FindBody(out, s, i)]
    BY DEF FindEOI, FindBody
<1> HIDE DEF f, g
<1>3. f = [i \in Nat |-> FindBody(out, f, i)]
    BY <1>1, <1>2
<1>4. \A i \in Nat : f[i] = FindBody(out, f, i)
    BY <1>3
<1>5. \A i \in Nat \ {0} : h[i] = FindBody(out, h, i)
    BY EOIFromStep
<1>6. \A i \in Nat : h[i] = EOIFrom(out, i)
    OBVIOUS
<1> HIDE DEF h
<1>7. ASSUME NEW i \in Nat \ {0},
             i >= Len(out) \/ (f[i + 1] = h[i + 1] /\ f[i + 2] = h[i + 2])
      PROVE  f[i] = h[i]
  <2>1. FindBody(out, f, i) = FindBody(out, h, i)
    BY <1>7 DEF FindBody
  <2> QED BY <1>4, <1>5, <2>1
<1>8. AgreeFrom(Len(out), f, h) /\ Len(out) \in Nat
    BY <1>7 DEF AgreeFrom
<1>9. \A i \in Nat \ {0} : f[i] = h[i]
    BY ONLY <1>8, Backwards
<1> QED BY <1>6, <1>9 DEF f

-----------------------------------------------------------------------------
(* next.                                                                   *)

\* What next returns, of every output: IsFrameAfter with the loop's own EOI.
LoopFrameAfter(out, i, a, b) ==
    /\ a >= i /\ At(out, a, "FF", "D8")
    /\ \A k \in i..a - 1 : ~At(out, k, "FF", "D8")
    /\ LoopEndsAt(out, a + 2, b)
    /\ \A k \in a + 2..b - 1 : ~LoopEndsAt(out, a + 2, k)

LEMMA NextReturnsLoopFrame ==
    ASSUME NEW out \in Seq(Byte), NEW i \in Nat \ {0}, NextFrame(out, i)[1] # EOF
    PROVE  LoopFrameAfter(out, i, NextFrame(out, i)[1], NextFrame(out, i)[2])
<1> DEFINE body == SkipToSOI(out)[i]
           last == FindEOI(out)[body]
           a == Least(SOIs(out, i))
<1>1. body # EOF /\ last # EOF /\ NextFrame(out, i) = <<body - 2, last>>
    BY DEF NextFrame
<1>2. body = SOIFrom(out, i)
    BY SkipFindsSOI
<1>3. SOIs(out, i) # {} /\ body = a + 2
    BY <1>1, <1>2 DEF SOIFrom
<1> HIDE DEF body, a
<1>4. a \in SOIs(out, i) /\ \A k \in SOIs(out, i) : a <= k
  <2>1. SOIs(out, i) \in SUBSET Nat
    BY DEF SOIs
  <2> QED BY <1>3, <2>1, LeastNat DEF a
<1>5. a \in Nat /\ a >= i /\ At(out, a, "FF", "D8")
    BY <1>4 DEF SOIs
<1>6. ASSUME NEW k \in i..a - 1 PROVE ~At(out, k, "FF", "D8")
  <2>1. k \in Nat /\ k >= i /\ ~(a <= k)
    BY <1>5
  <2> QED BY <1>4, <2>1 DEF SOIs
<1>7. body \in Nat \ {0}
    BY <1>3, <1>5
<1>8. last = EOIFrom(out, body)
    BY <1>7, FindFindsEOI
<1>9. EOIs(out, body) # {} /\ last = Least(EOIs(out, body))
    BY <1>1, <1>8 DEF EOIFrom
<1> HIDE DEF last
<1>10. last \in EOIs(out, body) /\ \A k \in EOIs(out, body) : last <= k
  <2>1. EOIs(out, body) \in SUBSET Nat
    BY DEF EOIs
  <2> QED BY <1>9, <2>1, LeastNat
<1>11. last \in Nat /\ LoopEndsAt(out, a + 2, last)
    BY <1>3, <1>10 DEF EOIs
<1>12. ASSUME NEW k \in a + 2..last - 1 PROVE ~LoopEndsAt(out, a + 2, k)
  <2>1. k \in Nat /\ ~(last <= k)
    BY <1>5, <1>11
  <2> QED BY <1>3, <1>10, <2>1 DEF EOIs
<1>13. NextFrame(out, i)[1] = a /\ NextFrame(out, i)[2] = last
    BY <1>1, <1>3, <1>5
<1> QED BY <1>5, <1>6, <1>11, <1>12, <1>13 DEF LoopFrameAfter

LEMMA NextEndsAfterLoopFrames ==
    ASSUME NEW out \in Seq(Byte), NEW i \in Nat \ {0}, NextFrame(out, i)[1] = EOF,
           NEW a \in Nat, NEW b \in Nat
    PROVE  ~LoopFrameAfter(out, i, a, b)
<1> DEFINE body == SkipToSOI(out)[i]
           last == FindEOI(out)[body]
<1> SUFFICES ASSUME LoopFrameAfter(out, i, a, b) PROVE FALSE
    OBVIOUS
<1>1. SOIs(out, i) \in SUBSET Nat /\ a \in SOIs(out, i)
    BY DEF LoopFrameAfter, SOIs
<1>2. \A k \in SOIs(out, i) : a <= k
    BY DEF LoopFrameAfter, SOIs
<1>3. Least(SOIs(out, i)) = a
    BY <1>1, <1>2, LeastIs
<1>4. SOIs(out, i) # {}
    BY <1>1
<1>5. body = a + 2
    BY <1>3, <1>4, SkipFindsSOI DEF SOIFrom
<1>6. last = EOIFrom(out, a + 2)
  <2>1. a + 2 \in Nat \ {0}
    OBVIOUS
  <2> HIDE DEF body
  <2> QED BY <1>5, <2>1, FindFindsEOI
<1>7. b \in EOIs(out, a + 2) /\ EOIs(out, a + 2) \in SUBSET Nat
    BY DEF LoopFrameAfter, EOIs
<1>8. Least(EOIs(out, a + 2)) \in EOIs(out, a + 2) /\ EOIs(out, a + 2) # {}
    BY <1>7, LeastNat
<1>9. last \in EOIs(out, a + 2)
    BY <1>6, <1>8 DEF EOIFrom
<1>10. last # EOF
    BY <1>9 DEF EOIs, LoopEndsAt, EOF
<1> HIDE DEF body, last
<1>11. NextFrame(out, i) = <<body - 2, last>>
    BY <1>5, <1>10 DEF NextFrame, EOF, body, last
<1>12. NextFrame(out, i)[1] = a
    BY <1>5, <1>11
<1>13. a # EOF
    BY DEF LoopFrameAfter, At, EOF
<1> QED BY <1>12, <1>13
-----------------------------------------------------------------------------
(* Without fill bytes the loop ends a body where its EOI is.               *)

LEMMA UnfilledEnds ==
    ASSUME NEW out \in Seq(Byte), Unfilled(out), NEW i \in Nat \ {0}, NEW j \in Nat
    PROVE  EndsAt(out, i, j) <=> LoopEndsAt(out, i, j)
<1>1. Len(out) \in Nat /\ FillBefore(out, i, j) = Cardinality(Fill(out, i, j))
    BY FillFinite
<1>2. ASSUME EndsAt(out, i, j) PROVE LoopEndsAt(out, i, j)
  <2>1. j \in i + 1..Len(out) /\ out[j] = "D9" /\ out[j - 1] = "FF"
    BY <1>1, <1>2 DEF EndsAt, At
  <2>2. ASSUME j - 2 >= i PROVE out[j - 2] # "FF"
    <3>1. j - 2 \in 1..Len(out) /\ j - 2 \in 1..Len(out) - 1 /\ j - 1 \in 1..Len(out) - 1
          /\ (j - 2) + 1 = j - 1 /\ (j - 1) + 1 = j
        BY <1>1, <2>1, <2>2
    <3>2. ~(At(out, j - 2, "FF", "FF") /\ At(out, j - 1, "FF", "D9"))
        BY <3>1 DEF Unfilled
    <3> QED BY <2>1, <3>1, <3>2 DEF At
  <2>3. Fill(out, i, j) = {j - 1}
    <3>1. j - 1 \in Fill(out, i, j)
        BY <2>1 DEF Fill
    <3>2. ASSUME NEW k \in Fill(out, i, j) PROVE k = j - 1
        <4>1. k \in i..j - 1 /\ \A l \in k..j - 1 : out[l] = "FF"
            BY <3>2 DEF Fill
        <4>2. CASE k <= j - 2
            <5>1. j - 2 \in k..j - 1 /\ j - 2 >= i
                BY <4>1, <4>2
            <5> QED BY <2>2, <4>1, <5>1
        <4> QED BY <4>1, <4>2
    <3> QED BY <3>1, <3>2
  <2>4. FillBefore(out, i, j) = 1
    BY <1>1, <2>3, FS_Singleton
  <2> QED BY <2>1, <2>4 DEF LoopEndsAt
<1>3. ASSUME LoopEndsAt(out, i, j) PROVE EndsAt(out, i, j)
  <2>1. j \in i + 1..Len(out) /\ out[j] = "D9" /\ FillBefore(out, i, j) % 2 = 1
    BY <1>3 DEF LoopEndsAt
  <2>2. FillBefore(out, i, j) # 0
    BY <2>1
  <2>3. Fill(out, i, j) # {}
    BY <1>1, <2>2, FS_EmptySet
  <2>4. out[j - 1] = "FF"
    BY <2>1, <2>3 DEF Fill
  <2>5. j - 1 \in 1..Len(out) - 1 /\ (j - 1) + 1 = j /\ j - 1 >= i
    BY <1>1, <2>1
  <2> QED BY <2>1, <2>4, <2>5 DEF EndsAt, At
<1> QED BY <1>2, <1>3

LEMMA UnfilledFrames ==
    ASSUME NEW out \in Seq(Byte), Unfilled(out), NEW i \in Nat, NEW a \in Nat, NEW b \in Nat
    PROVE  IsFrameAfter(out, i, a, b) <=> LoopFrameAfter(out, i, a, b)
<1>1. a + 2 \in Nat \ {0} /\ \A k \in a + 2..b - 1 : k \in Nat
    OBVIOUS
<1>2. \A k \in Nat : EndsAt(out, a + 2, k) <=> LoopEndsAt(out, a + 2, k)
    BY <1>1, UnfilledEnds
<1> QED BY <1>1, <1>2 DEF IsFrameAfter, LoopFrameAfter

\* next returns the image that follows, whole: from the first SOI at or after
\* position i to the first EOI of its body (jpeg.go:23-27,36), of every output
\* without a fill byte before an EOI.
THEOREM NextReturnsTheFrame ==
    ASSUME NEW out \in Seq(Byte), Unfilled(out), NEW i \in Nat \ {0},
           NextFrame(out, i)[1] # EOF
    PROVE  IsFrameAfter(out, i, NextFrame(out, i)[1], NextFrame(out, i)[2])
<1>1. LoopFrameAfter(out, i, NextFrame(out, i)[1], NextFrame(out, i)[2])
    BY NextReturnsLoopFrame
<1>2. NextFrame(out, i)[1] \in Nat /\ NextFrame(out, i)[2] \in Nat
    BY <1>1 DEF LoopFrameAfter, LoopEndsAt, At
<1> QED BY <1>1, <1>2, UnfilledFrames

\* Of such an output next reports the end only if no image follows.
THEOREM NextEndsAfterTheLast ==
    ASSUME NEW out \in Seq(Byte), Unfilled(out), NEW i \in Nat \ {0},
           NextFrame(out, i)[1] = EOF, NEW a \in Nat, NEW b \in Nat
    PROVE  ~IsFrameAfter(out, i, a, b)
BY NextEndsAfterLoopFrames, UnfilledFrames
=============================================================================
