------------------------- MODULE StampedRuntimeProofs -------------------------
(***************************************************************************)
(* Proofs about a stamped runtime, from its stamp to its installation.     *)
(*                                                                         *)
(* About RuntimeStamping, for any templates, bundles, signatures,          *)
(* alignments and buffers: the stamp that append_to_binary publishes reads *)
(* back and keeps its template, whoever signs it, and is made of one       *)
(* version of the template and one of the bundle.                          *)
(*                                                                         *)
(* About InstallationOwnership, for any number of processes, paths and     *)
(* executables, any labels and instructions, and whether or not the path   *)
(* of a running executable resolves after it was replaced: what the        *)
(* runtimes that read those stamps record of them.                         *)
(***************************************************************************)
EXTENDS RuntimeStamping, InstallationOwnership, TLAPS, FiniteSetTheorems,
        WellFoundedInduction, SequenceTheorems

-----------------------------------------------------------------------------
(* Arithmetic: least and greatest numbers, alignments                       *)

-----------------------------------------------------------------------------
(* Numbers *)

(* Every non-empty set of natural numbers has a least element: what stands  *)
(* here for induction.                                                      *)
LEMMA LeastNatural ==
  ASSUME NEW T \in SUBSET Nat, T # {}
  PROVE  \E m \in T : \A k \in T : m <= k
<1> DEFINE R == OpToRel(<, Nat)
<1>1. IsWellFoundedOn(R, Nat)
  BY NatLessThanWellFounded
<1>2. \A a, b \in Nat : a < b => <<a, b>> \in R
  BY DEF OpToRel
<1> HIDE DEF R
<1>3. PICK x \in T : \A y \in T : ~(<<y, x>> \in R)
  BY <1>1, WFMin
<1>4. ASSUME NEW k \in T PROVE x <= k
  <2>1. x \in Nat /\ k \in Nat /\ ~(k < x)
    BY <1>2, <1>3
  <2>2. QED BY <2>1
<1>5. QED
  BY <1>4

(* A bounded set of natural numbers has a greatest element, which is what   *)
(* Max chooses.                                                             *)
LEMMA GreatestNatural ==
  ASSUME NEW S \in SUBSET Nat, S # {},
         NEW bound \in Nat, \A x \in S : x <= bound
  PROVE  Max(S) \in S /\ Max(S) \in Nat /\ \A x \in S : x <= Max(S)
<1> DEFINE T == {b \in Nat : \A x \in S : x <= b}
<1>1. PICK m \in T : \A k \in T : m <= k
  <2>1. T \in SUBSET Nat /\ T # {}
    OBVIOUS
  <2> HIDE DEF T
  <2>2. QED BY <2>1, LeastNatural
<1>2. m \in S
  <2> SUFFICES ASSUME m \notin S PROVE FALSE
    OBVIOUS
  <2>1. \A x \in S : x < m
    OBVIOUS
  <2>2. m # 0
    <3>1. PICK x \in S : TRUE
      OBVIOUS
    <3>2. QED BY <2>1, <3>1
  <2>3. m - 1 \in T
    BY <2>1, <2>2
  <2>4. QED BY <1>1, <2>3
<1>3. \E x \in S : \A y \in S : x >= y
  BY <1>2
<1>4. QED
  BY <1>3 DEF Max

(* The least of a set of numbers.                                           *)
LEMMA LeastOfSet ==
  ASSUME NEW S \in SUBSET Nat, S # {}
  PROVE  Min(S) \in S /\ Min(S) \in Nat /\ \A x \in S : Min(S) <= x
<1>1. \E m \in S : \A k \in S : m <= k
  BY LeastNatural
<1>2. QED
  BY <1>1 DEF Min

(* The greater and the lesser of two.                                       *)
LEMMA MaxOfTwo ==
  ASSUME NEW a \in Nat, NEW b \in Nat
  PROVE  Max({a, b}) = IF a >= b THEN a ELSE b
<1>1. Max({a, b}) \in {a, b} /\ \A x \in {a, b} : Max({a, b}) >= x
  <2>1. \E x \in {a, b} : \A y \in {a, b} : x >= y
    OBVIOUS
  <2>2. QED BY <2>1 DEF Max
<1>2. QED
  BY <1>1

LEMMA MinOfTwo ==
  ASSUME NEW a \in Nat, NEW b \in Nat
  PROVE  Min({a, b}) = IF a <= b THEN a ELSE b
<1>1. Min({a, b}) \in {a, b} /\ \A x \in {a, b} : Min({a, b}) <= x
  <2>1. \E x \in {a, b} : \A y \in {a, b} : x <= y
    OBVIOUS
  <2>2. QED BY <2>1 DEF Min
<1>2. QED
  BY <1>1

(* Finitely many natural numbers have a bound.                              *)
LEMMA FiniteBound ==
  ASSUME NEW n \in Nat, NEW f, \A i \in 1 .. n : f[i] \in Nat
  PROVE  \E b \in Nat : \A i \in 1 .. n : f[i] <= b
<1> DEFINE Bounded(k) == \E b \in Nat : \A i \in 1 .. k : f[i] <= b
           T == {k \in 0 .. n : ~Bounded(k)}
<1>1. T = {}
  <2> SUFFICES ASSUME T # {} PROVE FALSE
    OBVIOUS
  <2>1. PICK m \in T : \A k \in T : m <= k
    <3>1. T \in SUBSET Nat
      OBVIOUS
    <3> HIDE DEF T
    <3>2. QED BY <3>1, LeastNatural
  <2>2. m # 0
    <3>1. \A i \in 1 .. 0 : f[i] <= 0
      OBVIOUS
    <3>2. Bounded(0)
      BY <3>1
    <3>3. QED BY <3>2
  <2>3. m \in 1 .. n /\ m - 1 \in 0 .. n /\ m - 1 < m
    BY <2>2
  <2>4. m - 1 \notin T
    <3>1. \A k \in T : m <= k
      BY <2>1
    <3>2. T \subseteq Nat
      OBVIOUS
    <3> HIDE DEF T
    <3>3. QED BY <2>3, <3>1, <3>2
  <2>5. PICK b \in Nat : \A i \in 1 .. m - 1 : f[i] <= b
    BY <2>3, <2>4
  <2>6. PICK c \in Nat : b <= c /\ f[m] <= c
    <3>1. f[m] \in Nat
      BY <2>3
    <3>2. CASE b <= f[m] BY <3>1, <3>2
    <3>3. CASE f[m] <= b BY <3>1, <3>3
    <3>4. QED BY <3>1, <3>2, <3>3
  <2>7. \A i \in 1 .. m : f[i] <= c
    <3> TAKE i \in 1 .. m
    <3>1. CASE i = m BY <2>6, <3>1
    <3>2. CASE i \in 1 .. m - 1
      <4>1. f[i] <= b /\ f[i] \in Nat
        BY <2>3, <2>5, <3>2
      <4>2. QED BY <2>6, <4>1
    <3>3. QED BY <2>3, <3>1, <3>2
  <2>8. QED
    BY <2>7
<1>2. Bounded(n)
  BY <1>1, SMTT(30)
<1>3. QED
  BY <1>2

(* align_up is the least multiple that is not smaller.                      *)
LEMMA AlignUp ==
  ASSUME NEW v \in Nat, NEW a \in Nat \ {0}
  PROVE  /\ align_up(v, a) \in Nat
         /\ v <= align_up(v, a) /\ align_up(v, a) < v + a
         /\ align_up(v, a) % a = 0
<1>1. PICK q \in Nat : q = (v + a - 1) \div a
  OBVIOUS
<1>2. q * a <= v + a - 1 /\ v + a - 1 < q * a + a
  BY <1>1
<1>3. PICK m \in Nat : m = q * a
  OBVIOUS
<1>4. align_up(v, a) = m
  BY <1>1, <1>3 DEF align_up
<1>5. v <= m /\ m < v + a
  BY <1>2, <1>3
<1>6. m % a = 0
  BY <1>3
<1>7. QED
  BY <1>3, <1>4, <1>5, <1>6

(* Multiples of an alignment.                                               *)
LEMMA Divides ==
  ASSUME NEW v \in Nat, NEW a \in Nat \ {0}, v % a = 0
  PROVE  \E k \in Nat : v = k * a
OBVIOUS

LEMMA AlignedStays ==
  ASSUME NEW v \in Nat, NEW a \in Nat \ {0}, v % a = 0
  PROVE  align_up(v, a) = v
<1>1. PICK k \in Nat : v = k * a
  BY Divides
<1>2. (v + a - 1) \div a = k
  BY <1>1
<1>3. QED
  BY <1>1, <1>2 DEF align_up

LEMMA AlignedSum ==
  ASSUME NEW v \in Nat, NEW w \in Nat, NEW a \in Nat \ {0}, v % a = 0, w % a = 0
  PROVE  (v + w) % a = 0
<1>1. PICK j \in Nat : v = j * a
  BY Divides
<1>2. PICK k \in Nat : w = k * a
  BY Divides
<1>3. v + w = (j + k) * a
  BY <1>1, <1>2
<1>4. j + k \in Nat /\ \A n \in Nat : (n * a) % a = 0
  OBVIOUS
<1>5. QED
  BY <1>3, <1>4

-----------------------------------------------------------------------------
(* Sequences                                                                *)

-----------------------------------------------------------------------------
(* Cells *)

(* What sequences and their parts are.                                      *)
LEMMA SequenceFacts ==
  ASSUME NEW S, NEW s \in Seq(S)
  PROVE  Len(s) \in Nat /\ DOMAIN s = 1 .. Len(s) /\ \A i \in 1 .. Len(s) : s[i] \in S
OBVIOUS

LEMMA SequencesEqual ==
  ASSUME NEW S, NEW T, NEW s \in Seq(S), NEW t \in Seq(T), Len(s) = Len(t),
         \A i \in 1 .. Len(s) : s[i] = t[i]
  PROVE  s = t
<1>1. s \in Seq(S \union T) /\ t \in Seq(S \union T)
  OBVIOUS
<1>2. QED
  BY <1>1, SeqEqual

LEMMA SubSeqFacts ==
  ASSUME NEW S, NEW s \in Seq(S), NEW from \in Nat, NEW to \in Nat,
         1 <= from, from <= to + 1, to <= Len(s)
  PROVE  /\ SubSeq(s, from, to) \in Seq(S)
         /\ Len(SubSeq(s, from, to)) = (to + 1) - from
         /\ \A i \in 1 .. (to + 1) - from : SubSeq(s, from, to)[i] = s[(from + i) - 1]
<1>1. \A i \in from .. to : s[i] \in S
  OBVIOUS
<1>2. QED
  BY <1>1

(* Slices: what they hold, when one is a given sequence, and when two       *)
(* agree.                                                                   *)
LEMMA SliceFacts ==
  ASSUME NEW S, NEW s \in Seq(S), NEW offset \in Nat, NEW len \in Nat,
         offset + len <= Len(s)
  PROVE  /\ Slice(s, offset, len) \in Seq(S)
         /\ Len(Slice(s, offset, len)) = len
         /\ \A i \in 1 .. len : Slice(s, offset, len)[i] = s[offset + i]
<1>1. offset + 1 \in Nat /\ offset + len \in Nat /\ 1 <= offset + 1
      /\ offset + 1 <= (offset + len) + 1
      /\ ((offset + len) + 1) - (offset + 1) = len
      /\ \A i \in 1 .. len : ((offset + 1) + i) - 1 = offset + i
  OBVIOUS
<1>2. QED
  BY <1>1, SubSeqFacts DEF Slice

LEMMA SliceOf ==
  ASSUME NEW S, NEW s \in Seq(S), NEW t \in Seq(S), NEW offset \in Nat,
         offset + Len(t) <= Len(s),
         \A i \in 1 .. Len(t) : s[offset + i] = t[i]
  PROVE  Slice(s, offset, Len(t)) = t
<1>1. Len(t) \in Nat
  OBVIOUS
<1> DEFINE part == Slice(s, offset, Len(t))
<1>2. /\ part \in Seq(S) /\ Len(part) = Len(t)
      /\ \A i \in 1 .. Len(t) : part[i] = s[offset + i]
  BY <1>1, SliceFacts
<1> HIDE DEF part
<1>3. part = t
  BY <1>2, SequencesEqual
<1>4. QED
  BY <1>3 DEF part

LEMMA SameSlice ==
  ASSUME NEW S, NEW s \in Seq(S), NEW t \in Seq(S), NEW offset \in Nat, NEW len \in Nat,
         offset + len <= Len(s), offset + len <= Len(t),
         \A i \in offset + 1 .. offset + len : s[i] = t[i]
  PROVE  Slice(s, offset, len) = Slice(t, offset, len)
<1>1. \A i \in 1 .. len : Slice(s, offset, len)[i] = Slice(t, offset, len)[i]
  <2> TAKE i \in 1 .. len
  <2>1. offset + i \in offset + 1 .. offset + len
    OBVIOUS
  <2>2. QED BY <2>1, SliceFacts
<1>2. QED
  BY <1>1, SliceFacts, SequencesEqual

(* Files made longer, written to and concatenated.                          *)
LEMMA ResizedFacts ==
  ASSUME NEW S, Zero \in S, NEW s \in Seq(S), NEW len \in Nat
  PROVE  /\ Resized(s, len) \in Seq(S) /\ Len(Resized(s, len)) = len
         /\ \A i \in 1 .. len : Resized(s, len)[i] = IF i <= Len(s) THEN s[i] ELSE Zero
<1>1. \A i \in 1 .. len : (IF i <= Len(s) THEN s[i] ELSE Zero) \in S
  OBVIOUS
<1>2. QED
  BY <1>1 DEF Resized

LEMMA WrittenFacts ==
  ASSUME NEW S, Zero \in S, NEW s \in Seq(S), NEW offset \in Nat, NEW data \in Seq(S)
  PROVE  LET end == offset + Len(data)
             w   == Written(s, offset, data)
         IN  /\ w \in Seq(S)
             /\ Len(w) = IF Len(s) >= end THEN Len(s) ELSE end
             /\ \A i \in 1 .. Len(w) :
                  w[i] = IF i \in offset + 1 .. end THEN data[i - offset]
                         ELSE IF i <= Len(s) THEN s[i] ELSE Zero
<1> DEFINE end == offset + Len(data)
           len == IF Len(s) >= end THEN Len(s) ELSE end
           w   == [i \in 1 .. len |-> IF i - offset \in DOMAIN data THEN data[i - offset]
                                      ELSE IF i <= Len(s) THEN s[i] ELSE Zero]
<1>1. end \in Nat /\ len \in Nat /\ Len(s) \in Nat
  OBVIOUS
<1>2. Written(s, offset, data) = w
  <2>1. Max({Len(s), end}) = len
    BY <1>1, MaxOfTwo
  <2>2. QED BY <2>1 DEF Written
<1>3. \A i \in 1 .. len : i - offset \in DOMAIN data <=> i \in offset + 1 .. end
  OBVIOUS
<1>4. \A i \in 1 .. len :
        (IF i - offset \in DOMAIN data THEN data[i - offset]
         ELSE IF i <= Len(s) THEN s[i] ELSE Zero) \in S
  OBVIOUS
<1>5. w \in Seq(S) /\ Len(w) = len
  BY <1>1, <1>4
<1>6. \A i \in 1 .. len : w[i] = IF i \in offset + 1 .. end THEN data[i - offset]
                                 ELSE IF i <= Len(s) THEN s[i] ELSE Zero
  BY <1>3
<1>7. QED
  BY <1>2, <1>5, <1>6

LEMMA ConcatFacts ==
  ASSUME NEW S, NEW s \in Seq(S), NEW t \in Seq(S)
  PROVE  /\ s \o t \in Seq(S) /\ Len(s \o t) = Len(s) + Len(t)
         /\ \A i \in 1 .. Len(s) : (s \o t)[i] = s[i]
         /\ \A i \in 1 .. Len(t) : (s \o t)[Len(s) + i] = t[i]
<1>1. \A i \in 1 .. Len(t) : (s \o t)[Len(s) + i] = t[i]
  <2> TAKE i \in 1 .. Len(t)
  <2>1. Len(s) + i \in 1 .. Len(s) + Len(t) /\ Len(s) + i > Len(s) /\ (Len(s) + i) - Len(s) = i
    OBVIOUS
  <2>2. QED BY <2>1, ConcatProperties
<1>2. QED
  BY <1>1, ConcatProperties

-----------------------------------------------------------------------------
(* PE images: sections and the anchor                                       *)

-----------------------------------------------------------------------------
(* PE images *)

(* The greatest of finitely many numbers.                                   *)
LEMMA MaxOver ==
  ASSUME NEW n \in Nat, NEW f, \A i \in 1 .. n : f[i] \in Nat,
         NEW I \in SUBSET (1 .. n), NEW base \in Nat
  PROVE  LET m == Max({base} \union {f[i] : i \in I})
         IN  /\ m \in Nat /\ base <= m /\ \A i \in I : f[i] <= m
             /\ m = base \/ \E i \in I : m = f[i]
<1> DEFINE S == {base} \union {f[i] : i \in I}
<1>1. PICK b \in Nat : \A i \in 1 .. n : f[i] <= b
  BY FiniteBound
<1>2. PICK c \in Nat : b <= c /\ base <= c
  <2>1. CASE b <= base BY <2>1
  <2>2. CASE base <= b BY <2>2
  <2>3. QED BY <2>1, <2>2
<1>3. S \in SUBSET Nat /\ S # {} /\ \A x \in S : x <= c
  <2>1. \A i \in I : f[i] \in Nat /\ f[i] <= c
    BY <1>1, <1>2
  <2>2. QED BY <1>2, <2>1
<1>4. Max(S) \in S /\ Max(S) \in Nat /\ \A x \in S : x <= Max(S)
  <2> HIDE DEF S
  <2>1. QED BY <1>3, GreatestNatural
<1>5. QED
  BY <1>4

(* Numbers of a section, and of an image.                                   *)
LEMMA SectionFacts ==
  ASSUME NEW s \in PeSections
  PROVE  /\ {s.va, s.vsize, s.raw, s.size} \subseteq Nat
         /\ RawEnd(s) = s.raw + s.size /\ RawEnd(s) \in Nat
         /\ VirtualSpan(s) \in Nat /\ VirtualSpan(s) >= s.vsize /\ VirtualSpan(s) >= s.size
         /\ VirtualSpan(s) \in {s.vsize, s.size}
         /\ VirtualEnd(s) = s.va + VirtualSpan(s) /\ VirtualEnd(s) \in Nat
<1>1. {s.va, s.vsize, s.raw, s.size} \subseteq Nat
  BY DEF PeSections
<1>2. VirtualSpan(s) = IF s.vsize >= s.size THEN s.vsize ELSE s.size
  BY <1>1, MaxOfTwo DEF VirtualSpan
<1>3. QED
  BY <1>1, <1>2 DEF RawEnd, VirtualEnd

LEMMA ImageFacts ==
  ASSUME NEW image \in PeImages
  PROVE  /\ Len(image.sections) \in Nat
         /\ DOMAIN image.sections = 1 .. Len(image.sections)
         /\ \A i \in DOMAIN image.sections : image.sections[i] \in PeSections
         /\ Backed(image) \subseteq Mapped(image) /\ Mapped(image) \subseteq DOMAIN image.sections
         /\ {image.table, image.headers, image.size, image.fileAlignment,
             image.sectionAlignment} \subseteq Nat
<1>1. image.sections \in Seq(PeSections)
  BY DEF PeImages
<1>2. \A i \in DOMAIN image.sections : image.sections[i] \in PeSections
  BY <1>1
<1>3. ASSUME NEW i \in Backed(image) PROVE i \in Mapped(image)
  <2>1. i \in DOMAIN image.sections /\ image.sections[i].size # 0
        /\ image.sections[i] \in PeSections
    BY <1>2, <1>3 DEF Backed
  <2>2. image.sections[i].size \in Nat /\ VirtualSpan(image.sections[i]) \in Nat
        /\ VirtualSpan(image.sections[i]) >= image.sections[i].size
    BY <2>1, SectionFacts
  <2>3. QED BY <2>1, <2>2 DEF Mapped
<1>4. QED
  BY <1>1, <1>2, <1>3 DEF PeImages, Mapped

(* The ends of the raw data and of the memory of all sections.              *)
LEMMA RawEndBound ==
  ASSUME NEW image \in PeImages
  PROVE  LET m == max_raw_end(image)
         IN  /\ m \in Nat /\ image.headers <= m
             /\ \A i \in Backed(image) : RawEnd(image.sections[i]) <= m
             /\ m = image.headers \/ \E i \in Backed(image) : m = RawEnd(image.sections[i])
<1> DEFINE n == Len(image.sections)
           f == [i \in 1 .. n |-> RawEnd(image.sections[i])]
<1>1. n \in Nat /\ image.headers \in Nat /\ DOMAIN image.sections = 1 .. n
      /\ Backed(image) \in SUBSET (1 .. n)
  BY ImageFacts
<1>2. \A i \in 1 .. n : f[i] \in Nat /\ f[i] = RawEnd(image.sections[i])
  BY ImageFacts, SectionFacts
<1>3. {RawEnd(image.sections[i]) : i \in Backed(image)} = {f[i] : i \in Backed(image)}
  BY <1>1, <1>2
<1> HIDE DEF f, n
<1> DEFINE base == image.headers
           m == Max({base} \union {f[i] : i \in Backed(image)})
<1>4. base \in Nat /\ max_raw_end(image) = m
  BY <1>1, <1>3 DEF max_raw_end
<1> HIDE DEF base
<1>5. /\ m \in Nat /\ base <= m /\ \A i \in Backed(image) : f[i] <= m
      /\ m = base \/ \E i \in Backed(image) : m = f[i]
  <2>1. n \in Nat /\ base \in Nat /\ Backed(image) \in SUBSET (1 .. n)
        /\ \A i \in 1 .. n : f[i] \in Nat
    BY <1>1, <1>2, <1>4
  <2>2. QED BY <2>1, MaxOver
<1> HIDE DEF m
<1>6. QED
  BY <1>1, <1>2, <1>4, <1>5 DEF base

LEMMA VirtualEndBound ==
  ASSUME NEW image \in PeImages
  PROVE  LET m == max_virtual_end(image)
         IN  /\ m \in Nat
             /\ \A i \in Mapped(image) : VirtualEnd(image.sections[i]) <= m
             /\ m = 0 \/ \E i \in Mapped(image) : m = VirtualEnd(image.sections[i])
<1> DEFINE n == Len(image.sections)
           f == [i \in 1 .. n |-> VirtualEnd(image.sections[i])]
<1>1. n \in Nat /\ DOMAIN image.sections = 1 .. n /\ Mapped(image) \in SUBSET (1 .. n)
  BY ImageFacts
<1>2. \A i \in 1 .. n : f[i] \in Nat /\ f[i] = VirtualEnd(image.sections[i])
  BY ImageFacts, SectionFacts
<1>3. {VirtualEnd(image.sections[i]) : i \in Mapped(image)} = {f[i] : i \in Mapped(image)}
  BY <1>1, <1>2
<1> HIDE DEF f, n
<1> DEFINE base == 0
           m == Max({base} \union {f[i] : i \in Mapped(image)})
<1>4. base \in Nat /\ max_virtual_end(image) = m
  BY <1>1, <1>3 DEF max_virtual_end
<1> HIDE DEF base
<1>5. /\ m \in Nat /\ base <= m /\ \A i \in Mapped(image) : f[i] <= m
      /\ m = base \/ \E i \in Mapped(image) : m = f[i]
  <2>1. n \in Nat /\ base \in Nat /\ Mapped(image) \in SUBSET (1 .. n)
        /\ \A i \in 1 .. n : f[i] \in Nat
    BY <1>1, <1>2, <1>4
  <2>2. QED BY <2>1, MaxOver
<1> HIDE DEF m
<1>6. QED
  BY <1>1, <1>2, <1>4, <1>5 DEF base

(* The last of some sections.                                               *)
LEMMA LastOf ==
  ASSUME NEW image \in PeImages, NEW I \in SUBSET DOMAIN image.sections, I # {}
  PROVE  Max(I) \in I /\ Max(I) \in Nat /\ \A i \in I : i <= Max(I)
<1>1. I \in SUBSET Nat /\ Len(image.sections) \in Nat
      /\ \A i \in I : i <= Len(image.sections)
  BY ImageFacts
<1>2. QED
  BY <1>1, GreatestNatural

(* Sections are adjacent in memory, so later ones end later, and the first  *)
(* of them begins behind the headers.                                       *)
LEMMA SectionsAscend ==
  ASSUME NEW image \in PeImages, image.sectionAlignment # 0, PeVirtualAccepted(image),
         NEW i \in Mapped(image), NEW j \in Mapped(image), i < j
  PROVE  VirtualEnd(image.sections[i]) <= image.sections[j].va
<1> DEFINE End(k) == VirtualEnd(image.sections[k])
           Va(k) == image.sections[k].va
           Bad == {k \in Mapped(image) : \E l \in Mapped(image) : l < k /\ End(l) > Va(k)}
<1>0. \A k \in Mapped(image) : k \in Nat /\ End(k) \in Nat /\ Va(k) \in Nat /\ Va(k) <= End(k)
  <2> TAKE k \in Mapped(image)
  <2>1. k \in DOMAIN image.sections /\ image.sections[k] \in PeSections /\ k \in Nat
    BY ImageFacts
  <2>2. QED BY <2>1, SectionFacts
<1> SUFFICES ASSUME Bad # {} PROVE FALSE
  BY <1>0
<1>1. PICK k \in Bad : \A m \in Bad : k <= m
  <2>1. Bad \in SUBSET Nat
    BY <1>0
  <2> HIDE DEF Bad
  <2>2. QED BY <2>1, LeastNatural
<1>2. PICK l \in Mapped(image) : l < k /\ End(l) > Va(k)
  BY <1>1
<1> DEFINE Before == {m \in Mapped(image) : m < k}
           prev == Max(Before)
<1>3. prev \in Before /\ \A m \in Before : m <= prev
  <2>1. Before \in SUBSET DOMAIN image.sections /\ Before # {}
    BY <1>2, ImageFacts
  <2> HIDE DEF Before
  <2>2. QED BY <2>1, LastOf
<1>4. Va(k) = align_up(End(prev), image.sectionAlignment)
  BY <1>1, <1>3 DEF PeVirtualAccepted
<1>5. End(prev) <= Va(k)
  <2>1. End(prev) \in Nat /\ image.sectionAlignment \in Nat \ {0}
    BY <1>0, <1>3, ImageFacts
  <2>2. QED BY <1>4, <2>1, AlignUp
<1>6. l # prev /\ l < prev
  <2>1. l \in Before /\ l \in Nat /\ prev \in Nat
    BY <1>0, <1>2, <1>3
  <2>2. l # prev
    BY <1>0, <1>1, <1>2, <1>3, <1>5
  <2>3. l <= prev
    BY <1>3, <2>1
  <2>4. QED BY <2>1, <2>2, <2>3
<1>7. prev \in Bad
  <2>1. End(l) > Va(prev)
    <3>1. {End(l), End(prev), Va(prev), Va(k)} \subseteq Nat /\ Va(prev) <= End(prev)
          /\ End(prev) <= Va(k) /\ End(l) > Va(k)
      BY <1>0, <1>1, <1>2, <1>3, <1>5
    <3>2. QED BY <3>1
  <2>2. QED BY <1>2, <1>3, <1>6, <2>1
<1>8. k <= prev /\ prev < k /\ k \in Nat /\ prev \in Nat
  <2>1. k <= prev
    BY <1>1, <1>7
  <2>2. QED BY <1>0, <1>1, <1>3, <2>1
<1>9. QED
  BY <1>8

(* What the checks of the headers leave of the alignments.                  *)
LEMMA Alignments ==
  ASSUME NEW image \in PeImages, NEW len, PeHeadersAccepted(image, len)
  PROVE  /\ image.fileAlignment \in Nat \ {0} /\ image.sectionAlignment \in Nat \ {0}
         /\ image.headers % image.fileAlignment = 0
         /\ LowAlignment(image) => image.sectionAlignment = image.fileAlignment
<1>1. /\ image.fileAlignment \in FileAlignments /\ image.sectionAlignment \in SectionAlignments
      /\ image.headers % image.fileAlignment = 0
      /\ LowAlignment(image) => image.sectionAlignment = image.fileAlignment
  BY DEF PeHeadersAccepted
<1>2. FileAlignments \subseteq Nat \ {0} /\ SectionAlignments \subseteq Nat \ {0}
  BY LayoutAssumption
<1>3. QED
  BY <1>1, <1>2

(* The memory of an image ends with its last section, behind the headers.   *)
LEMMA LastIsMapped ==
  ASSUME NEW image \in PeImages, image.sectionAlignment # 0, PeVirtualAccepted(image),
         Mapped(image) # {}
  PROVE  /\ Max(Mapped(image)) \in Mapped(image)
         /\ \A i \in Mapped(image) : i <= Max(Mapped(image))
         /\ max_virtual_end(image) = VirtualEnd(image.sections[Max(Mapped(image))])
         /\ image.headers <= max_virtual_end(image)
<1> DEFINE End(i) == VirtualEnd(image.sections[i])
           last == Max(Mapped(image))
<1>0. \A i \in Mapped(image) : i \in Nat /\ End(i) \in Nat /\ image.sections[i].va \in Nat
                               /\ image.sections[i].va <= End(i)
  <2> TAKE i \in Mapped(image)
  <2>1. i \in DOMAIN image.sections /\ image.sections[i] \in PeSections /\ i \in Nat
    BY ImageFacts
  <2>2. QED BY <2>1, SectionFacts
<1>1. last \in Mapped(image) /\ \A i \in Mapped(image) : i <= last
  BY ImageFacts, LastOf
<1>2. \A i \in Mapped(image) : End(i) <= End(last)
  <2> TAKE i \in Mapped(image)
  <2>1. CASE i = last
    BY <1>0, <1>1, <2>1
  <2>2. CASE i < last
    <3>1. End(i) <= image.sections[last].va
      BY <1>1, <2>2, SectionsAscend
    <3>2. QED BY <1>0, <1>1, <3>1
  <2>3. QED BY <1>0, <1>1, <2>1, <2>2
<1>3. max_virtual_end(image) = End(last) /\ max_virtual_end(image) \in Nat
  <2>1. /\ max_virtual_end(image) \in Nat /\ End(last) <= max_virtual_end(image)
        /\ max_virtual_end(image) = 0 \/ \E i \in Mapped(image) : max_virtual_end(image) = End(i)
    BY <1>1, VirtualEndBound
  <2>2. CASE max_virtual_end(image) = 0
    BY <1>0, <1>1, <2>1, <2>2
  <2>3. CASE \E i \in Mapped(image) : max_virtual_end(image) = End(i)
    BY <1>0, <1>1, <1>2, <2>1, <2>3
  <2>4. QED BY <2>1, <2>2, <2>3
<1>4. image.headers <= max_virtual_end(image)
  <2>1. PICK i \in Mapped(image) : \A j \in Mapped(image) : i <= j
    <3>1. Mapped(image) \in SUBSET Nat
      BY <1>0
    <3>2. QED BY <3>1, LeastNatural
  <2>2. {j \in Mapped(image) : j < i} = {}
    BY <1>0, <2>1
  <2>3. image.sections[i].va >= align_up(image.headers, image.sectionAlignment)
    BY <2>2 DEF PeVirtualAccepted
  <2>4. image.headers \in Nat /\ image.sectionAlignment \in Nat \ {0}
    BY ImageFacts
  <2>5. align_up(image.headers, image.sectionAlignment) \in Nat
        /\ image.headers <= align_up(image.headers, image.sectionAlignment)
    BY <2>4, AlignUp
  <2>6. image.headers <= End(i) /\ End(i) <= End(last) /\ End(i) \in Nat /\ End(last) \in Nat
    <3>1. image.headers <= End(i)
      BY <1>0, <2>3, <2>4, <2>5
    <3>2. QED BY <1>0, <1>1, <1>2, <3>1
  <2>7. QED BY <1>3, <2>4, <2>6
<1>5. QED
  BY <1>1, <1>3, <1>4

(* A new anchor begins behind all there is, in the file and in memory, and  *)
(* is aligned in both.                                                      *)
LEMMA AnchorFacts ==
  ASSUME NEW image \in PeImages, NEW len, PeHeadersAccepted(image, len),
         PeRawAccepted(image, len), PeVirtualAccepted(image), Backed(image) # {}
  PROVE  LET a == AnchorSection(image)
         IN  /\ a \in PeSections /\ a.name = Anchor
             /\ a.vsize = FooterLen /\ a.size = align_up(FooterLen, image.fileAlignment)
             /\ a.size >= FooterLen /\ a.size % image.fileAlignment = 0
             /\ a.raw >= max_raw_end(image) /\ a.raw % image.fileAlignment = 0
             /\ LowAlignment(image) => a.raw = a.va
             /\ a.va = align_up(max_virtual_end(image), image.sectionAlignment)
             /\ a.va >= max_virtual_end(image) /\ a.va % image.sectionAlignment = 0
<1> DEFINE a  == AnchorSection(image)
           fa == image.fileAlignment
           sa == image.sectionAlignment
           rawEnd == max_raw_end(image)
           vaEnd == max_virtual_end(image)
           va == align_up(vaEnd, sa)
           size == align_up(FooterLen, fa)
<1>1. /\ fa \in Nat \ {0} /\ sa \in Nat \ {0} /\ image.headers % fa = 0
      /\ LowAlignment(image) => sa = fa
  BY Alignments
<1>2. rawEnd \in Nat /\ vaEnd \in Nat /\ FooterLen \in Nat
  BY RawEndBound, VirtualEndBound DEF FooterLen
<1>5. a = [name |-> Anchor, va |-> va, vsize |-> FooterLen,
           raw |-> IF LowAlignment(image) THEN va ELSE rawEnd, size |-> size]
  BY DEF AnchorSection
<1>7. rawEnd % fa = 0
  <2>1. CASE rawEnd = image.headers
    BY <1>1, <2>1
  <2>2. ASSUME NEW i \in Backed(image), rawEnd = RawEnd(image.sections[i])
        PROVE  rawEnd % fa = 0
    <3> DEFINE s == image.sections[i]
    <3>1. s \in PeSections
      BY ImageFacts
    <3>2. s.raw % fa = 0 /\ s.size % fa = 0
      BY DEF PeRawAccepted
    <3>3. s.raw \in Nat /\ s.size \in Nat /\ RawEnd(s) = s.raw + s.size
      BY <3>1, SectionFacts
    <3> HIDE DEF s, fa
    <3>4. (s.raw + s.size) % fa = 0
      BY <1>1, <3>2, <3>3, AlignedSum
    <3>5. QED BY <2>2, <3>3, <3>4 DEF s
  <2>3. QED BY <2>1, <2>2, RawEndBound
<1>8. LowAlignment(image) => rawEnd <= vaEnd
  <2> SUFFICES ASSUME LowAlignment(image) PROVE rawEnd <= vaEnd
    OBVIOUS
  <2>1. CASE rawEnd = image.headers
    <3>1. Mapped(image) # {} /\ image.sectionAlignment # 0
      BY <1>1, ImageFacts
    <3>2. image.headers <= vaEnd
      BY <3>1, LastIsMapped
    <3>3. QED BY <2>1, <3>2
  <2>2. ASSUME NEW i \in Backed(image), rawEnd = RawEnd(image.sections[i])
        PROVE  rawEnd <= vaEnd
    <3> DEFINE s == image.sections[i]
    <3>1. s \in PeSections /\ i \in Mapped(image)
      BY ImageFacts
    <3>2. s.raw = s.va
      BY DEF PeRawAccepted
    <3>3. VirtualEnd(s) <= vaEnd
      BY <3>1, VirtualEndBound
    <3> HIDE DEF s, vaEnd
    <3>4. RawEnd(s) <= VirtualEnd(s) /\ RawEnd(s) \in Nat /\ VirtualEnd(s) \in Nat
      BY <3>1, <3>2, SectionFacts
    <3>5. RawEnd(s) <= vaEnd
      BY <1>2, <3>3, <3>4
    <3>6. QED BY <2>2, <3>5 DEF s
  <2>3. QED BY <2>1, <2>2, RawEndBound
<1> HIDE DEF a, fa, sa, rawEnd, vaEnd
<1>3. va \in Nat /\ va >= vaEnd /\ va % sa = 0
  BY <1>1, <1>2, AlignUp
<1>4. size \in Nat /\ size >= FooterLen /\ size % fa = 0
  BY <1>1, <1>2, AlignUp
<1> HIDE DEF va, size
<1>6. a \in PeSections
  <2>1. PICK raw \in Nat : raw = IF LowAlignment(image) THEN va ELSE rawEnd
    BY <1>2, <1>3
  <2>2. a = [name |-> Anchor, va |-> va, vsize |-> FooterLen, raw |-> raw, size |-> size]
    BY <1>5, <2>1
  <2>3. QED BY <1>2, <1>3, <1>4, <2>2 DEF PeSections
<1>9. a.raw >= rawEnd /\ a.raw % fa = 0
  <2>1. CASE LowAlignment(image)
    <3>1. a.raw = va /\ sa = fa /\ rawEnd <= vaEnd
      BY <1>1, <1>5, <1>8, <2>1
    <3>2. QED BY <1>2, <1>3, <3>1
  <2>2. CASE ~LowAlignment(image)
    BY <1>2, <1>5, <1>7, <2>2
  <2>3. QED BY <2>1, <2>2
<1>11. LowAlignment(image) => a.raw = a.va
  BY <1>5
<1>12. /\ a.name = Anchor /\ a.vsize = FooterLen /\ a.size = size /\ a.va = va
  BY <1>5
<1>10. QED
  BY <1>3, <1>4, <1>6, <1>9, <1>11, <1>12 DEF a, fa, sa, rawEnd, vaEnd, va, size

(* What an image is after the anchor is added behind its sections.          *)
WithAnchor(image, size) ==
  [image EXCEPT !.sections = Append(@, AnchorSection(image)), !.size = size]

(* The sections of an image with an anchor.                                 *)
LEMMA AddedSection ==
  ASSUME NEW image \in PeImages, NEW size \in Nat, AnchorSection(image) \in PeSections
  PROVE  LET new == WithAnchor(image, size)
             n   == Len(image.sections)
         IN  /\ new \in PeImages
             /\ Len(new.sections) = n + 1
             /\ \A i \in 1 .. n : new.sections[i] = image.sections[i]
             /\ new.sections[n + 1] = AnchorSection(image)
             /\ new.executable = image.executable /\ new.table = image.table
             /\ new.headers = image.headers /\ new.machine = image.machine
             /\ new.fileAlignment = image.fileAlignment
             /\ new.sectionAlignment = image.sectionAlignment
             /\ new.certificate = image.certificate
             /\ new.size = size
<1> DEFINE new == WithAnchor(image, size)
           n == Len(image.sections)
           a == AnchorSection(image)
<1>1. image.sections \in Seq(PeSections)
  BY DEF PeImages
<1>2. new.sections = Append(image.sections, a)
  BY DEF WithAnchor, PeImages
<1> HIDE DEF a
<1>3. /\ new.sections \in Seq(PeSections) /\ Len(new.sections) = n + 1
      /\ \A i \in 1 .. n : new.sections[i] = image.sections[i]
      /\ new.sections[n + 1] = a
  BY <1>1, <1>2 DEF a
<1>4. /\ new.executable = image.executable /\ new.table = image.table
      /\ new.headers = image.headers /\ new.machine = image.machine
      /\ new.fileAlignment = image.fileAlignment
      /\ new.sectionAlignment = image.sectionAlignment
      /\ new.certificate = image.certificate
      /\ new.size = size
  BY DEF WithAnchor, PeImages
<1>5. new \in PeImages
  BY <1>3, <1>4 DEF WithAnchor, PeImages
<1>6. QED
  BY <1>3, <1>4, <1>5 DEF a

(* The layout of an image with a new anchor.                                *)
LEMMA AnchoredLayout ==
  ASSUME NEW image \in PeImages, NEW len \in Nat, NEW newlen \in Nat, NEW size \in Nat,
         PeHeadersAccepted(image, len), PeRawAccepted(image, len), PeVirtualAccepted(image),
         Anchors(image) = {}, Backed(image) # {},
         image.table + Len(image.sections) + 1 <= image.headers,
         Len(image.sections) + 1 <= MaxSections,
         size = Max({align_up(VirtualEnd(AnchorSection(image)), image.sectionAlignment),
                     image.size}),
         size <= MaxImageSize, len = max_raw_end(image),
         RawEnd(AnchorSection(image)) <= newlen
  PROVE  LET new == WithAnchor(image, size)
         IN  /\ PeHeadersAccepted(new, newlen)
             /\ PeRawAccepted(new, newlen)
             /\ PeVirtualAccepted(new)
             /\ PeAnchorAccepted(new)
             /\ Anchors(new) = {Len(image.sections) + 1}
             /\ AnchorOf(new) = AnchorSection(image)
             /\ max_raw_end(new) = RawEnd(AnchorSection(image))
<1> DEFINE new == WithAnchor(image, size)
           n == Len(image.sections)
           a == AnchorSection(image)
           fa == image.fileAlignment
           sa == image.sectionAlignment
<1>1. /\ fa \in Nat \ {0} /\ sa \in Nat \ {0} /\ image.headers % fa = 0
      /\ LowAlignment(image) => sa = fa
  BY Alignments
<1>2. /\ a \in PeSections /\ a.name = Anchor
      /\ a.vsize = FooterLen /\ a.size = align_up(FooterLen, fa)
      /\ a.size >= FooterLen /\ a.size % fa = 0
      /\ a.raw >= max_raw_end(image) /\ a.raw % fa = 0
      /\ LowAlignment(image) => a.raw = a.va
      /\ a.va = align_up(max_virtual_end(image), sa)
      /\ a.va >= max_virtual_end(image) /\ a.va % sa = 0
  BY AnchorFacts
<1>3. /\ new \in PeImages /\ Len(new.sections) = n + 1
      /\ \A i \in 1 .. n : new.sections[i] = image.sections[i]
      /\ new.sections[n + 1] = a
      /\ new.executable = image.executable /\ new.table = image.table
      /\ new.headers = image.headers
      /\ new.fileAlignment = fa /\ new.sectionAlignment = sa
      /\ new.size = size
  BY <1>2, AddedSection
<1>4. n \in Nat /\ DOMAIN image.sections = 1 .. n /\ DOMAIN new.sections = 1 .. n + 1
  BY <1>3, ImageFacts
<1> HIDE DEF new
<1>5. /\ RawEnd(a) = a.raw + a.size /\ VirtualEnd(a) = a.va + VirtualSpan(a)
      /\ VirtualSpan(a) \in Nat /\ VirtualSpan(a) >= a.size
      /\ a.raw \in Nat /\ a.va \in Nat /\ a.size \in Nat /\ a.size # 0 /\ VirtualSpan(a) # 0
  BY <1>2, SectionFacts DEF FooterLen
<1>6. Anchors(new) = {n + 1}
  <2>1. \A i \in 1 .. n : image.sections[i].name # Anchor
    BY <1>4 DEF Anchors
  <2>2. \A i : i \in Anchors(new) <=> i \in DOMAIN new.sections /\ new.sections[i].name = Anchor
    BY DEF Anchors
  <2>3. n + 1 \in Anchors(new)
    BY <1>2, <1>3, <1>4, <2>2
  <2>4. ASSUME NEW i \in Anchors(new) PROVE i = n + 1
    <3>1. i \in 1 .. n + 1 /\ new.sections[i].name = Anchor
      BY <1>4, <2>2
    <3>2. QED BY <1>3, <1>4, <2>1, <3>1
  <2>5. QED BY <2>3, <2>4
<1>7. AnchorOf(new) = a
  BY <1>3, <1>6 DEF AnchorOf
<1>8. Backed(new) = Backed(image) \union {n + 1}
  <2>1. \A i : i \in Backed(image) <=> i \in 1 .. n /\ image.sections[i].size # 0
    BY <1>4 DEF Backed
  <2>2. \A i : i \in Backed(new) <=> i \in 1 .. n + 1 /\ new.sections[i].size # 0
    BY <1>4 DEF Backed
  <2>3. \A i : i \in 1 .. n + 1 <=> i \in 1 .. n \/ i = n + 1
    BY <1>4
  <2>4. \A i : i \in Backed(new) <=> i \in Backed(image) \union {n + 1}
    <3> TAKE i
    <3>1. CASE i = n + 1
      BY <1>3, <1>5, <2>2, <2>3, <3>1
    <3>2. CASE i # n + 1
      BY <1>3, <2>1, <2>2, <2>3, <3>2
    <3>3. QED BY <3>1, <3>2
  <2>5. QED BY <2>4
<1>9. Mapped(new) = Mapped(image) \union {n + 1}
  <2>1. \A i : i \in Mapped(image) <=> i \in 1 .. n /\ VirtualSpan(image.sections[i]) # 0
    BY <1>4 DEF Mapped
  <2>2. \A i : i \in Mapped(new) <=> i \in 1 .. n + 1 /\ VirtualSpan(new.sections[i]) # 0
    BY <1>4 DEF Mapped
  <2>3. \A i : i \in 1 .. n + 1 <=> i \in 1 .. n \/ i = n + 1
    BY <1>4
  <2>4. \A i : i \in Mapped(new) <=> i \in Mapped(image) \union {n + 1}
    <3> TAKE i
    <3>1. CASE i = n + 1
      BY <1>3, <1>5, <2>2, <2>3, <3>1
    <3>2. CASE i # n + 1
      BY <1>3, <2>1, <2>2, <2>3, <3>2
    <3>3. QED BY <3>1, <3>2
  <2>5. QED BY <2>4
<1>10. max_raw_end(image) \in Nat /\ max_virtual_end(image) \in Nat
  BY RawEndBound, VirtualEndBound
<1>11. max_raw_end(new) = RawEnd(a)
  <2>1. /\ max_raw_end(new) \in Nat /\ RawEnd(new.sections[n + 1]) <= max_raw_end(new)
        /\ \/ max_raw_end(new) = new.headers
           \/ \E i \in Backed(new) : max_raw_end(new) = RawEnd(new.sections[i])
    BY <1>3, <1>8, RawEndBound
  <2>2. image.headers <= max_raw_end(image) /\ image.headers \in Nat
    BY RawEndBound, ImageFacts
  <2>3. ASSUME NEW i \in Backed(new), max_raw_end(new) = RawEnd(new.sections[i])
        PROVE  max_raw_end(new) <= RawEnd(a)
    <3>1. CASE i = n + 1
      BY <1>3, <1>5, <2>3, <3>1, SMTT(30)
    <3>2. CASE i # n + 1
      <4>1. i \in Backed(image) /\ new.sections[i] = image.sections[i]
        BY <1>3, <1>4, <1>8, <3>2, ImageFacts
      <4>2. RawEnd(image.sections[i]) <= max_raw_end(image)
        BY <4>1, RawEndBound
      <4>3. max_raw_end(new) <= max_raw_end(image)
        BY <2>3, <4>1, <4>2
      <4>4. QED BY <1>2, <1>5, <1>10, <2>1, <4>3
    <3>3. QED BY <3>1, <3>2
  <2>4. max_raw_end(new) <= RawEnd(a)
    <3>1. CASE max_raw_end(new) = new.headers
      BY <1>2, <1>3, <1>5, <1>10, <2>2, <3>1
    <3>2. QED BY <2>1, <2>3, <3>1
  <2>5. RawEnd(a) <= max_raw_end(new) /\ max_raw_end(new) \in Nat
    BY <1>3, <2>1
  <2>6. RawEnd(a) \in Nat
    BY <1>5
  <2>7. QED BY <2>4, <2>5, <2>6
<1>12. max_virtual_end(new) = VirtualEnd(a)
  <2>1. /\ max_virtual_end(new) \in Nat /\ VirtualEnd(new.sections[n + 1]) <= max_virtual_end(new)
        /\ \/ max_virtual_end(new) = 0
           \/ \E i \in Mapped(new) : max_virtual_end(new) = VirtualEnd(new.sections[i])
    BY <1>3, <1>9, VirtualEndBound
  <2>3. ASSUME NEW i \in Mapped(new), max_virtual_end(new) = VirtualEnd(new.sections[i])
        PROVE  max_virtual_end(new) <= VirtualEnd(a)
    <3>1. CASE i = n + 1
      BY <1>3, <1>5, <2>1, <2>3, <3>1
    <3>2. CASE i # n + 1
      <4>1. i \in Mapped(image) /\ new.sections[i] = image.sections[i]
        BY <1>3, <1>4, <1>9, <3>2, ImageFacts
      <4>2. VirtualEnd(image.sections[i]) <= max_virtual_end(image)
        BY <4>1, VirtualEndBound
      <4>3. max_virtual_end(new) <= max_virtual_end(image)
        BY <2>3, <4>1, <4>2
      <4>4. QED BY <1>2, <1>5, <1>10, <2>1, <4>3
    <3>3. QED BY <3>1, <3>2
  <2>4. max_virtual_end(new) <= VirtualEnd(a)
    <3>1. CASE max_virtual_end(new) = 0
      BY <1>5, <3>1
    <3>2. QED BY <2>1, <2>3, <3>1
  <2>5. VirtualEnd(a) <= max_virtual_end(new) /\ VirtualEnd(a) \in Nat
    BY <1>3, <1>5, <2>1
  <2>6. QED BY <2>1, <2>4, <2>5
<1>13. size % sa = 0 /\ align_up(VirtualEnd(a), sa) <= size
  <2>1. align_up(VirtualEnd(a), sa) \in Nat /\ align_up(VirtualEnd(a), sa) % sa = 0
    <3>1. VirtualEnd(a) \in Nat
      BY <1>5
    <3> HIDE DEF a, sa
    <3>2. QED BY <1>1, <3>1, AlignUp
  <2>2. image.size \in Nat /\ image.size % sa = 0
    BY ImageFacts DEF PeHeadersAccepted
  <2> DEFINE needed == align_up(VirtualEnd(a), sa)
             given == image.size
  <2>3. size = Max({needed, given})
    OBVIOUS
  <2> HIDE DEF needed, given
  <2>4. needed \in Nat /\ given \in Nat
    BY <2>1, <2>2 DEF needed, given
  <2>5. size = IF needed >= given THEN needed ELSE given
    BY <2>3, <2>4, MaxOfTwo
  <2>6. size \in {needed, given} /\ needed <= size
    BY <2>4, <2>5
  <2>7. QED BY <2>1, <2>2, <2>6 DEF needed, given
<1>14. PeHeadersAccepted(new, newlen)
  <2>1. /\ image.executable /\ n \in 1 .. MaxSections
        /\ image.table + n <= image.headers
        /\ fa \in FileAlignments /\ sa \in SectionAlignments
        /\ IF LowAlignment(image) THEN sa = fa ELSE sa >= fa
    BY DEF PeHeadersAccepted
  <2>2. LowAlignment(new) = LowAlignment(image)
    BY <1>3 DEF LowAlignment
  <2>3. image.headers \in Nat /\ image.headers <= max_raw_end(image) /\ image.table \in Nat
    BY RawEndBound, ImageFacts
  <2>4. image.headers <= newlen
    BY <1>2, <1>5, <1>10, <2>3
  <2>5. Len(new.sections) \in 1 .. MaxSections
    <3>1. MaxSections \in Nat
      BY LayoutAssumption
    <3>2. QED BY <1>3, <1>4, <3>1
  <2>6. new.table + Len(new.sections) <= new.headers
    BY <1>3, <1>4, <2>3
  <2>7. IF LowAlignment(new) THEN sa = fa ELSE sa >= fa
    BY <2>1, <2>2
  <2>8. QED BY <1>1, <1>3, <1>13, <2>1, <2>4, <2>5, <2>6, <2>7 DEF PeHeadersAccepted
<1>15. PeRawAccepted(new, newlen)
  <2>1. \A i \in DOMAIN new.sections : RawEnd(new.sections[i]) <= newlen
    <3> SUFFICES ASSUME NEW i \in DOMAIN new.sections PROVE RawEnd(new.sections[i]) <= newlen
      OBVIOUS
    <3>1. CASE i = n + 1
      BY <1>3, <3>1
    <3>2. CASE i \in Backed(image)
      <4>1. RawEnd(image.sections[i]) <= max_raw_end(image) /\ RawEnd(image.sections[i]) \in Nat
        BY <3>2, RawEndBound, ImageFacts, SectionFacts
      <4>2. new.sections[i] = image.sections[i]
        BY <1>3, <1>4, <3>2, ImageFacts
      <4>3. max_raw_end(image) <= newlen
        BY <1>2, <1>5, <1>10
      <4>4. QED BY <1>10, <4>1, <4>2, <4>3
    <3>3. CASE i # n + 1 /\ i \notin Backed(image)
      <4>1. i \in 1 .. n /\ new.sections[i] = image.sections[i]
        BY <1>3, <1>4, <3>3, SMTT(30)
      <4>2. RawEnd(image.sections[i]) <= max_raw_end(image) /\ RawEnd(image.sections[i]) \in Nat
        BY <1>4, <4>1, ImageFacts, SectionFacts DEF PeRawAccepted
      <4>3. max_raw_end(image) <= newlen
        BY <1>2, <1>5, <1>10
      <4>4. QED BY <1>10, <4>1, <4>2, <4>3
    <3>4. QED BY <3>1, <3>2, <3>3
  <2>2. ASSUME NEW i \in Backed(new)
        PROVE  LET s == new.sections[i] IN
                 /\ s.raw >= new.headers
                 /\ s.raw % fa = 0 /\ s.size % fa = 0
                 /\ LowAlignment(new) => s.raw = s.va
                 /\ \A j \in Backed(new) : j < i => RawEnd(new.sections[j]) <= s.raw
    <3> DEFINE s == new.sections[i]
    <3>1. LowAlignment(new) = LowAlignment(image)
      BY <1>3 DEF LowAlignment
    <3>2. image.headers <= max_raw_end(image) /\ image.headers \in Nat
      BY RawEndBound, ImageFacts
    <3>3. CASE i = n + 1
      <4>1. s = a
        BY <1>3, <3>3
      <4>2. a.raw >= new.headers
        BY <1>2, <1>3, <1>5, <1>10, <3>2
      <4>3. ASSUME NEW j \in Backed(new), j < i PROVE RawEnd(new.sections[j]) <= a.raw
        <5>1. j \in Backed(image) /\ new.sections[j] = image.sections[j]
          <6>1. j # n + 1
            BY <1>4, <3>3, <4>3
          <6>2. j \in Backed(image) /\ j \in 1 .. n
            BY <1>4, <1>8, <6>1, ImageFacts
          <6>3. QED BY <1>3, <6>2
        <5>2. RawEnd(image.sections[j]) <= max_raw_end(image) /\ RawEnd(image.sections[j]) \in Nat
          BY <5>1, RawEndBound, ImageFacts, SectionFacts
        <5>3. QED BY <1>2, <1>5, <1>10, <5>1, <5>2
      <4>4. QED BY <1>2, <3>1, <4>1, <4>2, <4>3
    <3>4. CASE i # n + 1
      <4>1. i \in Backed(image) /\ i \in 1 .. n /\ s = image.sections[i]
        BY <1>3, <1>4, <1>8, <3>4, ImageFacts
      <4>2. /\ s.raw >= image.headers
            /\ s.raw % fa = 0 /\ s.size % fa = 0
            /\ LowAlignment(image) => s.raw = s.va
            /\ \A j \in Backed(image) : j < i => RawEnd(image.sections[j]) <= s.raw
        BY <4>1 DEF PeRawAccepted
      <4>3. ASSUME NEW j \in Backed(new), j < i PROVE RawEnd(new.sections[j]) <= s.raw
        <5>1. j \in Backed(image) /\ new.sections[j] = image.sections[j]
          <6>1. j # n + 1
            BY <1>4, <4>1, <4>3
          <6>2. j \in Backed(image) /\ j \in 1 .. n
            BY <1>4, <1>8, <6>1, ImageFacts
          <6>3. QED BY <1>3, <6>2
        <5>2. QED BY <4>2, <4>3, <5>1
      <4>4. QED BY <1>3, <3>1, <4>2, <4>3
    <3>5. QED BY <3>3, <3>4
  <2>3. QED BY <1>3, <2>1, <2>2 DEF PeRawAccepted
<1>16. PeVirtualAccepted(new)
  <2> DEFINE last == Max(Mapped(image))
             before(i) == {j \in Mapped(new) : j < i}
             align(v) == align_up(v, sa)
  <2>1. Mapped(image) # {}
    BY ImageFacts
  <2>2. /\ last \in Mapped(image) /\ last \in 1 .. n
        /\ max_virtual_end(image) = VirtualEnd(image.sections[last])
    BY <1>1, <1>4, <2>1, LastIsMapped, ImageFacts
  <2>3. ASSUME NEW i \in Mapped(new)
        PROVE  LET s == new.sections[i]
               IN  /\ s.va % sa = 0
                   /\ IF before(i) = {} THEN s.va >= align(new.headers)
                      ELSE s.va = align(VirtualEnd(new.sections[Max(before(i))]))
    <3>1. CASE i = n + 1
      <4>1. before(i) = Mapped(image)
        <5>1. \A j \in Mapped(image) : j \in 1 .. n
          BY <1>4, ImageFacts
        <5>2. \A j \in 1 .. n : j < n + 1 /\ j # n + 1
          BY <1>4
        <5>3. \A j : j \in Mapped(new) /\ j # n + 1 <=> j \in Mapped(image)
          BY <1>9, <5>1, <5>2
        <5>4. \A j \in Mapped(new) : j < n + 1 <=> j # n + 1
          BY <1>4, <1>9, <5>1, <5>2
        <5>5. QED BY <3>1, <5>3, <5>4
      <4>2. new.sections[i] = a /\ new.sections[Max(before(i))] = image.sections[last]
        BY <1>3, <2>2, <3>1, <4>1
      <4>3. QED BY <1>2, <2>1, <2>2, <4>1, <4>2
    <3>2. CASE i # n + 1
      <4> DEFINE was == {j \in Mapped(image) : j < i}
      <4>1. i \in Mapped(image) /\ i \in 1 .. n /\ new.sections[i] = image.sections[i]
        BY <1>3, <1>4, <1>9, <3>2, ImageFacts
      <4>2. before(i) = was
        <5>1. ~(n + 1 < i)
          BY <1>4, <4>1
        <5>2. \A j : j \in before(i) <=> j \in was
          BY <1>9, <5>1
        <5>3. QED BY <5>2
      <4>3. /\ image.sections[i].va % sa = 0
            /\ IF was = {} THEN image.sections[i].va >= align(image.headers)
               ELSE image.sections[i].va = align(VirtualEnd(image.sections[Max(was)]))
        BY <4>1 DEF PeVirtualAccepted
      <4>4. CASE was = {}
        BY <1>3, <4>1, <4>2, <4>3, <4>4
      <4>5. CASE was # {}
        <5>1. was \in SUBSET DOMAIN image.sections
          BY ImageFacts
        <5>2. Max(was) \in was
          BY <4>5, <5>1, LastOf
        <5>3. Max(was) \in 1 .. n
          BY <1>4, <5>1, <5>2
        <5>4. new.sections[Max(was)] = image.sections[Max(was)]
          BY <1>3, <5>3
        <5>5. QED BY <4>1, <4>2, <4>3, <4>5, <5>4
      <4>6. QED BY <4>4, <4>5
    <3>3. QED BY <3>1, <3>2
  <2>4. align_up(max_virtual_end(new), sa) <= new.size
    BY <1>3, <1>12, <1>13
  <2>5. QED
    BY <1>3, <2>3, <2>4 DEF PeVirtualAccepted
<1>17. PeAnchorAccepted(new)
  BY <1>2, <1>3, <1>6, <1>11, <1>12 DEF PeAnchorAccepted
<1>18. QED
  BY <1>6, <1>7, <1>11, <1>14, <1>15, <1>16, <1>17 DEF new

-----------------------------------------------------------------------------
(* Payloads and stamped PE files                                            *)

(* Where the data of a PE stamp lies.                                       *)
LEMMA PayloadFacts ==
  ASSUME NEW anchorEnd \in Nat, NEW len \in Nat
  PROVE  LET start == PayloadStart(anchorEnd, len)
             end   == PayloadEnd(anchorEnd, len)
         IN  /\ start \in Nat /\ end \in Nat /\ anchorEnd <= start /\ start + len = end
             /\ end % CertificateAlignment = 0
<1>1. CertificateAlignment \in Nat \ {0} /\ anchorEnd + len \in Nat
  BY LayoutAssumption
<1>2. /\ PayloadEnd(anchorEnd, len) \in Nat /\ anchorEnd + len <= PayloadEnd(anchorEnd, len)
      /\ PayloadEnd(anchorEnd, len) % CertificateAlignment = 0
  BY <1>1, AlignUp DEF PayloadEnd
<1>3. QED
  BY <1>2 DEF PayloadStart

(* One cell is overwritten.                                                 *)
LEMMA OneWritten ==
  ASSUME NEW S, Zero \in S, NEW s \in Seq(S), NEW offset \in Nat, NEW one \in Seq(S),
         Len(one) = 1, offset < Len(s)
  PROVE  LET w == Written(s, offset, one)
         IN  /\ w \in Seq(S) /\ Len(w) = Len(s) /\ w[offset + 1] = one[1]
             /\ \A i \in 1 .. Len(s) : i # offset + 1 => w[i] = s[i]
<1> DEFINE w == Written(s, offset, one)
<1>1. Len(s) \in Nat /\ Len(s) >= offset + Len(one) /\ offset + Len(one) = offset + 1
  OBVIOUS
<1>3. LET end == offset + Len(one) IN
      /\ w \in Seq(S) /\ Len(w) = IF Len(s) >= end THEN Len(s) ELSE end
      /\ \A i \in 1 .. Len(w) : w[i] = IF i \in offset + 1 .. end THEN one[i - offset]
                                       ELSE IF i <= Len(s) THEN s[i] ELSE Zero
  BY <1>1, WrittenFacts
<1> HIDE DEF w
<1>4. Len(w) = Len(s)
  BY <1>1, <1>3
<1>5. w[offset + 1] = one[1]
  <2>1. offset + 1 \in 1 .. Len(s) /\ offset + 1 \in offset + 1 .. offset + 1 /\ (offset + 1) - offset = 1
    BY <1>1
  <2>2. w[offset + 1] = one[(offset + 1) - offset]
    BY <1>1, <1>3, <1>4, <2>1
  <2>3. QED BY <1>1, <2>1, <2>2
<1>6. ASSUME NEW i \in 1 .. Len(s), i # offset + 1 PROVE w[i] = s[i]
  <2>1. i \notin offset + 1 .. offset + 1 /\ i <= Len(s)
    BY <1>1, <1>6
  <2>2. QED BY <1>1, <1>3, <1>4, <2>1
<1>7. QED
  BY <1>3, <1>4, <1>5, <1>6 DEF w

(* What the three writes of a PE stamp leave in the file.                   *)
PeStampOf(cells, header, data, anchorEnd, raw, foot, slot, command) ==
  LET content == header \o data
      start   == PayloadStart(anchorEnd, Len(content))
      body    == Written(Resized(cells, start), start, content)
  IN  Written(Written(body, raw, foot), slot, command)

PeStampIn(S, new, cells, header, data, anchorEnd, raw, foot, slot) ==
  LET len   == Len(header) + Len(data)
      start == PayloadStart(anchorEnd, len)
      end   == PayloadEnd(anchorEnd, len)
  IN  /\ new \in Seq(S) /\ Len(new) = end
      /\ new[raw + 1] = foot[1]
      /\ \A i \in raw + 2 .. start : new[i] = Zero
      /\ Slice(new, start, Len(header)) = header
      /\ Slice(new, start + Len(header), Len(data)) = data
      /\ \A i \in 1 .. Len(cells) : i # slot + 1 => new[i] = cells[i]

(* The cells of a stamped PE image are the bundle, the header, the footer,  *)
(* a section header and otherwise those of the template.                    *)
LEMMA PeStampCells ==
  ASSUME NEW S, Zero \in S, NEW cells \in Seq(S),
         NEW header \in Seq(S), NEW data \in Seq(S),
         NEW foot \in Seq(S), Len(foot) = 1, NEW command \in Seq(S), Len(command) = 1,
         NEW slot \in Nat, NEW raw \in Nat, NEW anchorEnd \in Nat,
         slot < raw, raw < anchorEnd, Len(cells) <= raw
  PROVE  PeStampIn(S, PeStampOf(cells, header, data, anchorEnd, raw, foot, slot, command),
                   cells, header, data, anchorEnd, raw, foot, slot)
<1> DEFINE content == header \o data
           len   == Len(content)
           start == PayloadStart(anchorEnd, len)
           end   == PayloadEnd(anchorEnd, len)
           base  == Resized(cells, start)
           body  == Written(base, start, content)
           two   == Written(body, raw, foot)
           new   == Written(two, slot, command)
<1>1. /\ content \in Seq(S) /\ len = Len(header) + Len(data)
      /\ Len(header) \in Nat /\ Len(data) \in Nat /\ len \in Nat /\ Len(cells) \in Nat
      /\ \A i \in 1 .. Len(header) : content[i] = header[i]
      /\ \A i \in 1 .. Len(data) : content[Len(header) + i] = data[i]
  BY ConcatFacts
<1>2. /\ start \in Nat /\ end \in Nat /\ anchorEnd <= start /\ start + len = end
  <2> HIDE DEF len
  <2>1. QED BY <1>1, PayloadFacts
<1> HIDE DEF content, len, start, end
<1>3. /\ base \in Seq(S) /\ Len(base) = start
      /\ \A i \in 1 .. start : base[i] = IF i <= Len(cells) THEN cells[i] ELSE Zero
  BY <1>2, ResizedFacts
<1> HIDE DEF base
<1>4. /\ body \in Seq(S) /\ Len(body) = end
      /\ \A i \in 1 .. end : body[i] = IF i \in start + 1 .. end THEN content[i - start]
                                       ELSE IF i <= start THEN base[i] ELSE Zero
  <2>1. LET e == start + Len(content) IN
          /\ body \in Seq(S)
          /\ Len(body) = IF Len(base) >= e THEN Len(base) ELSE e
          /\ \A i \in 1 .. Len(body) :
               body[i] = IF i \in start + 1 .. e THEN content[i - start]
                         ELSE IF i <= Len(base) THEN base[i] ELSE Zero
    BY <1>1, <1>2, <1>3, WrittenFacts
  <2>2. start + Len(content) = end /\ end >= start
    BY <1>1, <1>2 DEF len
  <2>3. Len(body) = end
    BY <1>2, <1>3, <2>1, <2>2
  <2>4. QED BY <1>3, <2>1, <2>2, <2>3
<1> HIDE DEF body
<1>5. /\ two \in Seq(S) /\ Len(two) = end
      /\ two[raw + 1] = foot[1]
      /\ \A i \in 1 .. end : i # raw + 1 => two[i] = body[i]
  <2>1. raw < Len(body) /\ Len(body) = end /\ body \in Seq(S)
    BY <1>1, <1>2, <1>4
  <2>2. /\ two \in Seq(S) /\ Len(two) = Len(body) /\ two[raw + 1] = foot[1]
        /\ \A i \in 1 .. Len(body) : i # raw + 1 => two[i] = body[i]
    BY <2>1, OneWritten
  <2>3. QED BY <2>1, <2>2
<1> HIDE DEF two
<1>6. /\ new \in Seq(S) /\ Len(new) = end
      /\ \A i \in 1 .. end : i # slot + 1 => new[i] = two[i]
  <2>1. slot < Len(two) /\ Len(two) = end /\ two \in Seq(S)
    BY <1>1, <1>2, <1>5
  <2>2. /\ new \in Seq(S) /\ Len(new) = Len(two)
        /\ \A i \in 1 .. Len(two) : i # slot + 1 => new[i] = two[i]
    BY <2>1, OneWritten
  <2>3. QED BY <2>1, <2>2
<1> HIDE DEF new
<1>7. new[raw + 1] = foot[1]
  <2>1. raw + 1 \in 1 .. end /\ raw + 1 # slot + 1
    BY <1>1, <1>2, SMTT(30)
  <2>2. QED BY <1>5, <1>6, <2>1
<1>8. ASSUME NEW i \in raw + 2 .. start PROVE new[i] = Zero
  <2>1. i \in 1 .. end /\ i # raw + 1 /\ i # slot + 1 /\ i \notin start + 1 .. end
        /\ i \in 1 .. start /\ ~(i <= Len(cells))
    BY <1>1, <1>2
  <2>2. QED BY <1>3, <1>4, <1>5, <1>6, <2>1
<1>9. ASSUME NEW i \in 1 .. len PROVE new[start + i] = content[i]
  <2>1. /\ start + i \in 1 .. end /\ start + i # raw + 1 /\ start + i # slot + 1
        /\ start + i \in start + 1 .. end /\ (start + i) - start = i
    BY <1>1, <1>2
  <2>2. QED BY <1>4, <1>5, <1>6, <2>1
<1>10. Slice(new, start, Len(header)) = header
  <2>1. \A i \in 1 .. Len(header) : i \in 1 .. len
    BY <1>1
  <2>2. \A i \in 1 .. Len(header) : new[start + i] = header[i]
    BY <1>1, <1>9, <2>1
  <2>3. start + Len(header) <= Len(new) /\ start \in Nat /\ new \in Seq(S)
    BY <1>1, <1>2, <1>6
  <2>4. QED BY <2>2, <2>3, SliceOf
<1>11. Slice(new, start + Len(header), Len(data)) = data
  <2> DEFINE from == start + Len(header)
  <2>1. from \in Nat /\ \A i \in 1 .. Len(data) : from + i = start + (Len(header) + i)
        /\ Len(header) + i \in 1 .. len
    BY <1>1, <1>2
  <2>2. \A i \in 1 .. Len(data) : new[from + i] = data[i]
    BY <1>1, <1>9, <2>1
  <2>3. from + Len(data) <= Len(new) /\ new \in Seq(S)
    BY <1>1, <1>2, <1>6
  <2> HIDE DEF from
  <2>4. Slice(new, from, Len(data)) = data
    BY <2>1, <2>2, <2>3, SliceOf
  <2>5. QED BY <2>4 DEF from
<1>12. ASSUME NEW i \in 1 .. Len(cells), i # slot + 1 PROVE new[i] = cells[i]
  <2>1. i \in 1 .. end /\ i # raw + 1 /\ i \notin start + 1 .. end /\ i \in 1 .. start
    BY <1>1, <1>2
  <2>2. QED BY <1>3, <1>4, <1>5, <1>6, <1>12, <2>1
<1>13. new = PeStampOf(cells, header, data, anchorEnd, raw, foot, slot, command)
  BY DEF PeStampOf, content, len, start, base, body, two, new
<1>14. start = PayloadStart(anchorEnd, Len(header) + Len(data))
       /\ end = PayloadEnd(anchorEnd, Len(header) + Len(data))
  BY <1>1 DEF start, end
<1> HIDE DEF new, start, end
<1>15. PeStampIn(S, new, cells, header, data, anchorEnd, raw, foot, slot)
  BY <1>6, <1>7, <1>8, <1>10, <1>11, <1>12, <1>14 DEF PeStampIn
<1>16. QED
  BY <1>13, <1>15

PeFiles(S) == [format : {"pe"}, image : PeImages, cells : Seq(S)]

(* Where the certificate table of an image begins, or else the end.         *)
PeDataEnd(exe) ==
  IF exe.image.certificate = NoCertificate THEN Len(exe.cells)
                                            ELSE exe.image.certificate.offset

(* What the writer makes of a template, and what signing leaves of it.      *)
PeStamped(exe, template, header, bundled) ==
  LET anchor == AnchorOf(exe.image)
      len    == Len(header) + Len(bundled)
      start  == PayloadStart(RawEnd(anchor), len)
      c      == exe.image.certificate
  IN  /\ PeAccepted(exe)
      /\ c # NoCertificate => CertificateTableAccepted(Slice(exe.cells, c.offset, c.size))
      /\ PlatformFits(exe.image, header)
      /\ Anchors(exe.image) # {}
      /\ \A i \in DOMAIN exe.image.sections :
           RawEnd(exe.image.sections[i]) <= max_raw_end(exe.image)
      /\ exe.cells[anchor.raw + 1] = Footer(header, bundled)
      /\ \A i \in anchor.raw + 2 .. start : exe.cells[i] = Zero
      /\ PayloadEnd(RawEnd(anchor), len) = PeDataEnd(exe)
      /\ Slice(exe.cells, start, Len(header)) = header
      /\ Slice(exe.cells, start + Len(header), Len(bundled)) = bundled
      /\ Len(template.cells) <= anchor.raw
      /\ PeKept(template, exe)

(* The anchor of an image is one of its sections.                           *)
LEMMA AnchorIsSection ==
  ASSUME NEW image \in PeImages, Anchors(image) # {}, PeAnchorAccepted(image), NEW len,
         PeHeadersAccepted(image, len)
  PROVE  LET a == AnchorOf(image)
         IN  /\ a \in PeSections /\ a.size = align_up(FooterLen, image.fileAlignment)
             /\ a.size >= FooterLen
             /\ RawEnd(a) = max_raw_end(image) /\ RawEnd(a) = a.raw + a.size
             /\ a.raw \in Nat /\ a.size \in Nat /\ RawEnd(a) \in Nat /\ a.raw < RawEnd(a)
<1> DEFINE i == CHOOSE i \in Anchors(image) : TRUE
           a == image.sections[i]
           fa == image.fileAlignment
<1>1. i \in Anchors(image) /\ i \in DOMAIN image.sections
  BY DEF Anchors
<1>2. AnchorOf(image) = a
  BY DEF AnchorOf
<1> HIDE DEF i
<1>3. a \in PeSections
  BY <1>1, ImageFacts
<1>4. a.size = align_up(FooterLen, fa) /\ RawEnd(a) = max_raw_end(image)
  BY <1>1 DEF PeAnchorAccepted
<1>5. fa \in Nat \ {0} /\ FooterLen \in Nat
  BY Alignments DEF FooterLen
<1> HIDE DEF fa
<1>6. align_up(FooterLen, fa) >= FooterLen
  <2>1. align_up(FooterLen, fa) \in Nat /\ FooterLen <= align_up(FooterLen, fa)
    BY <1>5, AlignUp
  <2>2. QED BY <1>5, <2>1
<1>7. RawEnd(a) = a.raw + a.size /\ a.raw \in Nat /\ a.size \in Nat
  BY <1>3, SectionFacts
<1>8. a.raw < RawEnd(a) /\ RawEnd(a) \in Nat
  BY <1>4, <1>6, <1>7 DEF FooterLen
<1> HIDE DEF a
<1>9. QED
  BY <1>2, <1>3, <1>4, <1>6, <1>7, <1>8 DEF fa

(* A stamp the reader finds.                                                *)
LEMMA PeStampedReads ==
  ASSUME NEW S, Zero \in S, NEW exe \in PeFiles(S), NEW template,
         NEW header \in Seq(S), NEW bundled \in Seq(S),
         PeStamped(exe, template, header, bundled)
  PROVE  ReadsAs(exe, header, bundled)
<1> DEFINE image == exe.image
           a     == AnchorOf(image)
           len   == Len(header) + Len(bundled)
           start == PayloadStart(RawEnd(a), len)
           end   == PayloadEnd(RawEnd(a), len)
           c     == image.certificate
           footer == Footer(header, bundled)
           data  == [found |-> "data", header |-> header,
                     offset |-> start + Len(header), bundle |-> bundled]
<1>1. /\ PeAccepted(exe)
      /\ c # NoCertificate => CertificateTableAccepted(Slice(exe.cells, c.offset, c.size))
      /\ PlatformFits(image, header)
      /\ Anchors(image) # {}
      /\ exe.cells[a.raw + 1] = footer
      /\ \A i \in a.raw + 2 .. start : exe.cells[i] = Zero
      /\ end = PeDataEnd(exe)
      /\ Slice(exe.cells, start, Len(header)) = header
      /\ Slice(exe.cells, start + Len(header), Len(bundled)) = bundled
  BY DEF PeStamped
<1>2. image \in PeImages /\ exe.cells \in Seq(S) /\ exe.format = "pe" /\ Len(exe.cells) \in Nat
  BY DEF PeFiles
<1>3. /\ a.raw \in Nat /\ a.size \in Nat /\ a.size >= FooterLen
      /\ RawEnd(a) = a.raw + a.size /\ RawEnd(a) \in Nat
  BY <1>1, <1>2, AnchorIsSection DEF PeAccepted
<1>4. len \in Nat /\ Len(header) \in Nat /\ Len(bundled) \in Nat
  OBVIOUS
<1>5. start \in Nat /\ end \in Nat /\ RawEnd(a) <= start /\ start + len = end
  BY <1>3, <1>4, PayloadFacts
<1>6. end <= Len(exe.cells)
  <2>1. CASE c = NoCertificate
    BY <1>1, <1>2, <2>1 DEF PeDataEnd
  <2>2. CASE c # NoCertificate
    <3>1. c.offset + c.size = Len(exe.cells) /\ c.offset \in Nat /\ c.size \in Nat
      BY <1>1, <1>2, <2>2 DEF PeAccepted, PeCertificateAccepted, PeImages
    <3>2. QED BY <1>1, <2>2, <3>1 DEF PeDataEnd
  <2>3. QED BY <2>1, <2>2
<1>7. footer[1] = "footer" /\ footer[2] = header /\ footer[3] = bundled
  BY DEF Footer
<1> HIDE DEF footer, start, end, len
<1>15. start <= Len(exe.cells) /\ a.raw + a.size <= start
  BY <1>2, <1>3, <1>4, <1>5, <1>6
<1>16. a.size >= 1
  BY <1>3 DEF FooterLen
<1>8. ZeroRange(exe.cells, a.raw + FooterLen, a.size - FooterLen)
  <2>1. ASSUME NEW i \in (a.raw + FooterLen) + 1 .. (a.raw + FooterLen) + (a.size - FooterLen)
        PROVE  i <= Len(exe.cells) /\ exe.cells[i] = Zero
    <3>0. i \in Int /\ i >= a.raw + 2 /\ i <= a.raw + a.size
      BY <1>3 DEF FooterLen
    <3> HIDE DEF a
    <3>1. i \in a.raw + 2 .. start /\ i <= Len(exe.cells)
      BY <1>2, <1>3, <1>5, <1>15, <3>0
    <3>2. QED BY <1>1, <3>1
  <2>2. QED BY <2>1 DEF ZeroRange
<1>9. ZeroRange(exe.cells, RawEnd(a), start - RawEnd(a))
  <2>1. ASSUME NEW i \in RawEnd(a) + 1 .. RawEnd(a) + (start - RawEnd(a))
        PROVE  i <= Len(exe.cells) /\ exe.cells[i] = Zero
    <3>0. i \in Int /\ i >= (a.raw + a.size) + 1 /\ i <= start
      <4>1. i \in Int /\ i >= RawEnd(a) + 1 /\ i <= start
        <5> DEFINE e == RawEnd(a)
        <5>1. e \in Nat /\ start \in Nat /\ i \in e + 1 .. e + (start - e)
          BY <1>3, <1>5
        <5> HIDE DEF e
        <5>2. i \in Int /\ i >= e + 1 /\ i <= start
          BY <5>1
        <5>3. QED BY <5>2 DEF e
      <4>2. QED BY <1>3, <4>1
    <3>3. PICK raw \in Nat, size \in Nat, to \in Nat, total \in Nat :
            raw = a.raw /\ size = a.size /\ to = start /\ total = Len(exe.cells)
      BY <1>2, <1>3, <1>5
    <3>4. size >= 1 /\ to <= total /\ i \in Int /\ i >= (raw + size) + 1 /\ i <= to
      BY <1>15, <1>16, <3>0, <3>3
    <3>5. i \in raw + 2 .. to /\ i <= total
      BY <3>4
    <3>1. i \in a.raw + 2 .. start /\ i <= Len(exe.cells)
      BY <3>3, <3>5
    <3>2. QED BY <1>1, <3>1
  <2>2. QED BY <2>1 DEF ZeroRange
<1>10. Payload(exe.cells, start, footer) = data
  <2>1. start + Len(header) <= Len(exe.cells)
    BY <1>2, <1>4, <1>5, <1>6 DEF len
  <2>2. QED BY <1>1, <1>7, <2>1 DEF Payload
<1>11. ReadPeAnchored(exe) = data
  <2>1. IsFooter(footer)
    BY <1>7 DEF IsFooter
  <2>2. Len(footer[2]) + Len(footer[3]) = len
    BY <1>7 DEF len
  <2>3. QED
    BY <1>1, <1>8, <1>9, <1>10, <2>1, <2>2 DEF ReadPeAnchored, PeDataEnd, start, end
<1>12. read_pe_runtime_data(exe) = data
  <2>1. data.found = "data" /\ data.header = header
    OBVIOUS
  <2> HIDE DEF data
  <2>2. OnPlatform(image, data) = data
    BY <1>1, <2>1 DEF OnPlatform
  <2>3. QED
    BY <1>1, <1>11, <2>2 DEF read_pe_runtime_data
<1>13. ReadRuntimeData(exe) = data
  BY <1>2, <1>12 DEF ReadRuntimeData
<1>14. QED
  BY <1>1, <1>13 DEF ReadsAs

(* The writer makes a stamp of every template it accepts.                   *)
LEMMA PeWritten ==
  ASSUME NEW S, Zero \in S, Command \in S, NEW exe \in PeFiles(S),
         NEW header \in Seq(S), NEW bundled \in Seq(S), Footer(header, bundled) \in S,
         write_pe_runtime_data(exe, header, bundled) # Refused
  PROVE  LET new == write_pe_runtime_data(exe, header, bundled)
         IN  new \in PeFiles(S) /\ PeStamped(new, exe, header, bundled)
<1> DEFINE image == exe.image
           n == Len(image.sections)
           anchor == AnchorSection(image)
           sa == image.sectionAlignment
           fa == image.fileAlignment
           content == header \o bundled
           len == Len(header) + Len(bundled)
           start == PayloadStart(RawEnd(anchor), len)
           end == PayloadEnd(RawEnd(anchor), len)
           needed == align_up(anchor.va + VirtualSpan(anchor), sa)
           size == Max({needed, image.size})
           slot == image.table + n
           body == Written(Resized(exe.cells, start), start, content)
           cells == Written(Written(body, anchor.raw, <<Footer(header, bundled)>>), slot, <<Command>>)
           withAnchor == WithAnchor(image, size)
           new == [format |-> "pe", image |-> withAnchor, cells |-> cells]
<1>1. /\ image \in PeImages /\ exe.cells \in Seq(S) /\ exe.format = "pe"
      /\ Len(exe.cells) \in Nat /\ n \in Nat
      /\ Len(header) \in Nat /\ Len(bundled) \in Nat /\ len \in Nat /\ Len(content) = len
      /\ image.table \in Nat /\ image.headers \in Nat /\ image.size \in Nat
  <2>1. image \in PeImages /\ exe.cells \in Seq(S) /\ exe.format = "pe"
    BY DEF PeFiles
  <2>2. Len(content) = len
    BY ConcatFacts
  <2>3. QED BY <2>1, <2>2, ImageFacts
<1>2. PeTemplateAccepted(exe, header) /\ size <= MaxImageSize
      /\ write_pe_runtime_data(exe, header, bundled) = new
  <2>1. PeTemplateAccepted(exe, header) /\ ~(end > MaxOffset) /\ ~(size > MaxImageSize)
    BY <1>1 DEF write_pe_runtime_data
  <2>2. write_pe_runtime_data(exe, header, bundled) = new
    BY <1>1, <2>1 DEF write_pe_runtime_data, WithAnchor
  <2>3. MaxImageSize \in Nat /\ size \in Nat
    <3>1. PeHeadersAccepted(image, Len(exe.cells)) /\ PeRawAccepted(image, Len(exe.cells))
          /\ PeVirtualAccepted(image) /\ Backed(image) # {}
      BY <2>1 DEF PeTemplateAccepted, PeAccepted
    <3>2. anchor \in PeSections
      BY <1>1, <3>1, AnchorFacts
    <3>3. VirtualEnd(anchor) = anchor.va + VirtualSpan(anchor) /\ VirtualEnd(anchor) \in Nat
      BY <3>2, SectionFacts
    <3>4. sa \in Nat \ {0}
      BY <1>1, <3>1, Alignments
    <3>5. needed \in Nat
      BY <3>3, <3>4, AlignUp
    <3> HIDE DEF needed
    <3>6. size \in Nat
      BY <1>1, <3>5, MaxOfTwo
    <3>7. QED BY <3>6, LayoutAssumption
  <2> HIDE DEF size
  <2>4. QED BY <2>1, <2>2, <2>3
<1>3. /\ PeHeadersAccepted(image, Len(exe.cells)) /\ PeRawAccepted(image, Len(exe.cells))
      /\ PeVirtualAccepted(image) /\ PlatformFits(image, header) /\ Anchors(image) = {}
      /\ image.certificate = NoCertificate /\ Len(exe.cells) = max_raw_end(image)
      /\ Backed(image) # {} /\ slot + 1 <= image.headers /\ n + 1 <= MaxSections
  BY <1>2 DEF PeTemplateAccepted, PeAccepted
<1>4. /\ anchor \in PeSections /\ anchor.size >= FooterLen /\ anchor.raw >= max_raw_end(image)
      /\ anchor.raw \in Nat /\ anchor.size \in Nat /\ RawEnd(anchor) = anchor.raw + anchor.size
      /\ VirtualEnd(anchor) = anchor.va + VirtualSpan(anchor) /\ VirtualEnd(anchor) \in Nat
      /\ RawEnd(anchor) \in Nat /\ anchor.raw < RawEnd(anchor)
  <2>1. anchor \in PeSections /\ anchor.size >= FooterLen /\ anchor.raw >= max_raw_end(image)
    BY <1>1, <1>3, AnchorFacts
  <2>2. /\ anchor.raw \in Nat /\ anchor.size \in Nat /\ RawEnd(anchor) = anchor.raw + anchor.size
        /\ VirtualEnd(anchor) = anchor.va + VirtualSpan(anchor) /\ VirtualEnd(anchor) \in Nat
    BY <2>1, SectionFacts
  <2>3. anchor.size >= 1
    BY <2>1 DEF FooterLen
  <2> HIDE DEF anchor
  <2>4. QED BY <2>1, <2>2, <2>3
<1>5. sa \in Nat \ {0} /\ needed \in Nat /\ size \in Nat
  <2>1. sa \in Nat \ {0}
    BY <1>1, <1>3, Alignments
  <2>2. needed \in Nat
    BY <1>4, <2>1, AlignUp
  <2> HIDE DEF needed
  <2>3. size \in Nat
    BY <1>1, <2>2, MaxOfTwo
  <2>4. QED BY <2>1, <2>2, <2>3
<1>6. start \in Nat /\ end \in Nat /\ RawEnd(anchor) <= start /\ start + len = end
  BY <1>1, <1>4, PayloadFacts
<1>7. /\ PeHeadersAccepted(withAnchor, end) /\ PeRawAccepted(withAnchor, end)
      /\ PeVirtualAccepted(withAnchor) /\ PeAnchorAccepted(withAnchor)
      /\ Anchors(withAnchor) = {n + 1} /\ AnchorOf(withAnchor) = anchor
      /\ max_raw_end(withAnchor) = RawEnd(anchor)
  <2>1. size = Max({align_up(VirtualEnd(anchor), sa), image.size})
    BY <1>4
  <2>2. RawEnd(anchor) <= end
    <3> HIDE DEF end, start, anchor
    <3>1. QED BY <1>1, <1>4, <1>6
  <2> HIDE DEF size, end
  <2>3. QED BY <1>1, <1>2, <1>3, <1>5, <1>6, <2>1, <2>2, AnchoredLayout
<1>8. /\ withAnchor \in PeImages /\ Len(withAnchor.sections) = n + 1
      /\ \A i \in 1 .. n : withAnchor.sections[i] = image.sections[i]
      /\ withAnchor.sections[n + 1] = anchor
      /\ withAnchor.machine = image.machine /\ withAnchor.certificate = NoCertificate
  <2>1. image \in PeImages /\ size \in Nat /\ anchor \in PeSections
        /\ image.certificate = NoCertificate
    BY <1>1, <1>3, <1>4, <1>5
  <2> HIDE DEF size
  <2>2. QED BY <2>1, AddedSection
<1>9. /\ cells \in Seq(S) /\ Len(cells) = end
      /\ cells[anchor.raw + 1] = Footer(header, bundled)
      /\ \A i \in anchor.raw + 2 .. start : cells[i] = Zero
      /\ Slice(cells, start, Len(header)) = header
      /\ Slice(cells, start + Len(header), Len(bundled)) = bundled
      /\ \A i \in 1 .. Len(exe.cells) : i # slot + 1 => cells[i] = exe.cells[i]
  <2> DEFINE raw == anchor.raw
             anchorEnd == RawEnd(anchor)
             foot == <<Footer(header, bundled)>>
             command == <<Command>>
             old == exe.cells
             was == PeStampOf(old, header, bundled, anchorEnd, raw, foot, slot, command)
  <2>1. slot \in Nat /\ raw \in Nat /\ anchorEnd \in Nat /\ raw < anchorEnd
    <3>1. slot \in Nat
      BY <1>1
    <3> HIDE DEF anchor
    <3>2. QED BY <1>4, <3>1
  <2>2. slot < raw /\ Len(old) <= raw
    <3>1. image.headers <= max_raw_end(image) /\ max_raw_end(image) \in Nat
      BY <1>1, RawEndBound
    <3>2. slot + 1 <= image.headers /\ slot \in Nat /\ Len(exe.cells) = max_raw_end(image)
      BY <1>1, <1>3, SMTT(30)
    <3>3. raw >= max_raw_end(image)
      BY <1>4
    <3>4. image.headers \in Nat
      BY <1>1
    <3> HIDE DEF raw, slot
    <3>5. QED BY <2>1, <3>1, <3>2, <3>3, <3>4
  <2>3. /\ foot \in Seq(S) /\ Len(foot) = 1 /\ foot[1] = Footer(header, bundled)
        /\ command \in Seq(S) /\ Len(command) = 1
    <3> DEFINE cell == Footer(header, bundled)
    <3>1. cell \in S
      OBVIOUS
    <3> HIDE DEF cell
    <3>2. <<cell>> \in Seq(S) /\ Len(<<cell>>) = 1 /\ <<cell>>[1] = cell
      BY <3>1
    <3>3. QED BY <3>2 DEF cell
  <2>4. was = cells
    BY <1>1 DEF PeStampOf
  <2>5. old \in Seq(S)
    BY <1>1
  <2> HIDE DEF raw, anchorEnd, foot, command, old, slot, cells
  <2>6. PeStampIn(S, was, old, header, bundled, anchorEnd, raw, foot, slot)
    BY <2>1, <2>2, <2>3, <2>5, PeStampCells
  <2> HIDE DEF was
  <2>7. start = PayloadStart(anchorEnd, Len(header) + Len(bundled))
        /\ end = PayloadEnd(anchorEnd, Len(header) + Len(bundled))
    BY DEF anchorEnd
  <2> HIDE DEF start, end
  <2>8. /\ cells \in Seq(S) /\ Len(cells) = end
        /\ cells[raw + 1] = Footer(header, bundled)
        /\ \A i \in raw + 2 .. start : cells[i] = Zero
        /\ Slice(cells, start, Len(header)) = header
        /\ Slice(cells, start + Len(header), Len(bundled)) = bundled
        /\ \A i \in 1 .. Len(old) : i # slot + 1 => cells[i] = old[i]
    BY <2>3, <2>4, <2>6, <2>7 DEF PeStampIn
  <2>9. QED BY <2>8 DEF raw, old
<1> HIDE DEF cells, withAnchor, size, needed, body
<1>10. new \in PeFiles(S) /\ new.image = withAnchor /\ new.cells = cells
  BY <1>8, <1>9 DEF PeFiles
<1> HIDE DEF new
<1>11. PeAccepted(new)
  BY <1>7, <1>8, <1>9, <1>10 DEF PeAccepted, PeCertificateAccepted
<1>12. \A i \in DOMAIN withAnchor.sections :
         RawEnd(withAnchor.sections[i]) <= max_raw_end(withAnchor)
  <2> SUFFICES ASSUME NEW i \in 1 .. n + 1
               PROVE  RawEnd(withAnchor.sections[i]) <= RawEnd(anchor)
    BY <1>7, <1>8, ImageFacts
  <2>1. CASE i = n + 1
    BY <1>4, <1>8, <2>1
  <2>2. CASE i \in 1 .. n
    <3>1. withAnchor.sections[i] = image.sections[i] /\ i \in DOMAIN image.sections
      BY <1>1, <1>8, <2>2, ImageFacts
    <3>2. RawEnd(image.sections[i]) <= max_raw_end(image) /\ RawEnd(image.sections[i]) \in Nat
          /\ max_raw_end(image) \in Nat
      BY <1>1, <1>3, <3>1, ImageFacts, SectionFacts, RawEndBound DEF PeRawAccepted
    <3>3. RawEnd(image.sections[i]) <= RawEnd(anchor)
      BY <1>4, <3>2
    <3>4. QED BY <3>1, <3>3
  <2>3. i = n + 1 \/ i \in 1 .. n
    <3> HIDE DEF n
    <3>1. QED BY <1>1
  <2>4. QED BY <2>1, <2>2, <2>3
<1>13. PeKept(exe, new)
  <2>1. SubSeq(withAnchor.sections, 1, n) = image.sections
    <3>1. image.sections \in Seq(PeSections) /\ withAnchor.sections \in Seq(PeSections)
      BY <1>1, <1>8 DEF PeImages
    <3>2. /\ SubSeq(withAnchor.sections, 1, n) \in Seq(PeSections)
          /\ Len(SubSeq(withAnchor.sections, 1, n)) = (n + 1) - 1
          /\ \A i \in 1 .. (n + 1) - 1 :
               SubSeq(withAnchor.sections, 1, n)[i] = withAnchor.sections[(1 + i) - 1]
      BY <1>1, <1>8, <3>1, SubSeqFacts
    <3>3. (n + 1) - 1 = n /\ \A i \in 1 .. n : (1 + i) - 1 = i
      BY <1>1
    <3> DEFINE sub == SubSeq(withAnchor.sections, 1, n)
    <3>4. \A i \in 1 .. n : sub[i] = image.sections[i]
      BY <1>8, <3>2, <3>3
    <3>5. sub \in Seq(PeSections) /\ Len(sub) = n
      BY <3>2, <3>3
    <3> HIDE DEF sub
    <3>6. sub = image.sections
      BY <3>1, <3>4, <3>5, SequencesEqual
    <3>7. QED BY <3>6 DEF sub
  <2>2. \A i \in DOMAIN exe.cells \ {slot + 1} : cells[i] = exe.cells[i]
    <3>1. DOMAIN exe.cells = 1 .. Len(exe.cells)
      BY <1>1
    <3>2. QED BY <1>9, <3>1
  <2>3. QED BY <1>10, <1>11, <2>1, <2>2 DEF PeKept
<1>14. PlatformFits(withAnchor, header)
  BY <1>3, <1>8 DEF PlatformFits
<1>15. Len(exe.cells) <= anchor.raw
  <2>1. max_raw_end(image) \in Nat
    BY <1>1, RawEndBound
  <2> HIDE DEF anchor
  <2>2. QED BY <1>3, <1>4, <2>1
<1>16. PeDataEnd(new) = end
  BY <1>8, <1>9, <1>10 DEF PeDataEnd
<1>17. PeStamped(new, exe, header, bundled)
  <2>1. Anchors(withAnchor) # {}
    BY <1>7
  <2> HIDE DEF anchor
  <2>2. QED
    BY <1>7, <1>8, <1>9, <1>10, <1>11, <1>12, <1>13, <1>14, <1>15, <1>16, <2>1 DEF PeStamped
<1>18. QED
  BY <1>2, <1>10, <1>17 DEF new

-----------------------------------------------------------------------------
(* Authenticode signatures                                                  *)

WithCertificate(image, offset, size) ==
  [image EXCEPT !.certificate = [offset |-> offset, size |-> size]]

(* Another certificate table changes no check of the sections.              *)
LEMMA OtherCertificate ==
  ASSUME NEW image \in PeImages, NEW offset \in Nat, NEW size \in Nat
  PROVE  LET new == WithCertificate(image, offset, size)
         IN  /\ new \in PeImages /\ new.certificate = [offset |-> offset, size |-> size]
             /\ new.sections = image.sections
             /\ new.executable = image.executable /\ new.table = image.table
             /\ new.headers = image.headers /\ new.machine = image.machine
             /\ new.fileAlignment = image.fileAlignment
             /\ new.sectionAlignment = image.sectionAlignment /\ new.size = image.size
             /\ Backed(new) = Backed(image) /\ Mapped(new) = Mapped(image)
             /\ Anchors(new) = Anchors(image) /\ AnchorOf(new) = AnchorOf(image)
             /\ LowAlignment(new) = LowAlignment(image)
             /\ max_raw_end(new) = max_raw_end(image)
             /\ max_virtual_end(new) = max_virtual_end(image)
<1> DEFINE new == WithCertificate(image, offset, size)
<1>1. /\ new.certificate = [offset |-> offset, size |-> size]
      /\ new.sections = image.sections
      /\ new.executable = image.executable /\ new.table = image.table
      /\ new.headers = image.headers /\ new.machine = image.machine
      /\ new.fileAlignment = image.fileAlignment
      /\ new.sectionAlignment = image.sectionAlignment /\ new.size = image.size
  BY DEF WithCertificate, PeImages
<1>2. new \in PeImages
  BY <1>1 DEF WithCertificate, PeImages
<1> HIDE DEF new
<1>3. /\ Backed(new) = Backed(image) /\ Mapped(new) = Mapped(image)
      /\ Anchors(new) = Anchors(image) /\ LowAlignment(new) = LowAlignment(image)
  BY <1>1 DEF Backed, Mapped, Anchors, LowAlignment
<1>4. AnchorOf(new) = AnchorOf(image)
  BY <1>1, <1>3 DEF AnchorOf
<1>5. max_raw_end(new) = max_raw_end(image)
  BY <1>1, <1>3 DEF max_raw_end
<1>6. max_virtual_end(new) = max_virtual_end(image)
  BY <1>1, <1>3 DEF max_virtual_end
<1>7. QED
  BY <1>1, <1>2, <1>3, <1>4, <1>5, <1>6 DEF new

(* Authenticode puts a table behind the data, or another one in the place   *)
(* of the table there was; nothing else changes.                            *)
LEMMA PeSigned ==
  ASSUME NEW S, Zero \in S, NEW exe \in PeFiles(S), NEW template \in PeFiles(S),
         NEW header \in Seq(S), NEW bundled \in Seq(S),
         PeStamped(exe, template, header, bundled),
         NEW signature \in Seq(S), Len(signature) >= CertificateAlignment,
         CertificateTableAccepted(signature)
  PROVE  LET new == Authenticode(exe, signature)
         IN  new \in PeFiles(S) /\ PeStamped(new, template, header, bundled)
<1> DEFINE image == exe.image
           cells == exe.cells
           c == image.certificate
           a == AnchorOf(image)
           len == Len(header) + Len(bundled)
           start == PayloadStart(RawEnd(a), len)
           end == PayloadEnd(RawEnd(a), len)
           offset == IF c = NoCertificate THEN align_up(Len(cells), CertificateAlignment)
                                          ELSE c.offset
           image2 == WithCertificate(image, offset, Len(signature))
           head == Resized(cells, offset)
           cells2 == head \o signature
           new == [format |-> "pe", image |-> image2, cells |-> cells2]
<1>1. /\ PeAccepted(exe)
      /\ PlatformFits(image, header)
      /\ Anchors(image) # {}
      /\ \A i \in DOMAIN image.sections : RawEnd(image.sections[i]) <= max_raw_end(image)
      /\ cells[a.raw + 1] = Footer(header, bundled)
      /\ \A i \in a.raw + 2 .. start : cells[i] = Zero
      /\ end = PeDataEnd(exe)
      /\ Slice(cells, start, Len(header)) = header
      /\ Slice(cells, start + Len(header), Len(bundled)) = bundled
      /\ Len(template.cells) <= a.raw
      /\ PeKept(template, exe)
  BY DEF PeStamped
<1>2. /\ image \in PeImages /\ cells \in Seq(S) /\ Len(cells) \in Nat
      /\ Len(header) \in Nat /\ Len(bundled) \in Nat /\ len \in Nat
      /\ CertificateAlignment \in Nat \ {0} /\ Len(signature) \in Nat
      /\ Authenticode(exe, signature) = new
  <2>1. Authenticode(exe, signature) = new
    BY DEF Authenticode, WithCertificate
  <2>2. image \in PeImages /\ cells \in Seq(S)
    BY DEF PeFiles
  <2> HIDE DEF new
  <2>3. QED BY <2>1, <2>2, LayoutAssumption
<1>3. /\ PeHeadersAccepted(image, Len(cells)) /\ PeRawAccepted(image, Len(cells))
      /\ PeVirtualAccepted(image) /\ PeAnchorAccepted(image)
      /\ PeCertificateAccepted(image, Len(cells))
  BY <1>1 DEF PeAccepted
<1>4. /\ a.raw \in Nat /\ a.size \in Nat /\ RawEnd(a) = max_raw_end(image)
      /\ RawEnd(a) \in Nat /\ a.raw < RawEnd(a)
  BY <1>1, <1>2, <1>3, AnchorIsSection
<1>5. /\ start \in Nat /\ end \in Nat /\ RawEnd(a) <= start /\ start + len = end
      /\ end % CertificateAlignment = 0
  BY <1>2, <1>4, PayloadFacts
<1>6. /\ end = offset /\ end <= Len(cells)
  <2>1. CASE c = NoCertificate
    <3>1. end = Len(cells)
      BY <1>1, <2>1 DEF PeDataEnd
    <3>2. align_up(end, CertificateAlignment) = end
      <4> HIDE DEF end
      <4>1. QED BY <1>2, <1>5, AlignedStays
    <3> HIDE DEF end
    <3>3. QED BY <1>2, <2>1, <3>1, <3>2
  <2>2. CASE c # NoCertificate
    <3>1. c.offset + c.size = Len(cells) /\ c.offset \in Nat /\ c.size \in Nat
      BY <1>2, <1>3, <2>2 DEF PeCertificateAccepted, PeImages
    <3>2. end = c.offset
      BY <1>1, <2>2 DEF PeDataEnd
    <3> HIDE DEF end
    <3>3. QED BY <1>2, <2>2, <3>1, <3>2, SMTT(30)
  <2>3. QED BY <2>1, <2>2
<1> HIDE DEF start, end
<1> HIDE DEF offset
<1>7. offset \in Nat /\ offset <= Len(cells)
  BY <1>5, <1>6
<1>8. /\ head \in Seq(S) /\ Len(head) = offset /\ \A i \in 1 .. offset : head[i] = cells[i]
  <2>1. /\ head \in Seq(S) /\ Len(head) = offset
        /\ \A i \in 1 .. offset : head[i] = IF i <= Len(cells) THEN cells[i] ELSE Zero
    BY <1>2, <1>7, ResizedFacts
  <2>2. \A i \in 1 .. offset : i <= Len(cells)
    BY <1>2, <1>7
  <2>3. QED BY <2>1, <2>2
<1> HIDE DEF head
<1>9. /\ cells2 \in Seq(S) /\ Len(cells2) = offset + Len(signature)
      /\ \A i \in 1 .. offset : cells2[i] = cells[i]
      /\ \A i \in 1 .. Len(signature) : cells2[offset + i] = signature[i]
  <2>1. /\ cells2 \in Seq(S) /\ Len(cells2) = Len(head) + Len(signature)
        /\ \A i \in 1 .. Len(head) : cells2[i] = head[i]
        /\ \A i \in 1 .. Len(signature) : cells2[Len(head) + i] = signature[i]
    <3>1. head \in Seq(S)
      BY <1>8
    <3>2. QED BY <3>1, ConcatFacts
  <2> HIDE DEF cells2
  <2>2. QED BY <1>8, <2>1
<1> HIDE DEF cells2
<1>10. /\ image2 \in PeImages
       /\ image2.certificate = [offset |-> offset, size |-> Len(signature)]
       /\ image2.sections = image.sections
       /\ image2.executable = image.executable /\ image2.table = image.table
       /\ image2.headers = image.headers /\ image2.machine = image.machine
       /\ image2.fileAlignment = image.fileAlignment
       /\ image2.sectionAlignment = image.sectionAlignment /\ image2.size = image.size
       /\ Backed(image2) = Backed(image) /\ Mapped(image2) = Mapped(image)
       /\ Anchors(image2) = Anchors(image) /\ AnchorOf(image2) = a
       /\ LowAlignment(image2) = LowAlignment(image)
       /\ max_raw_end(image2) = max_raw_end(image)
       /\ max_virtual_end(image2) = max_virtual_end(image)
  BY <1>2, <1>7, OtherCertificate
<1> HIDE DEF image2
<1>11. /\ new \in PeFiles(S) /\ new.image = image2 /\ new.cells = cells2
  BY <1>9, <1>10 DEF PeFiles
<1> HIDE DEF new
<1> DEFINE total == Len(cells2)
<1>12. /\ total \in Nat /\ total = offset + Len(signature) /\ offset <= total
       /\ max_raw_end(image) <= offset /\ max_raw_end(image) \in Nat /\ offset # 0
  <2>1. total = offset + Len(signature)
    BY <1>9
  <2>2. max_raw_end(image) <= offset /\ max_raw_end(image) \in Nat /\ offset # 0
    <3>1. RawEnd(a) <= offset /\ offset # 0
      <4> DEFINE e == RawEnd(a)
      <4>1. e \in Nat /\ e <= start /\ a.raw \in Nat /\ a.raw < e
        BY <1>4, <1>5
      <4>2. e # 0
        <5> DEFINE raw == a.raw
        <5>1. e \in Nat /\ raw \in Nat /\ raw < e
          BY <4>1
        <5> HIDE DEF e, raw
        <5>2. QED BY <5>1
      <4> HIDE DEF e, len
      <4>3. e <= offset /\ offset # 0
        BY <1>2, <1>5, <1>6, <4>1, <4>2
      <4>4. QED BY <4>3 DEF e
    <3>2. QED BY <1>4, <3>1
  <2> HIDE DEF total
  <2>3. QED BY <1>2, <1>7, <2>1, <2>2
<1>13. PeHeadersAccepted(image2, total)
  <2>1. image.headers <= total
    <3>1. image.headers \in Nat /\ image.headers <= max_raw_end(image)
      BY <1>2, ImageFacts, RawEndBound
    <3>2. QED BY <1>7, <1>12, <3>1
  <2> HIDE DEF total
  <2>2. QED BY <1>3, <1>10, <2>1 DEF PeHeadersAccepted
<1>14. PeRawAccepted(image2, total)
  <2>1. \A i \in DOMAIN image.sections : RawEnd(image.sections[i]) <= total
    <3> SUFFICES ASSUME NEW i \in DOMAIN image.sections PROVE RawEnd(image.sections[i]) <= total
      OBVIOUS
    <3>1. RawEnd(image.sections[i]) \in Nat
      BY <1>2, ImageFacts, SectionFacts
    <3>2. RawEnd(image.sections[i]) <= max_raw_end(image)
      BY <1>1
    <3>3. QED BY <1>7, <1>12, <3>1, <3>2
  <2> HIDE DEF total
  <2>2. QED BY <1>3, <1>10, <2>1 DEF PeRawAccepted
<1>15. PeVirtualAccepted(image2)
  BY <1>3, <1>10 DEF PeVirtualAccepted
<1>16. PeAnchorAccepted(image2)
  BY <1>3, <1>10 DEF PeAnchorAccepted
<1>17. PeCertificateAccepted(image2, total)
  <2>1. offset % CertificateAlignment = 0
    BY <1>5, <1>6
  <2> HIDE DEF total
  <2>2. QED BY <1>2, <1>7, <1>10, <1>12, <2>1 DEF PeCertificateAccepted
<1>18. PeAccepted(new)
  BY <1>11, <1>13, <1>14, <1>15, <1>16, <1>17 DEF PeAccepted
<1>19. image2.certificate # NoCertificate
       /\ Slice(cells2, offset, Len(signature)) = signature
  <2>1. image2.certificate.offset # NoCertificate.offset
    BY <1>10, <1>12 DEF NoCertificate
  <2>2. offset + Len(signature) <= Len(cells2)
    BY <1>12
  <2>3. Slice(cells2, offset, Len(signature)) = signature
    BY <1>7, <1>9, <2>2, SliceOf
  <2>4. QED BY <2>1, <2>3
<1>20. PeDataEnd(new) = end
  BY <1>6, <1>10, <1>11, <1>19 DEF PeDataEnd
<1>21. /\ Slice(cells2, start, Len(header)) = header
       /\ Slice(cells2, start + Len(header), Len(bundled)) = bundled
  <2>1. start + Len(header) <= offset /\ (start + Len(header)) + Len(bundled) <= offset
    BY <1>2, <1>5, <1>6
  <2>2. Slice(cells2, start, Len(header)) = Slice(cells, start, Len(header))
    <3>1. \A i \in start + 1 .. start + Len(header) : i \in 1 .. offset
      BY <1>2, <1>5, <1>7, <2>1
    <3>2. \A i \in start + 1 .. start + Len(header) : cells2[i] = cells[i]
      BY <1>9, <3>1
    <3>3. start + Len(header) <= Len(cells2) /\ start + Len(header) <= Len(cells)
      BY <1>2, <1>5, <1>7, <1>12, <2>1
    <3>4. start \in Nat /\ Len(header) \in Nat /\ cells \in Seq(S) /\ cells2 \in Seq(S)
      BY <1>2, <1>5, <1>9
    <3> HIDE DEF cells
    <3>5. QED BY <3>2, <3>3, <3>4, SameSlice
  <2>3. Slice(cells2, start + Len(header), Len(bundled))
          = Slice(cells, start + Len(header), Len(bundled))
    <3> DEFINE from == start + Len(header)
    <3>0. from \in Nat /\ from + Len(bundled) <= offset
      BY <1>2, <1>5, <2>1
    <3> HIDE DEF from
    <3>1. \A i \in from + 1 .. from + Len(bundled) : i \in 1 .. offset
      BY <1>2, <1>7, <3>0
    <3>2. \A i \in from + 1 .. from + Len(bundled) : cells2[i] = cells[i]
      BY <1>9, <3>1
    <3>3. from + Len(bundled) <= Len(cells2) /\ from + Len(bundled) <= Len(cells)
      BY <1>2, <1>7, <1>12, <3>0
    <3>4. Slice(cells2, from, Len(bundled)) = Slice(cells, from, Len(bundled))
      <4>1. from \in Nat /\ Len(bundled) \in Nat /\ cells \in Seq(S) /\ cells2 \in Seq(S)
        BY <1>2, <1>9, <3>0
      <4> HIDE DEF cells
      <4>2. QED BY <3>2, <3>3, <4>1, SameSlice
    <3>5. QED BY <3>4 DEF from
  <2>4. QED BY <1>1, <2>2, <2>3
<1>22. /\ cells2[a.raw + 1] = Footer(header, bundled)
       /\ \A i \in a.raw + 2 .. start : cells2[i] = Zero
  <2>1. a.raw + 1 \in 1 .. offset /\ \A i \in a.raw + 2 .. start : i \in 1 .. offset
    <3> DEFINE raw == a.raw
               e == RawEnd(a)
    <3>1. raw \in Nat /\ e \in Nat /\ raw < e /\ e <= start
      BY <1>4, <1>5
    <3> HIDE DEF raw, e, len
    <3>2. start <= offset
      BY <1>2, <1>5, <1>6
    <3>3. raw + 1 \in 1 .. offset /\ \A i \in raw + 2 .. start : i \in 1 .. offset
      BY <1>5, <1>7, <3>1, <3>2
    <3>4. QED BY <3>3 DEF raw
  <2>2. QED BY <1>1, <1>9, <2>1
<1>23. PeKept(template, new)
  <2> DEFINE slot == template.image.table + Len(template.image.sections)
  <2>1. /\ SubSeq(image.sections, 1, Len(template.image.sections)) = template.image.sections
        /\ \A i \in DOMAIN template.cells \ {slot + 1} : cells[i] = template.cells[i]
    BY <1>1 DEF PeKept
  <2>2. \A i \in DOMAIN template.cells : i \in 1 .. offset
    <3>1. template.cells \in Seq(S)
      BY DEF PeFiles
    <3>2. DOMAIN template.cells = 1 .. Len(template.cells) /\ Len(template.cells) \in Nat
      BY <3>1
    <3>3. Len(template.cells) <= offset
      <4> DEFINE raw == a.raw
                 e == RawEnd(a)
      <4>1. raw \in Nat /\ e \in Nat /\ raw < e /\ e <= start /\ Len(template.cells) <= raw
        BY <1>1, <1>4, <1>5
      <4>2. start \in Nat /\ offset \in Nat /\ start <= offset
        BY <1>2, <1>5, <1>6
      <4> HIDE DEF raw, e, len
      <4>3. QED BY <3>2, <4>1, <4>2
    <3>4. QED BY <1>7, <3>2, <3>3
  <2>3. \A i \in DOMAIN template.cells \ {slot + 1} : cells2[i] = template.cells[i]
    BY <1>9, <2>1, <2>2
  <2>4. QED BY <1>10, <1>11, <1>18, <2>1, <2>3 DEF PeKept
<1>24. PlatformFits(image2, header)
  BY <1>1, <1>10 DEF PlatformFits
<1>25. CertificateTableAccepted(
         Slice(cells2, image2.certificate.offset, image2.certificate.size))
  BY <1>10, <1>19
<1>26. PeStamped(new, template, header, bundled)
  <2> HIDE DEF a
  <2>1. end = PayloadEnd(RawEnd(a), len) /\ start = PayloadStart(RawEnd(a), len)
    BY DEF start, end
  <2>2. QED
    BY <1>1, <1>10, <1>11, <1>18, <1>20, <1>21, <1>22, <1>23, <1>24, <1>25, <2>1 DEF PeStamped
<1>27. QED
  BY <1>2, <1>11, <1>26 DEF new

-----------------------------------------------------------------------------
(* Mach-O images: load commands                                             *)

-----------------------------------------------------------------------------
(* Mach-O images *)

(* What a load command is.                                                  *)
LEMMA CommandKinds ==
  ASSUME NEW c \in MachOCommands
  PROVE  \/ c \in [cmd : {"segment"}, name : STRING, prot : STRING, vm : Nat, vmsize : Nat,
                   off : Nat, size : Nat, sect : Nat, sectsize : Nat]
         \/ c \in [cmd : {"data", "signature"}, name : {""}, prot : {""}, vm : {0},
                   vmsize : {0}, off : Nat, size : Nat, sect : {0}, sectsize : {0}]
         \/ c \in [cmd : STRING \ {"segment", "data", "signature"}, name : {""}, prot : {""},
                   vm : {0}, vmsize : {0}, off : Nat, size : {0}, sect : {0}, sectsize : {0}]
BY DEF MachOCommands

LEMMA CommandFacts ==
  ASSUME NEW c \in MachOCommands
  PROVE  /\ c.vm \in Nat /\ c.vmsize \in Nat /\ c.off \in Nat /\ c.size \in Nat
         /\ c.sect \in Nat /\ c.sectsize \in Nat
         /\ FileEnd(c) = c.off + c.size /\ FileEnd(c) \in Nat
         /\ SectionEnd(c) = c.sect + c.sectsize /\ SectionEnd(c) \in Nat
<1> DEFINE Numeric == /\ c.vm \in Nat /\ c.vmsize \in Nat /\ c.off \in Nat /\ c.size \in Nat
                      /\ c.sect \in Nat /\ c.sectsize \in Nat
<1>1. ASSUME c \in [cmd : {"segment"}, name : STRING, prot : STRING, vm : Nat, vmsize : Nat,
                    off : Nat, size : Nat, sect : Nat, sectsize : Nat]
      PROVE  Numeric
  BY <1>1
<1>2. ASSUME c \in [cmd : {"data", "signature"}, name : {""}, prot : {""}, vm : {0},
                    vmsize : {0}, off : Nat, size : Nat, sect : {0}, sectsize : {0}]
      PROVE  Numeric
  <2>1. c.vm = 0 /\ c.vmsize = 0 /\ c.sect = 0 /\ c.sectsize = 0
    BY <1>2
  <2>2. c.off \in Nat /\ c.size \in Nat
    BY <1>2
  <2>3. QED BY <2>1, <2>2
<1>3. ASSUME c \in [cmd : STRING \ {"segment", "data", "signature"}, name : {""}, prot : {""},
                    vm : {0}, vmsize : {0}, off : Nat, size : {0}, sect : {0}, sectsize : {0}]
      PROVE  Numeric
  <2>1. c.vm = 0 /\ c.vmsize = 0 /\ c.size = 0 /\ c.sect = 0 /\ c.sectsize = 0
    BY <1>3
  <2>2. c.off \in Nat
    BY <1>3
  <2>3. QED BY <2>1, <2>2
<1>4. Numeric
  <2> HIDE DEF Numeric
  <2>1. QED BY <1>1, <1>2, <1>3, CommandKinds
<1>5. QED
  BY <1>4 DEF FileEnd, SectionEnd

(* A table of segments only.                                                *)
LEMMA OnlySegments ==
  ASSUME NEW c \in MachOCommands
  PROVE  c.sect # 0 => c.cmd = "segment"
<1>1. ASSUME c \in [cmd : {"segment"}, name : STRING, prot : STRING, vm : Nat, vmsize : Nat,
                    off : Nat, size : Nat, sect : Nat, sectsize : Nat]
      PROVE  c.cmd = "segment"
  BY <1>1
<1>2. ASSUME c \in [cmd : {"data", "signature"}, name : {""}, prot : {""}, vm : {0},
                    vmsize : {0}, off : Nat, size : Nat, sect : {0}, sectsize : {0}]
      PROVE  c.sect = 0
  BY <1>2
<1>3. ASSUME c \in [cmd : STRING \ {"segment", "data", "signature"}, name : {""}, prot : {""},
                    vm : {0}, vmsize : {0}, off : Nat, size : {0}, sect : {0}, sectsize : {0}]
      PROVE  c.sect = 0
  BY <1>3
<1>4. QED
  BY <1>1, <1>2, <1>3, CommandKinds

(* What an accepted Mach-O image is.                                        *)
LEMMA MachOFacts ==
  ASSUME NEW image \in MachOImages
  PROVE  /\ image.commands \in Seq(MachOCommands)
         /\ Len(image.commands) \in Nat
         /\ DOMAIN image.commands = 1 .. Len(image.commands)
         /\ \A i \in DOMAIN image.commands : image.commands[i] \in MachOCommands
         /\ CommandsEnd(image) = 1 + Len(image.commands) /\ CommandsEnd(image) \in Nat
         /\ \A cmd : Numbers(image, cmd) \subseteq DOMAIN image.commands
<1>1. image.commands \in Seq(MachOCommands)
  BY DEF MachOImages
<1>2. /\ Len(image.commands) \in Nat
      /\ DOMAIN image.commands = 1 .. Len(image.commands)
      /\ \A i \in DOMAIN image.commands : image.commands[i] \in MachOCommands
  BY <1>1
<1>3. \A cmd : Numbers(image, cmd) \subseteq DOMAIN image.commands
  BY DEF Numbers
<1>4. QED
  BY <1>1, <1>2, <1>3 DEF CommandsEnd

(* A set of one element, as the code asks of signatures and segments.       *)
LEMMA OneOf ==
  ASSUME NEW n \in Nat, NEW I \in SUBSET (1 .. n), Cardinality(I) = 1
  PROVE  \E x \in 1 .. n : I = {x}
<1>1. IsFiniteSet(1 .. n) 
  BY FS_Interval
<1>2. IsFiniteSet(I)
  BY <1>1, FS_Subset
<1>3. \E x : I = {x}
  BY <1>2, FS_Singleton
<1>4. QED
  BY <1>3

LEMMA OnlyOne ==
  ASSUME NEW x
  PROVE  Cardinality({x}) = 1
BY FS_Singleton

(* The place a command of the image without a signature had before.         *)
SignatureAt(image) == CHOOSE i \in Numbers(image, "signature") : TRUE
Was(image, i) == IF SignedMachO(image) /\ i >= SignatureAt(image) THEN i + 1 ELSE i

(* The commands without the signature are the others, in order.             *)
LEMMA UnsignedFacts ==
  ASSUME NEW image \in MachOImages, Cardinality(Numbers(image, "signature")) <= 1
  PROVE  LET new == Unsigned(image)
             n   == Len(image.commands)
             m   == IF SignedMachO(image) THEN n - 1 ELSE n
         IN  /\ new \in MachOImages /\ m \in Nat /\ Len(new.commands) = m
             /\ new.executable = image.executable /\ new.machine = image.machine
             /\ SignedMachO(image) => /\ SignatureAt(image) \in 1 .. n
                                      /\ Numbers(image, "signature") = {SignatureAt(image)}
             /\ \A i \in 1 .. m : /\ Was(image, i) \in 1 .. n
                                  /\ new.commands[i] = image.commands[Was(image, i)]
                                  /\ new.commands[i].cmd # "signature"
             /\ \A j \in 1 .. n : \/ image.commands[j].cmd = "signature"
                                  \/ \E i \in 1 .. m : j = Was(image, i)
             /\ \A i, j \in 1 .. m : Was(image, i) = Was(image, j) => i = j
<1> DEFINE new == Unsigned(image)
           n == Len(image.commands)
           m == IF SignedMachO(image) THEN n - 1 ELSE n
           s == SignatureAt(image)
           c == image.commands
<1>1. c \in Seq(MachOCommands) /\ n \in Nat /\ DOMAIN c = 1 .. n
  BY MachOFacts
<1>2. CASE ~SignedMachO(image)
  <2>1. new = image /\ m = n
    BY <1>2 DEF Unsigned
  <2>2. \A i \in 1 .. n : Was(image, i) = i
    BY <1>2 DEF Was
  <2>3. \A i \in 1 .. n : c[i].cmd # "signature"
    BY <1>1, <1>2 DEF SignedMachO, Numbers
  <2>4. \A j \in 1 .. n : \E i \in 1 .. n : j = Was(image, i)
    BY <2>2
  <2> HIDE DEF m, n
  <2>5. QED
    BY <1>1, <1>2, <2>1, <2>2, <2>3, <2>4 DEF m, n
<1>3. CASE SignedMachO(image)
  <2>1. s \in Numbers(image, "signature")
    BY <1>3 DEF SignedMachO, SignatureAt
  <2>2. s \in 1 .. n /\ c[s].cmd = "signature"
    BY <1>1, <2>1 DEF Numbers
  <2>3. PICK x \in 1 .. n : Numbers(image, "signature") = {x}
    <3>1. Numbers(image, "signature") \in SUBSET (1 .. n)
      BY <1>1, MachOFacts
    <3>0. IsFiniteSet(1 .. n)
      BY <1>1, FS_Interval
    <3>2. IsFiniteSet(Numbers(image, "signature"))
      BY <3>0, <3>1, FS_Subset
    <3>3. Cardinality(Numbers(image, "signature")) \in Nat
      BY <3>2, FS_CardinalityType
    <3>4. Cardinality(Numbers(image, "signature")) # 0
      BY <2>1, <3>2, FS_EmptySet
    <3>5. Cardinality(Numbers(image, "signature")) = 1
      BY <3>3, <3>4
    <3>6. QED BY <1>1, <3>1, <3>5, OneOf
  <2>4. Numbers(image, "signature") = {s}
    BY <2>1, <2>3
  <2>5. \A j \in 1 .. n : j # s => c[j].cmd # "signature"
    BY <1>1, <2>4 DEF Numbers
  <2> DEFINE front == SubSeq(c, 1, s - 1)
             back == SubSeq(c, s + 1, n)
  <2>6. new = [image EXCEPT !.commands = front \o back]
    BY <1>3 DEF Unsigned, SignatureAt
  <2> HIDE DEF s
  <2>7. /\ front \in Seq(MachOCommands) /\ Len(front) = s - 1
        /\ \A i \in 1 .. s - 1 : front[i] = c[i]
    <3>1. 1 \in Nat /\ s - 1 \in Nat /\ 1 <= (s - 1) + 1 /\ s - 1 <= n
      BY <1>1, <2>2
    <3>2. /\ front \in Seq(MachOCommands)
          /\ Len(front) = ((s - 1) + 1) - 1
          /\ \A i \in 1 .. ((s - 1) + 1) - 1 : front[i] = c[(1 + i) - 1]
      BY <1>1, <3>1, SubSeqFacts
    <3>3. ((s - 1) + 1) - 1 = s - 1 /\ \A i \in 1 .. s - 1 : (1 + i) - 1 = i
      BY <2>2
    <3> HIDE DEF front
    <3>4. QED BY <3>2, <3>3
  <2>8. /\ back \in Seq(MachOCommands) /\ Len(back) = n - s
        /\ \A i \in 1 .. n - s : back[i] = c[s + i]
    <3>1. s + 1 \in Nat /\ n \in Nat /\ 1 <= s + 1 /\ s + 1 <= n + 1 /\ n <= n
      BY <1>1, <2>2
    <3>2. /\ back \in Seq(MachOCommands)
          /\ Len(back) = (n + 1) - (s + 1)
          /\ \A i \in 1 .. (n + 1) - (s + 1) : back[i] = c[((s + 1) + i) - 1]
      BY <1>1, <3>1, SubSeqFacts
    <3>3. (n + 1) - (s + 1) = n - s /\ \A i \in 1 .. n - s : ((s + 1) + i) - 1 = s + i
      BY <1>1, <2>2
    <3> HIDE DEF back
    <3>4. QED BY <3>2, <3>3
  <2> DEFINE all == front \o back
  <2>9. /\ all \in Seq(MachOCommands) /\ Len(all) = n - 1
        /\ \A i \in 1 .. s - 1 : all[i] = c[i]
        /\ \A i \in s .. n - 1 : all[i] = c[i + 1]
    <3>1. front \in Seq(MachOCommands) /\ back \in Seq(MachOCommands)
      BY <2>7, <2>8
    <3> HIDE DEF front, back
    <3>2. /\ all \in Seq(MachOCommands) /\ Len(all) = Len(front) + Len(back)
          /\ \A i \in 1 .. Len(front) : all[i] = front[i]
          /\ \A i \in 1 .. Len(back) : all[Len(front) + i] = back[i]
      BY <3>1, ConcatFacts
    <3> HIDE DEF all
    <3>3. Len(all) = n - 1
      BY <1>1, <2>2, <2>7, <2>8, <3>2
    <3>4. \A i \in 1 .. s - 1 : all[i] = c[i]
      BY <2>7, <3>2
    <3>5. ASSUME NEW i \in s .. n - 1 PROVE all[i] = c[i + 1]
      <4>1. /\ (i - s) + 1 \in 1 .. n - s /\ (s - 1) + ((i - s) + 1) = i
            /\ s + ((i - s) + 1) = i + 1
        BY <1>1, <2>2, <3>5
      <4>2. all[(s - 1) + ((i - s) + 1)] = c[s + ((i - s) + 1)]
        BY <2>7, <2>8, <3>2, <4>1
      <4>3. QED BY <4>1, <4>2
    <3>6. QED BY <3>2, <3>3, <3>4, <3>5
  <2> HIDE DEF all, front, back
  <2>10. /\ new.commands = all /\ new.executable = image.executable
         /\ new.machine = image.machine /\ new \in MachOImages
    BY <2>6, <2>9 DEF MachOImages, all
  <2>11. m = n - 1 /\ m \in Nat
    BY <1>1, <1>3, <2>2
  <2>12. ASSUME NEW i \in 1 .. m
         PROVE  /\ Was(image, i) \in 1 .. n /\ all[i] = c[Was(image, i)]
                /\ all[i].cmd # "signature"
    <3>1. CASE i < s
      <4>1. Was(image, i) = i /\ i \in 1 .. s - 1 /\ i \in 1 .. n /\ i # s
        BY <1>1, <1>3, <2>2, <2>11, <3>1 DEF Was, s
      <4>2. QED BY <2>5, <2>9, <4>1
    <3>2. CASE i >= s
      <4>1. Was(image, i) = i + 1 /\ i \in s .. n - 1 /\ i + 1 \in 1 .. n /\ i + 1 # s
        BY <1>1, <1>3, <2>2, <2>11, <3>2 DEF Was, s
      <4>2. QED BY <2>5, <2>9, <4>1
    <3>3. QED BY <1>1, <2>2, <2>11, <3>1, <3>2
  <2>13. ASSUME NEW j \in 1 .. n, c[j].cmd # "signature"
         PROVE  \E i \in 1 .. m : j = Was(image, i)
    <3>1. CASE j < s
      <4>1. Was(image, j) = j /\ j \in 1 .. m
        BY <1>1, <1>3, <2>2, <2>11, <3>1 DEF Was, s
      <4>2. QED BY <4>1
    <3>2. CASE j > s
      <4>1. Was(image, j - 1) = (j - 1) + 1 /\ j - 1 \in 1 .. m /\ (j - 1) + 1 = j
        BY <1>1, <1>3, <2>2, <2>11, <3>2 DEF Was, s
      <4>2. QED BY <4>1
    <3>3. j # s
      BY <2>2, <2>13
    <3>4. QED BY <1>1, <2>2, <3>1, <3>2, <3>3
  <2>14. ASSUME NEW i \in 1 .. m, NEW j \in 1 .. m, Was(image, i) = Was(image, j) PROVE i = j
    BY <1>1, <1>3, <2>2, <2>11, <2>14 DEF Was, s
  <2> HIDE DEF m, n
  <2>15. s \in 1 .. n /\ Numbers(image, "signature") = {s}
    BY <2>2, <2>4
  <2>16. QED
    BY <2>9, <2>10, <2>11, <2>12, <2>13, <2>14, <2>15 DEF m, n, s
<1>4. QED
  BY <1>2, <1>3

IsText(c) == c.cmd = "segment" /\ c.name = "__TEXT"
IsLinkedit(c) == c.cmd = "segment" /\ c.name = "__LINKEDIT"

ApartFrom(a, b) ==
  /\ a.size = 0 \/ b.size = 0 \/ FileEnd(a) <= b.off \/ FileEnd(b) <= a.off
  /\ a.vmsize = 0 \/ b.vmsize = 0 \/ a.vm + a.vmsize <= b.vm \/ b.vm + b.vmsize <= a.vm

(* A segment before __LINKEDIT.                                             *)
Before(c, last) ==
  /\ c.prot # "rwx" /\ c.size <= c.vmsize /\ FileEnd(c) <= last.off
  /\ c.vm <= last.vm /\ (c.vmsize # 0 => c.vm + c.vmsize <= last.vm)
  /\ c.sectsize # 0 => c.off <= c.sect /\ SectionEnd(c) <= FileEnd(c)

(* What a Mach-O image without a signature has whatever the size of its     *)
(* __LINKEDIT, command l: the data of the program ends at bound or before.  *)
Core(K, l, bound) ==
  LET c == K.commands
  IN  /\ K \in MachOImages /\ K.executable /\ Len(c) <= MaxSections
      /\ l \in DOMAIN c /\ bound \in Nat
      /\ \A i \in DOMAIN c : c[i].cmd \in SupportedCommands /\ c[i].cmd # "signature"
      /\ \A i \in DOMAIN c : IsLinkedit(c[i]) <=> i = l
      /\ \E x \in DOMAIN c : \A i \in DOMAIN c : IsText(c[i]) <=> i = x
      /\ \A cmd \in {"platform", "dylinker", "main"} :
           \E x \in DOMAIN c : \A i \in DOMAIN c : c[i].cmd = cmd <=> i = x
      /\ c[l].off >= CommandsEnd(K) /\ c[l].off <= bound
      /\ c[l].prot = "r" /\ c[l].sect = 0 /\ c[l].sectsize = 0
      /\ \A i \in DOMAIN c : c[i].cmd = "segment" /\ i # l => Before(c[i], c[l])
      /\ \A i \in DOMAIN c :
           IsText(c[i]) => c[i].off = 0 /\ c[i].prot = "rx" /\ FileEnd(c[i]) >= CommandsEnd(K)
      /\ \E i, j \in DOMAIN c :
           /\ i # l /\ c[i].cmd = "segment" /\ c[i].prot = "rx" /\ c[j].cmd = "main"
           /\ c[j].off \in c[i].sect .. SectionEnd(c[i]) - 1
      /\ \A i, j \in DOMAIN c :
           /\ i # j /\ i # l /\ j # l /\ c[i].cmd = "segment" /\ c[j].cmd = "segment"
           => ApartFrom(c[i], c[j])
      /\ \A i \in DOMAIN c : c[i].cmd = "data" /\ c[i].size # 0 =>
           c[i].off >= c[l].off /\ FileEnd(c[i]) <= bound
      /\ \A i \in DOMAIN c : c[i].sect # 0 => c[i].sect \in CommandsEnd(K) .. bound

(* The file is one the code accepts, and nothing but its signature lies     *)
(* behind the place where the data of a stamp ends.                         *)
SoundMachO(exe) ==
  /\ exe.image \in MachOImages /\ MachOAccepted(exe) /\ FinalLayout(exe.image, Len(exe.cells))
  /\ Linkedit(exe.image).vmsize # 0
  /\ \A offset \in SectionOffsets(exe.image) : offset <= MachODataEnd(exe)

(* The commands of an accepted image, by what they are.                     *)
LEMMA AcceptedCommands ==
  ASSUME NEW image \in MachOImages, MachOCommandsAccepted(image)
  PROVE  LET c == image.commands
         IN  /\ \A i \in DOMAIN c : c[i].cmd \in SupportedCommands
             /\ \A cmd \in {"platform", "dylinker", "main"} :
                  \E x \in DOMAIN c : /\ Numbers(image, cmd) = {x}
                                      /\ \A i \in DOMAIN c : c[i].cmd = cmd <=> i = x
             /\ \E x \in DOMAIN c : /\ \A i \in DOMAIN c : IsText(c[i]) <=> i = x
                                    /\ Segments(image, "__TEXT") = {x}
             /\ \E x \in DOMAIN c : /\ \A i \in DOMAIN c : IsLinkedit(c[i]) <=> i = x
                                    /\ Segments(image, "__LINKEDIT") = {x}
                                    /\ Linkedit(image) = c[x]
<1> DEFINE c == image.commands
<1>1. Len(c) \in Nat /\ DOMAIN c = 1 .. Len(c)
  BY MachOFacts
<1>2. \A i \in DOMAIN c : c[i].cmd \in SupportedCommands
  BY DEF MachOCommandsAccepted
<1>3. ASSUME NEW cmd \in {"platform", "dylinker", "main"}
      PROVE  \E x \in DOMAIN c : /\ Numbers(image, cmd) = {x}
                                 /\ \A i \in DOMAIN c : c[i].cmd = cmd <=> i = x
  <2>1. Cardinality(Numbers(image, cmd)) = 1 /\ Numbers(image, cmd) \in SUBSET (1 .. Len(c))
    BY <1>1, MachOFacts DEF MachOCommandsAccepted
  <2>2. PICK x \in 1 .. Len(c) : Numbers(image, cmd) = {x}
    BY <1>1, <2>1, OneOf
  <2>3. \A i \in DOMAIN c : c[i].cmd = cmd <=> i = x
    BY <2>2 DEF Numbers
  <2>4. QED BY <1>1, <2>2, <2>3
<1>4. ASSUME NEW name \in {"__TEXT", "__LINKEDIT"}
      PROVE  \E x \in DOMAIN c :
               /\ Segments(image, name) = {x}
               /\ \A i \in DOMAIN c : c[i].cmd = "segment" /\ c[i].name = name <=> i = x
  <2>1. Cardinality(Segments(image, name)) = 1
    BY DEF MachOCommandsAccepted
  <2>2. Segments(image, name) \in SUBSET (1 .. Len(c))
    BY <1>1, MachOFacts DEF Segments
  <2>3. PICK x \in 1 .. Len(c) : Segments(image, name) = {x}
    BY <1>1, <2>1, <2>2, OneOf
  <2>4. \A i \in DOMAIN c : c[i].cmd = "segment" /\ c[i].name = name <=> i = x
    BY <2>3 DEF Segments, Numbers
  <2>5. QED BY <1>1, <2>3, <2>4
<1>5. PICK x \in DOMAIN c :
        /\ Segments(image, "__LINKEDIT") = {x}
        /\ \A i \in DOMAIN c : c[i].cmd = "segment" /\ c[i].name = "__LINKEDIT" <=> i = x
  BY <1>4
<1>6. Linkedit(image) = c[x]
  BY <1>5 DEF Linkedit
<1>7. PICK t \in DOMAIN c :
        /\ Segments(image, "__TEXT") = {t}
        /\ \A i \in DOMAIN c : c[i].cmd = "segment" /\ c[i].name = "__TEXT" <=> i = t
  BY <1>4
<1>8. /\ \A i \in DOMAIN c : IsLinkedit(c[i]) <=> i = x
      /\ \A i \in DOMAIN c : IsText(c[i]) <=> i = t
  BY <1>5, <1>7 DEF IsLinkedit, IsText
<1> HIDE DEF c
<1>9. QED
  BY <1>2, <1>3, <1>5, <1>6, <1>7, <1>8 DEF c

(* Where the data of a stamp ends in a Mach-O file.                         *)
LEMMA DataEndFacts ==
  ASSUME NEW exe, exe.image \in MachOImages, MachOAccepted(exe), Len(exe.cells) \in Nat,
         FinalLayout(exe.image, Len(exe.cells))
  PROVE  LET image == exe.image
             end   == MachODataEnd(exe)
         IN  /\ end \in Nat /\ end <= Len(exe.cells)
             /\ Linkedit(image) \in MachOCommands
             /\ Linkedit(image).off <= end /\ FileEnd(Linkedit(image)) = Len(exe.cells)
             /\ \A i \in DOMAIN image.commands :
                  image.commands[i].cmd = "data" /\ image.commands[i].size # 0 =>
                    FileEnd(image.commands[i]) <= end
             /\ SignedMachO(image) =>
                  /\ end % SignatureAlignment = 0 /\ end < Len(exe.cells)
                  /\ Signature(image) = image.commands[SignatureAt(image)]
                  /\ Signature(image).off = end
<1> DEFINE image == exe.image
           c == image.commands
           end == MachODataEnd(exe)
           len == Len(exe.cells)
<1>1. DOMAIN c = 1 .. Len(c) /\ \A i \in DOMAIN c : c[i] \in MachOCommands
  BY MachOFacts
<1>2. PICK x \in DOMAIN c : Linkedit(image) = c[x]
  BY AcceptedCommands DEF MachOAccepted
<1>3. Linkedit(image) \in MachOCommands
  BY <1>1, <1>2
<1>4. /\ Linkedit(image).off \in Nat /\ Linkedit(image).size \in Nat
      /\ FileEnd(Linkedit(image)) = Linkedit(image).off + Linkedit(image).size
  BY <1>3, CommandFacts
<1>5. FileEnd(Linkedit(image)) = len /\ Linkedit(image).off <= len
  BY <1>4 DEF FinalLayout
<1>6. \A i \in DOMAIN c : c[i].cmd = "data" /\ c[i].size # 0 => FileEnd(c[i]) <= len
  <2>1. \A i \in Referenced(image) : FileEnd(c[i]) <= len
    BY <1>5 DEF MachOAccepted, MachODataAccepted
  <2>2. QED BY <2>1 DEF Referenced, Numbers
<1>7. CASE ~SignedMachO(image)
  <2>1. end = len
    BY <1>7 DEF MachODataEnd
  <2> HIDE DEF image, c, end, len
  <2>2. QED BY <1>3, <1>5, <1>6, <1>7, <2>1 DEF image, c, end, len
<1>8. CASE SignedMachO(image)
  <2> DEFINE s == Signature(image)
             ends == {0} \union {FileEnd(c[i]) : i \in Referenced(image)}
  <2>1. s = c[SignatureAt(image)] /\ SignatureAt(image) \in DOMAIN c
    BY <1>8 DEF Signature, TheCommand, SignatureAt, SignedMachO, Numbers
  <2>2. s \in MachOCommands /\ s.off \in Nat /\ s.size \in Nat /\ FileEnd(s) = s.off + s.size
    BY <1>1, <2>1, CommandFacts
  <2>3. /\ s.size # 0 /\ FileEnd(s) = len /\ s.off >= Linkedit(image).off
        /\ s.off % SignatureAlignment = 0 /\ s.off >= max_non_signature_data_end(image)
    BY <1>8 DEF FinalLayout, SignatureAccepted
  <2>4. end = s.off
    BY <1>8 DEF MachODataEnd
  <2>5. \A e \in ends : e \in Nat /\ e <= len
    <3>1. \A i \in Referenced(image) : FileEnd(c[i]) \in Nat /\ FileEnd(c[i]) <= len
      BY <1>1, <1>6, CommandFacts DEF Referenced, Numbers
    <3>2. QED BY <3>1
  <2>6. \A e \in ends : e <= s.off
    <3>1. ends \in SUBSET Nat /\ ends # {}
      BY <2>5
    <3> HIDE DEF ends
    <3>2. Max(ends) \in Nat /\ \A e \in ends : e <= Max(ends)
      BY <2>5, <3>1, GreatestNatural
    <3>3. Max(ends) <= s.off
      BY <2>3 DEF max_non_signature_data_end, ends
    <3>4. QED BY <2>2, <2>5, <3>2, <3>3
  <2>7. \A i \in DOMAIN c : c[i].cmd = "data" /\ c[i].size # 0 => FileEnd(c[i]) <= end
    BY <2>4, <2>6 DEF Referenced, Numbers
  <2>8. end \in Nat /\ end < len /\ Linkedit(image).off <= end /\ end % SignatureAlignment = 0
    BY <1>4, <2>2, <2>3, <2>4
  <2> HIDE DEF image, c, end, len, s
  <2>9. QED BY <1>3, <1>5, <2>1, <2>4, <2>7, <2>8 DEF image, c, end, len, s
<1>9. QED
  BY <1>7, <1>8

(* An accepted image is sound.                                              *)
LEMMA CoreOf ==
  ASSUME NEW exe, SoundMachO(exe), Len(exe.cells) \in Nat
  PROVE  LET K == Unsigned(exe.image)
         IN  \E l \in DOMAIN K.commands : /\ Core(K, l, MachODataEnd(exe))
                                          /\ K.commands[l] = Linkedit(exe.image)
<1> DEFINE image == exe.image
           c == image.commands
           K == Unsigned(image)
           k == K.commands
           end == MachODataEnd(exe)
           len == Len(exe.cells)
           w(i) == Was(image, i)
           L == Linkedit(image)
<1>1. /\ image \in MachOImages /\ MachOAccepted(exe) /\ FinalLayout(image, len)
      /\ L.vmsize # 0 /\ \A offset \in SectionOffsets(image) : offset <= end
  BY DEF SoundMachO
<1>2. /\ end \in Nat /\ end <= len /\ L \in MachOCommands /\ L.off <= end /\ FileEnd(L) = len
      /\ \A i \in DOMAIN c : c[i].cmd = "data" /\ c[i].size # 0 => FileEnd(c[i]) <= end
  BY <1>1, DataEndFacts
<1>3. DOMAIN c = 1 .. Len(c) /\ Len(c) \in Nat /\ \A i \in DOMAIN c : c[i] \in MachOCommands
  BY <1>1, MachOFacts
<1>4. /\ MachOHeaderAccepted(image, len) /\ MachOCommandsAccepted(image)
      /\ \A i \in Numbers(image, "segment") : MachOSegmentAccepted(image, c[i], len)
      /\ MachOEntryAccepted(image) /\ MachOSegmentsDisjoint(image) /\ MachODataAccepted(image, len)
  BY <1>1 DEF MachOAccepted
<1>5. /\ K \in MachOImages /\ K.executable = image.executable
      /\ Len(k) \in Nat /\ Len(k) <= Len(c)
      /\ \A i \in 1 .. Len(k) : w(i) \in 1 .. Len(c) /\ k[i] = c[w(i)] /\ k[i].cmd # "signature"
      /\ \A j \in 1 .. Len(c) : c[j].cmd # "signature" => \E i \in 1 .. Len(k) : j = w(i)
      /\ \A i, j \in 1 .. Len(k) : w(i) = w(j) => i = j
  <2>1. Cardinality(Numbers(image, "signature")) <= 1
    BY <1>4 DEF MachOCommandsAccepted
  <2> DEFINE m == IF SignedMachO(image) THEN Len(c) - 1 ELSE Len(c)
  <2>2. /\ K \in MachOImages /\ m \in Nat /\ Len(k) = m /\ K.executable = image.executable
        /\ \A i \in 1 .. m : w(i) \in 1 .. Len(c) /\ k[i] = c[w(i)] /\ k[i].cmd # "signature"
        /\ \A j \in 1 .. Len(c) : c[j].cmd = "signature" \/ \E i \in 1 .. m : j = w(i)
        /\ \A i, j \in 1 .. m : w(i) = w(j) => i = j
    BY <1>1, <2>1, UnsignedFacts
  <2>3. m <= Len(c)
    BY <1>3
  <2> HIDE DEF m, K, c, w
  <2>4. QED BY <2>2, <2>3
<1>6. DOMAIN k = 1 .. Len(k) /\ \A i \in DOMAIN k : k[i] \in MachOCommands
  BY <1>5, MachOFacts
<1>7. CommandsEnd(K) <= CommandsEnd(image) /\ CommandsEnd(image) \in Nat /\ CommandsEnd(image) >= 1
      /\ CommandsEnd(K) \in Nat
  BY <1>3, <1>5 DEF CommandsEnd
<1>8. PICK x \in DOMAIN c : (\A i \in DOMAIN c : IsLinkedit(c[i]) <=> i = x) /\ L = c[x]
  BY <1>1, <1>4, AcceptedCommands
<1>9. c[x].cmd = "segment" /\ c[x].name = "__LINKEDIT" /\ x \in Numbers(image, "segment")
  BY <1>8 DEF IsLinkedit, Numbers
<1> HIDE DEF c, K, w, end, len
<1>10. PICK l \in 1 .. Len(k) : x = w(l)
  BY <1>3, <1>5, <1>8, <1>9
<1>11. k[l] = L
  BY <1>5, <1>8, <1>10
<1> HIDE DEF L
<1>12. \A i \in DOMAIN k : IsLinkedit(k[i]) <=> i = l
  BY <1>3, <1>5, <1>6, <1>8, <1>10
<1>13. \E t \in DOMAIN k : \A i \in DOMAIN k : IsText(k[i]) <=> i = t
  <2>1. PICK t \in DOMAIN c : \A i \in DOMAIN c : IsText(c[i]) <=> i = t
    BY <1>1, <1>4, AcceptedCommands DEF c
  <2>2. c[t].cmd # "signature"
    BY <2>1 DEF IsText
  <2>3. PICK i \in 1 .. Len(k) : t = w(i)
    BY <1>3, <1>5, <2>1, <2>2
  <2>4. \A j \in DOMAIN k : IsText(k[j]) <=> j = i
    BY <1>3, <1>5, <1>6, <2>1, <2>3
  <2>5. QED BY <1>6, <2>4
<1>14. ASSUME NEW cmd \in {"platform", "dylinker", "main"}
       PROVE  \E t \in DOMAIN k : \A i \in DOMAIN k : k[i].cmd = cmd <=> i = t
  <2>1. PICK t \in DOMAIN c : \A i \in DOMAIN c : c[i].cmd = cmd <=> i = t
    BY <1>1, <1>4, AcceptedCommands DEF c
  <2>2. c[t].cmd # "signature"
    BY <2>1
  <2>3. PICK i \in 1 .. Len(k) : t = w(i)
    BY <1>3, <1>5, <2>1, <2>2
  <2>4. ASSUME NEW j \in DOMAIN k PROVE k[j].cmd = cmd <=> j = i
    <3>1. j \in 1 .. Len(k) /\ w(j) \in DOMAIN c /\ k[j] = c[w(j)]
      BY <1>3, <1>5, <1>6
    <3>2. w(j) = w(i) <=> j = i
      BY <1>5, <3>1
    <3>3. QED BY <2>1, <2>3, <3>1, <3>2
  <2>5. QED BY <1>6, <2>4
<1>15. /\ L.off \in Nat /\ L.size \in Nat /\ L.vm \in Nat /\ L.vmsize \in Nat /\ L.sect \in Nat
       /\ L.sectsize \in Nat /\ FileEnd(L) = L.off + L.size
  BY <1>2, CommandFacts
<1>16. L.off >= CommandsEnd(image) /\ L.off >= CommandsEnd(K)
  <2>1. L.off >= CommandsEnd(image)
    BY <1>1 DEF FinalLayout, L
  <2>2. QED BY <1>7, <1>15, <2>1
<1>17. MachOSegmentAccepted(image, L, len)
  BY <1>4, <1>8, <1>9 DEF c
<1>18. L.prot = "r" /\ L.sect = 0
  BY <1>8, <1>9, <1>17 DEF MachOSegmentAccepted
<1>19. L.sectsize = 0
  <2>1. L.sectsize # 0 => L.off <= L.sect
    BY <1>17 DEF MachOSegmentAccepted
  <2>2. QED BY <1>7, <1>15, <1>16, <1>18, <2>1
<1>20. ASSUME NEW i \in DOMAIN k, NEW j \in DOMAIN k, k[i].cmd = "segment", k[j].cmd = "segment",
              i # j
       PROVE  ApartFrom(k[i], k[j])
  <2>1. w(i) \in Numbers(image, "segment") /\ w(j) \in Numbers(image, "segment") /\ w(i) # w(j)
    BY <1>3, <1>5, <1>6, <1>20 DEF Numbers, c
  <2>2. ApartFrom(c[w(i)], c[w(j)])
    BY <1>4, <2>1 DEF MachOSegmentsDisjoint, ApartFrom, c
  <2>3. QED BY <1>5, <1>6, <2>2
<1>21. ASSUME NEW i \in DOMAIN k, k[i].cmd = "segment"
       PROVE  MachOSegmentAccepted(image, k[i], len) /\ k[i].off <= L.off /\ k[i].vm <= L.vm
  <2>1. w(i) \in Numbers(image, "segment") /\ k[i] = c[w(i)]
    BY <1>3, <1>5, <1>6, <1>21 DEF Numbers, c
  <2>2. MachOSegmentAccepted(image, c[w(i)], len)
    BY <1>4, <2>1
  <2>3. c[w(i)].off <= L.off /\ c[w(i)].vm <= L.vm
    BY <1>1, <2>1 DEF FinalLayout, c, L
  <2>4. QED BY <2>1, <2>2, <2>3
<1>22. ASSUME NEW i \in DOMAIN k, k[i].cmd = "segment", i # l
       PROVE  Before(k[i], L)
  <2> DEFINE s == k[i]
  <2>1. /\ s.vm \in Nat /\ s.vmsize \in Nat /\ s.off \in Nat /\ s.size \in Nat
        /\ FileEnd(s) = s.off + s.size /\ FileEnd(s) \in Nat
    BY <1>6, CommandFacts
  <2>2. ApartFrom(s, L)
    BY <1>6, <1>9, <1>8, <1>11, <1>20, <1>22
  <2>3. /\ s.prot # "rwx" /\ s.size <= s.vmsize /\ FileEnd(s) <= len
        /\ s.sectsize # 0 => s.off <= s.sect /\ SectionEnd(s) <= FileEnd(s)
        /\ s.off <= L.off /\ s.vm <= L.vm
    BY <1>21, <1>22 DEF MachOSegmentAccepted
  <2> HIDE DEF s
  <2>4. FileEnd(s) <= L.off
    BY <1>2, <1>15, <2>1, <2>2, <2>3 DEF ApartFrom
  <2>5. s.vmsize # 0 => s.vm + s.vmsize <= L.vm
    <3>1. L.vmsize # 0
      BY <1>1 DEF L
    <3>2. s.vmsize = 0 \/ L.vmsize = 0 \/ s.vm + s.vmsize <= L.vm \/ L.vm + L.vmsize <= s.vm
      BY <2>2 DEF ApartFrom
    <3>3. /\ s.vm \in Nat /\ s.vmsize \in Nat /\ L.vm \in Nat /\ L.vmsize \in Nat
          /\ s.vm <= L.vm
      BY <1>15, <2>1, <2>3
    <3>4. QED BY <3>1, <3>2, <3>3
  <2>6. QED BY <2>3, <2>4, <2>5 DEF Before, s
<1>23. ASSUME NEW i \in DOMAIN k, IsText(k[i])
       PROVE  k[i].off = 0 /\ k[i].prot = "rx" /\ FileEnd(k[i]) >= CommandsEnd(K)
  <2>1. k[i].off = 0 /\ k[i].prot = "rx" /\ FileEnd(k[i]) >= CommandsEnd(image)
    BY <1>21, <1>23 DEF MachOSegmentAccepted, IsText
  <2>2. FileEnd(k[i]) \in Nat
    BY <1>6, CommandFacts
  <2>3. QED BY <1>7, <2>1, <2>2
<1>24. \E i, j \in DOMAIN k :
          /\ i # l /\ k[i].cmd = "segment" /\ k[i].prot = "rx" /\ k[j].cmd = "main"
          /\ k[j].off \in k[i].sect .. SectionEnd(k[i]) - 1
  <2>1. PICK a \in DOMAIN c : /\ c[a].cmd = "segment" /\ c[a].prot = "rx"
                              /\ TheCommand(image, "main").off \in c[a].sect .. SectionEnd(c[a]) - 1
    BY <1>4 DEF MachOEntryAccepted, Numbers, c
  <2>2. PICK b \in DOMAIN c : Numbers(image, "main") = {b} /\ c[b].cmd = "main"
    BY <1>1, <1>4, AcceptedCommands DEF c
  <2>3. TheCommand(image, "main") = c[b]
    BY <2>2 DEF TheCommand, c
  <2>4. PICK i \in 1 .. Len(k) : a = w(i)
    BY <1>3, <1>5, <2>1
  <2>5. PICK j \in 1 .. Len(k) : b = w(j)
    BY <1>3, <1>5, <2>2
  <2>6. k[i] = c[a] /\ k[j] = c[b]
    BY <1>5, <2>4, <2>5
  <2>7. i # l
    BY <1>11, <1>18, <2>1, <2>6
  <2>8. QED BY <1>6, <2>1, <2>2, <2>3, <2>6, <2>7
<1>25. ASSUME NEW i \in DOMAIN k, k[i].cmd = "data", k[i].size # 0
       PROVE  k[i].off >= L.off /\ FileEnd(k[i]) <= end
  <2>1. w(i) \in DOMAIN c /\ k[i] = c[w(i)]
    BY <1>3, <1>5, <1>6
  <2>2. w(i) \in Referenced(image)
    BY <1>25, <2>1 DEF Referenced, Numbers, c
  <2>3. c[w(i)].off >= L.off
    BY <1>4, <2>2 DEF MachODataAccepted, c, L
  <2>4. QED BY <1>2, <1>25, <2>1, <2>3 DEF c, end
<1>26. ASSUME NEW i \in DOMAIN k, k[i].sect # 0
       PROVE  k[i].sect \in CommandsEnd(K) .. end
  <2>1. w(i) \in DOMAIN c /\ k[i] = c[w(i)]
    BY <1>3, <1>5, <1>6
  <2>2. k[i].sect \in SectionOffsets(image)
    BY <1>26, <2>1 DEF SectionOffsets, c
  <2>3. k[i].sect \in Nat /\ k[i].sect >= CommandsEnd(image)
    <3>1. k[i].sect \in CommandsEnd(image) .. len
      BY <1>4, <2>2 DEF MachODataAccepted
    <3>2. QED BY <1>6, <1>7, <3>1, CommandFacts
  <2>4. k[i].sect <= end
    BY <1>1, <2>2 DEF end
  <2>5. QED BY <1>2, <1>7, <2>3, <2>4 DEF end
<1>27. K.executable /\ Len(k) <= MaxSections
  <2>1. image.executable /\ Len(c) <= MaxSections /\ MaxSections \in Nat
    BY <1>4, LayoutAssumption DEF MachOHeaderAccepted, c
  <2>2. QED BY <1>3, <1>5, <2>1 
<1>28. \A i \in DOMAIN k : k[i].cmd \in SupportedCommands /\ k[i].cmd # "signature"
  <2>1. \A i \in DOMAIN c : c[i].cmd \in SupportedCommands
    BY <1>4 DEF MachOCommandsAccepted, c
  <2>2. QED BY <1>3, <1>5, <1>6, <2>1
<1>29. l \in DOMAIN k /\ end \in Nat /\ L.off <= end
  BY <1>2, <1>6 DEF end, L
<1>30. Core(K, l, end)
  BY <1>5, <1>11, <1>12, <1>13, <1>14, <1>16, <1>18, <1>19, <1>20, <1>22, <1>23, <1>24, <1>25,
     <1>26, <1>27, <1>28, <1>29 DEF Core
<1>31. QED
  BY <1>11, <1>29, <1>30 DEF K, L, end

-----------------------------------------------------------------------------
(* Mach-O images: a grown __LINKEDIT                                        *)

SameButSize(a, b) ==
  /\ a.cmd = b.cmd /\ a.name = b.name /\ a.prot = b.prot
  /\ a.vm = b.vm /\ a.off = b.off /\ a.sect = b.sect /\ a.sectsize = b.sectsize

(* V has the commands of K but its __LINKEDIT ends at end; and perhaps a    *)
(* signature command, for a signature that begins at from.                  *)
GrownTo(V, K, l, from, end) ==
  LET v == V.commands
      k == K.commands
      n == Len(k)
  IN  /\ V \in MachOImages /\ V.executable = K.executable
      /\ \A i \in 1 .. n : SameButSize(v[i], k[i]) /\ (i # l => v[i] = k[i])
      /\ v[l].size = end - k[l].off /\ v[l].vmsize = align_up(end - k[l].off, Page)
      /\ \/ Len(v) = n
         \/ /\ Len(v) = n + 1 /\ v[n + 1].cmd = "signature" /\ v[n + 1].sect = 0
            /\ v[n + 1].off = from /\ v[n + 1].size = end - from
            /\ from % SignatureAlignment = 0

(* There is room for the load commands of V.                                *)
RoomFor(V, K, l) ==
  /\ Len(V.commands) <= MaxSections /\ CommandsEnd(V) <= K.commands[l].off
  /\ \A i \in DOMAIN K.commands :
       /\ K.commands[i].sect # 0 => CommandsEnd(V) <= K.commands[i].sect
       /\ IsText(K.commands[i]) => CommandsEnd(V) <= FileEnd(K.commands[i])

OnceGrown(exe, K, from) ==
  Len(exe.image.commands) # Len(K.commands) => MachODataEnd(exe) = from

(* An image whose __LINKEDIT grew past everything else is sound.            *)
LEMMA GrownIsSound ==
  ASSUME NEW exe, NEW K, NEW l, NEW bound \in Nat, NEW from \in Nat, NEW end \in Nat,
         Core(K, l, bound), GrownTo(exe.image, K, l, from, end), RoomFor(exe.image, K, l),
         Len(exe.cells) = end, bound <= from, from < end
  PROVE  /\ SoundMachO(exe) /\ Linkedit(exe.image) = exe.image.commands[l]
         /\ OnceGrown(exe, K, from)
<1> DEFINE V == exe.image
           v == V.commands
           k == K.commands
           n == Len(k)
           L == k[l]
<1>1. /\ K \in MachOImages /\ n \in Nat /\ DOMAIN k = 1 .. n
      /\ \A i \in 1 .. n : k[i] \in MachOCommands
      /\ CommandsEnd(K) = 1 + n
  BY MachOFacts DEF Core
<1>2. /\ V \in MachOImages /\ Len(v) \in Nat /\ DOMAIN v = 1 .. Len(v)
      /\ \A i \in DOMAIN v : v[i] \in MachOCommands
      /\ CommandsEnd(V) = 1 + Len(v) /\ CommandsEnd(V) \in Nat
      /\ \A cmd : Numbers(V, cmd) \subseteq DOMAIN v
  BY MachOFacts DEF GrownTo
<1>3. /\ V.executable = K.executable
      /\ \A i \in 1 .. n : SameButSize(v[i], k[i]) /\ (i # l => v[i] = k[i])
      /\ v[l].size = end - L.off /\ v[l].vmsize = align_up(end - L.off, Page)
      /\ \/ Len(v) = n
         \/ /\ Len(v) = n + 1 /\ v[n + 1].cmd = "signature" /\ v[n + 1].sect = 0
            /\ v[n + 1].off = from /\ v[n + 1].size = end - from
            /\ from % SignatureAlignment = 0
  BY DEF GrownTo
<1>4. /\ Len(v) <= MaxSections /\ CommandsEnd(V) <= L.off
      /\ \A i \in 1 .. n : /\ k[i].sect # 0 => CommandsEnd(V) <= k[i].sect
                           /\ IsText(k[i]) => CommandsEnd(V) <= FileEnd(k[i])
  BY <1>1 DEF RoomFor
<1>5. /\ l \in 1 .. n /\ L \in MachOCommands
      /\ L.off \in Nat /\ L.vm \in Nat /\ L.vmsize \in Nat /\ L.size \in Nat
      /\ L.off <= bound /\ L.prot = "r" /\ L.sect = 0 /\ L.sectsize = 0
      /\ L.cmd = "segment" /\ L.name = "__LINKEDIT"
  <2>1. /\ l \in DOMAIN k /\ IsLinkedit(k[l])
        /\ L.off <= bound /\ L.prot = "r" /\ L.sect = 0 /\ L.sectsize = 0
    BY DEF Core
  <2>2. l \in 1 .. n /\ L \in MachOCommands
    BY <1>1, <2>1
  <2>3. L.off \in Nat /\ L.vm \in Nat /\ L.vmsize \in Nat /\ L.size \in Nat
    BY <2>2, CommandFacts
  <2>4. L.cmd = "segment" /\ L.name = "__LINKEDIT"
    BY <2>1 DEF IsLinkedit
  <2>5. QED BY <2>1, <2>2, <2>3, <2>4
<1>6. /\ \A i \in 1 .. n : k[i].cmd \in SupportedCommands /\ k[i].cmd # "signature"
      /\ \A i \in 1 .. n : IsLinkedit(k[i]) <=> i = l
      /\ \E x \in 1 .. n : \A i \in 1 .. n : IsText(k[i]) <=> i = x
      /\ \A cmd \in {"platform", "dylinker", "main"} :
           \E x \in 1 .. n : \A i \in 1 .. n : k[i].cmd = cmd <=> i = x
  <2>1. /\ \A i \in DOMAIN k : k[i].cmd \in SupportedCommands /\ k[i].cmd # "signature"
        /\ \A i \in DOMAIN k : IsLinkedit(k[i]) <=> i = l
        /\ \E x \in DOMAIN k : \A i \in DOMAIN k : IsText(k[i]) <=> i = x
    BY DEF Core
  <2>2. \A cmd \in {"platform", "dylinker", "main"} :
          \E x \in DOMAIN k : \A i \in DOMAIN k : k[i].cmd = cmd <=> i = x
    BY DEF Core
  <2>3. DOMAIN k = 1 .. n
    BY <1>1
  <2> HIDE DEF k, n
  <2> DEFINE D == 1 .. n
  <2>4. DOMAIN k = D
    BY <2>3
  <2> HIDE DEF D
  <2>5. \A i \in D : k[i].cmd \in SupportedCommands /\ k[i].cmd # "signature"
    BY <2>1, <2>4, Zenon
  <2>6. \A i \in D : IsLinkedit(k[i]) <=> i = l
    BY <2>1, <2>4, Zenon
  <2>7. \E x \in D : \A i \in D : IsText(k[i]) <=> i = x
    BY <2>1, <2>4, Zenon
  <2>8. \A cmd \in {"platform", "dylinker", "main"} :
          \E x \in D : \A i \in D : k[i].cmd = cmd <=> i = x
    BY <2>2, <2>4, Zenon
  <2>9. QED BY <2>5, <2>6, <2>7, <2>8 DEF D
<1>7. /\ \A i \in 1 .. n : k[i].cmd = "segment" /\ i # l => Before(k[i], L)
      /\ \A i \in 1 .. n : IsText(k[i]) => k[i].off = 0 /\ k[i].prot = "rx"
      /\ \A i, j \in 1 .. n :
           /\ i # j /\ i # l /\ j # l /\ k[i].cmd = "segment" /\ k[j].cmd = "segment"
           => ApartFrom(k[i], k[j])
      /\ \A i \in 1 .. n : k[i].cmd = "data" /\ k[i].size # 0 =>
           k[i].off >= L.off /\ FileEnd(k[i]) <= bound
      /\ \A i \in 1 .. n : k[i].sect # 0 => k[i].sect <= bound
  <2>1. \A i \in 1 .. n : k[i].sect # 0 => k[i].sect \in CommandsEnd(K) .. bound
    BY <1>1 DEF Core
  <2>2. \A i \in 1 .. n : k[i].sect # 0 => k[i].sect <= bound
    BY <1>1, <2>1
  <2>3. QED BY <1>1, <2>2 DEF Core
<1>8. PICK a \in 1 .. n, b \in 1 .. n :
        /\ a # l /\ k[a].cmd = "segment" /\ k[a].prot = "rx" /\ k[b].cmd = "main"
        /\ k[b].off \in k[a].sect .. SectionEnd(k[a]) - 1
  BY <1>1 DEF Core
<1>9. K.executable
  BY DEF Core
<1> HIDE DEF V, k, n, L
(* What the commands are. *)
<1>10. \A i \in 1 .. n : i \in DOMAIN v
  BY <1>1, <1>2, <1>3
<1>11. \A i \in DOMAIN v : i \in 1 .. n \/ (i = n + 1 /\ Len(v) = n + 1)
  BY <1>1, <1>2, <1>3
<1>12. \A i \in 1 .. n : /\ v[i].cmd = k[i].cmd /\ v[i].name = k[i].name
                         /\ v[i].prot = k[i].prot /\ v[i].vm = k[i].vm /\ v[i].off = k[i].off
                         /\ v[i].sect = k[i].sect /\ v[i].sectsize = k[i].sectsize
  BY <1>3 DEF SameButSize
<1>13. \A i \in DOMAIN v : v[i].cmd # "signature" => i \in 1 .. n
  BY <1>3, <1>11
<1>14. \A i \in DOMAIN v : v[i].cmd \in SupportedCommands
  <2>1. \A i \in 1 .. n : v[i].cmd \in SupportedCommands
    BY <1>6, <1>12
  <2>2. Len(v) = n + 1 => v[n + 1].cmd \in SupportedCommands
    <3>1. Len(v) = n + 1 => v[n + 1].cmd = "signature"
      BY <1>1, <1>3
    <3>2. "signature" \in SupportedCommands
      BY DEF SupportedCommands
    <3>3. QED BY <3>1, <3>2
  <2>3. QED BY <1>11, <2>1, <2>2
<1>15. ASSUME NEW cmd \in {"platform", "dylinker", "main"}
       PROVE  \E x \in 1 .. n : Numbers(V, cmd) = {x}
  <2>1. PICK x \in 1 .. n : \A i \in 1 .. n : k[i].cmd = cmd <=> i = x
    BY <1>6
  <2>2. \A i \in DOMAIN v : v[i].cmd = cmd <=> i = x
    BY <1>10, <1>12, <1>13, <2>1
  <2>3. \A i : i \in Numbers(V, cmd) <=> i = x
    BY <1>10, <2>1, <2>2 DEF Numbers
  <2>4. Numbers(V, cmd) = {x}
    BY <2>3
  <2>5. QED BY <2>1, <2>4
<1>16. Segments(V, "__LINKEDIT") = {l}
  <2>1. \A i \in 1 .. n : k[i].cmd = "segment" /\ k[i].name = "__LINKEDIT" <=> i = l
    BY <1>6 DEF IsLinkedit
  <2>2. ASSUME NEW i \in DOMAIN v
        PROVE  v[i].cmd = "segment" /\ v[i].name = "__LINKEDIT" <=> i = l
    <3>1. CASE i \in 1 .. n
      BY <1>12, <2>1, <3>1
    <3>2. CASE i \notin 1 .. n
      BY <1>5, <1>13, <3>2
    <3>3. QED BY <3>1, <3>2
  <2>3. \A i : i \in Segments(V, "__LINKEDIT") <=> i = l
    BY <1>5, <1>10, <2>2 DEF Segments, Numbers
  <2>4. QED BY <2>3
<1>17. \E x \in 1 .. n : Segments(V, "__TEXT") = {x}
  <2>1. PICK x \in 1 .. n : \A i \in 1 .. n : k[i].cmd = "segment" /\ k[i].name = "__TEXT" <=> i = x
    BY <1>6 DEF IsText
  <2>2. \A i \in DOMAIN v : v[i].cmd = "segment" /\ v[i].name = "__TEXT" <=> i = x
    BY <1>10, <1>12, <1>13, <2>1
  <2>3. \A i : i \in Segments(V, "__TEXT") <=> i = x
    BY <1>10, <2>1, <2>2 DEF Segments, Numbers
  <2>4. Segments(V, "__TEXT") = {x}
    BY <2>3
  <2>5. QED BY <2>4
<1>18. Linkedit(V) = v[l]
  BY <1>16 DEF Linkedit
<1>19. Numbers(V, "signature") = IF Len(v) = n THEN {} ELSE {n + 1}
  <2>1. CASE Len(v) = n
    <3>1. \A i \in DOMAIN v : v[i].cmd # "signature"
      <4>1. \A i \in 1 .. n : v[i].cmd # "signature"
        BY <1>6, <1>12
      <4>2. QED BY <1>2, <2>1, <4>1
    <3>2. QED BY <2>1, <3>1 DEF Numbers
  <2>2. CASE Len(v) # n
    <3>1. Len(v) = n + 1 /\ n + 1 \in DOMAIN v /\ v[n + 1].cmd = "signature"
      BY <1>1, <1>2, <1>3, <2>2
    <3>2. \A i \in DOMAIN v : v[i].cmd = "signature" <=> i = n + 1
      <4>1. \A i \in 1 .. n : v[i].cmd # "signature"
        BY <1>6, <1>12
      <4>2. QED BY <1>1, <1>11, <3>1, <4>1
    <3>3. \A i : i \in Numbers(V, "signature") <=> i = n + 1
      BY <3>1, <3>2 DEF Numbers
    <3>4. QED BY <2>2, <3>3
  <2>3. QED BY <2>1, <2>2
<1>20. MachOCommandsAccepted(V)
  <2>1. \A cmd \in {"platform", "dylinker", "main"} : Cardinality(Numbers(V, cmd)) = 1
    BY <1>15, OnlyOne
  <2>2. \A name \in {"__TEXT", "__LINKEDIT"} : Cardinality(Segments(V, name)) = 1
    BY <1>16, <1>17, OnlyOne
  <2>3. Cardinality(Numbers(V, "signature")) <= 1
    <3>1. Cardinality({}) = 0 /\ Cardinality({n + 1}) = 1
      BY FS_EmptySet, OnlyOne
    <3>2. Cardinality(Numbers(V, "signature")) \in {0, 1}
      BY <1>19, <3>1
    <3>3. QED BY <3>2
  <2>4. QED BY <1>14, <2>1, <2>2, <2>3 DEF MachOCommandsAccepted
(* Where they refer to. *)
<1>21. /\ end - L.off \in Nat /\ end - L.off > 0 /\ L.off < end
       /\ align_up(end - L.off, Page) \in Nat /\ end - L.off <= align_up(end - L.off, Page)
  <2>1. end - L.off \in Nat /\ end - L.off > 0 /\ L.off < end
    BY <1>5
  <2>2. Page \in Nat \ {0}
    BY LayoutAssumption
  <2>3. QED BY <2>1, <2>2, AlignUp
<1>22. v[l].off = L.off /\ v[l].size = end - L.off /\ FileEnd(v[l]) = end
       /\ v[l].vmsize >= v[l].size /\ v[l].vmsize # 0 /\ v[l].vm = L.vm
       /\ v[l].vmsize \in Nat /\ v[l].size \in Nat
  <2>1. v[l].off = L.off /\ v[l].vm = L.vm
    BY <1>5, <1>12 DEF L
  <2>2. v[l].size = end - L.off /\ v[l].vmsize = align_up(end - L.off, Page)
    BY <1>3
  <2>3. FileEnd(v[l]) = v[l].off + v[l].size
    BY DEF FileEnd
  <2>4. v[l].off + v[l].size = end
    BY <1>5, <2>1, <2>2
  <2>5. v[l].vmsize >= v[l].size /\ v[l].vmsize # 0 /\ v[l].vmsize \in Nat /\ v[l].size \in Nat
    BY <1>21, <2>2
  <2>6. QED BY <2>1, <2>2, <2>3, <2>4, <2>5
<1>23. ASSUME NEW i \in Numbers(V, "segment"), i # l
       PROVE  /\ i \in 1 .. n /\ v[i] = k[i] /\ k[i].cmd = "segment" /\ Before(k[i], L)
              /\ k[i].off \in Nat /\ k[i].vm \in Nat /\ k[i].vmsize \in Nat /\ k[i].size \in Nat
              /\ FileEnd(k[i]) = k[i].off + k[i].size /\ FileEnd(k[i]) <= L.off
              /\ k[i].off <= L.off /\ k[i].vm <= L.vm
              /\ (k[i].vmsize # 0 => k[i].vm + k[i].vmsize <= L.vm)
  <2>1. i \in 1 .. n /\ v[i].cmd = "segment"
    BY <1>13, <1>23 DEF Numbers
  <2>2. v[i] = k[i] /\ k[i].cmd = "segment" /\ Before(k[i], L)
    BY <1>3, <1>7, <1>23, <2>1
  <2>3. /\ k[i].off \in Nat /\ k[i].vm \in Nat /\ k[i].vmsize \in Nat /\ k[i].size \in Nat
        /\ FileEnd(k[i]) = k[i].off + k[i].size
    BY <1>1, <2>1, CommandFacts
  <2>4. /\ FileEnd(k[i]) <= L.off /\ k[i].vm <= L.vm
        /\ (k[i].vmsize # 0 => k[i].vm + k[i].vmsize <= L.vm)
    BY <2>2 DEF Before
  <2>5. k[i].off <= L.off
    BY <1>5, <2>3, <2>4, SMTT(30)
  <2>6. QED BY <2>1, <2>2, <2>3, <2>4, <2>5
<1>24. ASSUME NEW i \in Numbers(V, "segment")
       PROVE  MachOSegmentAccepted(V, v[i], end)
  <2>1. CASE i = l
    <3>1. v[l].prot = "r" /\ v[l].name = "__LINKEDIT" /\ v[l].sect = 0 /\ v[l].sectsize = 0
      BY <1>5, <1>12 DEF L
    <3>2. QED BY <1>22, <2>1, <3>1 DEF MachOSegmentAccepted
  <2>2. CASE i # l
    <3>1. /\ i \in 1 .. n /\ v[i] = k[i] /\ k[i].cmd = "segment" /\ Before(k[i], L)
          /\ FileEnd(k[i]) <= L.off /\ FileEnd(k[i]) = k[i].off + k[i].size
          /\ k[i].off \in Nat /\ k[i].size \in Nat
      BY <1>23, <2>2
    <3>2. FileEnd(k[i]) <= end
      <4>1. FileEnd(k[i]) \in Nat /\ FileEnd(k[i]) <= L.off
        BY <3>1, SMTT(30)
      <4> HIDE DEF V
      <4>2. QED BY <1>5, <1>21, <4>1
    <3>3. k[i].name # "__LINKEDIT"
      BY <1>6, <2>2, <3>1 DEF IsLinkedit
    <3>4. k[i].name = "__TEXT" =>
            k[i].off = 0 /\ k[i].prot = "rx" /\ FileEnd(k[i]) >= CommandsEnd(V)
      <4>1. ASSUME k[i].name = "__TEXT"
            PROVE  k[i].off = 0 /\ k[i].prot = "rx" /\ FileEnd(k[i]) >= CommandsEnd(V)
        <5>1. IsText(k[i])
          BY <3>1, <4>1 DEF IsText
        <5>2. CommandsEnd(V) <= FileEnd(k[i])
          BY <1>4, <3>1, <5>1
        <5>3. QED BY <1>7, <3>1, <5>1, <5>2
      <4>2. QED BY <4>1
    <3>5. QED BY <3>1, <3>2, <3>3, <3>4 DEF MachOSegmentAccepted, Before
  <2>3. QED BY <2>1, <2>2
<1>25. MachOEntryAccepted(V)
  <2>1. PICK x \in 1 .. n : Numbers(V, "main") = {x}
    BY <1>15
  <2>2. b \in Numbers(V, "main")
    BY <1>8, <1>10, <1>12 DEF Numbers
  <2>3. TheCommand(V, "main") = v[b]
    BY <2>1, <2>2 DEF TheCommand
  <2>4. a \in Numbers(V, "segment") /\ v[a] = k[a]
    BY <1>3, <1>8, <1>10, <1>12 DEF Numbers
  <2>5. v[b].off = k[b].off
    BY <1>12
  <2>6. QED BY <1>8, <2>3, <2>4, <2>5 DEF MachOEntryAccepted
<1>26. ASSUME NEW i \in Numbers(V, "segment"), NEW j \in Numbers(V, "segment"), i # j
       PROVE  ApartFrom(v[i], v[j])
  <2>1. CASE i = l
    <3>1. /\ v[j] = k[j] /\ FileEnd(k[j]) <= L.off
          /\ (k[j].vmsize # 0 => k[j].vm + k[j].vmsize <= L.vm)
      BY <1>23, <1>26, <2>1
    <3>2. QED BY <1>22, <2>1, <3>1 DEF ApartFrom
  <2>2. CASE j = l
    <3>1. /\ v[i] = k[i] /\ FileEnd(k[i]) <= L.off
          /\ (k[i].vmsize # 0 => k[i].vm + k[i].vmsize <= L.vm)
      BY <1>23, <1>26, <2>2
    <3>2. QED BY <1>22, <2>2, <3>1 DEF ApartFrom
  <2>3. CASE i # l /\ j # l
    BY <1>7, <1>23, <1>26, <2>3
  <2>4. QED BY <2>1, <2>2, <2>3
<1>27. MachODataAccepted(V, end)
  <2>1. ASSUME NEW i \in Referenced(V)
        PROVE  v[i].off >= v[l].off /\ FileEnd(v[i]) <= end
    <3>1. i \in DOMAIN v /\ v[i].cmd = "data" /\ v[i].size # 0
      BY <2>1 DEF Referenced, Numbers
    <3>2. i \in 1 .. n /\ k[i].cmd = "data"
      BY <1>12, <1>13, <3>1
    <3>3. i # l
      BY <1>5, <3>2 DEF L
    <3>4. v[i] = k[i]
      BY <1>3, <3>2, <3>3
    <3>5. k[i].off >= L.off /\ FileEnd(k[i]) <= bound /\ FileEnd(k[i]) \in Nat
      BY <1>1, <1>7, <3>1, <3>2, <3>4, CommandFacts
    <3>6. QED BY <1>22, <3>4, <3>5
  <2>2. ASSUME NEW offset \in SectionOffsets(V)
        PROVE  offset \in CommandsEnd(V) .. end
    <3>1. PICK i \in DOMAIN v : v[i].sect # 0 /\ offset = v[i].sect
      BY <2>2 DEF SectionOffsets
    <3>2. i \in 1 .. n
      BY <1>3, <1>11, <3>1
    <3>3. k[i].sect # 0 /\ offset = k[i].sect
      BY <1>12, <3>1, <3>2
    <3>4. k[i].sect \in Nat
      BY <1>1, <3>2, CommandFacts
    <3>5. QED BY <1>2, <1>4, <1>7, <3>2, <3>3, <3>4
  <2>3. QED BY <1>18, <1>22, <2>1, <2>2 DEF MachODataAccepted
<1>28. MachOHeaderAccepted(V, end)
  <2>1. CommandsEnd(V) <= end
    BY <1>2, <1>4, <1>5, <1>21, SMTT(30)
  <2>2. QED BY <1>3, <1>4, <1>9, <2>1 DEF MachOHeaderAccepted
<1>29. MachOAccepted(exe)
  <2>1. MachOSegmentsDisjoint(V)
    BY <1>26 DEF MachOSegmentsDisjoint, ApartFrom
  <2>2. QED BY <1>20, <1>24, <1>25, <1>27, <1>28, <2>1 DEF MachOAccepted, V
<1>30. SignedMachO(V) <=> Len(v) # n
  BY <1>19 DEF SignedMachO
<1>31. Len(v) # n => Signature(V) = v[n + 1]
  BY <1>19, SMTT(30) DEF Signature, TheCommand
<1>32. max_non_signature_data_end(V) <= bound
  <2> DEFINE ends == {0} \union {FileEnd(v[i]) : i \in Referenced(V)}
  <2>1. \A e \in ends : e \in Nat /\ e <= bound
    <3>1. ASSUME NEW i \in Referenced(V) PROVE FileEnd(v[i]) \in Nat /\ FileEnd(v[i]) <= bound
      <4>1. i \in DOMAIN v /\ v[i].cmd = "data" /\ v[i].size # 0
        BY <3>1 DEF Referenced, Numbers
      <4>2. i \in 1 .. n /\ k[i].cmd = "data"
        BY <1>12, <1>13, <4>1
      <4>3. i # l
        BY <1>5, <4>2 DEF L
      <4>4. v[i] = k[i]
        BY <1>3, <4>2, <4>3
      <4>5. QED BY <1>1, <1>7, <4>1, <4>2, <4>4, CommandFacts
    <3>2. QED BY <3>1
  <2>2. ends \in SUBSET Nat /\ ends # {}
    BY <2>1
  <2> HIDE DEF ends
  <2>3. Max(ends) \in ends
    BY <2>1, <2>2, GreatestNatural
  <2>4. Max(ends) <= bound
    BY <2>1, <2>3
  <2>5. QED BY <2>4 DEF max_non_signature_data_end, ends
<1>33. FinalLayout(V, end)
  <2>1. \A i \in Numbers(V, "segment") : v[i].off <= v[l].off /\ v[i].vm <= v[l].vm
    <3>1. ASSUME NEW i \in Numbers(V, "segment")
          PROVE v[i].off <= v[l].off /\ v[i].vm <= v[l].vm
      <4>1. CASE i = l
        BY <1>5, <1>22, <4>1
      <4>2. CASE i # l
        BY <1>22, <1>23, <4>2
      <4>3. QED BY <4>1, <4>2
    <3>2. QED BY <3>1
  <2>2. v[l].off >= CommandsEnd(V)
    BY <1>2, <1>4, <1>5, <1>22
  <2>3. SignedMachO(V) => SignatureAccepted(V, end)
    <3>1. ASSUME SignedMachO(V) PROVE SignatureAccepted(V, end)
      <4>1. Signature(V) = v[n + 1] /\ v[n + 1].off = from /\ v[n + 1].size = end - from
            /\ from % SignatureAlignment = 0
        BY <1>3, <1>30, <1>31, <3>1
      <4>2. FileEnd(v[n + 1]) = end /\ end - from # 0
        BY <4>1 DEF FileEnd
      <4>3. from >= v[l].off /\ from >= CommandsEnd(V)
        BY <1>2, <1>4, <1>5, <1>22, SMTT(30)
      <4>4. from >= max_non_signature_data_end(V)
        <5> DEFINE top == max_non_signature_data_end(V)
        <5>1. top \in Nat
          <6> DEFINE ends == {0} \union {FileEnd(v[i]) : i \in Referenced(V)}
          <6>1. \A e \in ends : e \in Nat /\ e <= end
            <7>1. \A i \in Referenced(V) : i \in DOMAIN v /\ FileEnd(v[i]) <= end
              BY <1>27, <1>18, <1>22 DEF MachODataAccepted, Referenced, Numbers
            <7>2. QED BY <1>2, <7>1, CommandFacts
          <6>2. ends \in SUBSET Nat /\ ends # {}
            BY <6>1
          <6> HIDE DEF ends
          <6>3. Max(ends) \in Nat
            BY <6>1, <6>2, GreatestNatural
          <6>4. QED BY <6>3 DEF max_non_signature_data_end, ends
        <5> HIDE DEF top
        <5>2. QED BY <1>32, <5>1 DEF top
      <4>5. QED BY <1>18, <4>1, <4>2, <4>3, <4>4 DEF SignatureAccepted
    <3>2. QED BY <3>1
  <2>4. QED BY <1>18, <1>22, <2>1, <2>2, <2>3 DEF FinalLayout
<1>34. MachODataEnd(exe) = IF Len(v) = n THEN end ELSE from
  BY <1>3, <1>30, <1>31 DEF MachODataEnd, V
<1>35. \A offset \in SectionOffsets(V) : offset <= MachODataEnd(exe)
  <2>1. ASSUME NEW offset \in SectionOffsets(V) PROVE offset <= bound /\ offset \in Nat
    <3>1. PICK i \in DOMAIN v : v[i].sect # 0 /\ offset = v[i].sect
      BY <2>1 DEF SectionOffsets
    <3>2. i \in 1 .. n
      BY <1>3, <1>11, <3>1
    <3>3. k[i].sect # 0 /\ offset = k[i].sect
      BY <1>12, <3>1, <3>2
    <3>4. k[i].sect \in Nat
      BY <1>1, <3>2, CommandFacts
    <3>5. QED BY <1>7, <3>2, <3>3, <3>4
  <2>2. bound <= MachODataEnd(exe) /\ MachODataEnd(exe) \in Nat
    BY <1>34
  <2>3. QED BY <2>1, <2>2
<1>36. SoundMachO(exe)
  BY <1>2, <1>18, <1>22, <1>29, <1>33, <1>35 DEF SoundMachO, V
<1>37. QED
  BY <1>18, <1>34, <1>36 DEF V, k, n, OnceGrown

KeptCommand(old, new) ==
  new = IF old.name # "__LINKEDIT" THEN old
        ELSE [old EXCEPT !.size = new.size, !.vmsize = new.vmsize]

(* A load command is its fields.                                            *)
LEMMA CommandRecord ==
  ASSUME NEW c \in MachOCommands
  PROVE  c = [cmd |-> c.cmd, name |-> c.name, prot |-> c.prot, vm |-> c.vm, vmsize |-> c.vmsize,
              off |-> c.off, size |-> c.size, sect |-> c.sect, sectsize |-> c.sectsize]
<1> DEFINE r == [cmd |-> c.cmd, name |-> c.name, prot |-> c.prot, vm |-> c.vm,
                 vmsize |-> c.vmsize, off |-> c.off, size |-> c.size, sect |-> c.sect,
                 sectsize |-> c.sectsize]
<1>1. ASSUME c \in [cmd : {"segment"}, name : STRING, prot : STRING, vm : Nat, vmsize : Nat,
                    off : Nat, size : Nat, sect : Nat, sectsize : Nat]
      PROVE  c = r
  BY <1>1
<1>2. ASSUME c \in [cmd : {"data", "signature"}, name : {""}, prot : {""}, vm : {0},
                    vmsize : {0}, off : Nat, size : Nat, sect : {0}, sectsize : {0}]
      PROVE  c = r
  BY <1>2
<1>3. ASSUME c \in [cmd : STRING \ {"segment", "data", "signature"}, name : {""}, prot : {""},
                    vm : {0}, vmsize : {0}, off : Nat, size : {0}, sect : {0}, sectsize : {0}]
      PROVE  c = r
  BY <1>3
<1> HIDE DEF r
<1>4. c = r
  BY <1>1, <1>2, <1>3, CommandKinds
<1>5. QED BY <1>4 DEF r

Load(d, n, p, m, z, o, s, t, e) ==
  [cmd |-> d, name |-> n, prot |-> p, vm |-> m, vmsize |-> z, off |-> o, size |-> s,
   sect |-> t, sectsize |-> e]

(* What changes when __LINKEDIT is resized.                                 *)
LEMMA Resizing ==
  ASSUME NEW c \in MachOCommands, NEW size, NEW vmsize
  PROVE  [c EXCEPT !.size = size, !.vmsize = vmsize] =
         [cmd |-> c.cmd, name |-> c.name, prot |-> c.prot, vm |-> c.vm, vmsize |-> vmsize,
          off |-> c.off, size |-> size, sect |-> c.sect, sectsize |-> c.sectsize]
<1>1. \E d, n, p, m, z, o, s, t, e : c = Load(d, n, p, m, z, o, s, t, e)
  BY CommandRecord DEF Load
<1>2. PICK d, n, p, m, z, o, s, t, e : c = Load(d, n, p, m, z, o, s, t, e)
  BY <1>1
<1>3. /\ c.cmd = d /\ c.name = n /\ c.prot = p /\ c.vm = m /\ c.off = o /\ c.sect = t
      /\ c.sectsize = e
  BY <1>2 DEF Load
<1>4. [Load(d, n, p, m, z, o, s, t, e) EXCEPT !.size = size] = Load(d, n, p, m, z, o, size, t, e)
  BY DEF Load
<1>5. [Load(d, n, p, m, z, o, size, t, e) EXCEPT !.vmsize = vmsize]
        = Load(d, n, p, m, vmsize, o, size, t, e)
  BY DEF Load
<1>6. [c EXCEPT !.size = size, !.vmsize = vmsize] = Load(d, n, p, m, vmsize, o, size, t, e)
  BY <1>2, <1>4, <1>5
<1>7. QED BY <1>3, <1>6 DEF Load

LongerCommand(c, size, vmsize) == [c EXCEPT !.size = size, !.vmsize = vmsize]
OfSize(c, size, vmsize) ==
  [cmd |-> c.cmd, name |-> c.name, prot |-> c.prot, vm |-> c.vm, vmsize |-> vmsize,
   off |-> c.off, size |-> size, sect |-> c.sect, sectsize |-> c.sectsize]

LEMMA ResizedIs ==
  ASSUME NEW c \in MachOCommands
  PROVE  \A size, vmsize : LongerCommand(c, size, vmsize) = OfSize(c, size, vmsize)
BY Resizing DEF LongerCommand, OfSize

(* Commands that are kept, once and twice.                                  *)
LEMMA KeptWhenSame ==
  ASSUME NEW a \in MachOCommands, NEW b \in MachOCommands, SameButSize(b, a),
         a.name = "__LINKEDIT" \/ b = a
  PROVE  KeptCommand(a, b)
<1>1. b = [a EXCEPT !.size = b.size, !.vmsize = b.vmsize]
  <2>1. b = [cmd |-> b.cmd, name |-> b.name, prot |-> b.prot, vm |-> b.vm, vmsize |-> b.vmsize,
             off |-> b.off, size |-> b.size, sect |-> b.sect, sectsize |-> b.sectsize]
    BY CommandRecord
  <2>2. /\ b.cmd = a.cmd /\ b.name = a.name /\ b.prot = a.prot /\ b.vm = a.vm
        /\ b.off = a.off /\ b.sect = a.sect /\ b.sectsize = a.sectsize
    BY DEF SameButSize
  <2>3. [a EXCEPT !.size = b.size, !.vmsize = b.vmsize] =
          [cmd |-> a.cmd, name |-> a.name, prot |-> a.prot, vm |-> a.vm, vmsize |-> b.vmsize,
           off |-> a.off, size |-> b.size, sect |-> a.sect, sectsize |-> a.sectsize]
    BY Resizing
  <2>4. QED BY <2>1, <2>2, <2>3, Zenon
<1>2. QED
  BY <1>1 DEF KeptCommand

LEMMA KeptTwice ==
  ASSUME NEW a \in MachOCommands, NEW b \in MachOCommands, NEW c \in MachOCommands,
         KeptCommand(a, b), SameButSize(c, b), b.name = "__LINKEDIT" \/ c = b
  PROVE  KeptCommand(a, c)
<1>1. CASE a.name # "__LINKEDIT"
  BY <1>1 DEF KeptCommand
<1>2. CASE a.name = "__LINKEDIT"
  <2>1. b = [a EXCEPT !.size = b.size, !.vmsize = b.vmsize]
    BY <1>2 DEF KeptCommand
  <2>2. b = [cmd |-> a.cmd, name |-> a.name, prot |-> a.prot, vm |-> a.vm, vmsize |-> b.vmsize,
             off |-> a.off, size |-> b.size, sect |-> a.sect, sectsize |-> a.sectsize]
    BY <2>1, Resizing
  <2>3. SameButSize(b, a)
    BY <2>2 DEF SameButSize
  <2>4. SameButSize(c, a)
    BY <2>3 DEF SameButSize
  <2>5. QED BY <1>2, <2>4, KeptWhenSame
<1>3. QED BY <1>1, <1>2

(* An image without a signature whose __LINKEDIT is command l.              *)
EndsWith(K, l) ==
  /\ K \in MachOImages /\ l \in DOMAIN K.commands
  /\ \A i \in DOMAIN K.commands : /\ IsLinkedit(K.commands[i]) <=> i = l
                                 /\ K.commands[i].cmd # "signature"

(* A resized table is a grown one.                                          *)
LEMMA Grows ==
  ASSUME NEW K, NEW l, EndsWith(K, l), NEW W \in MachOImages,
         NEW from \in Nat, NEW end \in Nat, K.commands[l].off <= end,
         W.executable = K.executable,
         Len(W.commands) \in {Len(K.commands), Len(K.commands) + 1},
         \A i \in 1 .. Len(K.commands) : W.commands[i] = K.commands[i],
         Len(W.commands) = Len(K.commands) + 1 =>
           LET s == W.commands[Len(W.commands)] IN
             /\ s.cmd = "signature" /\ s.off = from /\ s.size = end - from
             /\ s.sect = 0 /\ from % SignatureAlignment = 0
  PROVE  /\ GrownTo(Extended(W, end), K, l, from, end)
         /\ Extended(W, end).machine = W.machine
         /\ Len(Extended(W, end).commands) = Len(W.commands)
<1> DEFINE k == K.commands
           n == Len(k)
           w == W.commands
           size == end - Linkedit(W).off
           vmsize == align_up(size, Page)
           V == Extended(W, end)
           v == V.commands
<1>1. /\ n \in Nat /\ DOMAIN k = 1 .. n /\ \A i \in 1 .. n : k[i] \in MachOCommands
  BY MachOFacts DEF EndsWith
<1>2. /\ l \in 1 .. n /\ \A i \in 1 .. n : IsLinkedit(k[i]) <=> i = l
  BY <1>1 DEF EndsWith
<1>3. w \in Seq(MachOCommands) /\ Len(w) \in Nat /\ DOMAIN w = 1 .. Len(w)
  BY MachOFacts
<1>4. Segments(W, "__LINKEDIT") = {l}
  <2>1. \A i \in DOMAIN w : IsLinkedit(w[i]) <=> i = l
    <3>1. \A i \in 1 .. n : IsLinkedit(w[i]) <=> i = l
      BY <1>2
    <3>2. Len(w) = n + 1 => ~IsLinkedit(w[n + 1])
      BY DEF IsLinkedit
    <3>3. QED BY <1>1, <1>2, <1>3, <3>1, <3>2, SMTT(30)
  <2>2. l \in DOMAIN w
    BY <1>1, <1>2, <1>3
  <2>3. \A i : i \in Segments(W, "__LINKEDIT") <=> i = l
    BY <2>1, <2>2 DEF Segments, Numbers, IsLinkedit
  <2>4. QED BY <2>3
<1>5. Linkedit(W) = w[l] /\ w[l] = k[l] /\ k[l] \in MachOCommands
  BY <1>1, <1>2, <1>4 DEF Linkedit
<1>6. V = [W EXCEPT !.commands[l].size = size, !.commands[l].vmsize = vmsize]
  BY <1>4 DEF Extended
<1>7. k[l].off \in Nat /\ size = end - k[l].off /\ size \in Nat /\ vmsize \in Nat
  <2>1. k[l].off \in Nat /\ size = end - k[l].off /\ size \in Nat
    BY <1>5, CommandFacts
  <2>2. Page \in Nat \ {0}
    BY LayoutAssumption
  <2> HIDE DEF size
  <2>3. vmsize \in Nat
    BY <2>1, <2>2, AlignUp
  <2> HIDE DEF vmsize
  <2>4. QED BY <2>1, <2>3
<1> DEFINE grown == [k[l] EXCEPT !.size = size, !.vmsize = vmsize]
<1>8. grown = [cmd |-> k[l].cmd, name |-> k[l].name, prot |-> k[l].prot, vm |-> k[l].vm,
               vmsize |-> vmsize, off |-> k[l].off, size |-> size, sect |-> k[l].sect,
               sectsize |-> k[l].sectsize]
  <2>1. k[l] \in MachOCommands
    BY <1>5
  <2> HIDE DEF k, size, vmsize
  <2>2. LongerCommand(k[l], size, vmsize) = OfSize(k[l], size, vmsize)
    BY <2>1, ResizedIs
  <2>3. QED BY <2>2 DEF LongerCommand, OfSize
<1>9. grown \in MachOCommands
  <2>1. k[l].cmd = "segment"
    BY <1>2 DEF IsLinkedit
  <2>2. k[l] \in [cmd : {"segment"}, name : STRING, prot : STRING, vm : Nat, vmsize : Nat,
                  off : Nat, size : Nat, sect : Nat, sectsize : Nat]
    BY <1>5, <2>1, CommandKinds
  <2> HIDE DEF size, vmsize, k
  <2>3. grown \in [cmd : {"segment"}, name : STRING, prot : STRING, vm : Nat, vmsize : Nat,
                   off : Nat, size : Nat, sect : Nat, sectsize : Nat]
    BY <1>7, <2>2
  <2> HIDE DEF grown
  <2>4. QED BY <2>3 DEF MachOCommands
<1>10. v = [w EXCEPT ![l] = grown]
  <2>1. l \in DOMAIN w
    BY <1>1, <1>2, <1>3
  <2> HIDE DEF size, vmsize
  <2>2. V.commands = [W.commands EXCEPT ![l].size = size, ![l].vmsize = vmsize]
    BY <1>6 DEF MachOImages
  <2>3. [W.commands EXCEPT ![l].size = size, ![l].vmsize = vmsize]
          = [w EXCEPT ![l] = [w[l] EXCEPT !.size = size, !.vmsize = vmsize]]
    BY <1>3, <2>1
  <2>4. QED BY <1>5, <2>2, <2>3
<1> HIDE DEF grown
<1>11. /\ v \in Seq(MachOCommands) /\ Len(v) = Len(w)
       /\ v[l] = grown /\ \A i \in DOMAIN w : i # l => v[i] = w[i]
  BY <1>1, <1>2, <1>3, <1>9, <1>10
<1>12. V \in MachOImages /\ V.executable = W.executable /\ V.machine = W.machine
  <2> HIDE DEF size, vmsize
  <2>1. V = [W EXCEPT !.commands = v]
    BY <1>6 DEF MachOImages
  <2> HIDE DEF V, v
  <2>2. v \in Seq(MachOCommands)
    BY <1>11
  <2>3. QED BY <2>1, <2>2 DEF MachOImages
<1>13. \A i \in 1 .. n : SameButSize(v[i], k[i]) /\ (i # l => v[i] = k[i])
  <2>1. ASSUME NEW i \in 1 .. n, i # l PROVE v[i] = k[i]
    BY <1>1, <1>3, <1>11, <2>1
  <2>2. SameButSize(grown, k[l])
    BY <1>8 DEF SameButSize
  <2>3. QED BY <1>11, <2>1, <2>2 DEF SameButSize
<1>14. v[l].size = end - k[l].off /\ v[l].vmsize = align_up(end - k[l].off, Page)
  <2>1. grown.size = size /\ grown.vmsize = vmsize
    BY <1>8
  <2>2. QED BY <1>7, <1>11, <2>1
<1>15. \/ Len(v) = n
       \/ /\ Len(v) = n + 1 /\ v[n + 1].cmd = "signature" /\ v[n + 1].sect = 0
          /\ v[n + 1].off = from /\ v[n + 1].size = end - from
          /\ from % SignatureAlignment = 0
  <2>1. Len(w) = n + 1 => n + 1 \in DOMAIN w /\ n + 1 # l
    BY <1>1, <1>2, <1>3
  <2>2. Len(w) = n + 1 => v[n + 1] = w[n + 1]
    BY <1>11, <2>1
  <2>3. QED BY <1>11, <2>2
<1> HIDE DEF V
<1>16. QED
  BY <1>11, <1>12, <1>13, <1>14, <1>15 DEF GrownTo, V

(* Where the data of an image ends, with and without its signature.         *)
LEMMA UnsignedEnds ==
  ASSUME NEW image \in MachOImages, MachOCommandsAccepted(image)
  PROVE  \E l \in DOMAIN Unsigned(image).commands :
           EndsWith(Unsigned(image), l) /\ Unsigned(image).commands[l] = Linkedit(image)
<1> DEFINE c == image.commands
           K == Unsigned(image)
           k == K.commands
           w(i) == Was(image, i)
<1>1. /\ K \in MachOImages /\ Len(k) \in Nat
      /\ \A i \in 1 .. Len(k) : w(i) \in 1 .. Len(c) /\ k[i] = c[w(i)] /\ k[i].cmd # "signature"
      /\ \A j \in 1 .. Len(c) : c[j].cmd # "signature" => \E i \in 1 .. Len(k) : j = w(i)
      /\ \A i, j \in 1 .. Len(k) : w(i) = w(j) => i = j
  <2>1. Cardinality(Numbers(image, "signature")) <= 1
    BY DEF MachOCommandsAccepted
  <2> DEFINE m == IF SignedMachO(image) THEN Len(c) - 1 ELSE Len(c)
  <2>2. /\ K \in MachOImages /\ m \in Nat /\ Len(k) = m
        /\ \A i \in 1 .. m : w(i) \in 1 .. Len(c) /\ k[i] = c[w(i)] /\ k[i].cmd # "signature"
        /\ \A j \in 1 .. Len(c) : c[j].cmd = "signature" \/ \E i \in 1 .. m : j = w(i)
        /\ \A i, j \in 1 .. m : w(i) = w(j) => i = j
    BY <2>1, UnsignedFacts
  <2> HIDE DEF m, K, c, w
  <2>3. QED BY <2>2
<1>2. DOMAIN k = 1 .. Len(k) /\ DOMAIN c = 1 .. Len(c)
  BY <1>1, MachOFacts
<1>3. PICK x \in DOMAIN c : (\A i \in DOMAIN c : IsLinkedit(c[i]) <=> i = x) /\ Linkedit(image) = c[x]
  BY AcceptedCommands
<1>4. c[x].cmd # "signature"
  BY <1>3 DEF IsLinkedit
<1> HIDE DEF c, K, w
<1>5. PICK l \in 1 .. Len(k) : x = w(l)
  BY <1>1, <1>2, <1>3, <1>4
<1>6. k[l] = c[x]
  BY <1>1, <1>5
<1>7. \A i \in DOMAIN k : IsLinkedit(k[i]) <=> i = l
  BY <1>1, <1>2, <1>3, <1>5
<1>8. EndsWith(K, l)
  BY <1>1, <1>2, <1>5, <1>7 DEF EndsWith
<1>9. QED
  BY <1>2, <1>3, <1>5, <1>6, <1>8 DEF K

(* What a grown image is without its signature.                             *)
LEMMA GrownFacts ==
  ASSUME NEW K, NEW l, EndsWith(K, l), NEW V, NEW from, NEW end, GrownTo(V, K, l, from, end)
  PROVE  LET n == Len(K.commands)
         IN  /\ Linkedit(V) = V.commands[l] /\ Linkedit(V).off = K.commands[l].off
             /\ Segments(V, "__LINKEDIT") = {l}
             /\ SignedMachO(V) <=> Len(V.commands) = n + 1
             /\ SignedMachO(V) => Signature(V) = V.commands[n + 1]
             /\ EndsWith(Unsigned(V), l) /\ Len(Unsigned(V).commands) = n
             /\ Unsigned(V).executable = V.executable /\ Unsigned(V).machine = V.machine
             /\ \A i \in 1 .. n : Unsigned(V).commands[i] = V.commands[i]
<1> DEFINE v == V.commands
           k == K.commands
           n == Len(k)
<1>1. /\ n \in Nat /\ l \in 1 .. n
      /\ \A i \in 1 .. n : (IsLinkedit(k[i]) <=> i = l) /\ k[i].cmd # "signature"
  BY MachOFacts DEF EndsWith
<1>2. /\ V \in MachOImages /\ Len(v) \in Nat /\ DOMAIN v = 1 .. Len(v)
  BY MachOFacts DEF GrownTo
<1>3. /\ \A i \in 1 .. n : SameButSize(v[i], k[i])
      /\ Len(v) = n \/ (Len(v) = n + 1 /\ v[n + 1].cmd = "signature")
  BY DEF GrownTo
<1>4. \A i \in 1 .. n : (IsLinkedit(v[i]) <=> i = l) /\ v[i].cmd # "signature"
  BY <1>1, <1>3, SMTT(30) DEF SameButSize, IsLinkedit
<1>5. \A i : i \in Segments(V, "__LINKEDIT") <=> i = l
  <2>1. Len(v) = n + 1 => ~IsLinkedit(v[n + 1])
    BY <1>1, <1>3 DEF IsLinkedit
  <2>2. \A i \in DOMAIN v : IsLinkedit(v[i]) <=> i = l
    BY <1>1, <1>2, <1>3, <1>4, <2>1
  <2>3. l \in DOMAIN v
    BY <1>1, <1>2, <1>3
  <2>4. QED BY <2>2, <2>3 DEF Segments, Numbers, IsLinkedit
<1>6. Segments(V, "__LINKEDIT") = {l} /\ Linkedit(V) = v[l] /\ v[l].off = k[l].off
  <2>1. Segments(V, "__LINKEDIT") = {l}
    BY <1>5
  <2>2. v[l].off = k[l].off
    BY <1>1, <1>3 DEF SameButSize
  <2>3. QED BY <2>1, <2>2 DEF Linkedit
<1>7. CASE Len(v) = n
  <2>1. \A i \in DOMAIN v : v[i].cmd # "signature"
    BY <1>2, <1>4, <1>7
  <2>2. ~SignedMachO(V)
    BY <2>1 DEF SignedMachO, Numbers
  <2>3. Unsigned(V) = V
    BY <2>2 DEF Unsigned
  <2>4. n # n + 1
    BY <1>1
  <2>5. EndsWith(V, l)
    BY <1>1, <1>2, <1>4, <1>7 DEF EndsWith
  <2> HIDE DEF n
  <2>6. QED BY <1>6, <1>7, <2>2, <2>3, <2>4, <2>5 DEF n
<1>8. CASE Len(v) = n + 1 /\ v[n + 1].cmd = "signature"
  <2>1. \A i : i \in Numbers(V, "signature") <=> i = n + 1
    <3>1. \A i \in DOMAIN v : v[i].cmd = "signature" <=> i = n + 1
      BY <1>1, <1>2, <1>4, <1>8
    <3>2. n + 1 \in DOMAIN v
      BY <1>1, <1>2, <1>8
    <3>3. QED BY <3>1, <3>2 DEF Numbers
  <2>2. Numbers(V, "signature") = {n + 1}
    BY <2>1
  <2>3. SignedMachO(V) /\ Signature(V) = v[n + 1] /\ SignatureAt(V) = n + 1
    BY <2>2 DEF SignedMachO, Signature, TheCommand, SignatureAt
  <2>4. Cardinality(Numbers(V, "signature")) <= 1
    <3>1. \E x : Numbers(V, "signature") = {x}
      BY <2>2
    <3>2. Cardinality(Numbers(V, "signature")) = 1
      BY <3>1, OnlyOne
    <3>3. QED BY <3>2
  <2> DEFINE u == Unsigned(V)
             m == IF SignedMachO(V) THEN Len(v) - 1 ELSE Len(v)
  <2>5. /\ u \in MachOImages /\ Len(u.commands) = m /\ u.executable = V.executable
        /\ u.machine = V.machine
        /\ \A i \in 1 .. m : u.commands[i] = v[Was(V, i)]
    BY <1>2, <2>4, UnsignedFacts
  <2>6. m = n
    BY <1>1, <1>8, <2>3
  <2> HIDE DEF u, m
  <2>7. \A i \in 1 .. n : Was(V, i) = i
    BY <1>1, <2>3 DEF Was
  <2>8. \A i \in 1 .. n : u.commands[i] = v[i]
    BY <2>5, <2>6, <2>7
  <2>9. DOMAIN u.commands = 1 .. n
    BY <2>5, <2>6, MachOFacts
  <2>10. EndsWith(u, l)
    BY <1>1, <1>4, <2>5, <2>8, <2>9 DEF EndsWith
  <2>11. SignedMachO(V) <=> Len(v) = n + 1
    BY <1>8, <2>3
  <2>12. Len(u.commands) = n /\ u.executable = V.executable /\ u.machine = V.machine
    BY <2>5, <2>6
  <2>13. Linkedit(V) = v[l] /\ Linkedit(V).off = k[l].off
    BY <1>6
  <2> HIDE DEF n, v, k
  <2>14. /\ Linkedit(V) = v[l] /\ Linkedit(V).off = k[l].off
         /\ Segments(V, "__LINKEDIT") = {l}
         /\ SignedMachO(V) <=> Len(v) = n + 1
         /\ SignedMachO(V) => Signature(V) = v[n + 1]
         /\ EndsWith(u, l) /\ Len(u.commands) = n
         /\ u.executable = V.executable /\ u.machine = V.machine
         /\ \A i \in 1 .. n : u.commands[i] = v[i]
    BY <1>6, <2>3, <2>8, <2>10, <2>11, <2>12, <2>13
  <2>15. QED BY <2>14 DEF n, u, v, k
<1>9. QED
  BY <1>3, <1>7, <1>8

LEMMA CoreEnds ==
  ASSUME NEW K, NEW l, NEW bound, Core(K, l, bound)
  PROVE  EndsWith(K, l)
BY DEF Core, EndsWith

-----------------------------------------------------------------------------
(* Stamped Mach-O files                                                     *)

(* The data of a stamp lies before a footer, and zeros up to dataEnd.       *)
DataAt(cells, foot, dataEnd, header, bundled) ==
  LET len   == Len(header) + Len(bundled)
      start == foot - (len + 1)
  IN  /\ foot \in Nat /\ len + 1 <= foot /\ foot <= dataEnd
      /\ cells[foot] = Footer(header, bundled)
      /\ \A i \in foot + 1 .. dataEnd : cells[i] = Zero
      /\ Slice(cells, start, Len(header)) = header
      /\ Slice(cells, start + Len(header), Len(bundled)) = bundled

FoundAt(cells, foot, dataEnd, alignment, minimum, header, bundled) ==
  SearchFooter(cells, dataEnd, alignment, minimum) =
    [found |-> "data", header |-> header,
     offset |-> foot - (Len(header) + Len(bundled) + 1) + Len(header), bundle |-> bundled]

(* The footer is found if it is not too far from the end, nor the data      *)
(* begins too early.                                                        *)
LEMMA SearchFinds ==
  ASSUME NEW S, NEW cells \in Seq(S), NEW header \in Seq(S), NEW bundled \in Seq(S),
         NEW foot, NEW dataEnd \in Nat, NEW alignment \in Nat \ {0}, NEW minimum \in Nat,
         DataAt(cells, foot, dataEnd, header, bundled),
         dataEnd <= Len(cells), dataEnd - foot < alignment,
         minimum + (Len(header) + Len(bundled) + 1) <= foot
  PROVE  FoundAt(cells, foot, dataEnd, alignment, minimum, header, bundled)
<1> DEFINE len == Len(header) + Len(bundled)
           start == foot - (len + 1)
           footer == Footer(header, bundled)
           gaps == FooterGaps(cells, dataEnd, alignment)
           gap == dataEnd - foot
           data == [found |-> "data", header |-> header, offset |-> start + Len(header),
                    bundle |-> bundled]
<1>1. /\ foot \in Nat /\ len + 1 <= foot /\ foot <= dataEnd
      /\ cells[foot] = footer
      /\ \A i \in foot + 1 .. dataEnd : cells[i] = Zero
      /\ Slice(cells, start, Len(header)) = header
      /\ Slice(cells, start + Len(header), Len(bundled)) = bundled
  BY DEF DataAt
<1>2. len \in Nat /\ Len(header) \in Nat /\ Len(bundled) \in Nat /\ Len(cells) \in Nat
  OBVIOUS
<1>3. footer[1] = "footer" /\ footer[2] = header /\ footer[3] = bundled
  BY DEF Footer
<1>4. ~IsFooter(Zero) /\ IsFooter(footer)
  BY <1>3 DEF IsFooter, Zero
<1> HIDE DEF footer, len
<1>5. gap \in Nat /\ gap \in 0 .. alignment - 1 /\ gap < dataEnd /\ dataEnd - gap = foot
      /\ start \in Nat
  BY <1>1, <1>2
<1>6. gap \in gaps
  BY <1>1, <1>4, <1>5 DEF FooterGaps
<1>7. \A g \in gaps : gap <= g
  <2>1. SUFFICES ASSUME NEW g \in gaps, g < gap PROVE FALSE
    <3>1. \A g \in gaps : g \in Nat
      BY DEF FooterGaps
    <3> HIDE DEF gaps, gap
    <3>2. QED BY <1>5, <2>1, <3>1
  <2>2. g \in Nat /\ IsFooter(cells[dataEnd - g])
    BY DEF FooterGaps
  <2>3. dataEnd - g \in foot + 1 .. dataEnd
    BY <1>1, <2>1, <2>2
  <2>4. cells[dataEnd - g] = Zero
    BY <1>1, <2>3
  <2>5. QED BY <1>4, <2>2, <2>4
<1>8. Min(gaps) = gap
  <2>1. gaps \in SUBSET Nat
    BY DEF FooterGaps
  <2> HIDE DEF gaps
  <2>2. Min(gaps) \in gaps /\ Min(gaps) \in Nat /\ Min(gaps) <= gap
    BY <1>6, <2>1, LeastOfSet
  <2>3. gap <= Min(gaps)
    BY <1>7, <2>2
  <2>4. QED BY <1>5, <2>2, <2>3
<1>9. ZeroRange(cells, dataEnd - gap, gap)
  <2>1. ASSUME NEW i \in foot + 1 .. foot + gap PROVE i <= Len(cells) /\ cells[i] = Zero
    <3>1. i \in foot + 1 .. dataEnd /\ i <= Len(cells)
      BY <1>1, <1>2
    <3>2. QED BY <1>1, <3>1
  <2>2. QED BY <1>5, <2>1 DEF ZeroRange
<1>10. (dataEnd - gap) - FooterLen = foot - 1 /\ (foot - 1) + 1 = foot /\ (foot - 1) - len = start
       /\ ~(len > foot - 1) /\ ~(start < minimum) /\ start + Len(header) <= Len(cells)
  <2>1. minimum + (len + 1) <= foot
    BY DEF len
  <2>2. Len(header) <= len
    BY <1>2 DEF len
  <2>3. QED BY <1>1, <1>2, <1>5, <2>1, <2>2 DEF FooterLen
<1>11. Len(footer[2]) + Len(footer[3]) = len
  BY <1>3 DEF len
<1>12. Payload(cells, start, footer) = data
  BY <1>1, <1>3, <1>10 DEF Payload
<1>13. AtFooter(cells, foot - 1, minimum) = data
  <2> HIDE DEF start, data
  <2>1. cells[(foot - 1) + 1] = footer
    BY <1>1, <1>10
  <2>2. QED BY <1>10, <1>11, <1>12, <2>1 DEF AtFooter
<1>14. SearchFooter(cells, dataEnd, alignment, minimum) = data
  <2> HIDE DEF data, gap, gaps
  <2>1. gaps # {}
    BY <1>6
  <2>2. QED BY <1>8, <1>9, <1>10, <1>13, <2>1 DEF SearchFooter, gaps
<1>15. QED
  BY <1>14 DEF len, FoundAt

MachOFiles(S) == [format : {"macho"}, image : MachOImages, cells : Seq(S)]

MachODataKept(template) ==
  Max({MachODataEnd(template), max_non_signature_data_end(template.image)})

(* What the writer makes of a Mach-O template, before the layout is         *)
(* checked: the data, the template's cells, and its commands.               *)
MachOWritten(exe, template, header, bundled) ==
  LET old == Unsigned(template.image).commands
      new == Unsigned(exe.image).commands
      end == MachODataEnd(exe)
  IN  /\ PlatformFits(exe.image, header) /\ MachODataKept(template) \in Nat
      /\ \E foot \in Nat :
           /\ DataAt(exe.cells, foot, end, header, bundled)
           /\ end - foot < SignatureAlignment
           /\ ~SignedMachO(exe.image) => foot = end
           /\ Linkedit(exe.image).off + (Len(header) + Len(bundled) + 1) <= foot
           /\ MachODataKept(template) + (Len(header) + Len(bundled) + 1) <= foot
      /\ Cardinality(Numbers(template.image, "signature")) <= 1
      /\ DOMAIN new = DOMAIN old
      /\ \A i \in DOMAIN old : KeptCommand(old[i], new[i])
      /\ \A i \in CommandsEnd(template.image) + 2 .. MachODataKept(template) :
           exe.cells[i] = template.cells[i]

MachOStamped(exe, template, header, bundled) ==
  SoundMachO(exe) /\ MachOWritten(exe, template, header, bundled)

(* A stamp the reader finds.                                                *)
LEMMA MachOStampedReads ==
  ASSUME NEW S, NEW exe \in MachOFiles(S), NEW template,
         NEW header \in Seq(S), NEW bundled \in Seq(S),
         MachOStamped(exe, template, header, bundled)
  PROVE  ReadsAs(exe, header, bundled) /\ MachOKept(template, exe)
<1> DEFINE image == exe.image
           end == MachODataEnd(exe)
           len == Len(header) + Len(bundled)
           minimum == Linkedit(image).off
           alignment == IF SignedMachO(image) THEN SignatureAlignment ELSE 1
<1>1. /\ image \in MachOImages /\ exe.cells \in Seq(S) /\ exe.format = "macho"
      /\ Len(exe.cells) \in Nat
  BY DEF MachOFiles
<1>2. /\ MachOAccepted(exe) /\ FinalLayout(image, Len(exe.cells))
      /\ PlatformFits(image, header)
  BY DEF MachOStamped, MachOWritten, SoundMachO
<1>3. PICK foot \in Nat :
           /\ DataAt(exe.cells, foot, end, header, bundled)
           /\ end - foot < SignatureAlignment
           /\ ~SignedMachO(image) => foot = end
           /\ minimum + (len + 1) <= foot
  BY DEF MachOStamped, MachOWritten
<1>4. end \in Nat /\ end <= Len(exe.cells) /\ Linkedit(image) \in MachOCommands
  BY <1>1, <1>2, DataEndFacts
<1>5. minimum \in Nat
  BY <1>4, CommandFacts
<1>6. alignment \in Nat \ {0} /\ end - foot < alignment
  BY <1>3, <1>4, LayoutAssumption
<1> DEFINE start == foot - (len + 1)
           data == [found |-> "data", header |-> header, offset |-> start + Len(header),
                    bundle |-> bundled]
<1>7. SearchFooter(exe.cells, end, alignment, minimum) = data
  <2> HIDE DEF end, alignment, minimum
  <2>1. minimum + (Len(header) + Len(bundled) + 1) <= foot
    BY <1>3
  <2>2. /\ exe.cells \in Seq(S) /\ end \in Nat /\ alignment \in Nat \ {0} /\ minimum \in Nat
        /\ DataAt(exe.cells, foot, end, header, bundled)
        /\ end <= Len(exe.cells) /\ end - foot < alignment
    BY <1>1, <1>3, <1>4, <1>5, <1>6
  <2>3. FoundAt(exe.cells, foot, end, alignment, minimum, header, bundled)
    BY <2>1, <2>2, SearchFinds
  <2>4. QED BY <2>3 DEF FoundAt
<1>8. read_macho_runtime_data(exe) = data
  <2>1. data.found = "data" /\ data.header = header
    OBVIOUS
  <2> HIDE DEF data
  <2>2. OnPlatform(image, data) = data
    BY <1>2, <2>1 DEF OnPlatform
  <2>3. QED BY <1>2, <1>7, <2>2 DEF read_macho_runtime_data
<1>9. ReadRuntimeData(exe) = data
  BY <1>1, <1>8 DEF ReadRuntimeData
<1>10. Slice(exe.cells, start + Len(header), Len(bundled)) = bundled
  BY <1>3 DEF DataAt
<1>11. ReadsAs(exe, header, bundled)
  <2> HIDE DEF start, len, end, minimum, alignment, image
  <2>1. /\ data.found = "data" /\ data.header = header /\ data.bundle = bundled
        /\ Slice(exe.cells, data.offset, Len(bundled)) = bundled
    BY <1>10
  <2> HIDE DEF data
  <2>2. QED BY <1>9, <2>1 DEF ReadsAs
<1>12. MachOKept(template, exe)
  BY <1>2 DEF MachOKept, MachOStamped, MachOWritten, MachODataKept, KeptCommand
<1>13. QED BY <1>11, <1>12

(* Nothing that has to be kept lies behind the place where a stamp begins.  *)
LEMMA KeptBefore ==
  ASSUME NEW exe, exe.image \in MachOImages, MachOAccepted(exe), Len(exe.cells) \in Nat,
         FinalLayout(exe.image, Len(exe.cells))
  PROVE  MachODataKept(exe) \in Nat /\ MachODataKept(exe) = MachODataEnd(exe)
<1> DEFINE c == exe.image.commands
           end == MachODataEnd(exe)
           ends == {0} \union {FileEnd(c[i]) : i \in Referenced(exe.image)}
           top == Max(ends)
<1>1. /\ end \in Nat
      /\ \A i \in DOMAIN c : c[i].cmd = "data" /\ c[i].size # 0 => FileEnd(c[i]) <= end
  BY DataEndFacts
<1>2. \A e \in ends : e \in Nat /\ e <= end
  <2>1. \A i \in DOMAIN c : FileEnd(c[i]) \in Nat
    BY MachOFacts, CommandFacts
  <2>2. QED BY <1>1, <2>1 DEF Referenced, Numbers
<1>3. ends \in SUBSET Nat /\ ends # {}
  BY <1>2
<1> HIDE DEF ends
<1>4. top \in ends /\ top \in Nat
  BY <1>1, <1>2, <1>3, GreatestNatural
<1>5. top <= end
  BY <1>2, <1>4
<1> HIDE DEF top, end
<1>6. Max({end, top}) = end
  BY <1>1, <1>4, <1>5, MaxOfTwo
<1>7. MachODataKept(exe) = Max({end, top})
  BY DEF MachODataKept, max_non_signature_data_end, top, ends, end
<1>8. QED BY <1>1, <1>6, <1>7 DEF end

(* The cells of a Mach-O stamp: content behind what there was, and its      *)
(* footer.                                                                  *)
StampAfter(S, cells, offset, header, bundled, cell) ==
  LET new == Resized(cells, offset) \o header \o bundled \o <<cell>>
      len == Len(header) + Len(bundled)
  IN  /\ new \in Seq(S) /\ Len(new) = offset + len + 1
      /\ new[offset + len + 1] = cell
      /\ Slice(new, offset, Len(header)) = header
      /\ Slice(new, offset + Len(header), Len(bundled)) = bundled
      /\ \A i \in 1 .. offset : i <= Len(cells) => new[i] = cells[i]

(* The cells of a stamped Mach-O image.                                     *)
LEMMA MachOStampCells ==
  ASSUME NEW S, Zero \in S, NEW cells \in Seq(S), NEW offset \in Nat,
         NEW header \in Seq(S), NEW bundled \in Seq(S), NEW cell \in S
  PROVE  StampAfter(S, cells, offset, header, bundled, cell)
<1> DEFINE a == Resized(cells, offset)
           b == a \o header
           c == b \o bundled
           foot == <<cell>>
           new == c \o foot
           len == Len(header) + Len(bundled)
<1>1. Len(header) \in Nat /\ Len(bundled) \in Nat /\ Len(cells) \in Nat
  OBVIOUS
<1>2. /\ a \in Seq(S) /\ Len(a) = offset
      /\ \A i \in 1 .. offset : i <= Len(cells) => a[i] = cells[i]
  BY ResizedFacts
<1>3. foot \in Seq(S) /\ Len(foot) = 1 /\ foot[1] = cell
  OBVIOUS
<1> HIDE DEF a, foot
<1>4. /\ b \in Seq(S) /\ Len(b) = offset + Len(header)
      /\ \A i \in 1 .. offset : b[i] = a[i]
      /\ \A i \in 1 .. Len(header) : b[offset + i] = header[i]
  <2>1. a \in Seq(S) /\ header \in Seq(S)
    BY <1>2
  <2>2. /\ b \in Seq(S) /\ Len(b) = Len(a) + Len(header)
        /\ \A i \in 1 .. Len(a) : b[i] = a[i]
        /\ \A i \in 1 .. Len(header) : b[Len(a) + i] = header[i]
    BY <2>1, ConcatFacts
  <2> HIDE DEF b
  <2>3. QED BY <1>1, <1>2, <2>2
<1> HIDE DEF b
<1>5. /\ c \in Seq(S) /\ Len(c) = offset + len
      /\ \A i \in 1 .. offset + Len(header) : c[i] = b[i]
      /\ \A i \in 1 .. Len(bundled) : c[(offset + Len(header)) + i] = bundled[i]
  <2>1. b \in Seq(S) /\ bundled \in Seq(S)
    BY <1>4
  <2>2. /\ c \in Seq(S) /\ Len(c) = Len(b) + Len(bundled)
        /\ \A i \in 1 .. Len(b) : c[i] = b[i]
        /\ \A i \in 1 .. Len(bundled) : c[Len(b) + i] = bundled[i]
    BY <2>1, ConcatFacts
  <2> HIDE DEF c
  <2>3. QED BY <1>1, <1>4, <2>2
<1> HIDE DEF c
<1>6. /\ new \in Seq(S) /\ Len(new) = Len(c) + 1
      /\ \A i \in 1 .. Len(c) : new[i] = c[i]
      /\ new[Len(c) + 1] = cell
  <2>1. c \in Seq(S) /\ foot \in Seq(S)
    BY <1>3, <1>5
  <2>2. /\ new \in Seq(S) /\ Len(new) = Len(c) + Len(foot)
        /\ \A i \in 1 .. Len(c) : new[i] = c[i]
        /\ \A i \in 1 .. Len(foot) : new[Len(c) + i] = foot[i]
    BY <2>1, ConcatFacts
  <2> HIDE DEF new
  <2>3. QED BY <1>3, <2>2
<1> HIDE DEF new
<1>7. Len(new) = offset + len + 1 /\ new[offset + len + 1] = cell
  BY <1>1, <1>5, <1>6
<1>8. \A i \in 1 .. offset : i <= Len(cells) => new[i] = cells[i]
  <2>1. ASSUME NEW i \in 1 .. offset PROVE new[i] = a[i]
    <3>1. i \in 1 .. Len(c) /\ i \in 1 .. offset + Len(header)
      BY <1>1, <1>5
    <3>2. QED BY <1>4, <1>5, <1>6, <3>1
  <2>2. QED BY <1>2, <2>1
<1>9. \A i \in 1 .. Len(header) : new[offset + i] = header[i]
  <2>1. ASSUME NEW i \in 1 .. Len(header) PROVE new[offset + i] = header[i]
    <3>1. offset + i \in 1 .. Len(c) /\ offset + i \in 1 .. offset + Len(header)
      BY <1>1, <1>5
    <3>2. new[offset + i] = c[offset + i] /\ c[offset + i] = b[offset + i]
      BY <1>5, <1>6, <3>1
    <3>3. QED BY <1>4, <3>2
  <2>2. QED BY <2>1
<1>10. \A i \in 1 .. Len(bundled) : new[(offset + Len(header)) + i] = bundled[i]
  <2>1. ASSUME NEW i \in 1 .. Len(bundled)
        PROVE  new[(offset + Len(header)) + i] = bundled[i]
    <3>1. (offset + Len(header)) + i \in 1 .. Len(c)
      BY <1>1, <1>5
    <3>2. new[(offset + Len(header)) + i] = c[(offset + Len(header)) + i]
      BY <1>6, <3>1
    <3>3. QED BY <1>5, <3>2
  <2>2. QED BY <2>1
<1>11. Slice(new, offset, Len(header)) = header
  <2>1. offset + Len(header) <= Len(new)
    BY <1>1, <1>7
  <2>2. QED BY <1>6, <1>9, <2>1, SliceOf
<1>12. Slice(new, offset + Len(header), Len(bundled)) = bundled
  <2>1. (offset + Len(header)) + Len(bundled) <= Len(new) /\ offset + Len(header) \in Nat
    BY <1>1, <1>7
  <2>2. QED BY <1>6, <1>10, <2>1, SliceOf
<1>13. QED
  BY <1>6, <1>7, <1>8, <1>11, <1>12 DEF StampAfter, new, a, b, c, foot

(* The commands of a stamp are those of its template.                       *)
LEMMA GrownKept ==
  ASSUME NEW K, NEW l, EndsWith(K, l), NEW V, NEW from, NEW end, GrownTo(V, K, l, from, end)
  PROVE  /\ DOMAIN Unsigned(V).commands = DOMAIN K.commands
         /\ \A i \in DOMAIN K.commands :
              /\ K.commands[i] \in MachOCommands /\ Unsigned(V).commands[i] \in MachOCommands
              /\ SameButSize(Unsigned(V).commands[i], K.commands[i])
              /\ \/ K.commands[i].name = "__LINKEDIT"
                 \/ Unsigned(V).commands[i] = K.commands[i]
<1> DEFINE u == Unsigned(V).commands
           k == K.commands
           n == Len(k)
<1>1. K \in MachOImages /\ EndsWith(Unsigned(V), l) /\ Len(u) = n
      /\ \A i \in 1 .. n : u[i] = V.commands[i]
  BY GrownFacts DEF EndsWith
<1>2. Unsigned(V) \in MachOImages
  BY <1>1 DEF EndsWith
<1>3. DOMAIN k = 1 .. n /\ \A i \in 1 .. n : k[i] \in MachOCommands
  BY <1>1, MachOFacts
<1>4. DOMAIN u = 1 .. n /\ \A i \in 1 .. n : u[i] \in MachOCommands
  BY <1>1, <1>2, MachOFacts
<1>5. \A i \in 1 .. n : SameButSize(V.commands[i], k[i]) /\ (i # l => V.commands[i] = k[i])
  BY DEF GrownTo
<1>6. l \in 1 .. n => k[l].name = "__LINKEDIT"
  BY <1>3 DEF EndsWith, IsLinkedit
<1> HIDE DEF u, k, n
<1>7. QED
  BY <1>1, <1>3, <1>4, <1>5, <1>6 DEF u, k, n

(* What the writer makes of an accepted Mach-O template.                    *)
LEMMA MachOWrites ==
  ASSUME NEW S, Zero \in S, NEW exe \in MachOFiles(S),
         NEW header \in Seq(S), NEW bundled \in Seq(S), Footer(header, bundled) \in S,
         write_macho_runtime_data(exe, header, bundled) # Refused
  PROVE  LET new == write_macho_runtime_data(exe, header, bundled)
         IN  /\ new \in MachOFiles(S) /\ MachOWritten(new, exe, header, bundled)
             /\ MachOAccepted(new) /\ FinalLayout(new.image, Len(new.cells)) => SoundMachO(new)
             /\ AsLinked(exe.image) => SoundMachO(new)
<1> DEFINE image == exe.image
           K == Unsigned(image)
           k == K.commands
           signed == SignedMachO(image)
           base == MachODataEnd(exe)
           offset == align_up(base, SignatureAlignment)
           len == Len(header) + Len(bundled)
           end == offset + Len(header) + Len(bundled) + FooterLen
           prefix == IF signed THEN Written(exe.cells, CommandsEnd(K), <<Zero>>) ELSE exe.cells
           V == Extended(K, end)
           cell == Footer(header, bundled)
           cells == Resized(prefix, offset) \o header \o bundled \o <<cell>>
           new == [format |-> "macho", image |-> V, cells |-> cells]
<1>1. /\ image \in MachOImages /\ exe.cells \in Seq(S) /\ Len(exe.cells) \in Nat
      /\ Len(header) \in Nat /\ Len(bundled) \in Nat /\ len \in Nat
  BY DEF MachOFiles
<1>2. /\ MachOTemplateAccepted(exe, header)
      /\ write_macho_runtime_data(exe, header, bundled) = new
  BY DEF write_macho_runtime_data, MachODataEnd
<1>3. /\ MachOAccepted(exe) /\ FinalLayout(image, Len(exe.cells)) /\ PlatformFits(image, header)
      /\ MachOCommandsAccepted(image)
  BY <1>2 DEF MachOTemplateAccepted, MachOAccepted
<1>4. /\ base \in Nat /\ base <= Len(exe.cells) /\ Linkedit(image) \in MachOCommands
      /\ Linkedit(image).off <= base
  BY <1>1, <1>3, DataEndFacts
<1>5. offset \in Nat /\ base <= offset
  <2>1. SignatureAlignment \in Nat \ {0}
    BY LayoutAssumption
  <2> HIDE DEF base
  <2>2. QED BY <1>4, <2>1, AlignUp
<1>6. end \in Nat /\ offset < end /\ end = (offset + len) + 1
  <2> HIDE DEF offset
  <2>1. QED BY <1>1, <1>5 DEF FooterLen
<1>7. PICK l \in DOMAIN k : EndsWith(K, l) /\ k[l] = Linkedit(image)
  BY <1>1, <1>3, UnsignedEnds
<1>8. k[l].off \in Nat /\ k[l].off <= base /\ k[l].off <= end
  <2>1. Linkedit(image).off \in Nat
    BY <1>4, CommandFacts
  <2>2. QED BY <1>4, <1>5, <1>6, <1>7, <2>1
<1>9. Cardinality(Numbers(image, "signature")) <= 1
  BY <1>3 DEF MachOCommandsAccepted
<1>10. /\ K \in MachOImages /\ K.machine = image.machine /\ K.executable = image.executable
       /\ Len(k) \in Nat /\ Len(k) = IF signed THEN Len(image.commands) - 1 ELSE Len(image.commands)
  BY <1>1, <1>9, UnsignedFacts
<1> HIDE DEF K, end, base, offset, len, cell
<1>11. /\ GrownTo(V, K, l, end, end) /\ V.machine = K.machine
       /\ Len(V.commands) = Len(k)
  <2>1. Len(k) # Len(k) + 1
    BY <1>10
  <2>2. \A i \in 1 .. Len(k) : k[i] = k[i]
    OBVIOUS
  <2>3. QED BY <1>6, <1>7, <1>8, <1>10, <2>1, <2>2, Grows
<1> HIDE DEF V
<1>12. /\ Linkedit(V) = V.commands[l] /\ Linkedit(V).off = k[l].off /\ ~SignedMachO(V)
  <2>1. Len(k) # Len(k) + 1
    BY <1>10
  <2>2. QED BY <1>7, <1>11, <2>1, GrownFacts
<1>13. prefix \in Seq(S) /\ Len(prefix) \in Nat
       /\ \A i \in CommandsEnd(image) + 2 .. base :
            i <= Len(prefix) /\ prefix[i] = exe.cells[i]
  <2>1. CASE ~signed
    <3>1. prefix = exe.cells
      BY <2>1
    <3>2. \A i \in CommandsEnd(image) + 2 .. base : i <= Len(exe.cells)
      <4>1. CommandsEnd(image) \in Nat
        BY <1>1, MachOFacts
      <4>2. QED BY <1>1, <1>4, <4>1
    <3> HIDE DEF prefix
    <3>3. QED BY <1>1, <3>1, <3>2
  <2>2. CASE signed
    <3> DEFINE slot == CommandsEnd(K)
               one == <<Zero>>
    <3>1. prefix = Written(exe.cells, slot, one)
      BY <2>2
    <3>2. slot \in Nat /\ CommandsEnd(image) = slot + 1
      <4>1. slot = 1 + Len(k) /\ CommandsEnd(image) = 1 + Len(image.commands)
        BY DEF CommandsEnd
      <4>2. Len(image.commands) \in Nat /\ Len(k) = Len(image.commands) - 1
        BY <1>1, <1>10, <2>2, MachOFacts
      <4>3. QED BY <1>10, <4>1, <4>2
    <3>3. one \in Seq(S) /\ Len(one) = 1
      OBVIOUS
    <3> HIDE DEF prefix, slot, one
    <3>4. slot < Len(exe.cells)
      <4>1. CommandsEnd(image) <= Len(exe.cells)
        BY <1>3 DEF MachOAccepted, MachOHeaderAccepted
      <4>2. QED BY <1>1, <3>2, <4>1
    <3>5. /\ prefix \in Seq(S) /\ Len(prefix) = Len(exe.cells)
          /\ \A i \in 1 .. Len(exe.cells) : i # slot + 1 => prefix[i] = exe.cells[i]
      BY <1>1, <3>1, <3>2, <3>3, <3>4, OneWritten
    <3>6. ASSUME NEW i \in CommandsEnd(image) + 2 .. base
          PROVE  i <= Len(prefix) /\ prefix[i] = exe.cells[i]
      <4>1. i \in 1 .. Len(exe.cells) /\ i # slot + 1
        BY <1>1, <1>4, <3>2
      <4>2. QED BY <1>1, <3>5, <4>1
    <3>7. QED BY <1>1, <3>5, <3>6
  <2>3. QED BY <2>1, <2>2
<1> HIDE DEF prefix
<1>14. /\ cells \in Seq(S) /\ Len(cells) = end /\ cells[end] = cell
       /\ Slice(cells, offset, Len(header)) = header
       /\ Slice(cells, offset + Len(header), Len(bundled)) = bundled
       /\ \A i \in 1 .. offset : i <= Len(prefix) => cells[i] = prefix[i]
  <2>1. cell \in S
    BY DEF cell
  <2>2. StampAfter(S, prefix, offset, header, bundled, cell)
    BY <1>5, <1>13, <2>1, MachOStampCells
  <2>3. QED BY <1>6, <2>2 DEF StampAfter, len
<1> HIDE DEF cells
<1>15. new \in MachOFiles(S)
  <2>1. V \in MachOImages
    BY <1>11 DEF GrownTo
  <2>2. QED BY <1>14, <2>1 DEF MachOFiles
<1>16. MachODataEnd(new) = end
  BY <1>12, <1>14 DEF MachODataEnd
<1>17. DataAt(cells, end, end, header, bundled)
  <2>1. end \in Nat /\ len + 1 <= end /\ end - (len + 1) = offset
    BY <1>1, <1>5, <1>6
  <2>2. \A i \in end + 1 .. end : cells[i] = Zero
    BY <2>1
  <2> HIDE DEF end
  <2>3. QED BY <1>14, <2>1, <2>2 DEF DataAt, cell, len
<1>18. Linkedit(V).off + (len + 1) <= end
  BY <1>1, <1>4, <1>5, <1>6, <1>8, <1>12
<1>19. MachODataKept(exe) \in Nat /\ MachODataKept(exe) = base /\ base + (len + 1) <= end
  <2>1. MachODataKept(exe) \in Nat /\ MachODataKept(exe) = base
    BY <1>1, <1>3, KeptBefore DEF base
  <2>2. QED BY <1>1, <1>4, <1>5, <1>6, <2>1
<1>20. \A i \in CommandsEnd(image) + 2 .. MachODataKept(exe) : cells[i] = exe.cells[i]
  <2>1. ASSUME NEW i \in CommandsEnd(image) + 2 .. base PROVE cells[i] = exe.cells[i]
    <3>1. CommandsEnd(image) \in Nat
      BY <1>1, MachOFacts
    <3>2. i \in 1 .. offset
      BY <1>4, <1>5, <3>1
    <3>3. i <= Len(prefix) /\ prefix[i] = exe.cells[i]
      BY <1>13
    <3>4. QED BY <1>14, <3>2, <3>3
  <2>2. QED BY <1>19, <2>1
<1>21. MachOWritten(new, exe, header, bundled)
  <2>1. PlatformFits(V, header)
    BY <1>3, <1>10, <1>11 DEF PlatformFits
  <2>2. /\ DOMAIN Unsigned(V).commands = DOMAIN k
        /\ \A i \in DOMAIN k : KeptCommand(k[i], Unsigned(V).commands[i])
    BY <1>7, <1>11, GrownKept, KeptWhenSame
  <2>3. end - end < SignatureAlignment
    BY <1>6, LayoutAssumption
  <2> DEFINE after == new
  <2>4. after.image = V /\ after.cells = cells /\ MachODataEnd(after) = end
    BY <1>16
  <2> HIDE DEF after
  <2>5. \E foot \in Nat :
           /\ DataAt(after.cells, foot, MachODataEnd(after), header, bundled)
           /\ MachODataEnd(after) - foot < SignatureAlignment
           /\ ~SignedMachO(after.image) => foot = MachODataEnd(after)
           /\ Linkedit(after.image).off + (Len(header) + Len(bundled) + 1) <= foot
           /\ MachODataKept(exe) + (Len(header) + Len(bundled) + 1) <= foot
    <3>1. /\ DataAt(after.cells, end, MachODataEnd(after), header, bundled)
          /\ MachODataEnd(after) - end < SignatureAlignment
          /\ end = MachODataEnd(after)
          /\ Linkedit(after.image).off + (Len(header) + Len(bundled) + 1) <= end
          /\ MachODataKept(exe) + (Len(header) + Len(bundled) + 1) <= end
      BY <1>17, <1>18, <1>19, <2>3, <2>4 DEF len
    <3>2. QED BY <1>6, <3>1
  <2>6. MachOWritten(after, exe, header, bundled)
    BY <1>9, <1>19, <1>20, <2>1, <2>2, <2>4, <2>5 DEF MachOWritten, K
  <2>7. QED BY <2>6 DEF after
<1>22. ASSUME MachOAccepted(new), FinalLayout(new.image, Len(new.cells))
       PROVE  SoundMachO(new)
  <2>1. V \in MachOImages
    BY <1>11 DEF GrownTo
  <2>2. Linkedit(V).vmsize # 0
    <3>1. V.commands[l].vmsize = align_up(end - k[l].off, Page)
      BY <1>11 DEF GrownTo
    <3>2. end - k[l].off \in Nat /\ end - k[l].off > 0 /\ Page \in Nat \ {0}
      <4>1. Page \in Nat \ {0}
        BY LayoutAssumption
      <4>2. base \in Nat /\ offset \in Nat
        BY <1>4, <1>5
      <4>3. end - k[l].off \in Nat /\ end - k[l].off > 0
        BY <1>5, <1>6, <1>8, <4>2
      <4>4. QED BY <4>1, <4>3
    <3>3. align_up(end - k[l].off, Page) \in Nat /\ end - k[l].off <= align_up(end - k[l].off, Page)
      BY <3>2, AlignUp
    <3>4. QED BY <1>12, <3>1, <3>2, <3>3
  <2>3. \A o \in SectionOffsets(V) : o <= end
    <3>1. \A o \in SectionOffsets(V) : o \in CommandsEnd(V) .. end
      BY <1>14, <1>22 DEF MachOAccepted, MachODataAccepted
    <3>2. CommandsEnd(V) \in Nat
      BY <2>1, MachOFacts
    <3>3. QED BY <1>6, <3>1, <3>2
  <2>4. QED BY <1>16, <1>22, <2>1, <2>2, <2>3 DEF SoundMachO
<1>23. ASSUME AsLinked(image)
       PROVE  SoundMachO(new)
  <2>1. SoundMachO(exe)
    <3>1. Linkedit(image).vmsize # 0
      BY <1>23 DEF AsLinked
    <3>2. ASSUME NEW i \in DOMAIN image.commands, image.commands[i].sect # 0
          PROVE  image.commands[i].sect <= base
      <4> DEFINE s == image.commands[i]
      <4>1. s \in MachOCommands
        BY <1>1, MachOFacts
      <4>2. s.cmd = "segment"
        BY <3>2, <4>1, OnlySegments
      <4>3. i \in Numbers(image, "segment")
        BY <4>2 DEF Numbers
      <4>4. s.sect \in s.off .. FileEnd(s)
        BY <1>23, <3>2, <4>3 DEF AsLinked
      <4>5. PICK x \in DOMAIN image.commands :
              (\A j \in DOMAIN image.commands : IsLinkedit(image.commands[j]) <=> j = x)
              /\ Linkedit(image) = image.commands[x]
        BY <1>1, <1>3, AcceptedCommands
      <4>6. x \in Numbers(image, "segment") /\ image.commands[x].name = "__LINKEDIT"
        BY <4>5 DEF IsLinkedit, Numbers
      <4> DEFINE L == image.commands[x]
      <4>7. /\ L.prot = "r" /\ L.sect = 0
        BY <1>3, <4>6 DEF MachOAccepted, MachOSegmentAccepted
      <4>8. i # x
        BY <3>2, <4>7
      <4>9. s.size = 0 \/ L.size = 0 \/ FileEnd(s) <= L.off \/ FileEnd(L) <= s.off
        BY <1>3, <4>3, <4>6, <4>8 DEF MachOAccepted, MachOSegmentsDisjoint
      <4>10. s.off <= L.off /\ FileEnd(L) = Len(exe.cells) /\ FileEnd(s) <= Len(exe.cells)
        <5>1. s.off <= Linkedit(image).off /\ FileEnd(Linkedit(image)) = Len(exe.cells)
          BY <1>3, <4>3 DEF FinalLayout
        <5>2. FileEnd(s) <= Len(exe.cells)
          BY <1>3, <4>3 DEF MachOAccepted, MachOSegmentAccepted
        <5>3. QED BY <4>5, <5>1, <5>2
      <4>11. /\ s.off \in Nat /\ s.size \in Nat /\ FileEnd(s) = s.off + s.size /\ s.sect \in Nat
             /\ L.off \in Nat /\ L.size \in Nat /\ FileEnd(L) = L.off + L.size
        <5>1. L \in MachOCommands
          BY <1>4, <4>5
        <5> HIDE DEF s, L
        <5>2. QED BY <4>1, <5>1, CommandFacts
      <4>12. L.off <= base
        BY <1>4, <4>5
      <4> HIDE DEF s, L
      <4>13. s.sect <= FileEnd(s)
        BY <4>4, <4>11
      <4>14. FileEnd(s) <= L.off
        BY <1>1, <4>9, <4>10, <4>11
      <4>15. s.sect <= base
        BY <1>4, <4>11, <4>12, <4>13, <4>14
      <4>16. QED BY <4>15 DEF s
    <3>3. \A o \in SectionOffsets(image) : o <= base
      BY <3>2 DEF SectionOffsets
    <3>4. QED BY <1>1, <1>3, <3>1, <3>3 DEF SoundMachO, base
  <2>2. PICK m \in DOMAIN k : Core(K, m, base) /\ k[m] = Linkedit(image)
    BY <1>1, <2>1, CoreOf DEF K, base
  <2>3. m = l
    BY <1>7, <2>2 DEF Core, EndsWith
  <2>4. Core(K, l, base)
    BY <2>2, <2>3
  <2>5. RoomFor(V, K, l)
    <3>1. Len(V.commands) = Len(k) /\ CommandsEnd(V) = CommandsEnd(K)
      BY <1>11 DEF CommandsEnd
    <3>2. Len(k) <= MaxSections /\ CommandsEnd(K) <= k[l].off
      <4>1. k[l].off >= CommandsEnd(K) /\ Len(k) <= MaxSections
        BY <2>4 DEF Core
      <4>2. QED BY <1>8, <1>10, <4>1, MachOFacts
    <3>3. \A i \in DOMAIN k : /\ k[i].sect # 0 => CommandsEnd(K) <= k[i].sect
                              /\ IsText(k[i]) => CommandsEnd(K) <= FileEnd(k[i])
      <4>1. \A i \in DOMAIN k : /\ k[i].sect # 0 => k[i].sect \in CommandsEnd(K) .. base
                                /\ IsText(k[i]) => FileEnd(k[i]) >= CommandsEnd(K)
        BY <2>4 DEF Core
      <4>2. CommandsEnd(K) \in Nat /\ \A i \in DOMAIN k : FileEnd(k[i]) \in Nat
        BY <1>10, MachOFacts, CommandFacts
      <4>3. QED BY <1>4, <4>1, <4>2
    <3>4. QED BY <3>1, <3>2, <3>3 DEF RoomFor
  <2>6. /\ end \in Nat /\ base \in Nat /\ base < end /\ base <= base /\ Len(cells) = end
    BY <1>4, <1>5, <1>6, <1>14
  <2>7. GrownTo(V, K, l, base, end)
    <3>1. Len(V.commands) = Len(k)
      BY <1>11
    <3>2. QED BY <1>11, <3>1 DEF GrownTo
  <2> DEFINE after == new
  <2>8. after.image = V /\ after.cells = cells
    OBVIOUS
  <2> HIDE DEF after
  <2>9. SoundMachO(after)
    BY <2>4, <2>5, <2>6, <2>7, <2>8, GrownIsSound
  <2>10. QED BY <2>9 DEF after
<1>24. QED
  BY <1>2, <1>15, <1>21, <1>22, <1>23

-----------------------------------------------------------------------------
(* Code signatures                                                          *)

SignatureCommand(from, len) ==
  [cmd |-> "signature", name |-> "", prot |-> "", vm |-> 0, vmsize |-> 0,
   off |-> from, size |-> len, sect |-> 0, sectsize |-> 0]

(* The load command of a signature.                                         *)
LEMMA SignatureIsCommand ==
  ASSUME NEW from \in Nat, NEW len \in Nat
  PROVE  LET c == SignatureCommand(from, len)
         IN  /\ c \in MachOCommands /\ c.cmd = "signature" /\ c.off = from /\ c.size = len
             /\ c.sect = 0
<1> DEFINE c == SignatureCommand(from, len)
<1>1. c \in [cmd : {"data", "signature"}, name : {""}, prot : {""}, vm : {0},
             vmsize : {0}, off : Nat, size : Nat, sect : {0}, sectsize : {0}]
  BY DEF SignatureCommand
<1>2. c.cmd = "signature" /\ c.off = from /\ c.size = len /\ c.sect = 0
  BY DEF SignatureCommand
<1> HIDE DEF c
<1>3. c \in MachOCommands
  BY <1>1 DEF MachOCommands
<1>4. QED BY <1>2, <1>3 DEF c

(* One command more.                                                        *)
LEMMA OneMore ==
  ASSUME NEW K \in MachOImages, NEW c \in MachOCommands
  PROVE  LET W == [K EXCEPT !.commands = Append(@, c)]
             n == Len(K.commands)
         IN  /\ W \in MachOImages /\ Len(W.commands) = n + 1 /\ W.commands[n + 1] = c
             /\ \A i \in 1 .. n : W.commands[i] = K.commands[i]
             /\ W.executable = K.executable /\ W.machine = K.machine
<1> DEFINE more == Append(K.commands, c)
           n == Len(K.commands)
<1>1. K.commands \in Seq(MachOCommands) /\ n \in Nat
  BY MachOFacts
<1>2. /\ more \in Seq(MachOCommands) /\ Len(more) = n + 1 /\ more[n + 1] = c
      /\ \A i \in 1 .. n : more[i] = K.commands[i]
  BY <1>1
<1> HIDE DEF more
<1> DEFINE W == [K EXCEPT !.commands = more]
<1>3. /\ W \in MachOImages /\ W.commands = more
      /\ W.executable = K.executable /\ W.machine = K.machine
  BY <1>2 DEF MachOImages
<1> HIDE DEF W, n
<1>4. /\ W \in MachOImages /\ Len(W.commands) = n + 1 /\ W.commands[n + 1] = c
      /\ \A i \in 1 .. n : W.commands[i] = K.commands[i]
      /\ W.executable = K.executable /\ W.machine = K.machine
  BY <1>2, <1>3
<1>5. QED BY <1>4 DEF W, n, more

(* Where the signer finds room for its command.                             *)
LEMMA RoomIsEnough ==
  ASSUME NEW exe, SoundMachO(exe), Len(exe.cells) \in Nat, RoomForSignature(exe.image),
         NEW l, NEW bound, Core(Unsigned(exe.image), l, bound),
         Unsigned(exe.image).commands[l] = Linkedit(exe.image),
         NEW V, Len(V.commands) = Len(Unsigned(exe.image).commands) + 1
  PROVE  RoomFor(V, Unsigned(exe.image), l)
<1> DEFINE image == exe.image
           c == image.commands
           K == Unsigned(image)
           k == K.commands
           n == Len(k)
           w(i) == Was(image, i)
<1>1. /\ image \in MachOImages /\ MachOAccepted(exe) /\ MachOCommandsAccepted(image)
      /\ FinalLayout(image, Len(exe.cells))
  BY DEF SoundMachO, MachOAccepted
<1>2. /\ K \in MachOImages /\ n \in Nat
      /\ n = IF SignedMachO(image) THEN Len(c) - 1 ELSE Len(c)
      /\ \A i \in 1 .. n : w(i) \in 1 .. Len(c) /\ k[i] = c[w(i)]
  <2>1. Cardinality(Numbers(image, "signature")) <= 1
    BY <1>1 DEF MachOCommandsAccepted
  <2> DEFINE m == IF SignedMachO(image) THEN Len(c) - 1 ELSE Len(c)
  <2>2. /\ K \in MachOImages /\ m \in Nat /\ n = m
        /\ \A i \in 1 .. m : w(i) \in 1 .. Len(c) /\ k[i] = c[w(i)]
    BY <1>1, <2>1, UnsignedFacts
  <2> HIDE DEF K, c, w, n
  <2>3. QED BY <2>2
<1>3. DOMAIN k = 1 .. n /\ DOMAIN c = 1 .. Len(c) /\ Len(c) \in Nat
      /\ CommandsEnd(image) = 1 + Len(c) /\ CommandsEnd(V) = 1 + (n + 1)
      /\ \A i \in DOMAIN k : k[i] \in MachOCommands
  BY <1>1, <1>2, MachOFacts DEF CommandsEnd
<1>4. k[l] = Linkedit(image) /\ k[l].off \in Nat /\ l \in DOMAIN k
  <2>1. l \in DOMAIN k
    BY DEF Core
  <2>2. QED BY <1>3, <2>1, CommandFacts
<1> HIDE DEF w
<1>5. \A i \in DOMAIN k : k[i].sect # 0 => k[i].sect \in SectionOffsets(image)
  BY <1>2, <1>3 DEF SectionOffsets
<1>6. \A i \in DOMAIN k : IsText(k[i]) => \E j \in Segments(image, "__TEXT") : k[i] = c[j]
  BY <1>2, <1>3 DEF Segments, Numbers, IsText
<1>7. \A i \in DOMAIN k : FileEnd(k[i]) \in Nat /\ k[i].sect \in Nat
  BY <1>3, CommandFacts
<1>8. CASE SignedMachO(image)
  <2>1. CommandsEnd(V) = CommandsEnd(image) /\ Len(V.commands) = Len(c)
    BY <1>2, <1>3, <1>8
  <2>2. Len(c) <= MaxSections
    BY <1>1 DEF MachOAccepted, MachOHeaderAccepted
  <2>3. CommandsEnd(image) <= k[l].off
    <3>1. Linkedit(image).off >= CommandsEnd(image)
      BY <1>1 DEF FinalLayout
    <3>2. QED BY <1>3, <1>4, <3>1
  <2>4. ASSUME NEW i \in DOMAIN k, k[i].sect # 0 PROVE CommandsEnd(image) <= k[i].sect
    <3>1. k[i].sect \in SectionOffsets(image)
      BY <1>5, <2>4
    <3>2. k[i].sect \in CommandsEnd(image) .. Len(exe.cells)
      BY <1>1, <3>1 DEF MachOAccepted, MachODataAccepted
    <3>3. QED BY <1>3, <1>7, <3>2
  <2>5. ASSUME NEW i \in DOMAIN k, IsText(k[i]) PROVE CommandsEnd(image) <= FileEnd(k[i])
    <3>1. PICK j \in Segments(image, "__TEXT") : k[i] = c[j]
      BY <1>6, <2>5
    <3>2. j \in Numbers(image, "segment") /\ c[j].name = "__TEXT"
      BY <3>1 DEF Segments
    <3>3. FileEnd(c[j]) >= CommandsEnd(image)
      BY <1>1, <3>2 DEF MachOAccepted, MachOSegmentAccepted
    <3>4. QED BY <1>3, <1>7, <3>1, <3>3
  <2>6. QED BY <2>1, <2>2, <2>3, <2>4, <2>5 DEF RoomFor
<1>9. CASE ~SignedMachO(image)
  <2> DEFINE end == CommandsEnd(image) + 1
  <2>1. /\ Len(c) < MaxSections /\ end <= Linkedit(image).off
        /\ \A o \in SectionOffsets(image) : end <= o
        /\ \A i \in Segments(image, "__TEXT") : end <= FileEnd(c[i])
    BY <1>9 DEF RoomForSignature
  <2>2. CommandsEnd(V) = end /\ Len(V.commands) = Len(c) + 1
    BY <1>2, <1>3, <1>9
  <2>3. Len(c) + 1 <= MaxSections
    BY <1>3, <2>1, LayoutAssumption
  <2> HIDE DEF end
  <2>4. QED BY <1>4, <1>5, <1>6, <2>1, <2>2, <2>3 DEF RoomFor
<1>10. QED
  BY <1>8, <1>9

(* The cells of a signed file.                                              *)
SignedFrom(S, cells, slot, offset, signature) ==
  LET new == Resized(Written(cells, slot, <<Command>>), offset) \o signature
  IN  /\ new \in Seq(S) /\ Len(new) = offset + Len(signature)
      /\ \A i \in 1 .. offset :
           i # slot + 1 => new[i] = IF i <= Len(cells) THEN cells[i] ELSE Zero

(* The cells of a signed Mach-O image.                                      *)
LEMMA SignedCells ==
  ASSUME NEW S, Zero \in S, Command \in S, NEW cells \in Seq(S), NEW slot \in Nat,
         NEW offset \in Nat, NEW signature \in Seq(S), slot < Len(cells)
  PROVE  SignedFrom(S, cells, slot, offset, signature)
<1> DEFINE one == <<Command>>
           a == Written(cells, slot, one)
           b == Resized(a, offset)
           new == b \o signature
<1>1. one \in Seq(S) /\ Len(one) = 1 /\ Len(cells) \in Nat /\ Len(signature) \in Nat
  OBVIOUS
<1> HIDE DEF one
<1>2. /\ a \in Seq(S) /\ Len(a) = Len(cells)
      /\ \A i \in 1 .. Len(cells) : i # slot + 1 => a[i] = cells[i]
  BY <1>1, OneWritten
<1> HIDE DEF a
<1>3. /\ b \in Seq(S) /\ Len(b) = offset
      /\ \A i \in 1 .. offset : b[i] = IF i <= Len(a) THEN a[i] ELSE Zero
  BY <1>2, ResizedFacts
<1> HIDE DEF b
<1>4. /\ new \in Seq(S) /\ Len(new) = Len(b) + Len(signature)
      /\ \A i \in 1 .. Len(b) : new[i] = b[i]
  BY <1>3, ConcatFacts
<1> HIDE DEF new
<1>5. ASSUME NEW i \in 1 .. offset, i # slot + 1
      PROVE  new[i] = IF i <= Len(cells) THEN cells[i] ELSE Zero
  <2>1. new[i] = IF i <= Len(cells) THEN a[i] ELSE Zero
    BY <1>2, <1>3, <1>4
  <2>2. i <= Len(cells) => i \in 1 .. Len(cells)
    BY <1>1
  <2>3. QED BY <1>2, <1>5, <2>1, <2>2
<1>6. QED
  BY <1>3, <1>4, <1>5 DEF SignedFrom, new, b, a, one

(* Signing leaves a stamp a stamp.                                          *)
LEMMA MachOSigns ==
  ASSUME NEW S, Zero \in S, Command \in S, NEW exe \in MachOFiles(S),
         NEW template, template.image \in MachOImages,
         NEW header \in Seq(S), NEW bundled \in Seq(S),
         MachOStamped(exe, template, header, bundled),
         NEW signature \in Seq(S), signature # <<>>, RoomForSignature(exe.image)
  PROVE  LET new == CodeSign(exe, signature)
         IN  new \in MachOFiles(S) /\ MachOStamped(new, template, header, bundled)
<1> DEFINE image == exe.image
           K == Unsigned(image)
           k == K.commands
           n == Len(k)
           base == MachODataEnd(exe)
           offset == align_up(base, SignatureAlignment)
           command == SignatureCommand(offset, Len(signature))
           W == [K EXCEPT !.commands = Append(@, command)]
           end == offset + Len(signature)
           V == Extended(W, end)
           slot == CommandsEnd(K)
           cells == Resized(Written(exe.cells, slot, <<Command>>), offset) \o signature
           new == [format |-> "macho", image |-> V, cells |-> cells]
           old == Unsigned(template.image).commands
           len == Len(header) + Len(bundled)
           L == Linkedit(image)
<1>1. CodeSign(exe, signature) = new
  BY DEF CodeSign, MachODataEnd, SignatureCommand
<1>2. /\ SoundMachO(exe) /\ image \in MachOImages /\ exe.cells \in Seq(S)
      /\ Len(exe.cells) \in Nat /\ len \in Nat
      /\ MachOAccepted(exe) /\ FinalLayout(image, Len(exe.cells))
      /\ MachOCommandsAccepted(image)
      /\ Len(signature) \in Nat /\ Len(signature) > 0
  <2>1. Len(signature) \in Nat /\ Len(signature) # 0
    BY EmptySeq
  <2>2. QED BY <2>1 DEF MachOStamped, SoundMachO, MachOAccepted, MachOFiles
<1>3. /\ PlatformFits(image, header)
      /\ Cardinality(Numbers(template.image, "signature")) <= 1
      /\ MachODataKept(template) \in Nat
      /\ DOMAIN k = DOMAIN old
      /\ \A i \in DOMAIN old : KeptCommand(old[i], k[i])
      /\ \A i \in CommandsEnd(template.image) + 2 .. MachODataKept(template) :
           exe.cells[i] = template.cells[i]
  BY DEF MachOStamped, MachOWritten
<1>4. PICK foot \in Nat :
           /\ DataAt(exe.cells, foot, base, header, bundled)
           /\ base - foot < SignatureAlignment
           /\ ~SignedMachO(image) => foot = base
           /\ L.off + (len + 1) <= foot
           /\ MachODataKept(template) + (len + 1) <= foot
  BY DEF MachOStamped, MachOWritten
<1>5. /\ base \in Nat /\ base <= Len(exe.cells) /\ L \in MachOCommands /\ L.off <= base
      /\ L.off \in Nat
      /\ SignedMachO(image) => base % SignatureAlignment = 0
      /\ ~SignedMachO(image) => base = Len(exe.cells)
  <2>1. /\ base \in Nat /\ base <= Len(exe.cells) /\ L \in MachOCommands /\ L.off <= base
        /\ SignedMachO(image) => base % SignatureAlignment = 0
    BY <1>2, DataEndFacts
  <2>2. ~SignedMachO(image) => base = Len(exe.cells)
    BY DEF MachODataEnd
  <2>3. L.off \in Nat
    BY <2>1, CommandFacts
  <2>4. QED BY <2>1, <2>2, <2>3
<1>6. PICK l \in DOMAIN k : Core(K, l, base) /\ k[l] = L
  BY <1>2, CoreOf
<1>7. EndsWith(K, l) /\ K \in MachOImages
  BY <1>6, CoreEnds DEF Core
<1>8. K.machine = image.machine
  <2>1. Cardinality(Numbers(image, "signature")) <= 1
    BY <1>2 DEF MachOCommandsAccepted
  <2>2. QED BY <1>2, <2>1, UnsignedFacts
<1> HIDE DEF K, base, L, old, len
<1>9. /\ offset \in Nat /\ base <= offset /\ offset < base + SignatureAlignment
      /\ offset % SignatureAlignment = 0 /\ SignatureAlignment \in Nat \ {0}
      /\ SignedMachO(image) => offset = base
  <2>1. SignatureAlignment \in Nat \ {0}
    BY LayoutAssumption
  <2>2. QED BY <1>5, <2>1, AlignUp, AlignedStays
<1> HIDE DEF offset
<1>10. end \in Nat /\ offset < end /\ end - offset = Len(signature)
  BY <1>2, <1>9
<1>11. /\ command \in MachOCommands /\ command.cmd = "signature" /\ command.off = offset
       /\ command.size = Len(signature) /\ command.sect = 0
  BY <1>2, <1>9, SignatureIsCommand
<1> HIDE DEF command, end
<1>12. /\ W \in MachOImages /\ Len(W.commands) = n + 1 /\ W.commands[n + 1] = command
       /\ \A i \in 1 .. n : W.commands[i] = k[i]
       /\ W.executable = K.executable /\ W.machine = K.machine
  BY <1>7, <1>11, OneMore
<1> HIDE DEF W
<1>13. GrownTo(V, K, l, offset, end) /\ V.machine = W.machine /\ Len(V.commands) = n + 1
  <2>1. n \in Nat /\ k[l].off <= end
    <3>1. n \in Nat
      BY <1>7, MachOFacts
    <3>2. k[l].off <= end
      BY <1>5, <1>6, <1>9, <1>10
    <3>3. QED BY <3>1, <3>2
  <2>2. LET s == W.commands[Len(W.commands)] IN
          /\ s.cmd = "signature" /\ s.off = offset /\ s.size = end - offset
          /\ s.sect = 0 /\ offset % SignatureAlignment = 0
    BY <1>9, <1>10, <1>11, <1>12
  <2>3. Len(W.commands) \in {n, n + 1}
    BY <1>12
  <2>4. W \in MachOImages /\ W.executable = K.executable
        /\ \A i \in 1 .. Len(k) : W.commands[i] = k[i]
    BY <1>12
  <2>5. GrownTo(V, K, l, offset, end) /\ V.machine = W.machine
        /\ Len(V.commands) = Len(W.commands)
    <3>1. /\ EndsWith(K, l) /\ W \in MachOImages /\ offset \in Nat /\ end \in Nat
          /\ K.commands[l].off <= end /\ W.executable = K.executable
          /\ Len(W.commands) \in {Len(K.commands), Len(K.commands) + 1}
          /\ \A i \in 1 .. Len(K.commands) : W.commands[i] = K.commands[i]
          /\ Len(W.commands) = Len(K.commands) + 1 =>
               LET s == W.commands[Len(W.commands)] IN
                 /\ s.cmd = "signature" /\ s.off = offset /\ s.size = end - offset
                 /\ s.sect = 0 /\ offset % SignatureAlignment = 0
      BY <1>7, <1>9, <1>10, <2>1, <2>2, <2>3, <2>4
    <3>2. QED BY <3>1, Grows
  <2>6. QED BY <1>12, <2>5
<1> HIDE DEF V
<1>14. RoomFor(V, K, l)
  <2>1. Core(Unsigned(image), l, base) /\ Unsigned(image).commands[l] = Linkedit(image)
        /\ Len(V.commands) = Len(Unsigned(image).commands) + 1
    BY <1>6, <1>13 DEF K, L
  <2>2. QED BY <1>2, <2>1, RoomIsEnough DEF K
<1>15. slot \in Nat /\ slot + 1 <= L.off /\ slot < Len(exe.cells)
  <2>1. CommandsEnd(V) <= k[l].off
    BY <1>14 DEF RoomFor
  <2>2. CommandsEnd(V) = slot + 1 /\ slot \in Nat
    <3>1. slot = 1 + n /\ CommandsEnd(V) = 1 + (n + 1) /\ n \in Nat
      BY <1>7, <1>13, MachOFacts DEF CommandsEnd
    <3>2. QED BY <3>1
  <2>3. QED BY <1>2, <1>5, <1>6, <2>1, <2>2
<1>16. /\ cells \in Seq(S) /\ Len(cells) = end
       /\ \A i \in 1 .. offset :
            i # slot + 1 => cells[i] = IF i <= Len(exe.cells) THEN exe.cells[i] ELSE Zero
  <2>1. exe.cells \in Seq(S) /\ offset \in Nat /\ slot \in Nat /\ slot < Len(exe.cells)
    BY <1>2, <1>9, <1>15
  <2> HIDE DEF slot
  <2>2. SignedFrom(S, exe.cells, slot, offset, signature)
    BY <2>1, SignedCells
  <2>3. QED BY <2>2 DEF SignedFrom, end
<1> HIDE DEF cells, slot
<1>17. new \in MachOFiles(S)
  <2>1. V \in MachOImages
    BY <1>13 DEF GrownTo
  <2>2. QED BY <1>16, <2>1 DEF MachOFiles
<1> DEFINE after == new
<1>18. after.image = V /\ after.cells = cells
  OBVIOUS
<1> HIDE DEF after
<1>19. SoundMachO(after) /\ MachODataEnd(after) = offset
  <2>1. SoundMachO(after)
        /\ OnceGrown(after, K, offset)
    <3>1. GrownTo(after.image, K, l, offset, end) /\ RoomFor(after.image, K, l)
          /\ Len(after.cells) = end
      BY <1>13, <1>14, <1>16, <1>18
    <3>2. /\ base \in Nat /\ offset \in Nat /\ end \in Nat /\ Core(K, l, base)
          /\ base <= offset /\ offset < end
      BY <1>5, <1>6, <1>9, <1>10
    <3>3. QED BY <3>1, <3>2, GrownIsSound
  <2>2. Len(V.commands) # Len(k)
    <3>1. n \in Nat
      BY <1>7, MachOFacts
    <3>2. QED BY <1>13, <3>1
  <2>3. QED BY <1>18, <2>1, <2>2 DEF OnceGrown
<1>20. foot <= base /\ foot <= Len(exe.cells) /\ len + 1 <= foot
  BY <1>2, <1>4, <1>5 DEF DataAt, len
(* The cells of the data are where they were. *)
<1>21. \A i \in slot + 2 .. base : cells[i] = exe.cells[i]
  <2>1. ASSUME NEW i \in slot + 2 .. base PROVE cells[i] = exe.cells[i]
    <3>1. i \in 1 .. offset /\ i # slot + 1 /\ i <= Len(exe.cells)
      BY <1>2, <1>5, <1>9, <1>15
    <3>2. QED BY <1>16, <3>1
  <2>2. QED BY <2>1
<1>22. DataAt(cells, foot, offset, header, bundled)
  <2> DEFINE start == foot - (len + 1)
  <2>1. start \in Nat /\ slot + 1 <= start /\ (start + Len(header)) + Len(bundled) < foot
        /\ Len(header) \in Nat /\ Len(bundled) \in Nat /\ foot <= offset
        /\ start + Len(header) \in Nat /\ foot <= Len(cells)
    <3>1. Len(header) \in Nat /\ Len(bundled) \in Nat /\ len = Len(header) + Len(bundled)
      BY DEF len
    <3>2. L.off + (len + 1) <= foot
      BY <1>4
    <3> DEFINE a == Len(header)
               b == Len(bundled)
               loff == L.off
               total == Len(cells)
    <3>3. /\ a \in Nat /\ b \in Nat /\ len = a + b /\ loff \in Nat /\ loff + (len + 1) <= foot
          /\ total = end /\ slot \in Nat /\ slot + 1 <= loff
      BY <1>5, <1>15, <1>16, <3>1, <3>2
    <3> HIDE DEF a, b, loff, total
    <3>4. /\ start \in Nat /\ slot + 1 <= start /\ (start + a) + b < foot
          /\ foot <= offset /\ start + a \in Nat /\ foot <= total
      BY <1>4, <1>5, <1>9, <1>10, <1>20, <3>3
    <3>5. QED BY <3>3, <3>4 DEF a, b, total
  <2>2. /\ exe.cells[foot] = Footer(header, bundled)
        /\ \A i \in foot + 1 .. base : exe.cells[i] = Zero
        /\ Slice(exe.cells, start, Len(header)) = header
        /\ Slice(exe.cells, start + Len(header), Len(bundled)) = bundled
    BY <1>4 DEF DataAt, len
  <2> HIDE DEF start
  <2>3. foot \in slot + 2 .. base
    BY <1>4, <1>15, <1>20, <2>1
  <2>4. cells[foot] = Footer(header, bundled)
    BY <1>21, <2>2, <2>3
  <2>5. ASSUME NEW i \in foot + 1 .. offset PROVE cells[i] = Zero
    <3>1. CASE i <= base
      <4>1. i \in slot + 2 .. base /\ i \in foot + 1 .. base
        BY <1>5, <1>15, <2>1, <2>3, <3>1
      <4>2. QED BY <1>21, <2>2, <4>1
    <3>2. CASE i > base
      <4>1. ~SignedMachO(image) /\ base = Len(exe.cells)
        BY <1>5, <1>9, <3>2
      <4>2. i \in 1 .. offset /\ i # slot + 1 /\ ~(i <= Len(exe.cells))
        BY <1>4, <1>5, <1>9, <1>15, <2>1, <3>2, <4>1, SMTT(30)
      <4>3. QED BY <1>16, <4>2
    <3>3. QED BY <1>5, <1>9, <2>1, <3>1, <3>2
  <2>6. Slice(cells, start, Len(header)) = header
    <3>1. start + Len(header) <= Len(cells) /\ start + Len(header) <= Len(exe.cells)
      BY <1>2, <1>5, <1>20, <1>10, <1>16, <2>1
    <3>2. \A i \in start + 1 .. start + Len(header) : i \in slot + 2 .. base
      BY <1>15, <1>20, <2>1, <1>5
    <3>3. Slice(cells, start, Len(header)) = Slice(exe.cells, start, Len(header))
      <4>1. /\ cells \in Seq(S) /\ exe.cells \in Seq(S) /\ start \in Nat /\ Len(header) \in Nat
            /\ \A i \in start + 1 .. start + Len(header) : cells[i] = exe.cells[i]
        BY <1>2, <1>16, <1>21, <2>1, <3>2
      <4>2. QED BY <3>1, <4>1, SameSlice
    <3>4. QED BY <2>2, <3>3
  <2>7. Slice(cells, start + Len(header), Len(bundled)) = bundled
    <3> DEFINE from == start + Len(header)
    <3>1. from \in Nat /\ from + Len(bundled) <= Len(cells) /\ from + Len(bundled) <= Len(exe.cells)
      BY <1>2, <1>5, <1>20, <1>10, <1>16, <2>1
    <3>2. \A i \in from + 1 .. from + Len(bundled) : i \in slot + 2 .. base
      BY <1>15, <1>20, <2>1, <1>5
    <3> HIDE DEF from
    <3>3. Slice(cells, from, Len(bundled)) = Slice(exe.cells, from, Len(bundled))
      <4>1. /\ cells \in Seq(S) /\ exe.cells \in Seq(S) /\ Len(bundled) \in Nat
            /\ \A i \in from + 1 .. from + Len(bundled) : cells[i] = exe.cells[i]
        BY <1>2, <1>16, <1>21, <2>1, <3>2
      <4>2. QED BY <3>1, <4>1, SameSlice
    <3>4. QED BY <2>2, <3>3 DEF from
  <2>8. QED BY <1>20, <2>1, <2>4, <2>5, <2>6, <2>7 DEF DataAt, start, len
<1>23. /\ offset - foot < SignatureAlignment
       /\ SignedMachO(V)
       /\ Linkedit(V).off + (len + 1) <= foot
  <2>1. offset - foot < SignatureAlignment
    <3>1. CASE SignedMachO(image)
      BY <1>4, <1>9, <3>1
    <3>2. CASE ~SignedMachO(image)
      BY <1>4, <1>5, <1>9, <3>2
    <3>3. QED BY <3>1, <3>2
  <2>2. SignedMachO(V) /\ Linkedit(V).off = k[l].off
    BY <1>7, <1>13, GrownFacts
  <2>3. QED BY <1>4, <1>6, <2>1, <2>2
<1>24. /\ DOMAIN Unsigned(V).commands = DOMAIN old
       /\ \A i \in DOMAIN old : KeptCommand(old[i], Unsigned(V).commands[i])
  <2> DEFINE u == Unsigned(V).commands
  <2>1. /\ DOMAIN u = DOMAIN k
        /\ \A i \in DOMAIN k : /\ k[i] \in MachOCommands /\ u[i] \in MachOCommands
                               /\ SameButSize(u[i], k[i])
                               /\ k[i].name = "__LINKEDIT" \/ u[i] = k[i]
    BY <1>7, <1>13, GrownKept
  <2>2. \A i \in DOMAIN old : old[i] \in MachOCommands
    <3>1. Unsigned(template.image) \in MachOImages
      BY <1>3, UnsignedFacts
    <3>2. QED BY <3>1, MachOFacts DEF old
  <2> HIDE DEF u
  <2>3. QED BY <1>3, <2>1, <2>2, KeptTwice DEF u
<1>25. \A i \in CommandsEnd(template.image) + 2 .. MachODataKept(template) :
         cells[i] = template.cells[i]
  <2>1. ASSUME NEW i \in CommandsEnd(template.image) + 2 .. MachODataKept(template)
        PROVE  cells[i] = template.cells[i]
    <3>1. slot <= CommandsEnd(template.image) /\ CommandsEnd(template.image) \in Nat
      <4>1. Len(old) \in Nat /\ Len(old) <= Len(template.image.commands)
            /\ Unsigned(template.image) \in MachOImages
            /\ Len(template.image.commands) \in Nat
        <5> DEFINE t == template.image
                   m == IF SignedMachO(t) THEN Len(t.commands) - 1 ELSE Len(t.commands)
        <5>1. Unsigned(t) \in MachOImages /\ m \in Nat /\ Len(old) = m
          BY <1>3, UnsignedFacts DEF old
        <5>2. Len(t.commands) \in Nat
          BY MachOFacts
        <5>3. QED BY <5>1, <5>2
      <4>2. DOMAIN old = 1 .. Len(old) /\ DOMAIN k = 1 .. n /\ n \in Nat
        BY <1>7, <4>1, MachOFacts DEF old
      <4>3. n = Len(old)
        BY <1>3, <4>1, <4>2
      <4>4. slot = 1 + n /\ CommandsEnd(template.image) = 1 + Len(template.image.commands)
        BY DEF CommandsEnd, slot
      <4>5. QED BY <4>1, <4>2, <4>3, <4>4
    <3> DEFINE kept == MachODataKept(template)
               after0 == CommandsEnd(template.image)
    <3>2. /\ kept \in Nat /\ kept + (len + 1) <= foot /\ len \in Nat
          /\ after0 \in Nat /\ slot <= after0 /\ i \in after0 + 2 .. kept
      BY <1>2, <1>3, <1>4, <2>1, <3>1 DEF len
    <3> HIDE DEF kept, after0
    <3>4. i \in slot + 2 .. base
      BY <1>4, <1>5, <1>15, <1>20, <3>2
    <3>5. QED BY <1>3, <1>21, <2>1, <3>4
  <2>2. QED BY <2>1
<1>26. MachOWritten(after, template, header, bundled)
  <2>1. PlatformFits(V, header)
    BY <1>3, <1>8, <1>12, <1>13 DEF PlatformFits
  <2>2. \E f \in Nat :
           /\ DataAt(after.cells, f, MachODataEnd(after), header, bundled)
           /\ MachODataEnd(after) - f < SignatureAlignment
           /\ ~SignedMachO(after.image) => f = MachODataEnd(after)
           /\ Linkedit(after.image).off + (Len(header) + Len(bundled) + 1) <= f
           /\ MachODataKept(template) + (Len(header) + Len(bundled) + 1) <= f
    <3>1. /\ DataAt(after.cells, foot, MachODataEnd(after), header, bundled)
          /\ MachODataEnd(after) - foot < SignatureAlignment
          /\ SignedMachO(after.image)
          /\ Linkedit(after.image).off + (Len(header) + Len(bundled) + 1) <= foot
          /\ MachODataKept(template) + (Len(header) + Len(bundled) + 1) <= foot
      BY <1>4, <1>18, <1>19, <1>22, <1>23 DEF len
    <3>2. QED BY <3>1
  <2>3. QED
    BY <1>3, <1>18, <1>24, <1>25, <2>1, <2>2 DEF MachOWritten, old
<1>27. MachOStamped(after, template, header, bundled)
  BY <1>19, <1>26 DEF MachOStamped
<1>28. QED
  BY <1>1, <1>17, <1>27 DEF after

-----------------------------------------------------------------------------
(* Other executables                                                        *)

OtherFiles(S) == [format : {"other"}, image : {NoImage}, cells : Seq(S)]

(* What is appended to an executable of another platform.                   *)
Appended(exe, template, header, bundled) ==
  /\ DataAt(exe.cells, Len(exe.cells), Len(exe.cells), header, bundled)
  /\ Upto(exe.cells, Len(template.cells)) = template.cells

(* The beginning and the rest of a sequence.                                *)
LEMMA UptoFacts ==
  ASSUME NEW S, NEW s \in Seq(S), NEW n \in Nat
  PROVE  /\ Upto(s, n) \in Seq(S)
         /\ Len(Upto(s, n)) = IF n <= Len(s) THEN n ELSE Len(s)
         /\ \A i \in 1 .. n : i <= Len(s) => Upto(s, n)[i] = s[i]
<1> DEFINE m == Min({n, Len(s)})
<1>1. m \in Nat /\ m = (IF n <= Len(s) THEN n ELSE Len(s)) /\ Len(s) \in Nat
  BY MinOfTwo
<1> HIDE DEF m
<1>2. /\ SubSeq(s, 1, m) \in Seq(S) /\ Len(SubSeq(s, 1, m)) = (m + 1) - 1
      /\ \A i \in 1 .. (m + 1) - 1 : SubSeq(s, 1, m)[i] = s[(1 + i) - 1]
  BY <1>1, SubSeqFacts
<1>3. Upto(s, n) = SubSeq(s, 1, m)
  BY DEF Upto, m
<1>4. ASSUME NEW i \in 1 .. n, i <= Len(s) PROVE SubSeq(s, 1, m)[i] = s[i]
  <2>1. i \in 1 .. (m + 1) - 1 /\ (1 + i) - 1 = i
    BY <1>1, <1>4
  <2>2. QED BY <1>2, <2>1
<1>5. QED
  BY <1>1, <1>2, <1>3, <1>4

LEMMA FromFacts ==
  ASSUME NEW S, NEW s \in Seq(S), NEW n \in Nat
  PROVE  /\ From(s, n) \in Seq(S)
         /\ Len(From(s, n)) = IF n <= Len(s) THEN Len(s) - n ELSE 0
         /\ \A i \in Nat : i \in n + 1 .. Len(s) => From(s, n)[i - n] = s[i]
<1>1. CASE n <= Len(s)
  <2>1. /\ From(s, n) \in Seq(S) /\ Len(From(s, n)) = (Len(s) + 1) - (n + 1)
        /\ \A i \in 1 .. (Len(s) + 1) - (n + 1) : From(s, n)[i] = s[((n + 1) + i) - 1]
    <3>1. n + 1 \in Nat /\ Len(s) \in Nat /\ 1 <= n + 1 /\ n + 1 <= Len(s) + 1
      BY <1>1
    <3>2. QED BY <3>1, SubSeqFacts DEF From
  <2>2. ASSUME NEW i \in Nat, i \in n + 1 .. Len(s) PROVE From(s, n)[i - n] = s[i]
    <3>1. i - n \in 1 .. (Len(s) + 1) - (n + 1) /\ ((n + 1) + (i - n)) - 1 = i
      BY <1>1, <2>2
    <3>2. QED BY <2>1, <3>1
  <2>3. (Len(s) + 1) - (n + 1) = Len(s) - n
    BY <1>1
  <2>4. QED BY <1>1, <2>1, <2>2, <2>3
<1>2. CASE ~(n <= Len(s))
  <2>1. From(s, n) = <<>>
    BY <1>2 DEF From
  <2>2. QED BY <1>2, <2>1
<1>3. QED
  BY <1>1, <1>2

(* What is appended is found, and the template is before it.                *)
LEMMA AppendedIsRead ==
  ASSUME NEW S, Zero \in S, NEW exe \in OtherFiles(S),
         NEW header \in Seq(S), NEW bundled \in Seq(S), Footer(header, bundled) \in S
  PROVE  LET new == Append_runtime_data(exe, header, bundled)
         IN  new \in OtherFiles(S) /\ Appended(new, exe, header, bundled)
<1> DEFINE new == Append_runtime_data(exe, header, bundled)
           foot == Footer(header, bundled)
           len == Len(exe.cells)
           cells == exe.cells \o header \o bundled \o <<foot>>
           n == len + (Len(header) + Len(bundled)) + 1
<1>1. exe.cells \in Seq(S) /\ exe.image = NoImage /\ exe.format = "other"
      /\ exe = [format |-> "other", image |-> NoImage, cells |-> exe.cells]
  BY DEF OtherFiles
<1>2. len \in Nat /\ Len(header) \in Nat /\ Len(bundled) \in Nat
  BY <1>1
<1>3. Resized(exe.cells, len) = exe.cells
  <2>1. /\ Resized(exe.cells, len) \in Seq(S) /\ Len(Resized(exe.cells, len)) = len
        /\ \A i \in 1 .. len : Resized(exe.cells, len)[i] = IF i <= len THEN exe.cells[i] ELSE Zero
    BY <1>1, <1>2, ResizedFacts
  <2>2. QED BY <1>1, <2>1, SequencesEqual
<1>4. StampAfter(S, exe.cells, len, header, bundled, foot)
  BY <1>1, <1>2, MachOStampCells
<1> HIDE DEF foot
<1>5. /\ cells \in Seq(S) /\ Len(cells) = len + (Len(header) + Len(bundled)) + 1
      /\ cells[len + (Len(header) + Len(bundled)) + 1] = foot
      /\ Slice(cells, len, Len(header)) = header
      /\ Slice(cells, len + Len(header), Len(bundled)) = bundled
      /\ \A i \in 1 .. len : i <= len => cells[i] = exe.cells[i]
  BY <1>3, <1>4 DEF StampAfter
<1>6. new = [format |-> "other", image |-> NoImage, cells |-> cells]
  <2>1. new = [exe EXCEPT !.cells = cells]
    BY DEF Append_runtime_data, foot
  <2> HIDE DEF cells, new
  <2>2. QED BY <1>1, <2>1
<1> HIDE DEF cells, len
<1>7. new \in OtherFiles(S) /\ new.cells = cells
  BY <1>5, <1>6 DEF OtherFiles
<1>8. DataAt(cells, Len(cells), Len(cells), header, bundled)
  <2> DEFINE a == Len(header)
             b == Len(bundled)
  <2>1. a \in Nat /\ b \in Nat /\ Len(cells) = n
    BY <1>2, <1>5
  <2>2. /\ n \in Nat /\ (a + b) + 1 <= n /\ n - ((a + b) + 1) = len
        /\ n + 1 > n
    BY <1>2, <2>1
  <2>3. /\ cells[n] = Footer(header, bundled)
        /\ Slice(cells, len, a) = header /\ Slice(cells, len + a, b) = bundled
    BY <1>5 DEF foot
  <2>4. \A i \in n + 1 .. n : cells[i] = Zero
    BY <2>2
  <2> HIDE DEF n
  <2>5. QED BY <2>1, <2>2, <2>3, <2>4 DEF DataAt
<1>9. Upto(cells, Len(exe.cells)) = exe.cells
  <2>1. /\ Upto(cells, len) \in Seq(S)
        /\ Len(Upto(cells, len)) = IF len <= Len(cells) THEN len ELSE Len(cells)
        /\ \A i \in 1 .. len : i <= Len(cells) => Upto(cells, len)[i] = cells[i]
    BY <1>2, <1>5, UptoFacts
  <2>2. len <= Len(cells) /\ len = Len(exe.cells) /\ Len(cells) \in Nat
    <3> DEFINE total == Len(cells)
               a == Len(header)
               b == Len(bundled)
    <3>1. total = len + (a + b) + 1 /\ len \in Nat /\ a \in Nat /\ b \in Nat
      BY <1>2, <1>5
    <3> HIDE DEF total, a, b
    <3>2. len <= total /\ total \in Nat
      BY <3>1
    <3>3. QED BY <3>2 DEF total, len
  <2>3. \A i \in 1 .. len : Upto(cells, len)[i] = exe.cells[i]
    <3>1. ASSUME NEW i \in 1 .. len PROVE Upto(cells, len)[i] = exe.cells[i]
      <4>1. i <= Len(cells) /\ i <= len
        BY <1>2, <2>2
      <4>2. QED BY <1>5, <2>1, <4>1
    <3>2. QED BY <3>1
  <2>4. QED BY <1>1, <2>1, <2>2, <2>3, SequencesEqual
<1>10. QED
  BY <1>7, <1>8, <1>9 DEF Appended

(* What is appended to another executable is read back.                     *)
LEMMA AppendedReads ==
  ASSUME NEW S, NEW exe \in OtherFiles(S), NEW template,
         NEW header \in Seq(S), NEW bundled \in Seq(S),
         Appended(exe, template, header, bundled)
  PROVE  ReadsAs(exe, header, bundled)
<1> DEFINE foot == Len(exe.cells)
           len == Len(header) + Len(bundled)
           data == [found |-> "data", header |-> header,
                    offset |-> foot - (len + 1) + Len(header), bundle |-> bundled]
<1>1. exe.cells \in Seq(S) /\ exe.format = "other" /\ foot \in Nat /\ len \in Nat
  BY DEF OtherFiles
<1>2. DataAt(exe.cells, foot, foot, header, bundled)
  BY DEF Appended
<1>3. len + 1 <= foot /\ Slice(exe.cells, foot - (len + 1) + Len(header), Len(bundled)) = bundled
  BY <1>2 DEF DataAt
<1> HIDE DEF foot
<1>4. foot <= Len(exe.cells) /\ foot - foot < 1 /\ 0 + (len + 1) <= foot
  BY <1>1, <1>3 DEF foot
<1>5. FoundAt(exe.cells, foot, foot, 1, 0, header, bundled)
  BY <1>1, <1>2, <1>4, SearchFinds
<1>6. ReadRuntimeData(exe) = data
  BY <1>1, <1>5 DEF ReadRuntimeData, FoundAt, foot
<1> HIDE DEF foot, len
<1>7. QED
  BY <1>3, <1>6 DEF ReadsAs, len

-----------------------------------------------------------------------------
(* Stamps of any format                                                     *)

(* A stamp, by format: as it leaves the writer, and when it is known that   *)
(* the reader finds it.                                                     *)
NewStamp(exe, template, header, bundled) ==
  /\ exe.format = template.format
  /\ \/ exe.format = "pe" /\ PeStamped(exe, template, header, bundled)
     \/ /\ exe.format = "macho" /\ MachOWritten(exe, template, header, bundled)
        /\ template.image \in MachOImages
        /\ MachOAccepted(exe) /\ FinalLayout(exe.image, Len(exe.cells)) => SoundMachO(exe)
        /\ AsLinked(template.image) => SoundMachO(exe)
     \/ exe.format = "other" /\ Appended(exe, template, header, bundled)

Stamped(exe, template, header, bundled) ==
  /\ exe.format = template.format
  /\ \/ exe.format = "pe" /\ PeStamped(exe, template, header, bundled)
     \/ /\ exe.format = "macho" /\ MachOStamped(exe, template, header, bundled)
        /\ template.image \in MachOImages
     \/ exe.format = "other" /\ Appended(exe, template, header, bundled)

(* An executable is of one of the formats.                                  *)
LEMMA Formats ==
  ASSUME NEW S
  PROVE  /\ \A exe \in Executables(S) :
              /\ exe.format = "pe" => exe \in PeFiles(S)
              /\ exe.format = "macho" => exe \in MachOFiles(S)
              /\ exe.format = "other" => exe \in OtherFiles(S)
              /\ exe.format \in {"pe", "macho", "other", "unsupported", "refused"}
              /\ exe.cells \in Seq(S)
         /\ PeFiles(S) \subseteq Executables(S)
         /\ MachOFiles(S) \subseteq Executables(S)
         /\ OtherFiles(S) \subseteq Executables(S)
<1>1. ASSUME NEW exe \in Executables(S)
      PROVE  /\ exe.format = "pe" => exe \in PeFiles(S)
             /\ exe.format = "macho" => exe \in MachOFiles(S)
             /\ exe.format = "other" => exe \in OtherFiles(S)
             /\ exe.format \in {"pe", "macho", "other", "unsupported", "refused"}
             /\ exe.cells \in Seq(S)
  BY <1>1 DEF Executables, PeFiles, MachOFiles, OtherFiles
<1>2. /\ PeFiles(S) \subseteq Executables(S)
      /\ MachOFiles(S) \subseteq Executables(S)
      /\ OtherFiles(S) \subseteq Executables(S)
  BY DEF Executables, PeFiles, MachOFiles, OtherFiles
<1>3. QED
  BY <1>1, <1>2

(* What the writer makes of a template.                                     *)
LEMMA WriterStamps ==
  ASSUME NEW S, Zero \in S, Command \in S, NEW exe \in Executables(S),
         NEW header \in Seq(S), NEW bundled \in Seq(S), Footer(header, bundled) \in S,
         WriteRuntimeData(exe, header, bundled) # Refused
  PROVE  LET new == WriteRuntimeData(exe, header, bundled)
         IN  new \in Executables(S) /\ NewStamp(new, exe, header, bundled)
<1> DEFINE new == WriteRuntimeData(exe, header, bundled)
<1>1. CASE exe.format = "pe"
  <2>1. exe \in PeFiles(S) /\ new = write_pe_runtime_data(exe, header, bundled)
    BY <1>1, Formats DEF WriteRuntimeData
  <2>2. write_pe_runtime_data(exe, header, bundled) # Refused
    BY <2>1
  <2> HIDE DEF new
  <2>3. new \in PeFiles(S) /\ PeStamped(new, exe, header, bundled)
    BY <2>1, <2>2, PeWritten
  <2>4. new.format = "pe"
    BY <2>3 DEF PeFiles
  <2>5. NewStamp(new, exe, header, bundled) /\ new \in Executables(S)
    BY <1>1, <2>3, <2>4, Formats DEF NewStamp
  <2>6. QED BY <2>5 DEF new
<1>2. CASE exe.format = "macho"
  <2>1. exe \in MachOFiles(S) /\ new = write_macho_runtime_data(exe, header, bundled)
    BY <1>2, Formats DEF WriteRuntimeData
  <2>2. write_macho_runtime_data(exe, header, bundled) # Refused
    BY <2>1
  <2> HIDE DEF new
  <2>3. /\ new \in MachOFiles(S) /\ MachOWritten(new, exe, header, bundled)
        /\ MachOAccepted(new) /\ FinalLayout(new.image, Len(new.cells)) => SoundMachO(new)
        /\ AsLinked(exe.image) => SoundMachO(new)
    BY <2>1, <2>2, MachOWrites
  <2>4. new.format = "macho" /\ exe.image \in MachOImages
    BY <2>1, <2>3 DEF MachOFiles
  <2>5. NewStamp(new, exe, header, bundled) /\ new \in Executables(S)
    BY <1>2, <2>3, <2>4, Formats DEF NewStamp
  <2>6. QED BY <2>5 DEF new
<1>3. CASE exe.format = "other"
  <2>1. exe \in OtherFiles(S) /\ new = Append_runtime_data(exe, header, bundled)
    BY <1>3, Formats DEF WriteRuntimeData
  <2> HIDE DEF new
  <2>2. new \in OtherFiles(S) /\ Appended(new, exe, header, bundled)
    BY <2>1, AppendedIsRead
  <2>3. new.format = "other"
    BY <2>2 DEF OtherFiles
  <2>4. NewStamp(new, exe, header, bundled) /\ new \in Executables(S)
    BY <1>3, <2>2, <2>3, Formats DEF NewStamp
  <2>5. QED BY <2>4 DEF new
<1>4. CASE exe.format \notin {"pe", "macho", "other"}
  <2>1. new = Refused
    BY <1>4 DEF WriteRuntimeData
  <2>2. QED BY <2>1
<1>5. QED
  BY <1>1, <1>2, <1>3, <1>4

(* A stamp is read back, and the image of the template is in it.            *)
LEMMA StampedReads ==
  ASSUME NEW S, Zero \in S, NEW exe \in Executables(S), NEW template,
         NEW header \in Seq(S), NEW bundled \in Seq(S),
         Stamped(exe, template, header, bundled)
  PROVE  /\ ReadsAs(exe, header, bundled)
         /\ CASE template.format = "pe"    -> PeKept(template, exe)
              [] template.format = "macho" -> MachOKept(template, exe)
              [] OTHER -> Upto(exe.cells, Len(template.cells)) = template.cells
<1>1. CASE exe.format = "pe"
  <2>1. exe \in PeFiles(S) /\ PeStamped(exe, template, header, bundled) /\ template.format = "pe"
    BY <1>1, Formats DEF Stamped
  <2>2. ReadsAs(exe, header, bundled)
    BY <2>1, PeStampedReads
  <2>3. PeKept(template, exe)
    BY <2>1 DEF PeStamped
  <2>4. QED BY <2>1, <2>2, <2>3
<1>2. CASE exe.format = "macho"
  <2>1. exe \in MachOFiles(S) /\ MachOStamped(exe, template, header, bundled)
        /\ template.format = "macho"
    BY <1>2, Formats DEF Stamped
  <2>2. ReadsAs(exe, header, bundled) /\ MachOKept(template, exe)
    BY <2>1, MachOStampedReads
  <2>3. QED BY <2>1, <2>2
<1>3. CASE exe.format = "other"
  <2>1. exe \in OtherFiles(S) /\ Appended(exe, template, header, bundled)
        /\ template.format = "other"
    BY <1>3, Formats DEF Stamped
  <2>2. ReadsAs(exe, header, bundled)
    BY <2>1, AppendedReads
  <2>3. Upto(exe.cells, Len(template.cells)) = template.cells
    BY <2>1 DEF Appended
  <2>4. QED BY <2>1, <2>2, <2>3
<1>4. QED
  BY <1>1, <1>2, <1>3 DEF Stamped

(* A new stamp that is read back, or made as linkers make images, is one.   *)
LEMMA NewStampIsStamp ==
  ASSUME NEW exe, NEW template, NEW header, NEW bundled,
         NewStamp(exe, template, header, bundled),
         \/ ReadsAs(exe, header, bundled)
         \/ template.format = "macho" => AsLinked(template.image)
  PROVE  Stamped(exe, template, header, bundled)
<1>1. CASE exe.format = "macho"
  <2>1. SoundMachO(exe)
    <3>1. CASE ReadsAs(exe, header, bundled)
      <4>1. ReadRuntimeData(exe) = read_macho_runtime_data(exe)
        BY <1>1 DEF ReadRuntimeData
      <4>2. Invalid.found = "error"
        BY DEF Invalid, NotFound
      <4>3. read_macho_runtime_data(exe) # Invalid
        BY <3>1, <4>1, <4>2 DEF ReadsAs
      <4>4. MachOAccepted(exe) /\ FinalLayout(exe.image, Len(exe.cells))
        BY <4>3 DEF read_macho_runtime_data
      <4>5. QED BY <1>1, <4>4 DEF NewStamp
    <3>2. CASE template.format = "macho" => AsLinked(template.image)
      BY <1>1, <3>2 DEF NewStamp
    <3>3. QED BY <3>1, <3>2
  <2>2. QED BY <1>1, <2>1 DEF NewStamp, Stamped, MachOStamped
<1>2. CASE exe.format # "macho"
  BY <1>2 DEF NewStamp, Stamped
<1>3. QED
  BY <1>1, <1>2

(* Signing keeps a stamp one.                                               *)
LEMMA SigningKeeps ==
  ASSUME NEW S, Zero \in S, Command \in S, NEW exe \in Executables(S),
         NEW template \in Executables(S),
         NEW header \in Seq(S), NEW bundled \in Seq(S), NEW signature \in Seq(S),
         Stamped(exe, template, header, bundled),
         exe.format \in {"macho", "pe"},
         exe.format = "pe" =>
           Len(signature) >= CertificateAlignment /\ CertificateTableAccepted(signature),
         exe.format = "macho" => signature # <<>> /\ RoomForSignature(exe.image)
  PROVE  Stamped(SignedFile(exe, signature), template, header, bundled)
<1> DEFINE new == SignedFile(exe, signature)
<1>1. CASE exe.format = "pe"
  <2>1. /\ exe \in PeFiles(S) /\ template \in PeFiles(S) /\ template.format = "pe"
        /\ PeStamped(exe, template, header, bundled)
        /\ Len(signature) >= CertificateAlignment /\ CertificateTableAccepted(signature)
        /\ new = Authenticode(exe, signature)
    BY <1>1, Formats DEF Stamped, SignedFile
  <2> HIDE DEF new
  <2>2. new \in PeFiles(S) /\ PeStamped(new, template, header, bundled)
    BY <2>1, PeSigned
  <2>3. QED BY <2>1, <2>2 DEF Stamped, PeFiles, new
<1>2. CASE exe.format = "macho"
  <2>1. /\ exe \in MachOFiles(S) /\ template.format = "macho" /\ template.image \in MachOImages
        /\ MachOStamped(exe, template, header, bundled)
        /\ signature # <<>> /\ RoomForSignature(exe.image)
        /\ new = CodeSign(exe, signature)
    BY <1>2, Formats DEF Stamped, SignedFile
  <2> HIDE DEF new
  <2>2. new \in MachOFiles(S) /\ MachOStamped(new, template, header, bundled)
    BY <2>1, MachOSigns
  <2>3. QED BY <2>1, <2>2 DEF Stamped, MachOFiles, new
<1>3. QED
  BY <1>1, <1>2

(* A code signature on any image codesign takes.                            *)
LEMMA SignedIsFile ==
  ASSUME NEW S, Zero \in S, Command \in S, NEW exe \in Executables(S),
         NEW signature \in Seq(S), exe.format \in {"macho", "pe"},
         exe.format = "macho" => Signable(exe)
  PROVE  SignedFile(exe, signature) \in Executables(S)
<1>1. CASE exe.format = "pe"
  <2> DEFINE c == exe.image.certificate
             offset == IF c = NoCertificate
                         THEN align_up(Len(exe.cells), CertificateAlignment) ELSE c.offset
             cells == Resized(exe.cells, offset) \o signature
             image == WithCertificate(exe.image, offset, Len(signature))
             new == [format |-> "pe", image |-> image, cells |-> cells]
  <2>1. SignedFile(exe, signature) = new
    BY <1>1 DEF SignedFile, Authenticode, WithCertificate
  <2>2. exe.image \in PeImages /\ exe.cells \in Seq(S)
    BY <1>1, Formats DEF PeFiles
  <2>3. offset \in Nat /\ Len(signature) \in Nat
    <3>1. CertificateAlignment \in Nat \ {0} /\ Len(exe.cells) \in Nat
      BY <2>2, LayoutAssumption
    <3>2. align_up(Len(exe.cells), CertificateAlignment) \in Nat
      BY <3>1, AlignUp
    <3>3. c.offset \in Nat
      BY <2>2 DEF PeImages
    <3>4. QED BY <3>2, <3>3
  <2> HIDE DEF offset
  <2>4. image \in PeImages
    BY <2>2, <2>3, OtherCertificate
  <2>5. cells \in Seq(S)
    <3>1. Resized(exe.cells, offset) \in Seq(S)
      BY <2>2, <2>3, ResizedFacts
    <3>2. QED BY <3>1
  <2> HIDE DEF image, cells
  <2>6. new \in PeFiles(S)
    BY <2>4, <2>5 DEF PeFiles
  <2>7. QED BY <2>1, <2>6, Formats
<1>2. CASE exe.format = "macho"
  <2> DEFINE image == exe.image
             K == Unsigned(image)
             base == MachODataEnd(exe)
             offset == align_up(base, SignatureAlignment)
             command == SignatureCommand(offset, Len(signature))
             W == [K EXCEPT !.commands = Append(@, command)]
             end == offset + Len(signature)
             V == Extended(W, end)
             slot == CommandsEnd(K)
             one == <<Command>>
             written == Written(exe.cells, slot, one)
             cells == Resized(written, offset) \o signature
             new == [format |-> "macho", image |-> V, cells |-> cells]
  <2>1. SignedFile(exe, signature) = new
    BY <1>2 DEF SignedFile, CodeSign, MachODataEnd, SignatureCommand
  <2>2. /\ image \in MachOImages /\ exe.cells \in Seq(S) /\ Len(exe.cells) \in Nat
        /\ Len(signature) \in Nat
        /\ MachOAccepted(exe) /\ FinalLayout(image, Len(exe.cells))
        /\ MachOCommandsAccepted(image)
    BY <1>2, Formats DEF MachOFiles, Signable, MachOAccepted
  <2>3. /\ base \in Nat /\ Linkedit(image) \in MachOCommands /\ Linkedit(image).off <= base
    BY <2>2, DataEndFacts
  <2>4. PICK l \in DOMAIN K.commands : EndsWith(K, l) /\ K.commands[l] = Linkedit(image)
    BY <2>2, UnsignedEnds
  <2>5. SignatureAlignment \in Nat \ {0}
    BY LayoutAssumption
  <2> HIDE DEF K, base
  <2>6. offset \in Nat /\ base <= offset /\ offset % SignatureAlignment = 0
    BY <2>3, <2>5, AlignUp
  <2> HIDE DEF offset
  <2>7. end \in Nat /\ offset <= end /\ end - offset = Len(signature)
    BY <2>2, <2>6
  <2>8. /\ command \in MachOCommands /\ command.cmd = "signature" /\ command.off = offset
        /\ command.size = Len(signature) /\ command.sect = 0
    BY <2>2, <2>6, SignatureIsCommand
  <2> HIDE DEF command, end
  <2> DEFINE n == Len(K.commands)
  <2>9. /\ W \in MachOImages /\ Len(W.commands) = n + 1 /\ W.commands[n + 1] = command
        /\ \A i \in 1 .. n : W.commands[i] = K.commands[i]
        /\ W.executable = K.executable
    <3>1. K \in MachOImages
      BY <2>4 DEF EndsWith
    <3>2. QED BY <2>8, <3>1, OneMore
  <2> HIDE DEF W
  <2>10. V \in MachOImages
    <3>1. K.commands[l].off <= end
      <4>1. Linkedit(image).off \in Nat
        BY <2>3, CommandFacts
      <4>2. QED BY <2>3, <2>4, <2>6, <2>7, <4>1
    <3>2. Len(W.commands) = Len(K.commands) + 1 =>
             LET s == W.commands[Len(W.commands)] IN
               /\ s.cmd = "signature" /\ s.off = offset /\ s.size = end - offset
               /\ s.sect = 0 /\ offset % SignatureAlignment = 0
      BY <2>6, <2>7, <2>8, <2>9
    <3>3. /\ EndsWith(K, l) /\ W \in MachOImages /\ offset \in Nat /\ end \in Nat
          /\ W.executable = K.executable
          /\ Len(W.commands) \in {Len(K.commands), Len(K.commands) + 1}
          /\ \A i \in 1 .. Len(K.commands) : W.commands[i] = K.commands[i]
      BY <2>4, <2>6, <2>7, <2>9
    <3>4. GrownTo(Extended(W, end), K, l, offset, end)
      BY <3>1, <3>2, <3>3, Grows
    <3>5. QED BY <3>4 DEF GrownTo
  <2> HIDE DEF V
  <2>11. cells \in Seq(S)
    <3>1. slot \in Nat /\ one \in Seq(S)
      <4>1. K \in MachOImages
        BY <2>4 DEF EndsWith
      <4>2. QED BY <4>1, MachOFacts
    <3> HIDE DEF slot, one
    <3>2. written \in Seq(S)
      BY <2>2, <3>1, WrittenFacts
    <3> HIDE DEF written
    <3>3. Resized(written, offset) \in Seq(S)
      BY <2>6, <3>2, ResizedFacts
    <3>4. QED BY <3>3
  <2> HIDE DEF cells
  <2>12. new \in MachOFiles(S)
    BY <2>10, <2>11 DEF MachOFiles
  <2>13. QED BY <2>1, <2>12, Formats
<1>3. QED
  BY <1>1, <1>2

-----------------------------------------------------------------------------
(* The types of append_to_binary                                            *)

(* The cells a file can hold: those of the files and bundles there are, and *)
(* those the writer and the signers add.                                    *)
Given ==
  (UNION {Range(exe.cells) : exe \in Templates \union Builds})
    \union (UNION {Range(cells) : cells \in Bundles \union Signatures})
HeaderCells == UNION {{<<"header", runtime, platform>> : platform \in Platforms} : runtime \in Runtimes}
Footers == UNION {{Footer(header, bundled) : bundled \in Seq(Given)} : header \in Seq(HeaderCells)}
Cells == (Given \union HeaderCells) \union ({Zero, Command} \union Footers)

Beginning == {"idle", "failed", "done", "begun", "bundle opened"}
Copying == {"copy", "copy rest", "copied", "hash", "hash rest"}
Bundling == {"bundle", "bundle rest", "bundle copied", "bundle hash", "bundle hash rest",
             "bundle hashed"}
Publishing == {"read back", "check temporary", "check template", "rename"}

Steps ==
  Beginning \union {"opened"} \union Copying \union Bundling \union {"write"}
    \union Publishing \union {"renamed"}

Inodes == [file : Executables(Cells), time : Nat]
Opened == [len : Nat, time : Nat]
Stampers ==
  [step : Steps, header : Seq(HeaderCells), embedded : BOOLEAN, input : Nat, opened : Opened, output : Nat,
   copy : Executables(Cells), hashed : Executables(Cells) \union { <<>> },
   bundleOpened : Opened, content : Seq(Given), rehashed : Seq(Given)]
Publications ==
  [inode : Nat \ {0}, header : Seq(HeaderCells), template : Executables(Cells),
   bundle : Seq(Given)]

StampTypeOK ==
  /\ disk \in Seq(Inodes) /\ binary \in 1 .. Len(disk) /\ temporary \in 0 .. Len(disk)
  /\ bundle \in [cells : Seq(Given), time : Nat]
  /\ stamper \in Stampers /\ published \in {None} \union Publications
  /\ templates \subseteq Executables(Cells) /\ bundles \subseteq Seq(Given)
  /\ quiet \in Nat /\ meddles \in Nat /\ stamps \in Nat /\ signs \in Nat

(* The template and the temporary file are files, and not the same; until   *)
(* the rename the temporary file is not at the path of the template.        *)
Placed ==
  /\ stamper.step \notin Beginning => stamper.input \in 1 .. Len(disk)
  /\ stamper.step \notin Beginning \union {"opened"} =>
       stamper.output \in 1 .. Len(disk) /\ stamper.output # stamper.input
  /\ stamper.step \notin Beginning \union {"opened", "renamed"} =>
       stamper.output # binary /\ temporary # 0
  /\ stamper.step = "hash rest" => stamper.hashed \in Executables(Cells)
  /\ published.inode \in {0, binary}

TypedStamp == StampTypeOK /\ Placed

(* Wider sets of cells.                                                     *)
LEMMA WiderSequences ==
  ASSUME NEW A, NEW B, A \subseteq B
  PROVE  Seq(A) \subseteq Seq(B)
OBVIOUS

(* The cells of headers, bundles and footers are cells.                     *)
LEMMA CellSets ==
  /\ Given \subseteq Cells /\ HeaderCells \subseteq Cells /\ Zero \in Cells /\ Command \in Cells
  /\ \A header \in Seq(HeaderCells), bundled \in Seq(Given) : Footer(header, bundled) \in Cells
  /\ Seq(Given) \subseteq Seq(Cells) /\ Seq(HeaderCells) \subseteq Seq(Cells)
<1>1. Given \subseteq Cells /\ HeaderCells \subseteq Cells /\ Zero \in Cells /\ Command \in Cells
  BY DEF Cells
<1>2. ASSUME NEW header \in Seq(HeaderCells), NEW bundled \in Seq(Given)
      PROVE  Footer(header, bundled) \in Cells
  <2>1. Footer(header, bundled) \in {Footer(header, x) : x \in Seq(Given)}
    OBVIOUS
  <2>2. Footer(header, bundled) \in Footers
    BY <2>1 DEF Footers
  <2>3. QED BY <2>2 DEF Cells
<1>3. QED
  BY <1>1, <1>2, WiderSequences

LEMMA WiderExecutables ==
  ASSUME NEW A, NEW B, A \subseteq B
  PROVE  Executables(A) \subseteq Executables(B)
<1>1. Seq(A) \subseteq Seq(B)
  OBVIOUS
<1>2. QED
  BY <1>1 DEF Executables

(* The files and bundles a run starts from or other programs bring.         *)
LEMMA GivenFiles ==
  /\ Templates \subseteq Executables(Cells) /\ Builds \subseteq Executables(Cells)
  /\ Bundles \subseteq Seq(Given) /\ Signatures \subseteq Seq(Given)
  /\ \A runtime \in Runtimes, platform \in Platforms :
       Header(runtime, platform) \in Seq(HeaderCells)
<1>1. ASSUME NEW exe \in Templates \union Builds PROVE exe \in Executables(Cells)
  <2>1. exe \in Executables(Range(exe.cells))
    BY StampAssumption
  <2>2. Range(exe.cells) \in {Range(x.cells) : x \in Templates \union Builds}
    OBVIOUS
  <2>3. Range(exe.cells) \subseteq UNION {Range(x.cells) : x \in Templates \union Builds}
    BY <2>2
  <2>4. Range(exe.cells) \subseteq Given
    BY <2>3 DEF Given
  <2>5. Range(exe.cells) \subseteq Cells
    BY <2>4, CellSets
  <2>6. QED BY <2>1, <2>5, WiderExecutables
<1>2. ASSUME NEW cells \in Bundles \union Signatures PROVE cells \in Seq(Given)
  <2>1. cells \in Seq(Range(cells))
    BY StampAssumption
  <2>2. Range(cells) \in {Range(x) : x \in Bundles \union Signatures}
    OBVIOUS
  <2> DEFINE all == {Range(x) : x \in Bundles \union Signatures}
             some == {Range(exe.cells) : exe \in Templates \union Builds}
             own == Range(cells)
  <2>3. Given = (UNION some) \union (UNION all) /\ own \in all
    BY <2>2 DEF Given
  <2> HIDE DEF all, some, own
  <2>4. Range(cells) \subseteq Given
    <3> DEFINE u == UNION all
               v == UNION some
    <3>0. own \subseteq UNION all
      BY <2>3
    <3>1. own \subseteq u /\ Given = v \union u
      BY <2>3, <3>0
    <3> HIDE DEF u, v
    <3>2. own \subseteq Given
      BY <3>1
    <3>3. QED BY <3>2 DEF own
  <2>5. Seq(Range(cells)) \subseteq Seq(Given)
    BY <2>4, WiderSequences
  <2>6. QED BY <2>1, <2>5
<1>3. ASSUME NEW runtime \in Runtimes, NEW platform \in Platforms
      PROVE  Header(runtime, platform) \in Seq(HeaderCells)
  <2>1. <<"header", runtime, platform>> \in {<<"header", runtime, x>> : x \in Platforms}
    OBVIOUS
  <2>2. <<"header", runtime, platform>> \in HeaderCells
    BY <2>1 DEF HeaderCells
  <2> DEFINE cell == <<"header", runtime, platform>>
  <2>3. Header(runtime, platform) = <<cell>>
    BY DEF Header
  <2>4. cell \in HeaderCells
    BY <2>2
  <2> HIDE DEF cell
  <2>5. <<cell>> \in Seq(HeaderCells)
    BY <2>4
  <2>6. QED BY <2>3, <2>5
<1>4. QED
  BY <1>1, <1>2, <1>3

(* What the disk is after a file is written, overwritten, or made.          *)
Changed(new, old, i, exe) ==
  /\ new \in Seq(Inodes) /\ Len(new) = Len(old) /\ new[i].file = exe
  /\ \A j \in 1 .. Len(old) : j # i => new[j] = old[j]

(* A file written by the stamper, overwritten, and made.                    *)
LEMMA FileWritten ==
  ASSUME NEW old \in Seq(Inodes), NEW i \in 1 .. Len(old), NEW exe \in Executables(Cells)
  PROVE  /\ Changed([old EXCEPT ![i].file = exe], old, i, exe)
         /\ [old EXCEPT ![i].file = exe][i].time = old[i].time
<1> DEFINE new == [old EXCEPT ![i].file = exe]
<1>1. old[i] \in Inodes
  OBVIOUS
<1>2. [old[i] EXCEPT !.file = exe] \in Inodes
      /\ [old[i] EXCEPT !.file = exe].file = exe
      /\ [old[i] EXCEPT !.file = exe].time = old[i].time
  BY <1>1 DEF Inodes
<1>3. new = [old EXCEPT ![i] = [old[i] EXCEPT !.file = exe]]
  OBVIOUS
<1>4. QED
  BY <1>2, <1>3 DEF Changed

LEMMA FileReplaced ==
  ASSUME NEW old \in Seq(Inodes), NEW i \in 1 .. Len(old), NEW exe \in Executables(Cells),
         NEW ticks \in Nat
  PROVE  /\ Changed([old EXCEPT ![i] = [file |-> exe, time |-> @.time + ticks]], old, i, exe)
         /\ [old EXCEPT ![i] = [file |-> exe, time |-> @.time + ticks]][i].time
              = old[i].time + ticks
<1> DEFINE t == old[i].time + ticks
           inode == [file |-> exe, time |-> t]
<1>1. t \in Nat
  <2>1. old[i] \in Inodes
    OBVIOUS
  <2>2. old[i].time \in Nat
    BY <2>1 DEF Inodes
  <2>3. QED BY <2>2
<1> HIDE DEF t
<1>2. inode \in Inodes /\ inode.file = exe /\ inode.time = t
  BY <1>1 DEF Inodes
<1> HIDE DEF inode
<1>3. Changed([old EXCEPT ![i] = inode], old, i, exe) /\ [old EXCEPT ![i] = inode][i].time = t
  BY <1>2 DEF Changed
<1>4. [old EXCEPT ![i] = [file |-> exe, time |-> @.time + ticks]] = [old EXCEPT ![i] = inode]
  BY DEF inode, t
<1>5. QED
  BY <1>3, <1>4 DEF t

LEMMA FileMade ==
  ASSUME NEW old \in Seq(Inodes), NEW exe \in Executables(Cells)
  PROVE  LET new == Append(old, [file |-> exe, time |-> 0])
         IN  /\ new \in Seq(Inodes) /\ Len(new) = Len(old) + 1 /\ Len(old) \in Nat
             /\ new[Len(old) + 1].file = exe /\ new[Len(old) + 1].time = 0
             /\ \A j \in 1 .. Len(old) : new[j] = old[j]
<1> DEFINE inode == [file |-> exe, time |-> 0]
<1>1. inode \in Inodes /\ inode.file = exe /\ inode.time = 0
  BY DEF Inodes
<1> HIDE DEF inode
<1>2. QED
  BY <1>1 DEF inode

(* A stamper that knows nothing.                                            *)
LEMMA Blank ==
  ASSUME NEW step \in {"idle", "failed", "done", "begun"}
  PROVE  /\ Idle(step) \in Stampers /\ Idle(step).step = step
         /\ step \in Beginning
<1>1. Refused \in Executables(Cells)
  BY DEF Refused, Executables
<1>2. Unopened \in Opened
  BY DEF Unopened, Opened
<1>3. step \in Beginning /\ step \in Steps
  BY DEF Beginning, Steps
<1>5. <<>> \in Seq(HeaderCells) /\ <<>> \in Seq(Given)
  OBVIOUS
<1>6. Idle(step) =
        [step |-> step, header |-> <<>>, embedded |-> FALSE, input |-> 0, opened |-> Unopened,
         output |-> 0, copy |-> Refused, hashed |-> <<>>, bundleOpened |-> Unopened,
         content |-> <<>>, rehashed |-> <<>>]
  BY DEF Idle
<1>7. QED
  BY <1>1, <1>2, <1>3, <1>5, <1>6 DEF Stampers

(* A step of the stamper alone.                                             *)
LEMMA OnlyStamper ==
  ASSUME TypedStamp, stamper' \in Stampers, UNCHANGED <<Files, templates, bundles>>,
         stamper'.step \in Beginning
           \/ /\ stamper'.input = stamper.input /\ stamper'.output = stamper.output
              /\ stamper.step \notin Beginning \union {"opened", "renamed"}
              /\ stamper'.step \notin {"opened", "renamed"}
              /\ stamper'.step = "hash rest" => stamper'.hashed \in Executables(Cells)
  PROVE  TypedStamp'
<1>1. StampTypeOK'
  BY DEF TypedStamp, StampTypeOK, Files
<1>2. UNCHANGED <<disk, binary, temporary, published>>
  BY DEF Files
<1>3. CASE stamper'.step \in Beginning
  <2>1. stamper'.step # "hash rest"
    BY <1>3 DEF Beginning
  <2>2. Placed'
    BY <1>2, <1>3, <2>1 DEF TypedStamp, Placed
  <2>3. QED BY <1>1, <2>2 DEF TypedStamp
<1>4. CASE ~(stamper'.step \in Beginning)
  <2>1. Placed'
    BY <1>2, <1>4 DEF TypedStamp, Placed
  <2>2. QED BY <1>1, <2>1 DEF TypedStamp
<1>5. QED
  BY <1>3, <1>4

(* A failure, and a check that holds or fails.                              *)
LEMMA Failed ==
  ASSUME TypedStamp, Fail
  PROVE  TypedStamp'
<1>1. /\ stamper' = Idle("failed") /\ temporary' = 0
      /\ UNCHANGED <<disk, binary, bundle, published, templates, bundles, quiet, meddles, stamps,
                     signs>>
  BY DEF Fail
<1>2. stamper' \in Stampers /\ stamper'.step = "failed" /\ stamper'.step \in Beginning
  BY <1>1, Blank
<1>3. Len(disk) \in Nat
  BY DEF TypedStamp, StampTypeOK
<1>4. StampTypeOK'
  BY <1>1, <1>2, <1>3 DEF TypedStamp, StampTypeOK
<1>5. Placed'
  BY <1>1, <1>2 DEF TypedStamp, Placed
<1>6. QED
  BY <1>4, <1>5 DEF TypedStamp

LEMMA Checked ==
  ASSUME TypedStamp, NEW from, NEW condition, NEW to, Check(from, condition, to),
         from \in Copying \union Bundling \union Publishing,
         to \in (Copying \union Bundling \union Publishing \union {"write"}) \ {"hash rest"}
  PROVE  TypedStamp'
<1>1. CASE condition /\ Goto(to) /\ UNCHANGED <<Files, templates, bundles>>
  <2>1. stamper \in Stampers /\ stamper' = [stamper EXCEPT !.step = to]
    BY <1>1 DEF TypedStamp, StampTypeOK, Goto
  <2>2. /\ stamper' \in Stampers /\ stamper'.step = to
        /\ stamper'.input = stamper.input /\ stamper'.output = stamper.output
    <3>1. to \in Steps
      BY DEF Steps
    <3>2. QED BY <2>1, <3>1 DEF Stampers
  <2>3. stamper.step = from
    BY DEF Check
  <2>4. /\ stamper.step \notin Beginning \union {"opened", "renamed"}
        /\ stamper'.step \notin Beginning \union {"opened", "renamed", "hash rest"}
    <3>1. from \notin Beginning \union {"opened", "renamed"}
      BY DEF Beginning, Copying, Bundling, Publishing
    <3>2. to \notin Beginning \union {"opened", "renamed", "hash rest"}
      BY DEF Beginning, Copying, Bundling, Publishing
    <3>3. QED BY <2>2, <2>3, <3>1, <3>2
  <2>5. QED BY <1>1, <2>2, <2>4, OnlyStamper
<1>2. CASE ~condition /\ Fail
  BY <1>2, Failed
<1>3. QED
  BY <1>1, <1>2 DEF Check

(* A file with other cells and the same image.                              *)
LEMMA CellsChanged ==
  ASSUME NEW S, NEW exe \in Executables(S), NEW cells \in Seq(S)
  PROVE  [exe EXCEPT !.cells = cells] \in Executables(S)
BY DEF Executables

(* Every step keeps the types, and the stamper at its own files.            *)
LEMMA TypedStep ==
  ASSUME TypedStamp, [StampNext]_stampVars
  PROVE  TypedStamp'
<1>1. /\ stamper \in Stampers /\ stamper.step \in Steps
      /\ disk \in Seq(Inodes) /\ Len(disk) \in Nat /\ binary \in 1 .. Len(disk)
      /\ \A i \in 1 .. Len(disk) :
           disk[i].file \in Executables(Cells) /\ disk[i].time \in Nat
           /\ disk[i].file.cells \in Seq(Cells)
      /\ bundle.cells \in Seq(Given) /\ bundle.time \in Nat
  <2>1. stamper \in Stampers /\ disk \in Seq(Inodes) /\ binary \in 1 .. Len(disk)
        /\ bundle \in [cells : Seq(Given), time : Nat]
    BY DEF TypedStamp, StampTypeOK
  <2>2. \A i \in 1 .. Len(disk) : disk[i] \in Inodes
    BY <2>1
  <2>3. \A i \in 1 .. Len(disk) :
           disk[i].file \in Executables(Cells) /\ disk[i].time \in Nat
    BY <2>2 DEF Inodes
  <2>4. \A i \in 1 .. Len(disk) : disk[i].file.cells \in Seq(Cells)
    BY <2>3, Formats
  <2>5. stamper.step \in Steps
    BY <2>1 DEF Stampers
  <2>6. QED BY <2>1, <2>3, <2>4, <2>5
<1>2. ASSUME NEW runtime \in Runtimes, NEW platform \in Platforms, NEW embedded \in BOOLEAN,
             BeginStamp(runtime, platform, embedded)
      PROVE  TypedStamp'
  <2>1. stamper' \in Stampers /\ stamper'.step \in Beginning
    <3>1. CASE ~HasReader(disk[binary].file)
      BY <1>2, <3>1, Blank DEF BeginStamp
    <3>2. CASE HasReader(disk[binary].file)
      <4> DEFINE blank == Idle("begun")
                 header == Header(runtime, platform)
      <4>1. blank \in Stampers /\ blank.step = "begun" /\ "begun" \in Beginning
        BY Blank
      <4>2. header \in Seq(HeaderCells)
        BY GivenFiles
      <4>3. stamper' = [[blank EXCEPT !.header = header] EXCEPT !.embedded = embedded]
        BY <1>2, <3>2 DEF BeginStamp
      <4> HIDE DEF blank, header
      <4>4. QED BY <4>1, <4>2, <4>3 DEF Stampers
    <3>3. QED BY <3>1, <3>2
  <2>2. /\ UNCHANGED <<disk, binary, temporary, bundle, published, meddles, signs>>
        /\ stamps' = stamps + 1 /\ quiet' = 0 /\ templates' = {} /\ bundles' = {}
    BY <1>2 DEF BeginStamp
  <2>3. StampTypeOK'
    BY <2>1, <2>2 DEF TypedStamp, StampTypeOK
  <2>4. Placed'
    <3>1. stamper'.step # "hash rest"
      BY <2>1 DEF Beginning
    <3>2. QED BY <2>1, <2>2, <3>1 DEF TypedStamp, Placed
  <2>5. QED BY <2>3, <2>4 DEF TypedStamp
<1>3. ASSUME OpenBundle PROVE TypedStamp'
  <2>1. UNCHANGED <<Files, templates>>
    BY <1>3 DEF OpenBundle
  <2>2. /\ stamper' \in Stampers /\ stamper'.step \in Beginning
        /\ bundles' \subseteq Seq(Given)
    <3>1. CASE stamper.embedded
      <4> DEFINE opened == [len |-> Len(bundle.cells), time |-> bundle.time]
      <4>1. opened \in Opened
        BY <1>1 DEF Opened
      <4>2. stamper' = [[stamper EXCEPT !.step = "bundle opened"] EXCEPT !.bundleOpened = opened]
            /\ bundles' = {bundle.cells}
        BY <1>3, <3>1 DEF OpenBundle
      <4> HIDE DEF opened
      <4>3. "bundle opened" \in Steps /\ "bundle opened" \in Beginning
        BY DEF Steps, Beginning
      <4>4. stamper' \in Stampers /\ stamper'.step = "bundle opened"
        BY <1>1, <4>1, <4>2, <4>3 DEF Stampers
      <4>5. QED BY <1>1, <4>2, <4>3, <4>4
    <3>2. CASE ~stamper.embedded
      <4>1. stamper' = [stamper EXCEPT !.step = "bundle opened"] /\ bundles' = {<<>>}
        BY <1>3, <3>2 DEF OpenBundle, Goto
      <4>2. "bundle opened" \in Steps /\ "bundle opened" \in Beginning
        BY DEF Steps, Beginning
      <4>3. stamper' \in Stampers /\ stamper'.step = "bundle opened"
        BY <1>1, <4>1, <4>2 DEF Stampers
      <4>4. <<>> \in Seq(Given)
        OBVIOUS
      <4>5. QED BY <4>1, <4>2, <4>3, <4>4
    <3>3. QED BY <3>1, <3>2
  <2>3. StampTypeOK'
    BY <2>1, <2>2 DEF TypedStamp, StampTypeOK, Files
  <2>4. Placed'
    <3>1. stamper'.step # "hash rest" /\ UNCHANGED <<disk, binary, published>>
      BY <2>1, <2>2 DEF Beginning, Files
    <3>2. QED BY <2>2, <3>1 DEF TypedStamp, Placed
  <2>5. QED BY <2>3, <2>4 DEF TypedStamp
<1>4. ASSUME OpenTemplate PROVE TypedStamp'
  <2> DEFINE opened == [len |-> Len(disk[binary].file.cells), time |-> disk[binary].time]
  <2>1. opened \in Opened
    BY <1>1 DEF Opened
  <2>2. /\ UNCHANGED <<Files, bundles>> /\ templates' = {disk[binary].file}
        /\ stamper' = [[[stamper EXCEPT !.step = "opened"] EXCEPT !.input = binary]
                         EXCEPT !.opened = opened]
    BY <1>4 DEF OpenTemplate
  <2> HIDE DEF opened
  <2>3. "opened" \in Steps /\ binary \in Nat
    BY <1>1 DEF Steps
  <2>4. stamper' \in Stampers /\ stamper'.step = "opened" /\ stamper'.input = binary
    BY <1>1, <2>1, <2>2, <2>3 DEF Stampers
  <2>5. StampTypeOK'
    BY <1>1, <2>2, <2>4 DEF TypedStamp, StampTypeOK, Files
  <2>6. Placed'
    <3>1. UNCHANGED <<disk, binary, published>>
      BY <2>2 DEF Files
    <3>2. QED BY <1>1, <2>4, <3>1 DEF TypedStamp, Placed
  <2>7. QED BY <2>5, <2>6 DEF TypedStamp
<1>5. ASSUME CreateTemporary PROVE TypedStamp'
  <2>1. CASE binary # stamper.input
    BY <1>5, <2>1, Failed DEF CreateTemporary
  <2>2. CASE binary = stamper.input
    <3> DEFINE len == Len(disk)
    <3>1. Refused \in Executables(Cells)
      BY DEF Refused, Executables
    <3>2. /\ disk' = Append(disk, [file |-> Refused, time |-> 0])
          /\ temporary' = Len(disk')
          /\ stamper' = [[stamper EXCEPT !.step = "copy"] EXCEPT !.output = Len(disk')]
          /\ UNCHANGED <<binary, bundle, published, templates, bundles, quiet, meddles, stamps,
                         signs>>
      BY <1>5, <2>2 DEF CreateTemporary
    <3>3. disk' \in Seq(Inodes) /\ Len(disk') = len + 1 /\ len \in Nat
      BY <1>1, <3>1, <3>2, FileMade
    <3>4. "copy" \in Steps /\ len + 1 \in Nat /\ "copy" \notin Beginning \union {"opened"}
      BY <3>3 DEF Steps, Copying, Beginning
    <3>5. /\ stamper' \in Stampers /\ stamper'.step = "copy" /\ stamper'.output = len + 1
          /\ stamper'.input = stamper.input
      BY <1>1, <3>2, <3>3, <3>4 DEF Stampers
    <3>6. binary \in 1 .. len /\ stamper.input = binary /\ len + 1 \in 1 .. len + 1
          /\ binary # len + 1 /\ binary \in 1 .. len + 1
      BY <1>1, <2>2
    <3>7. StampTypeOK'
      <4>1. UNCHANGED <<binary, bundle, published, templates, bundles, quiet, meddles, stamps, signs>>
        BY <3>2
      <4>2. temporary' = len + 1
        BY <3>2, <3>3
      <4> HIDE DEF len
      <4>3. temporary' \in 0 .. Len(disk') /\ binary' \in 1 .. Len(disk')
        BY <3>3, <3>6, <4>1, <4>2
      <4>4. QED BY <3>3, <3>5, <4>1, <4>3 DEF TypedStamp, StampTypeOK
    <3>8. Placed'
      <4>1. UNCHANGED <<binary, published>>
        BY <3>2
      <4>2. temporary' = len + 1 /\ temporary' # 0
        BY <3>2, <3>3
      <4> HIDE DEF len
      <4>3. QED BY <3>3, <3>5, <3>6, <4>1, <4>2 DEF TypedStamp, Placed
    <3>9. QED BY <3>7, <3>8 DEF TypedStamp
  <2>3. QED BY <2>1, <2>2
<1>6. stamper.step \in Copying => Source.file \in Executables(Cells) /\ Source.file.cells \in Seq(Cells)
  <2>1. ASSUME stamper.step \in Copying
        PROVE  Source.file \in Executables(Cells) /\ Source.file.cells \in Seq(Cells)
    <3>1. stamper.step \notin Beginning
      BY <2>1 DEF Copying, Beginning
    <3>2. stamper.input \in 1 .. Len(disk)
      BY <3>1 DEF TypedStamp, Placed
    <3>3. QED BY <1>1, <3>2 DEF Source
  <2>2. QED BY <2>1
<1>7. Buffer \in Nat /\ BundleBuffer \in Nat
  BY StampAssumption
<1>8. ASSUME CopyFirst \/ HashFirst PROVE TypedStamp'
  <2> DEFINE begun == [Source.file EXCEPT !.cells = Upto(@, Buffer)]
  <2>1. stamper.step \in {"copy", "hash"} /\ UNCHANGED <<Files, templates, bundles>>
    BY <1>8 DEF CopyFirst, HashFirst
  <2>2. Source.file \in Executables(Cells) /\ Source.file.cells \in Seq(Cells)
    BY <1>6, <2>1 DEF Copying
  <2>3. begun \in Executables(Cells)
    <3>1. Upto(Source.file.cells, Buffer) \in Seq(Cells)
      BY <1>7, <2>2, UptoFacts
    <3>2. QED BY <2>2, <3>1, CellsChanged
  <2>4. \/ stamper' = [[stamper EXCEPT !.step = "copy rest"] EXCEPT !.copy = begun]
        \/ stamper' = [[stamper EXCEPT !.step = "hash rest"] EXCEPT !.hashed = begun]
    BY <1>8 DEF CopyFirst, HashFirst
  <2> HIDE DEF begun
  <2>5. "copy rest" \in Steps /\ "hash rest" \in Steps
    BY DEF Steps, Copying
  <2>6. /\ stamper' \in Stampers /\ stamper'.step \in {"copy rest", "hash rest"}
        /\ stamper'.input = stamper.input /\ stamper'.output = stamper.output
        /\ stamper'.step = "hash rest" => stamper'.hashed \in Executables(Cells)
    BY <1>1, <2>3, <2>4, <2>5 DEF Stampers
  <2>7. /\ stamper.step \notin Beginning \union {"opened", "renamed"}
        /\ stamper'.step \notin {"opened", "renamed"}
    BY <2>1, <2>6 DEF Beginning
  <2>8. QED BY <2>1, <2>6, <2>7, OnlyStamper
<1>9. ASSUME CopyRest PROVE TypedStamp'
  <2> DEFINE cells == stamper.copy.cells \o From(Source.file.cells, Buffer)
             copy == [stamper.copy EXCEPT !.cells = cells]
  <2>1. stamper.step = "copy rest" /\ UNCHANGED <<Files, templates, bundles>>
        /\ stamper' = [stamper EXCEPT !.step = "copied",
                                      !.copy.cells = @ \o From(Source.file.cells, Buffer)]
    BY <1>9 DEF CopyRest
  <2>2. Source.file.cells \in Seq(Cells)
    BY <1>6, <2>1 DEF Copying
  <2>3. stamper.copy \in Executables(Cells) /\ stamper.copy.cells \in Seq(Cells)
    BY <1>1, Formats DEF Stampers
  <2>4. copy \in Executables(Cells)
    <3>1. cells \in Seq(Cells)
      <4>1. From(Source.file.cells, Buffer) \in Seq(Cells)
        BY <1>7, <2>2, FromFacts
      <4>2. QED BY <2>3, <4>1
    <3> HIDE DEF cells
    <3>2. QED BY <2>3, <3>1, CellsChanged
  <2>5. stamper' = [[stamper EXCEPT !.step = "copied"] EXCEPT !.copy = copy]
    BY <1>1, <2>1 DEF Stampers
  <2> HIDE DEF copy
  <2>6. "copied" \in Steps
    BY DEF Steps, Copying
  <2>7. /\ stamper' \in Stampers /\ stamper'.step = "copied"
        /\ stamper'.input = stamper.input /\ stamper'.output = stamper.output
    BY <1>1, <2>4, <2>5, <2>6 DEF Stampers
  <2>8. /\ stamper.step \notin Beginning \union {"opened", "renamed"}
        /\ stamper'.step \notin {"opened", "renamed"}
    BY <2>1, <2>7 DEF Beginning
  <2>9. QED BY <2>1, <2>7, <2>8, OnlyStamper
<1>10. ASSUME Recheck \/ HashRest \/ RecheckBundle \/ RecheckHashedBundle
               \/ ReadBack \/ CheckTemporary \/ CheckTemplate
       PROVE  TypedStamp'
  <2>1. "copied" \in Copying /\ "hash" \in Copying /\ "hash rest" \in Copying
    BY DEF Copying
  <2>2. "bundle" \in Bundling /\ "bundle copied" \in Bundling /\ "bundle hash" \in Bundling
        /\ "bundle hashed" \in Bundling
    BY DEF Bundling
  <2>3. "read back" \in Publishing /\ "check temporary" \in Publishing
        /\ "check template" \in Publishing /\ "rename" \in Publishing
    BY DEF Publishing
  <2>4. CASE Recheck
    BY <2>1, <2>4, Checked DEF Recheck
  <2>5. CASE HashRest
    BY <2>1, <2>2, <2>5, Checked DEF HashRest
  <2>6. CASE RecheckBundle
    BY <2>2, <2>6, Checked DEF RecheckBundle
  <2>7. CASE RecheckHashedBundle
    BY <2>2, <2>7, Checked DEF RecheckHashedBundle
  <2>8. CASE ReadBack
    <3> DEFINE right == ReadsAs(disk[stamper.output].file, stamper.header, stamper.content)
    <3>1. Check("read back", right, "check temporary")
      BY <2>8 DEF ReadBack
    <3> HIDE DEF right
    <3>2. "check temporary" # "hash rest"
      OBVIOUS
    <3>3. QED BY <2>3, <3>1, <3>2, Checked
  <2>9. CASE CheckTemporary
    BY <2>3, <2>9, Checked DEF CheckTemporary
  <2>10. CASE CheckTemplate
    BY <2>3, <2>10, Checked DEF CheckTemplate
  <2>11. QED BY <1>10, <2>4, <2>5, <2>6, <2>7, <2>8, <2>9, <2>10
<1>11. ASSUME CopyBundleFirst \/ CopyBundleRest \/ HashBundleFirst \/ HashBundleRest
       PROVE  TypedStamp'
  <2> DEFINE first == Upto(bundle.cells, BundleBuffer)
             rest == From(bundle.cells, BundleBuffer)
             content == stamper.content \o rest
             rehashed == Upto(stamper.rehashed \o rest, stamper.bundleOpened.len)
  <2>1. /\ first \in Seq(Given) /\ content \in Seq(Given) /\ rehashed \in Seq(Given)
    <3>1. first \in Seq(Given) /\ rest \in Seq(Given)
      BY <1>1, <1>7, UptoFacts, FromFacts
    <3>2. /\ stamper.content \in Seq(Given) /\ stamper.rehashed \in Seq(Given)
          /\ stamper.bundleOpened.len \in Nat
      BY <1>1 DEF Stampers, Opened
    <3> HIDE DEF first, rest
    <3>3. content \in Seq(Given) /\ stamper.rehashed \o rest \in Seq(Given)
      BY <3>1, <3>2
    <3>4. rehashed \in Seq(Given)
      BY <3>2, <3>3, UptoFacts
    <3>5. QED BY <3>1, <3>3, <3>4
  <2>2. stamper.step \in Bundling
    BY <1>11 DEF CopyBundleFirst, CopyBundleRest, HashBundleFirst, HashBundleRest, Bundling
  <2>3. \/ Fail
        \/ /\ UNCHANGED <<Files, templates, bundles>>
           /\ \/ stamper' = [stamper EXCEPT !.step = "write"]
              \/ stamper' = [[stamper EXCEPT !.step = "bundle rest"] EXCEPT !.content = first]
              \/ stamper' = [[stamper EXCEPT !.step = "bundle copied"] EXCEPT !.content = content]
              \/ stamper' = [[stamper EXCEPT !.step = "bundle hash rest"] EXCEPT !.rehashed = first]
              \/ stamper' = [[stamper EXCEPT !.step = "bundle hashed"] EXCEPT !.rehashed = rehashed]
    <3>1. CASE CopyBundleFirst
      BY <3>1 DEF CopyBundleFirst, Goto
    <3>2. CASE CopyBundleRest
      BY <3>2 DEF CopyBundleRest
    <3>3. CASE HashBundleFirst
      BY <3>3 DEF HashBundleFirst
    <3>4. CASE HashBundleRest
      BY <3>4 DEF HashBundleRest
    <3>5. QED BY <1>11, <3>1, <3>2, <3>3, <3>4
  <2> HIDE DEF first, rest, content, rehashed
  <2>4. CASE Fail
    BY <2>4, Failed
  <2>5. CASE ~Fail
    <3> DEFINE next == {"write", "bundle rest", "bundle copied", "bundle hash rest", "bundle hashed"}
    <3>1. next \subseteq Steps /\ \A s \in next : s \notin {"opened", "renamed", "hash rest"}
      BY DEF Steps, Bundling
    <3>2. /\ stamper' \in Stampers /\ stamper'.step \in next
          /\ stamper'.input = stamper.input /\ stamper'.output = stamper.output
      BY <1>1, <2>1, <2>3, <2>5, <3>1 DEF Stampers
    <3>3. stamper.step \notin Beginning \union {"opened", "renamed"}
      BY <2>2 DEF Bundling, Beginning
    <3>4. QED BY <2>3, <2>5, <3>1, <3>2, <3>3, OnlyStamper
  <2>6. QED BY <2>4, <2>5
<1>12. ASSUME WriteStamp PROVE TypedStamp'
  <2> DEFINE exe == WriteRuntimeData(stamper.copy, stamper.header, stamper.content)
  <2>1. CASE exe = Refused
    BY <1>12, <2>1, Failed DEF WriteStamp
  <2>2. CASE exe # Refused
    <3>1. /\ stamper.copy \in Executables(Cells) /\ stamper.header \in Seq(HeaderCells)
          /\ stamper.content \in Seq(Given)
      BY <1>1 DEF Stampers
    <3>2. /\ Zero \in Cells /\ Command \in Cells /\ stamper.header \in Seq(Cells)
          /\ stamper.content \in Seq(Cells) /\ Footer(stamper.header, stamper.content) \in Cells
      BY <3>1, CellSets
    <3>3. exe \in Executables(Cells)
      BY <2>2, <3>1, <3>2, WriterStamps
    <3>4. /\ stamper.step = "write" /\ disk' = [disk EXCEPT ![stamper.output].file = exe]
          /\ stamper' = [stamper EXCEPT !.step = "read back"]
          /\ UNCHANGED <<binary, temporary, bundle, published, templates, bundles, quiet,
                         meddles, stamps, signs>>
      BY <1>12, <2>2 DEF WriteStamp, Goto
    <3> HIDE DEF exe
    <3>5. stamper.output \in 1 .. Len(disk)
      BY <3>4 DEF TypedStamp, Placed, Beginning
    <3>6. Changed(disk', disk, stamper.output, exe)
      BY <1>1, <3>3, <3>4, <3>5, FileWritten
    <3>7. disk' \in Seq(Inodes) /\ Len(disk') = Len(disk)
      BY <3>6 DEF Changed
    <3>8. "read back" \in Steps
      BY DEF Steps, Publishing
    <3>9. /\ stamper' \in Stampers /\ stamper'.step = "read back"
          /\ stamper'.input = stamper.input /\ stamper'.output = stamper.output
      BY <1>1, <3>4, <3>8 DEF Stampers
    <3>10. StampTypeOK'
      BY <3>4, <3>7, <3>9 DEF TypedStamp, StampTypeOK
    <3>11. Placed'
      <4>1. stamper.step \notin Beginning \union {"opened", "renamed"}
        BY <3>4 DEF Beginning
      <4>2. UNCHANGED <<binary, temporary, published>>
        BY <3>4
      <4>3. QED BY <3>7, <3>9, <4>1, <4>2 DEF TypedStamp, Placed
    <3>12. QED BY <3>10, <3>11 DEF TypedStamp
  <2>3. QED BY <2>1, <2>2
<1>13. ASSUME Rename PROVE TypedStamp'
  <2> DEFINE new == [inode |-> temporary, header |-> stamper.header,
                     template |-> stamper.copy, bundle |-> stamper.content]
  <2>1. /\ stamper.step = "rename" /\ binary' = temporary /\ temporary' = 0
        /\ published' = IF temporary # stamper.output THEN None ELSE new
        /\ stamper' = [stamper EXCEPT !.step = "renamed"]
        /\ UNCHANGED <<disk, bundle, templates, bundles, quiet, meddles, stamps, signs>>
    BY <1>13 DEF Rename, Goto
  <2>2. stamper.output \in 1 .. Len(disk)
    BY <2>1 DEF TypedStamp, Placed, Beginning
  <2>3. "renamed" \in Steps
    BY DEF Steps
  <2>4. /\ stamper' \in Stampers /\ stamper'.step = "renamed"
        /\ stamper'.input = stamper.input /\ stamper'.output = stamper.output
    BY <1>1, <2>1, <2>3 DEF Stampers
  <2>5. published' \in {None} \union Publications /\ published'.inode \in {0, temporary}
    <3>1. CASE temporary # stamper.output
      BY <2>1, <3>1 DEF None
    <3>2. CASE temporary = stamper.output
      <4>1. temporary \in Nat \ {0}
        BY <1>1, <2>2, <3>2
      <4>2. /\ stamper.copy \in Executables(Cells) /\ stamper.header \in Seq(HeaderCells)
            /\ stamper.content \in Seq(Given)
        BY <1>1 DEF Stampers
      <4>3. new \in Publications /\ new.inode = temporary
        BY <4>1, <4>2 DEF Publications
      <4>4. QED BY <2>1, <3>2, <4>3
    <3>3. QED BY <3>1, <3>2
  <2>6. temporary \in 1 .. Len(disk)
    <3>1. temporary # 0 /\ temporary \in 0 .. Len(disk)
      BY <2>1 DEF TypedStamp, StampTypeOK, Placed, Beginning
    <3>2. QED BY <1>1, <3>1
  <2>7. StampTypeOK'
    BY <1>1, <2>1, <2>4, <2>5, <2>6 DEF TypedStamp, StampTypeOK
  <2>8. Placed'
    <3>1. stamper.step \notin Beginning \union {"opened", "renamed"}
      BY <2>1 DEF Beginning
    <3>2. QED BY <2>1, <2>4, <2>5, <3>1 DEF TypedStamp, Placed
  <2>9. QED BY <2>7, <2>8 DEF TypedStamp
<1>14. ASSUME CheckPersisted PROVE TypedStamp'
  <2>1. /\ stamper.step = "renamed" /\ UNCHANGED <<Files, templates, bundles>>
        /\ stamper' = Idle(IF binary = stamper.output THEN "done" ELSE "failed")
    BY <1>14 DEF CheckPersisted
  <2>2. stamper' \in Stampers /\ stamper'.step \in Beginning
    BY <2>1, Blank
  <2>3. QED BY <2>1, <2>2, OnlyStamper
<1>15. ASSUME NEW signature \in Signatures, Sign(signature) PROVE TypedStamp'
  <2> DEFINE exe == disk[binary].file
             new == SignedFile(exe, signature)
  <2>1. /\ exe.format \in {"macho", "pe"}
        /\ exe.format = "macho" => Signable(exe)
        /\ stamper.step = "done"
        /\ disk' = [disk EXCEPT ![binary].file = new] /\ signs' = signs + 1
        /\ UNCHANGED <<binary, temporary, bundle, stamper, published, templates, bundles, quiet,
                       meddles, stamps>>
    BY <1>15 DEF Sign
  <2>2. /\ exe \in Executables(Cells) /\ signature \in Seq(Cells) /\ Zero \in Cells
        /\ Command \in Cells
    BY <1>1, GivenFiles, CellSets
  <2> HIDE DEF exe
  <2>3. new \in Executables(Cells)
    BY <2>1, <2>2, SignedIsFile
  <2> HIDE DEF new
  <2>4. Changed(disk', disk, binary, new)
    BY <1>1, <2>1, <2>3, FileWritten
  <2>5. disk' \in Seq(Inodes) /\ Len(disk') = Len(disk)
    BY <2>4 DEF Changed
  <2>6. StampTypeOK'
    BY <2>1, <2>5 DEF TypedStamp, StampTypeOK
  <2>7. Placed'
    BY <2>1, <2>5 DEF TypedStamp, Placed
  <2>8. QED BY <2>6, <2>7 DEF TypedStamp
<1>16. ASSUME NEW exe \in Builds, NEW silent \in BOOLEAN, OverwriteTemplate(exe, silent)
       PROVE  TypedStamp'
  <2> DEFINE ticks == Ticks(silent)
  <2>1. ticks \in Nat /\ 1 - ticks \in Nat
    BY DEF Ticks
  <2>2. exe \in Executables(Cells)
    BY GivenFiles
  <2>3. /\ disk' = [disk EXCEPT ![binary] = [file |-> exe, time |-> @.time + Ticks(silent)]]
        /\ quiet' = quiet + 1 - Ticks(silent) /\ meddles' = meddles + 1
        /\ templates' \in {templates, templates \union {exe}}
        /\ published' \in {None, published}
        /\ UNCHANGED <<binary, temporary, bundle, stamper, bundles, stamps, signs>>
    BY <1>16 DEF OverwriteTemplate, CountQuiet, Meddle
  <2>4. Changed(disk', disk, binary, exe)
    BY <1>1, <2>1, <2>2, <2>3, FileReplaced
  <2>5. disk' \in Seq(Inodes) /\ Len(disk') = Len(disk)
    BY <2>4 DEF Changed
  <2>6. quiet' \in Nat /\ meddles' \in Nat
    <3>1. quiet \in Nat /\ meddles \in Nat
      BY DEF TypedStamp, StampTypeOK
    <3>2. quiet' = quiet + 1 - ticks
      BY <2>3
    <3> HIDE DEF ticks
    <3>3. QED BY <2>1, <2>3, <3>1, <3>2
  <2>7. templates' \subseteq Executables(Cells) /\ published' \in {None} \union Publications
    BY <2>2, <2>3 DEF TypedStamp, StampTypeOK
  <2>8. StampTypeOK'
    BY <2>3, <2>5, <2>6, <2>7 DEF TypedStamp, StampTypeOK
  <2>9. Placed'
    <3>1. published'.inode \in {0, binary}
      <4>1. None.inode = 0
        BY DEF None
      <4>2. published.inode \in {0, binary}
        BY DEF TypedStamp, Placed
      <4>3. QED BY <2>3, <4>1, <4>2
    <3>2. QED BY <2>3, <2>5, <3>1 DEF TypedStamp, Placed
  <2>10. QED BY <2>8, <2>9 DEF TypedStamp
<1>17. ASSUME NEW exe \in Builds, ReplaceTemplate(exe) PROVE TypedStamp'
  <2> DEFINE len == Len(disk)
  <2>1. exe \in Executables(Cells)
    BY GivenFiles
  <2>2. /\ disk' = Append(disk, [file |-> exe, time |-> 0]) /\ binary' = Len(disk')
        /\ published' = None /\ meddles' = meddles + 1
        /\ UNCHANGED <<temporary, bundle, stamper, templates, bundles, quiet, stamps, signs>>
    BY <1>17 DEF ReplaceTemplate, Meddle
  <2>3. disk' \in Seq(Inodes) /\ Len(disk') = len + 1 /\ len \in Nat
    BY <1>1, <2>1, <2>2, FileMade
  <2>4. binary' = len + 1
    BY <2>2, <2>3
  <2>5. temporary \in 0 .. len
    BY DEF TypedStamp, StampTypeOK
  <2>6. StampTypeOK'
    <3> HIDE DEF len
    <3>1. binary' \in 1 .. Len(disk') /\ temporary' \in 0 .. Len(disk')
      BY <2>2, <2>3, <2>4, <2>5
    <3>2. QED BY <2>2, <2>3, <3>1 DEF TypedStamp, StampTypeOK
  <2>7. Placed'
    <3>1. published'.inode = 0
      BY <2>2 DEF None
    <3>2. \A i \in 1 .. len : i \in 1 .. Len(disk') /\ i # binary'
      BY <2>3, <2>4
    <3>3. QED BY <2>2, <3>1, <3>2 DEF TypedStamp, Placed
  <2>8. QED BY <2>6, <2>7 DEF TypedStamp
<1>18. ASSUME NEW exe \in Builds, ReplaceTemporary(exe) PROVE TypedStamp'
  <2> DEFINE len == Len(disk)
  <2>1. exe \in Executables(Cells)
    BY GivenFiles
  <2>2. /\ disk' = Append(disk, [file |-> exe, time |-> 0]) /\ temporary' = Len(disk')
        /\ meddles' = meddles + 1
        /\ UNCHANGED <<binary, bundle, stamper, published, templates, bundles, quiet, stamps, signs>>
    BY <1>18 DEF ReplaceTemporary, Meddle
  <2>3. disk' \in Seq(Inodes) /\ Len(disk') = len + 1 /\ len \in Nat
    BY <1>1, <2>1, <2>2, FileMade
  <2>4. temporary' = len + 1 /\ temporary' # 0
    BY <2>2, <2>3
  <2>5. StampTypeOK'
    <3>1. binary \in 1 .. len
      BY <1>1
    <3> HIDE DEF len
    <3>2. binary' \in 1 .. Len(disk') /\ temporary' \in 0 .. Len(disk')
      BY <2>2, <2>3, <2>4, <3>1
    <3>3. QED BY <2>2, <2>3, <3>2 DEF TypedStamp, StampTypeOK
  <2>6. Placed'
    <3>1. \A i \in 1 .. len : i \in 1 .. Len(disk')
      BY <2>3
    <3>2. QED BY <2>2, <2>4, <3>1 DEF TypedStamp, Placed
  <2>7. QED BY <2>5, <2>6 DEF TypedStamp
<1>19. ASSUME NEW cells \in Bundles, NEW silent \in BOOLEAN, OverwriteBundle(cells, silent)
       PROVE  TypedStamp'
  <2> DEFINE ticks == Ticks(silent)
  <2>1. ticks \in Nat /\ 1 - ticks \in Nat
    BY DEF Ticks
  <2>2. cells \in Seq(Given)
    BY GivenFiles
  <2>3. /\ bundle' = [cells |-> cells, time |-> bundle.time + ticks]
        /\ quiet' = quiet + 1 - ticks /\ meddles' = meddles + 1
        /\ bundles' \in {bundles, bundles \union {cells}}
        /\ UNCHANGED <<disk, binary, temporary, stamper, published, templates, stamps, signs>>
    BY <1>19 DEF OverwriteBundle, CountQuiet, Meddle
  <2> HIDE DEF ticks
  <2>4. quiet' \in Nat /\ meddles' \in Nat
    <3>1. quiet \in Nat /\ meddles \in Nat
      BY DEF TypedStamp, StampTypeOK
    <3>2. QED BY <2>1, <2>3, <3>1
  <2>5. bundle' \in [cells : Seq(Given), time : Nat] /\ bundles' \subseteq Seq(Given)
    <3>1. bundle.time + ticks \in Nat
      BY <1>1, <2>1
    <3>2. bundles \subseteq Seq(Given)
      BY DEF TypedStamp, StampTypeOK
    <3>3. QED BY <2>2, <2>3, <3>1, <3>2
  <2>6. StampTypeOK'
    BY <2>3, <2>4, <2>5 DEF TypedStamp, StampTypeOK
  <2>7. Placed'
    BY <2>3 DEF TypedStamp, Placed
  <2>8. QED BY <2>6, <2>7 DEF TypedStamp
<1>20. ASSUME UNCHANGED stampVars PROVE TypedStamp'
  BY <1>20 DEF TypedStamp, StampTypeOK, Placed, stampVars
<1>21. QED
  BY <1>2, <1>3, <1>4, <1>5, <1>8, <1>9, <1>10, <1>11, <1>12, <1>13, <1>14, <1>15, <1>16,
     <1>17, <1>18, <1>19, <1>20 DEF StampNext, Stamper, Others

(* They hold at first.                                                      *)
LEMMA TypedInit ==
  StampInit => TypedStamp
<1> SUFFICES ASSUME StampInit PROVE TypedStamp
  OBVIOUS
<1>1. PICK exe \in Templates : disk = << [file |-> exe, time |-> 0] >>
  BY DEF StampInit
<1>2. PICK cells \in Bundles : bundle = [cells |-> cells, time |-> 0]
  BY DEF StampInit
<1>3. exe \in Executables(Cells) /\ cells \in Seq(Given)
  BY GivenFiles
<1>4. disk \in Seq(Inodes) /\ Len(disk) = 1
  <2> DEFINE inode == [file |-> exe, time |-> 0]
  <2>1. inode \in Inodes
    BY <1>3 DEF Inodes
  <2> HIDE DEF inode
  <2>2. <<inode>> \in Seq(Inodes) /\ Len(<<inode>>) = 1
    BY <2>1
  <2>3. QED BY <1>1, <2>2 DEF inode
<1>5. stamper \in Stampers /\ stamper.step = "idle" /\ stamper.step \in Beginning
  BY Blank DEF StampInit
<1>6. published = None /\ published.inode = 0
  BY DEF StampInit, None
<1>7. StampTypeOK
  BY <1>2, <1>3, <1>4, <1>5, <1>6 DEF StampInit, StampTypeOK
<1>8. Placed
  BY <1>5, <1>6 DEF Placed
<1>9. QED
  BY <1>7, <1>8 DEF TypedStamp

-----------------------------------------------------------------------------
(* Stamps are kept                                                          *)

(* What the stamper has written is a stamp, and so is what it published.    *)
StampKept ==
  /\ stamper.step = "read back" =>
       NewStamp(disk[stamper.output].file, stamper.copy, stamper.header, stamper.content)
  /\ stamper.step \in Publishing \ {"read back"} =>
       Stamped(disk[stamper.output].file, stamper.copy, stamper.header, stamper.content)
  /\ published.inode # 0 =>
       Stamped(disk[published.inode].file, published.template, published.header,
               published.bundle)

(* What the types say of the files.                                         *)
LEMMA DiskFacts ==
  ASSUME TypedStamp
  PROVE  /\ stamper \in Stampers /\ stamper.step \in Steps
         /\ disk \in Seq(Inodes) /\ Len(disk) \in Nat /\ binary \in 1 .. Len(disk)
         /\ \A i \in 1 .. Len(disk) :
              disk[i].file \in Executables(Cells) /\ disk[i].time \in Nat
              /\ disk[i].file.cells \in Seq(Cells)
         /\ bundle.cells \in Seq(Given) /\ bundle.time \in Nat
         /\ published.inode # 0 => /\ published.inode = binary
                                   /\ published \in Publications
         /\ stamper.step \notin Beginning => stamper.input \in 1 .. Len(disk)
         /\ stamper.step \in Publishing \union {"write"} =>
              stamper.output \in 1 .. Len(disk) /\ stamper.output # binary
<1>1. stamper \in Stampers /\ disk \in Seq(Inodes) /\ binary \in 1 .. Len(disk)
      /\ bundle \in [cells : Seq(Given), time : Nat]
  BY DEF TypedStamp, StampTypeOK
<1>2. \A i \in 1 .. Len(disk) : disk[i] \in Inodes
  BY <1>1
<1>3. \A i \in 1 .. Len(disk) :
         disk[i].file \in Executables(Cells) /\ disk[i].time \in Nat
  BY <1>2 DEF Inodes
<1>4. \A i \in 1 .. Len(disk) : disk[i].file.cells \in Seq(Cells)
  BY <1>3, Formats
<1>5. stamper.step \in Steps
  BY <1>1 DEF Stampers
<1>6. published.inode # 0 => published.inode = binary /\ published \in Publications
  <2>1. None.inode = 0
    BY DEF None
  <2>2. published \in {None} \union Publications /\ published.inode \in {0, binary}
    BY DEF TypedStamp, StampTypeOK, Placed
  <2>3. QED BY <2>1, <2>2
<1>7. stamper.step \notin Beginning => stamper.input \in 1 .. Len(disk)
  BY DEF TypedStamp, Placed
<1>8. stamper.step \in Publishing \union {"write"} =>
              stamper.output \in 1 .. Len(disk) /\ stamper.output # binary
  <2>1. stamper.step \in Publishing \union {"write"} =>
          stamper.step \notin Beginning \union {"opened", "renamed"}
    BY DEF Publishing, Beginning
  <2>2. QED BY <2>1 DEF TypedStamp, Placed
<1>9. QED
  BY <1>1, <1>3, <1>4, <1>5, <1>6, <1>7, <1>8

(* A step that touches no stamp.                                            *)
LEMMA StampsStay ==
  ASSUME TypedStamp, StampKept,
         published' = published \/ published' = None,
         \A i \in 1 .. Len(disk) :
           disk'[i].file = disk[i].file \/ (i = binary /\ published' = None),
         stamper' = stamper \/ stamper'.step \notin Publishing
  PROVE  StampKept'
<1>1. None.inode = 0
  BY DEF None
<1>2. published'.inode # 0 =>
       Stamped(disk'[published'.inode].file, published'.template, published'.header,
               published'.bundle)
  <2>1. ASSUME published'.inode # 0
        PROVE  Stamped(disk'[published'.inode].file, published'.template, published'.header,
                       published'.bundle)
    <3>1. published' = published /\ published' # None
      BY <1>1, <2>1
    <3>2. published.inode \in 1 .. Len(disk)
      BY <2>1, <3>1, DiskFacts
    <3>3. disk'[published.inode].file = disk[published.inode].file
      BY <3>1, <3>2
    <3>4. QED BY <2>1, <3>1, <3>3 DEF StampKept
  <2>2. QED BY <2>1
<1>3. CASE stamper' = stamper
  <2>1. stamper.step \in Publishing =>
          disk'[stamper.output].file = disk[stamper.output].file
    BY DiskFacts
  <2>2. "read back" \in Publishing
    BY DEF Publishing
  <2>3. QED BY <1>2, <1>3, <2>1, <2>2 DEF StampKept
<1>4. CASE stamper'.step \notin Publishing
  <2>1. "read back" \in Publishing
    BY DEF Publishing
  <2>2. QED BY <1>2, <1>4, <2>1 DEF StampKept
<1>5. QED
  BY <1>3, <1>4

(* Every step keeps the stamps.                                             *)
LEMMA StampsKept ==
  ASSUME TypedStamp, StampKept, [StampNext]_stampVars
  PROVE  StampKept'
<1>1. \A s \in Publishing : s \notin Beginning \union {"opened", "renamed"} \union Copying
                             \union Bundling \union {"write"}
  BY DEF Publishing, Beginning, Copying, Bundling
<1>2. "read back" \in Publishing
  BY DEF Publishing
<1>3. ASSUME UNCHANGED <<disk, published>>, stamper' = stamper \/ stamper'.step \notin Publishing
      PROVE  StampKept'
  BY <1>3, StampsStay
<1>4. ASSUME Fail PROVE StampKept'
  <2>1. stamper'.step \in Beginning /\ UNCHANGED <<disk, published>>
    BY <1>4, Blank DEF Fail
  <2>2. QED BY <1>1, <1>3, <2>1
<1>5. ASSUME Check("copied", SourceUnchanged, "hash") \/ HashRest \/ RecheckBundle
              \/ RecheckHashedBundle
      PROVE  StampKept'
  <2>1. \/ Fail
        \/ /\ UNCHANGED <<disk, published>>
           /\ \E s \in {"hash", "bundle", "bundle hash", "write"} :
                stamper' = [stamper EXCEPT !.step = s]
    BY <1>5 DEF Check, HashRest, RecheckBundle, RecheckHashedBundle, Goto, Files
  <2>2. ASSUME NEW s \in {"hash", "bundle", "bundle hash", "write"}
        PROVE  s \notin Publishing
    BY DEF Publishing
  <2>3. \A s : [stamper EXCEPT !.step = s].step = s
    BY DiskFacts DEF Stampers
  <2>4. QED BY <1>3, <1>4, <2>1, <2>2, <2>3
<1>6. ASSUME NEW runtime \in Runtimes, NEW platform \in Platforms, NEW embedded \in BOOLEAN,
             BeginStamp(runtime, platform, embedded)
      PROVE  StampKept'
  <2>1. Idle("failed").step = "failed" /\ Idle("begun").step = "begun"
        /\ [[Idle("begun") EXCEPT !.header = Header(runtime, platform)]
                             EXCEPT !.embedded = embedded].step = "begun"
    BY DEF Idle
  <2>2. stamper'.step \in {"failed", "begun"} /\ UNCHANGED <<disk, published>>
    BY <1>6, <2>1 DEF BeginStamp
  <2>3. stamper'.step \notin Publishing
    BY <2>2 DEF Publishing
  <2>4. QED BY <1>3, <2>2, <2>3
<1>7. ASSUME OpenBundle \/ OpenTemplate \/ CopyFirst \/ CopyRest \/ HashFirst
             \/ CopyBundleFirst \/ HashBundleFirst \/ HashBundleRest
      PROVE  StampKept'
  <2>1. UNCHANGED <<disk, published>>
    BY <1>7 DEF OpenBundle, OpenTemplate, CopyFirst, CopyRest, HashFirst,
                CopyBundleFirst, HashBundleFirst, HashBundleRest, Files
  <2>2. stamper'.step \in Beginning \union {"opened"} \union Copying \union Bundling
                            \union {"write"}
    <3>1. stamper \in Stampers
      BY DiskFacts
    <3>2. CASE OpenBundle \/ OpenTemplate
      BY <3>1, <3>2 DEF OpenBundle, OpenTemplate, Goto, Stampers, Beginning
    <3>3. CASE CopyFirst \/ CopyRest \/ HashFirst
      BY <3>1, <3>3 DEF CopyFirst, CopyRest, HashFirst, Stampers, Copying
    <3>4. CASE CopyBundleFirst \/ HashBundleFirst \/ HashBundleRest
      BY <3>1, <3>4 DEF CopyBundleFirst, HashBundleFirst, HashBundleRest, Goto, Stampers, Bundling
    <3>5. QED BY <1>7, <3>2, <3>3, <3>4
  <2>3. stamper'.step \notin Publishing
    BY <2>2, <1>1 DEF Publishing, Beginning, Copying, Bundling
  <2>4. QED BY <1>3, <2>1, <2>3
<1>8. ASSUME CopyBundleRest PROVE StampKept'
  <2>1. CASE Fail
    BY <1>4, <2>1
  <2>2. CASE ~Fail
    <3>1. UNCHANGED <<disk, published>> /\ stamper'.step = "bundle copied"
      BY <1>8, <2>2, DiskFacts DEF CopyBundleRest, Files, Stampers
    <3>2. stamper'.step \notin Publishing
      BY <3>1 DEF Publishing
    <3>3. QED BY <1>3, <3>1, <3>2
  <2>3. QED BY <2>1, <2>2
<1>9. ASSUME CreateTemporary PROVE StampKept'
  <2>1. CASE Fail
    BY <1>4, <2>1
  <2>2. CASE ~Fail
    <3>1. /\ disk' = Append(disk, [file |-> Refused, time |-> 0]) /\ UNCHANGED published
          /\ stamper'.step = "copy"
      BY <1>9, <2>2, DiskFacts DEF CreateTemporary, Stampers
    <3>2. stamper'.step \notin Publishing
      BY <3>1 DEF Publishing
    <3>3. Refused \in Executables(Cells)
      BY DEF Refused, Executables
    <3>4. \A i \in 1 .. Len(disk) : disk'[i] = disk[i]
      BY <3>1, <3>3, DiskFacts, FileMade
    <3>5. QED BY <3>1, <3>2, <3>4, StampsStay
  <2>3. QED BY <2>1, <2>2
<1>10. ASSUME WriteStamp PROVE StampKept'
  <2> DEFINE exe == WriteRuntimeData(stamper.copy, stamper.header, stamper.content)
  <2>1. CASE exe = Refused
    BY <1>4, <1>10, <2>1 DEF WriteStamp
  <2>2. CASE exe # Refused
    <3>1. /\ stamper.copy \in Executables(Cells) /\ stamper.header \in Seq(HeaderCells)
          /\ stamper.content \in Seq(Given) /\ stamper \in Stampers
      BY DiskFacts DEF Stampers
    <3>2. /\ Zero \in Cells /\ Command \in Cells /\ stamper.header \in Seq(Cells)
          /\ stamper.content \in Seq(Cells) /\ Footer(stamper.header, stamper.content) \in Cells
      BY <3>1, CellSets
    <3>3. exe \in Executables(Cells)
          /\ NewStamp(exe, stamper.copy, stamper.header, stamper.content)
      BY <2>2, <3>1, <3>2, WriterStamps
    <3>4. /\ stamper.step = "write" /\ disk' = [disk EXCEPT ![stamper.output].file = exe]
          /\ stamper' = [stamper EXCEPT !.step = "read back"] /\ published' = published
      BY <1>10, <2>2 DEF WriteStamp, Goto
    <3> HIDE DEF exe
    <3>5. stamper.output \in 1 .. Len(disk) /\ stamper.output # binary
      BY <3>4, DiskFacts
    <3>6. Changed(disk', disk, stamper.output, exe)
      BY <3>3, <3>4, <3>5, DiskFacts, FileWritten
    <3>7. /\ stamper'.step = "read back" /\ stamper'.output = stamper.output
          /\ stamper'.copy = stamper.copy /\ stamper'.header = stamper.header
          /\ stamper'.content = stamper.content
      BY <3>1, <3>4 DEF Stampers
    <3>8. disk'[stamper.output].file = exe
      BY <3>6 DEF Changed
    <3>9. published.inode # 0 => disk'[published.inode].file = disk[published.inode].file
      <4>1. published.inode # 0 =>
              published.inode \in 1 .. Len(disk) /\ published.inode # stamper.output
        BY <3>5, DiskFacts
      <4>2. QED BY <3>6, <4>1 DEF Changed
    <3>10. QED BY <3>3, <3>4, <3>7, <3>8, <3>9 DEF StampKept
  <2>3. QED BY <2>1, <2>2
<1>11. ASSUME ReadBack \/ CheckTemporary \/ CheckTemplate PROVE StampKept'
  <2> DEFINE exe == disk[stamper.output].file
  <2>1. CASE Fail
    BY <1>4, <2>1
  <2>2. CASE ~Fail
    <3>1. /\ UNCHANGED <<disk, published>>
          /\ \E s \in {"check temporary", "check template", "rename"} :
               stamper' = [stamper EXCEPT !.step = s]
          /\ \/ /\ stamper.step = "read back"
                /\ ReadsAs(disk[stamper.output].file, stamper.header, stamper.content)
             \/ stamper.step \in {"check temporary", "check template"}
      <4>1. CASE ReadBack
        BY <2>2, <4>1 DEF ReadBack, Check, Goto, Files
      <4>2. CASE CheckTemporary \/ CheckTemplate
        BY <2>2, <4>2 DEF CheckTemporary, CheckTemplate, Check, Goto, Files
      <4>3. QED BY <1>11, <4>1, <4>2
    <3>2. PICK s \in {"check temporary", "check template", "rename"} :
            stamper' = [stamper EXCEPT !.step = s]
      BY <3>1
    <3>3. /\ stamper'.step = s /\ stamper'.output = stamper.output
          /\ stamper'.copy = stamper.copy /\ stamper'.header = stamper.header
          /\ stamper'.content = stamper.content
      BY <3>2, DiskFacts DEF Stampers
    <3>4. Stamped(exe, stamper.copy, stamper.header, stamper.content)
      <4>1. CASE stamper.step = "read back"
        <5>1. NewStamp(exe, stamper.copy, stamper.header, stamper.content)
              /\ ReadsAs(exe, stamper.header, stamper.content)
          BY <3>1, <4>1 DEF StampKept
        <5> HIDE DEF exe
        <5>2. QED BY <5>1, NewStampIsStamp
      <4>2. CASE stamper.step \in {"check temporary", "check template"}
        <5>1. stamper.step \in Publishing \ {"read back"}
          BY <4>2 DEF Publishing
        <5>2. QED BY <5>1 DEF StampKept
      <4>3. QED BY <3>1, <4>1, <4>2
    <3>5. QED BY <3>1, <3>3, <3>4 DEF StampKept
  <2>3. QED BY <2>1, <2>2
<1>12. ASSUME Rename PROVE StampKept'
  <2> DEFINE new == [inode |-> temporary, header |-> stamper.header,
                     template |-> stamper.copy, bundle |-> stamper.content]
  <2>1. /\ stamper.step = "rename"
        /\ published' = IF temporary # stamper.output THEN None ELSE new
        /\ stamper' = [stamper EXCEPT !.step = "renamed"]
        /\ disk' = disk
    BY <1>12 DEF Rename, Goto
  <2>2. stamper'.step = "renamed" /\ stamper'.step \notin Publishing
    BY <2>1, DiskFacts DEF Stampers, Publishing
  <2>3. CASE temporary # stamper.output
    BY <2>1, <2>2, <2>3, StampsStay
  <2>4. CASE temporary = stamper.output
    <3>1. stamper.step \in Publishing \ {"read back"}
      BY <2>1 DEF Publishing
    <3>2. Stamped(disk[stamper.output].file, stamper.copy, stamper.header, stamper.content)
      BY <3>1 DEF StampKept
    <3>3. /\ published'.inode = stamper.output /\ published'.header = stamper.header
          /\ published'.template = stamper.copy /\ published'.bundle = stamper.content
      BY <2>1, <2>4
    <3>4. Stamped(disk'[published'.inode].file, published'.template, published'.header,
                  published'.bundle)
      BY <2>1, <3>2, <3>3
    <3>5. QED BY <1>2, <2>2, <3>4 DEF StampKept
  <2>5. QED BY <2>3, <2>4
<1>13. ASSUME CheckPersisted PROVE StampKept'
  <2>1. UNCHANGED <<disk, published>> /\ stamper'.step \in Beginning
    BY <1>13, Blank DEF CheckPersisted, Files
  <2>2. QED BY <1>1, <1>3, <2>1
<1>14. ASSUME NEW signature \in Signatures, Sign(signature) PROVE StampKept'
  <2> DEFINE exe == disk[binary].file
             new == SignedFile(exe, signature)
  <2>1. /\ exe.format \in {"macho", "pe"}
        /\ exe.format = "pe" =>
             Len(signature) >= CertificateAlignment /\ CertificateTableAccepted(signature)
        /\ exe.format = "macho" => signature # <<>> /\ Signable(exe)
        /\ exe.format = "macho" => signature # <<>> /\ RoomForSignature(exe.image)
        /\ stamper.step = "done"
        /\ disk' = [disk EXCEPT ![binary].file = new]
        /\ UNCHANGED <<stamper, published>>
    BY <1>14 DEF Sign, Signable
  <2>2. /\ exe \in Executables(Cells) /\ signature \in Seq(Cells) /\ Zero \in Cells
        /\ Command \in Cells
    BY DiskFacts, GivenFiles, CellSets
  <2> HIDE DEF exe
  <2>3. new \in Executables(Cells)
    BY <2>1, <2>2, SignedIsFile
  <2> HIDE DEF new
  <2>4. Changed(disk', disk, binary, new)
    BY <2>1, <2>3, DiskFacts, FileWritten
  <2>5. disk'[binary].file = new
    BY <2>4 DEF Changed
  <2>6. stamper'.step \notin Publishing
    BY <2>1 DEF Publishing
  <2>7. CASE published.inode # 0
    <3>1. published.inode = binary /\ published \in Publications
      BY <2>7, DiskFacts
    <3>2. /\ published.template \in Executables(Cells) /\ published.header \in Seq(Cells)
          /\ published.bundle \in Seq(Cells)
      BY <3>1, CellSets DEF Publications
    <3>3. Stamped(exe, published.template, published.header, published.bundle)
      BY <2>7, <3>1 DEF StampKept, exe
    <3>4. Stamped(new, published.template, published.header, published.bundle)
      <4>1. Stamped(SignedFile(exe, signature), published.template, published.header,
                    published.bundle)
        BY <2>1, <2>2, <3>2, <3>3, SigningKeeps
      <4>2. QED BY <4>1 DEF new
    <3>5. QED BY <1>2, <2>1, <2>5, <2>6, <3>1, <3>4 DEF StampKept
  <2>8. CASE published.inode = 0
    BY <1>2, <2>1, <2>6, <2>8 DEF StampKept
  <2>9. QED BY <2>7, <2>8
<1>15. ASSUME NEW exe \in Builds, NEW silent \in BOOLEAN, OverwriteTemplate(exe, silent)
       PROVE  StampKept'
  <2> DEFINE ticks == Ticks(silent)
  <2>1. ticks \in Nat /\ exe \in Executables(Cells)
    BY GivenFiles DEF Ticks
  <2>2. /\ disk' = [disk EXCEPT ![binary] = [file |-> exe, time |-> @.time + Ticks(silent)]]
        /\ published' = IF published.inode = binary THEN None ELSE published
        /\ stamper' = stamper
    BY <1>15 DEF OverwriteTemplate
  <2>3. Changed(disk', disk, binary, exe)
    BY <2>1, <2>2, DiskFacts, FileReplaced
  <2>4. \A i \in 1 .. Len(disk) : i # binary => disk'[i] = disk[i]
    BY <2>3 DEF Changed
  <2>5. CASE published.inode = binary
    BY <2>2, <2>4, <2>5, StampsStay
  <2>6. CASE published.inode # binary
    <3>1. published.inode = 0 /\ published' = published
      BY <2>2, <2>6, DiskFacts
    <3>2. stamper.step \in Publishing =>
            disk'[stamper.output].file = disk[stamper.output].file
      BY <2>4, DiskFacts
    <3>3. QED BY <1>2, <2>2, <3>1, <3>2 DEF StampKept
  <2>7. QED BY <2>5, <2>6
<1>16. ASSUME NEW exe \in Builds, ReplaceTemplate(exe) \/ ReplaceTemporary(exe)
       PROVE  StampKept'
  <2>1. exe \in Executables(Cells)
    BY GivenFiles
  <2>2. /\ disk' = Append(disk, [file |-> exe, time |-> 0]) /\ stamper' = stamper
        /\ published' = published \/ published' = None
    BY <1>16 DEF ReplaceTemplate, ReplaceTemporary
  <2>3. \A i \in 1 .. Len(disk) : disk'[i] = disk[i]
    BY <2>1, <2>2, DiskFacts, FileMade
  <2>4. QED BY <2>2, <2>3, StampsStay
<1>17. ASSUME NEW cells \in Bundles, NEW silent \in BOOLEAN, OverwriteBundle(cells, silent)
       PROVE  StampKept'
  BY <1>3, <1>17 DEF OverwriteBundle
<1>18. ASSUME UNCHANGED stampVars PROVE StampKept'
  BY <1>3, <1>18 DEF stampVars
<1>19. QED
  BY <1>5, <1>6, <1>7, <1>8, <1>9, <1>10, <1>11, <1>12, <1>13, <1>14, <1>15, <1>16,
     <1>17, <1>18 DEF StampNext, Stamper, Others, Recheck

(* At first there is none.                                                  *)
LEMMA StampsInit ==
  StampInit => StampKept
<1> SUFFICES ASSUME StampInit PROVE StampKept
  OBVIOUS
<1>1. stamper.step = "idle"
  BY Blank DEF StampInit
<1>2. published.inode = 0
  BY DEF StampInit, None
<1>3. QED
  BY <1>1, <1>2 DEF StampKept, Publishing

(* What is published is typed and a stamp.                                  *)
LEMMA PublishedIsStamp ==
  ASSUME TypedStamp, StampKept, published # None
  PROVE  /\ published.inode \in 1 .. Len(disk)
         /\ disk[published.inode].file \in Executables(Cells)
         /\ published.header \in Seq(Cells) /\ published.bundle \in Seq(Cells)
         /\ Stamped(disk[published.inode].file, published.template, published.header,
                    published.bundle)
<1>1. published \in Publications
  BY DEF TypedStamp, StampTypeOK
<1>2. published.inode # 0 /\ published.header \in Seq(HeaderCells)
      /\ published.bundle \in Seq(Given)
  BY <1>1 DEF Publications
<1>3. published.inode \in 1 .. Len(disk)
  BY <1>2, DiskFacts
<1>4. disk[published.inode].file \in Executables(Cells)
  BY <1>3, DiskFacts
<1>5. published.header \in Seq(Cells) /\ published.bundle \in Seq(Cells)
  BY <1>2, CellSets
<1>6. QED
  BY <1>2, <1>3, <1>4, <1>5 DEF StampKept

(* What the invariant says of a stamp.                                      *)
LEMMA StampsHold ==
  TypedStamp /\ StampKept => StampReadsBack /\ ImageKept /\ WriterAgreesWithReader
<1> SUFFICES ASSUME TypedStamp, StampKept
             PROVE  StampReadsBack /\ ImageKept /\ WriterAgreesWithReader
  OBVIOUS
<1>1. Zero \in Cells
  BY CellSets
<1>2. ASSUME published # None
      PROVE  LET exe == disk[published.inode].file
                 template == published.template
             IN  /\ ReadsAs(exe, published.header, published.bundle)
                 /\ CASE template.format = "pe"    -> PeKept(template, exe)
                      [] template.format = "macho" -> MachOKept(template, exe)
                      [] OTHER -> Upto(exe.cells, Len(template.cells)) = template.cells
  <2> DEFINE exe == disk[published.inode].file
             template == published.template
             header == published.header
             bundled == published.bundle
  <2>1. exe \in Executables(Cells) /\ header \in Seq(Cells) /\ bundled \in Seq(Cells)
        /\ Stamped(exe, template, header, bundled)
    BY <1>2, PublishedIsStamp
  <2> HIDE DEF exe, template, header, bundled
  <2>2. /\ ReadsAs(exe, header, bundled)
        /\ CASE template.format = "pe"    -> PeKept(template, exe)
             [] template.format = "macho" -> MachOKept(template, exe)
             [] OTHER -> Upto(exe.cells, Len(template.cells)) = template.cells
    BY <1>1, <2>1, StampedReads
  <2>3. QED BY <2>2 DEF exe, template, header, bundled
<1>3. StampReadsBack
  BY <1>2 DEF StampReadsBack
<1>4. ImageKept
  BY <1>2 DEF ImageKept
<1>5. WriterAgreesWithReader
  <2> SUFFICES ASSUME stamper.step = "read back",
                      stamper.copy.format = "macho" => AsLinked(stamper.copy.image)
               PROVE  ReadsAs(disk[stamper.output].file, stamper.header, stamper.content)
    BY DEF WriterAgreesWithReader
  <2> DEFINE exe == disk[stamper.output].file
  <2>1. NewStamp(exe, stamper.copy, stamper.header, stamper.content)
    BY DEF StampKept
  <2>2. exe \in Executables(Cells)
    <3>1. stamper.step \in Publishing
      BY DEF Publishing
    <3>2. QED BY <3>1, DiskFacts
  <2>3. stamper.header \in Seq(Cells) /\ stamper.content \in Seq(Cells)
    <3>1. stamper.header \in Seq(HeaderCells) /\ stamper.content \in Seq(Given)
      BY DiskFacts DEF Stampers
    <3>2. QED BY <3>1, CellSets
  <2> HIDE DEF exe
  <2>4. Stamped(exe, stamper.copy, stamper.header, stamper.content)
    BY <2>1, NewStampIsStamp
  <2>5. ReadsAs(exe, stamper.header, stamper.content)
    BY <1>1, <2>2, <2>3, <2>4, StampedReads
  <2>6. QED BY <2>5 DEF exe
<1>6. QED
  BY <1>3, <1>4, <1>5

(* The variables of append_to_binary have their types in every reachable    *)
(* state, for any templates, bundles, signatures, alignments and buffers.   *)
THEOREM StampTypeCorrect ==
  StampSpec => []StampTypeOK
<1>1. StampInit => TypedStamp
  BY TypedInit
<1>2. TypedStamp /\ [StampNext]_stampVars => TypedStamp'
  BY TypedStep
<1>3. TypedStamp => StampTypeOK
  BY DEF TypedStamp
<1>4. QED
  BY <1>1, <1>2, <1>3, PTL DEF StampSpec

(* The stamps are stamps in every reachable state.                          *)
LEMMA StampsInvariant ==
  StampSpec => [](TypedStamp /\ StampKept)
<1>1. StampInit => TypedStamp /\ StampKept
  BY TypedInit, StampsInit
<1>2. TypedStamp /\ StampKept /\ [StampNext]_stampVars => (TypedStamp /\ StampKept)'
  BY TypedStep, StampsKept
<1>3. QED
  BY <1>1, <1>2, PTL DEF StampSpec

(* A published stamp reads back as the header and the bundle it was made    *)
(* with, however often other programs signed the file since.                *)
THEOREM StampsReadBack ==
  StampSpec => []StampReadsBack
BY StampsInvariant, StampsHold, PTL

(* Stamping and signing keep every section, segment and table of the        *)
(* template, and leave a layout that the code accepts.                      *)
THEOREM ImagesKept ==
  StampSpec => []ImageKept
BY StampsInvariant, StampsHold, PTL

(* The read-back refuses no stamp of a template as linkers write them: what *)
(* the writer accepts, the reader finds.                                    *)
THEOREM WriterAndReaderAgree ==
  StampSpec => []WriterAgreesWithReader
BY StampsInvariant, StampsHold, PTL

-----------------------------------------------------------------------------
(* Halves of versions                                                       *)

(* A file that is a version of the template but for its cells.              *)
Like(exe, version, cells) ==
  exe.format = version.format /\ exe.image = version.image /\ exe.cells = cells

(* The beginning of one sequence and the rest of another.                   *)
Joined(first, second, n) == Upto(first, n) \o From(second, n)

(* Its length and elements.                                                 *)
LEMMA JoinedFacts ==
  ASSUME NEW S, NEW a \in Seq(S), NEW b \in Seq(S), NEW n \in Nat
  PROVE  /\ Joined(a, b, n) \in Seq(S)
         /\ Len(a) = Len(b) => /\ Len(Joined(a, b, n)) = Len(b)
                               /\ \A i \in 1 .. Len(b) :
                                    Joined(a, b, n)[i] = IF i <= n THEN a[i] ELSE b[i]
<1> DEFINE u == Upto(a, n)
           v == From(b, n)
           la == Len(a)
           lb == Len(b)
           lu == Len(u)
           lv == Len(v)
           new == u \o v
<1>1. /\ u \in Seq(S) /\ lu = (IF n <= la THEN n ELSE la)
      /\ \A i \in 1 .. n : i <= la => u[i] = a[i]
  BY UptoFacts
<1>2. /\ v \in Seq(S) /\ lv = (IF n <= lb THEN lb - n ELSE 0)
      /\ \A i \in Nat : i \in n + 1 .. lb => v[i - n] = b[i]
  BY FromFacts
<1>3. la \in Nat /\ lb \in Nat
  OBVIOUS
<1> HIDE DEF u, v
<1>4. /\ new \in Seq(S) /\ Len(new) = lu + lv
      /\ \A i \in 1 .. lu : new[i] = u[i]
      /\ \A i \in 1 .. lv : new[lu + i] = v[i]
  <2>1. u \in Seq(S) /\ v \in Seq(S)
    BY <1>1, <1>2
  <2>2. QED BY <2>1, ConcatFacts
<1>5. Joined(a, b, n) = new
  BY DEF Joined, u, v
<1>6. ASSUME la = lb
      PROVE  Len(new) = lb /\ \A i \in 1 .. lb : new[i] = IF i <= n THEN a[i] ELSE b[i]
  <2> HIDE DEF la, lb, lu, lv, new
  <2>1. Len(new) = lb
    BY <1>1, <1>2, <1>3, <1>4, <1>6
  <2>2. ASSUME NEW i \in 1 .. lb, i <= n PROVE new[i] = a[i]
    <3>1. i \in 1 .. lu /\ i \in 1 .. n /\ i <= la
      BY <1>1, <1>3, <1>6, <2>2
    <3>2. QED BY <1>1, <1>4, <3>1
  <2>3. ASSUME NEW i \in 1 .. lb, ~(i <= n) PROVE new[i] = b[i]
    <3>1. /\ n <= lb /\ lu = n /\ lv = lb - n /\ i - n \in 1 .. lv /\ lu + (i - n) = i
          /\ i \in Nat /\ i \in n + 1 .. lb
      BY <1>1, <1>2, <1>3, <1>6, <2>3
    <3>2. new[lu + (i - n)] = v[i - n]
      BY <1>4, <3>1
    <3>3. QED BY <1>2, <3>1, <3>2
  <2>4. QED BY <2>1, <2>2, <2>3
<1> HIDE DEF new
<1>7. Joined(a, b, n) \in Seq(S)
  BY <1>4, <1>5
<1>8. ASSUME Len(a) = Len(b)
      PROVE  /\ Len(Joined(a, b, n)) = Len(b)
             /\ \A i \in 1 .. Len(b) :
                  Joined(a, b, n)[i] = IF i <= n THEN a[i] ELSE b[i]
  BY <1>5, <1>6, <1>8
<1>9. QED
  BY <1>7, <1>8

(* Parts of the same sequence make it whole.                                *)
LEMMA JoinedSame ==
  ASSUME NEW S, NEW a \in Seq(S), NEW n \in Nat
  PROVE  Joined(a, a, n) = a
<1> DEFINE new == Joined(a, a, n)
<1>1. /\ new \in Seq(S) /\ Len(new) = Len(a)
      /\ \A i \in 1 .. Len(a) : new[i] = IF i <= n THEN a[i] ELSE a[i]
  BY JoinedFacts
<1> HIDE DEF new
<1>2. new = a
  BY <1>1, SequencesEqual
<1>3. QED BY <1>2 DEF new

(* A sequence up to its length.                                             *)
LEMMA UptoAll ==
  ASSUME NEW S, NEW a \in Seq(S), NEW n \in Nat, n >= Len(a)
  PROVE  Upto(a, n) = a
<1> DEFINE new == Upto(a, n)
<1>1. /\ new \in Seq(S) /\ Len(new) = (IF n <= Len(a) THEN n ELSE Len(a)) /\ Len(a) \in Nat
      /\ \A i \in 1 .. n : i <= Len(a) => new[i] = a[i]
  BY UptoFacts
<1> HIDE DEF new
<1>2. Len(new) = Len(a)
  BY <1>1
<1>3. \A i \in 1 .. Len(a) : new[i] = a[i]
  <2>1. ASSUME NEW i \in 1 .. Len(a) PROVE i \in 1 .. n /\ i <= Len(a)
    BY <1>1
  <2>2. QED BY <1>1, <2>1
<1>4. new = a
  BY <1>1, <1>2, <1>3, SequencesEqual
<1>5. QED BY <1>4 DEF new

(* Digests of halves: what begins as the second half's file is that file.   *)
LEMMA HalvesAgree ==
  ASSUME NEW S, NEW a \in Seq(S), NEW b \in Seq(S), NEW c \in Seq(S), NEW n \in Nat,
         Len(a) = Len(b), Upto(Joined(b, c, n), Len(b)) = Upto(Joined(a, b, n), Len(b)),
         Len(Upto(Joined(b, c, n), Len(b))) = Len(b)
  PROVE  Joined(a, b, n) = b
<1> DEFINE ab == Joined(a, b, n)
           bc == Joined(b, c, n)
           len == Len(b)
           u == Upto(b, n)
           v == From(c, n)
<1>1. /\ ab \in Seq(S) /\ Len(ab) = len
      /\ \A i \in 1 .. len : ab[i] = IF i <= n THEN a[i] ELSE b[i]
  BY JoinedFacts
<1>2. len \in Nat
  OBVIOUS
<1>3. /\ u \in Seq(S) /\ Len(u) = (IF n <= len THEN n ELSE len)
      /\ \A i \in 1 .. n : i <= len => u[i] = b[i]
      /\ v \in Seq(S)
  BY UptoFacts, FromFacts
<1> HIDE DEF u, v
<1>4. bc = u \o v /\ bc \in Seq(S)
  BY <1>3 DEF Joined, u, v
<1>5. \A i \in 1 .. Len(u) : bc[i] = u[i]
  BY <1>3, <1>4, ConcatFacts
<1> HIDE DEF ab, bc, len
<1>6. /\ Upto(ab, len) = ab
  BY <1>1, <1>2, UptoAll
<1>7. /\ \A i \in 1 .. len : i <= Len(bc) => Upto(bc, len)[i] = bc[i]
      /\ Len(Upto(bc, len)) = IF len <= Len(bc) THEN len ELSE Len(bc)
  BY <1>2, <1>4, UptoFacts
<1>8. Upto(bc, len) = ab /\ Len(Upto(bc, len)) = len
  BY <1>6 DEF ab, bc, len
<1>9. len <= Len(bc) /\ Len(bc) \in Nat
  BY <1>2, <1>4, <1>7, <1>8
<1>10. ASSUME NEW i \in 1 .. len PROVE ab[i] = b[i]
  <2>1. CASE i <= n
    <3>1. i \in 1 .. n /\ i <= len /\ i \in 1 .. Len(u) /\ i <= Len(bc)
      BY <1>2, <1>3, <1>9, <2>1
    <3>2. QED BY <1>3, <1>5, <1>7, <1>8, <3>1
  <2>2. CASE ~(i <= n)
    BY <1>1, <2>2
  <2>3. QED BY <2>1, <2>2
<1>11. ab = b
  BY <1>1, <1>10, SequencesEqual DEF len
<1>12. QED BY <1>11 DEF ab

-----------------------------------------------------------------------------
(* The template while it is read                                            *)

Copied(first, second) ==
  Like(stamper.copy, first, Joined(first.cells, second.cells, Buffer))
Whole(version) == Len(version.cells) = stamper.opened.len
Still == Source.time = stamper.opened.time

(* The copy is one version, or its beginning.                               *)
OneVersion ==
  \E version \in templates :
    stamper.copy = [version EXCEPT !.cells = Upto(@, Len(stamper.copy.cells))]
Deceived == quiet >= 2 \/ meddles >= 3

(* The template while it is copied and hashed.  A copy of halves takes an   *)
(* overwrite that kept the time, and not to be seen by the digests either   *)
(* a second one or two more of any kind.                                    *)
AtOpened == Still /\ quiet = 0 => Whole(Source.file)
AtCopyRest(first) ==
  /\ Like(stamper.copy, first, Upto(first.cells, Buffer))
  /\ Still /\ quiet = 0 => first = Source.file /\ Whole(Source.file)
  /\ Still /\ quiet = 1 => first = Source.file \/ Whole(first)
AtCopied(first, second) ==
  /\ Copied(first, second)
  /\ Still /\ quiet = 0 => first = second
  /\ Still /\ quiet = 1 => first = second \/ (Whole(first) /\ Source.file = second)
AtHash(first, second) ==
  /\ Copied(first, second)
  /\ \/ first = second
     \/ Deceived
     \/ /\ Whole(first) /\ Whole(second)
        /\ meddles >= 1 /\ (Source.file = second \/ meddles >= 2)
AtHashRest(first, second, third) ==
  /\ Copied(first, second)
  /\ Like(stamper.hashed, third, Upto(third.cells, Buffer))
  /\ \/ first = second
     \/ Deceived
     \/ /\ Whole(first) /\ Whole(second)
        /\ meddles >= 1 /\ (third = second \/ (meddles >= 2 /\ Source.file = third))

TemplateRead ==
  /\ quiet <= meddles
  /\ stamper.step \notin Beginning =>
       Source.file \in templates /\ stamper.opened.time <= Source.time
  /\ stamper.step \in {"opened", "copy"} => AtOpened
  /\ stamper.step = "copy rest" => \E first \in templates : AtCopyRest(first)
  /\ stamper.step = "copied" => \E first, second \in templates : AtCopied(first, second)
  /\ stamper.step = "hash" => \E first, second \in templates : AtHash(first, second)
  /\ stamper.step = "hash rest" =>
       \E first, second, third \in templates : AtHashRest(first, second, third)
  /\ stamper.step \in Bundling \union {"write"} \union Publishing => OneVersion \/ Deceived

(* A change by another program, which may be to the template.               *)
Meddled ==
  /\ stamper' = stamper /\ meddles' = meddles + 1
  /\ templates \subseteq templates' /\ Source'.file \in templates'
  /\ \/ Source' = Source /\ quiet' \in {quiet, quiet + 1}
     \/ Source'.time = Source.time /\ quiet' = quiet + 1
     \/ Source'.time = Source.time + 1 /\ quiet' = quiet

(* Such a change keeps what is known of the copy.                           *)
LEMMA MeddledTemplate ==
  ASSUME TypedStamp, TemplateRead, Meddled, stamper.step \notin Beginning
  PROVE  TemplateRead'
<1>1. quiet \in Nat /\ meddles \in Nat /\ quiet <= meddles
  BY DEF TypedStamp, StampTypeOK, TemplateRead
<1>2. Source.time \in Nat /\ stamper.opened.time \in Nat
  <2>1. stamper \in Stampers /\ stamper.input \in 1 .. Len(disk)
    BY DiskFacts
  <2>2. Source.time \in Nat
    BY <2>1, DiskFacts DEF Source
  <2>3. QED BY <2>1, <2>2 DEF Stampers, Opened
<1>3. Source.file \in templates /\ stamper.opened.time <= Source.time
  BY DEF TemplateRead
<1> DEFINE step == stamper.step
           opened == stamper.opened.time
           own == Source.file
           new == Source'.file
<1>4. /\ stamper' = stamper /\ meddles' = meddles + 1
      /\ templates \subseteq templates' /\ Source'.file \in templates'
      /\ \/ Source' = Source /\ quiet' \in {quiet, quiet + 1}
         \/ Source'.time = Source.time /\ quiet' = quiet + 1
         \/ Source'.time = Source.time + 1 /\ quiet' = quiet
  BY DEF Meddled
<1>5. /\ quiet' <= meddles' /\ meddles' >= 1 /\ quiet' \in Nat
      /\ opened <= Source'.time
      /\ Deceived => Deceived'
      /\ meddles' \in Nat
  BY <1>1, <1>2, <1>3, <1>4 DEF Deceived
<1>6. /\ Still' /\ quiet' = 0 => Source' = Source /\ Still /\ quiet = 0
      /\ Still' /\ quiet' = 1 => \/ Source' = Source /\ Still /\ quiet \in {0, 1}
                                 \/ Still /\ quiet = 0
  BY <1>1, <1>2, <1>3, <1>4 DEF Still
<1>7. ASSUME step \in {"opened", "copy"} PROVE AtOpened'
  <2>1. AtOpened
    BY <1>7 DEF TemplateRead
  <2>2. QED BY <1>4, <1>6, <2>1 DEF AtOpened, Whole
<1>8. ASSUME step = "copy rest" PROVE \E first \in templates' : AtCopyRest(first)'
  <2>1. PICK first \in templates : AtCopyRest(first)
    BY <1>8 DEF TemplateRead
  <2>2. AtCopyRest(first)'
    BY <1>4, <1>6, <2>1 DEF AtCopyRest, Whole
  <2>3. QED BY <1>4, <2>1, <2>2
<1>9. ASSUME step = "copied" PROVE \E first, second \in templates' : AtCopied(first, second)'
  <2>1. PICK first \in templates, second \in templates : AtCopied(first, second)
    BY <1>9 DEF TemplateRead
  <2>2. AtCopied(first, second)'
    BY <1>4, <1>6, <2>1 DEF AtCopied, Copied, Whole
  <2>3. QED BY <1>4, <2>1, <2>2
<1>10. ASSUME step = "hash" PROVE \E first, second \in templates' : AtHash(first, second)'
  <2>1. PICK first \in templates, second \in templates : AtHash(first, second)
    BY <1>10 DEF TemplateRead
  <2>2. Copied(first, second)' /\ (Whole(first) => Whole(first)') /\ (Whole(second) => Whole(second)')
    BY <1>4, <2>1 DEF AtHash, Copied, Whole
  <2>3. meddles >= 1 => meddles' >= 2
    BY <1>1, <1>4
  <2>4. AtHash(first, second)'
    BY <1>5, <2>1, <2>2, <2>3 DEF AtHash
  <2>5. QED BY <1>4, <2>1, <2>4
<1>11. ASSUME step = "hash rest"
       PROVE  \E first, second, third \in templates' : AtHashRest(first, second, third)'
  <2>1. PICK first \in templates, second \in templates, third \in templates :
          AtHashRest(first, second, third)
    BY <1>11 DEF TemplateRead
  <2>2. /\ Copied(first, second)' /\ Like(stamper'.hashed, third, Upto(third.cells, Buffer))
        /\ (Whole(first) => Whole(first)') /\ (Whole(second) => Whole(second)')
    BY <1>4, <2>1 DEF AtHashRest, Copied, Whole
  <2>3. meddles >= 1 => meddles' >= 2
    BY <1>1, <1>4
  <2>4. meddles >= 2 => Deceived'
    BY <1>1, <1>4 DEF Deceived
  <2>5. AtHashRest(first, second, third)'
    BY <1>5, <2>1, <2>2, <2>3, <2>4 DEF AtHashRest
  <2>6. QED BY <1>4, <2>1, <2>5
<1>12. ASSUME step \in Bundling \union {"write"} \union Publishing PROVE (OneVersion \/ Deceived)'
  <2>1. OneVersion \/ Deceived
    BY <1>12 DEF TemplateRead
  <2>2. OneVersion => OneVersion'
    BY <1>4 DEF OneVersion
  <2>3. QED BY <1>5, <2>1, <2>2
<1>13. QED
  BY <1>4, <1>5, <1>7, <1>8, <1>9, <1>10, <1>11, <1>12 DEF TemplateRead

(* A copy with the cells of a version, or their beginning.                  *)
LEMMA Version ==
  ASSUME NEW S, NEW copy \in Executables(S), NEW version \in Executables(S),
         copy.format = version.format, copy.image = version.image,
         copy.cells = Upto(version.cells, Len(copy.cells))
  PROVE  copy = [version EXCEPT !.cells = Upto(@, Len(copy.cells))]
<1> DEFINE cells == Upto(version.cells, Len(copy.cells))
<1>1. copy.cells = cells
  OBVIOUS
<1>2. [version EXCEPT !.cells = Upto(@, Len(copy.cells))] = [version EXCEPT !.cells = cells]
  OBVIOUS
<1> HIDE DEF cells
<1>3. copy = [version EXCEPT !.cells = cells]
  BY <1>1 DEF Executables
<1>4. QED
  BY <1>2, <1>3

(* A sequence up to its own length.                                         *)
LEMMA UptoLength ==
  ASSUME NEW S, NEW a \in Seq(S)
  PROVE  Upto(a, Len(a)) = a /\ Len(a) \in Nat
BY UptoAll

(* Digests of a copy: parts of the same version are one, and so are halves  *)
(* of the same length when what is hashed has one of them in its beginning. *)
LEMMA OneHalf ==
  ASSUME NEW S, NEW first \in Seq(S), NEW n \in Nat
  PROVE  Joined(first, first, n) = Upto(first, Len(Joined(first, first, n)))
BY JoinedSame, UptoLength

LEMMA SecondHalf ==
  ASSUME NEW S, NEW first \in Seq(S), NEW second \in Seq(S), NEW own \in Seq(S), NEW n \in Nat,
         Len(first) = Len(second),
         Upto(Joined(second, own, n), Len(second)) = Upto(Joined(first, second, n), Len(second)),
         Len(Upto(Joined(second, own, n), Len(second))) = Len(second)
  PROVE  Joined(first, second, n) = Upto(second, Len(Joined(first, second, n)))
<1>1. Joined(first, second, n) = second
  BY HalvesAgree
<1>2. QED
  BY <1>1, UptoLength

LEMMA ThirdHalf ==
  ASSUME NEW S, NEW first \in Seq(S), NEW second \in Seq(S), NEW third \in Seq(S), NEW n \in Nat,
         Len(first) = Len(second),
         Upto(Joined(third, third, n), Len(second)) = Upto(Joined(first, second, n), Len(second))
  PROVE  Joined(first, second, n) = Upto(third, Len(Joined(first, second, n)))
<1> DEFINE copy == Joined(first, second, n)
<1>1. copy \in Seq(S) /\ Len(copy) = Len(second)
  BY JoinedFacts
<1>2. Joined(third, third, n) = third
  BY JoinedSame
<1>3. Upto(copy, Len(copy)) = copy
  <2> HIDE DEF copy
  <2>1. QED BY <1>1, UptoLength
<1>4. QED
  BY <1>1, <1>2, <1>3

(* What the digests find equal is one version, or its beginning.            *)
LEMMA CopyHeld ==
  ASSUME TypedStamp, TemplateRead, stamper.step = "hash rest", CopyMatchesSource
  PROVE  OneVersion \/ Deceived
<1> DEFINE copy == stamper.copy
           own == Source.file
           len == stamper.opened.len
           rest == From(own.cells, Buffer)
           cells == Upto(stamper.hashed.cells \o rest, len)
<1>1. /\ copy \in Executables(Cells) /\ stamper.hashed \in Executables(Cells)
      /\ own \in Executables(Cells) /\ own.cells \in Seq(Cells)
      /\ copy.cells \in Seq(Cells) /\ len \in Nat /\ Buffer \in Nat
  <2>1. stamper \in Stampers /\ stamper.input \in 1 .. Len(disk)
    BY DiskFacts DEF Beginning
  <2>2. own \in Executables(Cells) /\ own.cells \in Seq(Cells)
    BY <2>1, DiskFacts DEF Source
  <2>3. copy \in Executables(Cells) /\ len \in Nat
    BY <2>1 DEF Stampers, Opened
  <2>4. stamper.hashed \in Executables(Cells)
    BY DEF TypedStamp, Placed
  <2>5. copy.cells \in Seq(Cells)
    BY <2>3, Formats
  <2>6. QED BY <2>2, <2>3, <2>4, <2>5, StampAssumption
<1>2. /\ own \in templates
      /\ \E first, second, third \in templates : AtHashRest(first, second, third)
  BY DEF TemplateRead, Beginning
<1>3. PICK first \in templates, second \in templates, third \in templates :
        AtHashRest(first, second, third)
  BY <1>2
<1>4. \A version \in templates : version \in Executables(Cells) /\ version.cells \in Seq(Cells)
  <2>1. templates \subseteq Executables(Cells)
    BY DEF TypedStamp, StampTypeOK
  <2>2. QED BY <2>1, Formats
<1>5. /\ Len(cells) = len
      /\ stamper.hashed.format = copy.format /\ stamper.hashed.image = copy.image
      /\ cells = Upto(copy.cells, len)
  <2> DEFINE hashed == [stamper.hashed EXCEPT !.cells = Upto(@ \o rest, len)]
             half == Upto(copy.cells, len)
             same == [copy EXCEPT !.cells = half]
  <2>1. Len(hashed.cells) = len /\ hashed = [copy EXCEPT !.cells = Upto(@, len)]
    BY DEF CopyMatchesSource
  <2>2. hashed = [stamper.hashed EXCEPT !.cells = cells]
        /\ [copy EXCEPT !.cells = Upto(@, len)] = same
    OBVIOUS
  <2> HIDE DEF hashed, cells, half
  <2>3. [stamper.hashed EXCEPT !.cells = cells] = same
        /\ Len([stamper.hashed EXCEPT !.cells = cells].cells) = len
    BY <2>1, <2>2
  <2>4. QED BY <1>1, <2>3 DEF Executables, half
<1>6. /\ copy.format = first.format /\ copy.image = first.image
      /\ copy.cells = Joined(first.cells, second.cells, Buffer)
      /\ stamper.hashed.format = third.format /\ stamper.hashed.image = third.image
      /\ stamper.hashed.cells = Upto(third.cells, Buffer)
  BY <1>3 DEF AtHashRest, Copied, Like
<1>7. cells = Upto(Joined(third.cells, own.cells, Buffer), len)
  BY <1>6 DEF Joined
<1>8. third.format = copy.format /\ third.image = copy.image
  BY <1>5, <1>6
<1> HIDE DEF cells, rest
<1>9. /\ first = second => copy.cells = Upto(first.cells, Len(copy.cells))
      /\ Whole(first) /\ Whole(second) /\ third = second =>
           copy.cells = Upto(second.cells, Len(copy.cells))
      /\ Whole(first) /\ Whole(second) /\ own = third =>
           copy.cells = Upto(third.cells, Len(copy.cells))
  <2>1. /\ first.cells \in Seq(Cells) /\ second.cells \in Seq(Cells)
        /\ third.cells \in Seq(Cells) /\ own.cells \in Seq(Cells) /\ Buffer \in Nat
    BY <1>1, <1>4
  <2>2. /\ Upto(Joined(third.cells, own.cells, Buffer), len)
             = Upto(Joined(first.cells, second.cells, Buffer), len)
        /\ Len(Upto(Joined(first.cells, second.cells, Buffer), len)) = len
    BY <1>5, <1>6, <1>7
  <2>3. copy.cells = Joined(first.cells, second.cells, Buffer)
    BY <1>6
  <2>4. ASSUME first = second PROVE copy.cells = Upto(first.cells, Len(copy.cells))
    BY <2>1, <2>3, <2>4, OneHalf
  <2>5. ASSUME Whole(first), Whole(second)
        PROVE  Len(first.cells) = len /\ Len(second.cells) = len
    BY <2>5 DEF Whole
  <2> HIDE DEF own, len, copy
  <2>6. ASSUME Whole(first), Whole(second), third = second
        PROVE  copy.cells = Upto(second.cells, Len(copy.cells))
    <3>1. /\ Len(first.cells) = Len(second.cells)
          /\ Upto(Joined(second.cells, own.cells, Buffer), Len(second.cells))
               = Upto(Joined(first.cells, second.cells, Buffer), Len(second.cells))
          /\ Len(Upto(Joined(second.cells, own.cells, Buffer), Len(second.cells)))
               = Len(second.cells)
      BY <2>2, <2>5, <2>6
    <3>2. Joined(first.cells, second.cells, Buffer)
            = Upto(second.cells, Len(Joined(first.cells, second.cells, Buffer)))
      BY <2>1, <3>1, SecondHalf
    <3>3. QED BY <2>3, <3>2
  <2>7. ASSUME Whole(first), Whole(second), own = third
        PROVE  copy.cells = Upto(third.cells, Len(copy.cells))
    <3>1. /\ Len(first.cells) = Len(second.cells)
          /\ Upto(Joined(third.cells, third.cells, Buffer), Len(second.cells))
               = Upto(Joined(first.cells, second.cells, Buffer), Len(second.cells))
      BY <2>2, <2>5, <2>7
    <3>2. Joined(first.cells, second.cells, Buffer)
            = Upto(third.cells, Len(Joined(first.cells, second.cells, Buffer)))
      BY <2>1, <3>1, ThirdHalf
    <3>3. QED BY <2>3, <3>2
  <2>8. QED BY <2>4, <2>6, <2>7
<1>10. \A version \in templates :
         copy.format = version.format /\ copy.image = version.image
           /\ copy.cells = Upto(version.cells, Len(copy.cells)) => OneVersion
  <2>1. ASSUME NEW version \in templates, copy.format = version.format,
               copy.image = version.image, copy.cells = Upto(version.cells, Len(copy.cells))
        PROVE  OneVersion
    <3>1. copy = [version EXCEPT !.cells = Upto(@, Len(copy.cells))]
      BY <1>1, <1>4, <2>1, Version
    <3>2. QED BY <3>1 DEF OneVersion
  <2>2. QED BY <2>1
<1>11. first = second => OneVersion
  BY <1>6, <1>9, <1>10
<1>12. Whole(first) /\ Whole(second) /\ third = second => OneVersion
  BY <1>8, <1>9, <1>10
<1>13. Whole(first) /\ Whole(second) /\ own = third => OneVersion
  BY <1>8, <1>9, <1>10
<1>14. QED
  BY <1>3, <1>11, <1>12, <1>13 DEF AtHashRest

(* The steps by what they ask of TemplateRead and of BundleRead.            *)
LEMMA StepKinds ==
  /\ \A s \in Beginning \union {"renamed"} :
       s \notin {"opened", "write"} \union Copying \union Bundling \union Publishing
  /\ "renamed" \notin Beginning
  /\ \A s \in Bundling \union {"write"} \union Publishing :
       s \notin Beginning \union {"opened"} \union Copying
  /\ \A s \in Copying \union {"opened"} :
       s \notin Beginning \union Bundling \union {"write"} \union Publishing
  /\ {"copy", "copy rest", "copied", "hash", "hash rest"} = Copying
BY DEF Beginning, Copying, Bundling, Publishing

(* Before the template is opened there is nothing to keep.                  *)
LEMMA TemplateUnread ==
  ASSUME stamper'.step \in Beginning, quiet' <= meddles'
  PROVE  TemplateRead'
<1>1. stamper'.step \notin {"opened", "write"} \union Copying \union Bundling \union Publishing
  BY StepKinds
<1>2. stamper'.step \notin {"copy", "copy rest", "copied", "hash", "hash rest"}
  BY <1>1, StepKinds
<1>3. QED
  BY <1>1, <1>2 DEF TemplateRead

LEMMA TemplateFailed ==
  ASSUME TypedStamp, TemplateRead, Fail
  PROVE  TemplateRead'
<1>1. stamper' = Idle("failed") /\ UNCHANGED <<quiet, meddles>>
  BY DEF Fail
<1>2. stamper'.step \in Beginning
  BY <1>1, Blank
<1>3. QED
  BY <1>1, <1>2, TemplateUnread DEF TemplateRead

(* After the digests nothing is read of the template.                       *)
LEMMA TemplateWasRead ==
  ASSUME TypedStamp, TemplateRead,
         stamper.step \in Bundling \union {"write"} \union Publishing,
         stamper'.step \in Bundling \union {"write", "renamed"} \union Publishing,
         stamper'.copy = stamper.copy, stamper'.opened = stamper.opened,
         Source' = Source, UNCHANGED <<templates, quiet, meddles>>
  PROVE  TemplateRead'
<1>1. stamper.step \notin Beginning
  BY StepKinds
<1>2. OneVersion \/ Deceived
  BY DEF TemplateRead
<1>3. (OneVersion \/ Deceived)'
  BY <1>2 DEF OneVersion, Deceived
<1>4. stamper'.step \notin {"opened"} \union Copying
  BY StepKinds
<1>5. stamper'.step \notin {"opened", "copy", "copy rest", "copied", "hash", "hash rest"}
  BY <1>4, StepKinds
<1>6. QED
  BY <1>1, <1>3, <1>5 DEF TemplateRead

(* The template stays when its inode and the disk do.                       *)
LEMMA SameSource ==
  ASSUME disk' = disk, stamper'.input = stamper.input
  PROVE  Source' = Source
BY DEF Source

(* A check of the stamper, when it holds.                                   *)
LEMMA CheckedStep ==
  ASSUME TypedStamp, NEW from, NEW condition, NEW to, Check(from, condition, to)
  PROVE  /\ stamper.step = from
         /\ \/ /\ condition /\ stamper'.step = to /\ Source' = Source
               /\ stamper'.copy = stamper.copy /\ stamper'.opened = stamper.opened
               /\ stamper'.hashed = stamper.hashed /\ stamper'.embedded = stamper.embedded
               /\ stamper'.bundleOpened = stamper.bundleOpened
               /\ stamper'.content = stamper.content /\ stamper'.rehashed = stamper.rehashed
               /\ UNCHANGED <<bundle, templates, bundles, quiet, meddles>>
            \/ Fail
<1>1. CASE condition /\ Goto(to) /\ UNCHANGED <<Files, templates, bundles>>
  <2>1. stamper \in Stampers /\ stamper' = [stamper EXCEPT !.step = to]
        /\ UNCHANGED <<disk, bundle, quiet, meddles>>
    BY <1>1 DEF TypedStamp, StampTypeOK, Goto, Files
  <2>2. /\ stamper'.step = to /\ stamper'.input = stamper.input
        /\ stamper'.copy = stamper.copy /\ stamper'.opened = stamper.opened
        /\ stamper'.hashed = stamper.hashed /\ stamper'.embedded = stamper.embedded
        /\ stamper'.bundleOpened = stamper.bundleOpened
        /\ stamper'.content = stamper.content /\ stamper'.rehashed = stamper.rehashed
    BY <2>1 DEF Stampers
  <2>3. QED BY <1>1, <2>1, <2>2, SameSource DEF Check
<1>2. QED
  BY <1>1 DEF Check

(* The template is opened, and the temporary file made.                     *)
LEMMA TemplateOpening ==
  ASSUME TypedStamp, TemplateRead, OpenTemplate \/ CreateTemporary
  PROVE  TemplateRead'
<1>1. /\ stamper \in Stampers /\ disk \in Seq(Inodes) /\ binary \in 1 .. Len(disk)
      /\ disk[binary].time \in Nat /\ quiet \in Nat /\ meddles \in Nat /\ quiet <= meddles
  <2>1. quiet \in Nat /\ meddles \in Nat /\ quiet <= meddles
    BY DEF TypedStamp, StampTypeOK, TemplateRead
  <2>2. QED BY <2>1, DiskFacts
<1>2. CASE OpenTemplate
  <2> DEFINE opened == [len |-> Len(disk[binary].file.cells), time |-> disk[binary].time]
  <2>1. /\ UNCHANGED <<Files, bundles>> /\ templates' = {disk[binary].file}
        /\ stamper' = [[[stamper EXCEPT !.step = "opened"] EXCEPT !.input = binary]
                         EXCEPT !.opened = opened]
    BY <1>2 DEF OpenTemplate
  <2>2. opened.len = Len(disk[binary].file.cells) /\ opened.time = disk[binary].time
    OBVIOUS
  <2> HIDE DEF opened
  <2>3. stamper'.step = "opened" /\ stamper'.input = binary /\ stamper'.opened = opened
    BY <1>1, <2>1 DEF Stampers
  <2>4. Source' = disk[binary] /\ UNCHANGED <<quiet, meddles>>
    BY <2>1, <2>3 DEF Source, Files
  <2>5. AtOpened'
    BY <2>2, <2>3, <2>4 DEF AtOpened, Whole
  <2>6. /\ Source'.file \in templates' /\ stamper'.opened.time <= Source'.time
        /\ quiet' <= meddles'
    BY <1>1, <2>1, <2>2, <2>3, <2>4
  <2>7. stamper'.step \notin Bundling \union {"write"} \union Publishing
    BY <2>3, StepKinds
  <2>8. QED BY <2>3, <2>5, <2>6, <2>7 DEF TemplateRead
<1>3. CASE CreateTemporary /\ ~Fail
  <2> DEFINE new == [file |-> Refused, time |-> 0]
  <2>1. /\ stamper.step = "opened" /\ disk' = Append(disk, new)
        /\ stamper' = [[stamper EXCEPT !.step = "copy"] EXCEPT !.output = Len(disk')]
        /\ UNCHANGED <<binary, bundle, published, templates, bundles, quiet, meddles, stamps,
                       signs>>
    BY <1>3 DEF CreateTemporary
  <2>2. Refused \in Executables(Cells)
    BY DEF Refused, Executables
  <2>3. disk'[stamper.input] = Source
    <3>1. stamper.input \in 1 .. Len(disk)
      BY <2>1, DiskFacts DEF Beginning
    <3>2. \A j \in 1 .. Len(disk) : disk'[j] = disk[j]
      BY <1>1, <2>1, <2>2, FileMade
    <3>3. QED BY <3>1, <3>2 DEF Source
  <2>4. /\ stamper'.step = "copy" /\ stamper'.input = stamper.input
        /\ stamper'.opened = stamper.opened
    BY <1>1, <2>1 DEF Stampers
  <2>5. Source' = Source
    BY <2>3, <2>4 DEF Source
  <2>6. /\ AtOpened /\ Source.file \in templates /\ stamper.opened.time <= Source.time
    BY <2>1 DEF TemplateRead, Beginning
  <2>7. AtOpened'
    BY <2>1, <2>4, <2>5, <2>6 DEF AtOpened, Whole, Still
  <2>8. stamper'.step \notin Bundling \union {"write"} \union Publishing
    BY <2>4, StepKinds
  <2>9. UNCHANGED <<templates, quiet, meddles>>
    BY <2>1
  <2>10. QED BY <1>1, <2>4, <2>5, <2>6, <2>7, <2>8, <2>9 DEF TemplateRead
<1>4. QED
  BY <1>2, <1>3, TemplateFailed

(* It is read once and again.                                               *)
LEMMA TemplateCopied ==
  ASSUME TypedStamp, TemplateRead, CopyFirst \/ CopyRest \/ HashFirst
  PROVE  TemplateRead'
<1>1. stamper \in Stampers
  BY DiskFacts
<1>2. stamper.step \in {"copy", "copy rest", "hash"} /\ UNCHANGED <<Files, templates, bundles>>
  BY DEF CopyFirst, CopyRest, HashFirst
<1>3. UNCHANGED <<disk, templates, quiet, meddles>>
  BY <1>2 DEF Files
<1>4. /\ Source.file \in templates /\ stamper.opened.time <= Source.time
      /\ quiet \in Nat /\ meddles \in Nat /\ quiet <= meddles
  BY <1>2 DEF TemplateRead, Beginning, TypedStamp, StampTypeOK
<1> DEFINE own == Source.file
           half == Upto(own.cells, Buffer)
           begun == [own EXCEPT !.cells = Upto(@, Buffer)]
<1>5. own \in Executables(Cells) /\ stamper.copy \in Executables(Cells)
  BY <1>1, <1>4 DEF TypedStamp, StampTypeOK, Stampers
<1>6. Like(begun, own, half)
  <2>1. begun = [own EXCEPT !.cells = half]
    OBVIOUS
  <2> HIDE DEF begun, half
  <2>2. QED BY <1>5, <2>1 DEF Like, Executables
<1>7. CASE CopyFirst
  <2>1. stamper.step = "copy"
        /\ stamper' = [[stamper EXCEPT !.step = "copy rest"] EXCEPT !.copy = begun]
    BY <1>7 DEF CopyFirst
  <2> HIDE DEF begun
  <2>2. /\ stamper'.step = "copy rest" /\ stamper'.copy = begun
        /\ stamper'.input = stamper.input /\ stamper'.opened = stamper.opened
    BY <1>1, <2>1 DEF Stampers
  <2>3. Source' = Source
    BY <1>3, <2>2, SameSource
  <2>4. AtOpened
    BY <2>1 DEF TemplateRead
  <2>5. PICK first \in templates : first = own
    BY <1>4
  <2>6. AtCopyRest(first)'
    BY <1>3, <1>6, <2>2, <2>3, <2>4, <2>5 DEF AtOpened, AtCopyRest, Whole, Still
  <2>7. stamper'.step \notin Bundling \union {"write"} \union Publishing
    BY <2>2, StepKinds
  <2>8. QED BY <1>3, <1>4, <2>2, <2>3, <2>5, <2>6, <2>7 DEF TemplateRead
<1>8. CASE CopyRest
  <2> DEFINE cells == stamper.copy.cells \o From(own.cells, Buffer)
             copy == [stamper.copy EXCEPT !.cells = cells]
  <2>1. stamper.step = "copy rest"
        /\ stamper' = [stamper EXCEPT !.step = "copied",
                                      !.copy.cells = @ \o From(own.cells, Buffer)]
    BY <1>8 DEF CopyRest
  <2>2. stamper' = [[stamper EXCEPT !.step = "copied"] EXCEPT !.copy = copy]
    BY <1>1, <2>1 DEF Stampers
  <2>3. Like(copy, stamper.copy, cells)
    <3> HIDE DEF cells
    <3>1. QED BY <1>5 DEF Like, Executables
  <2> HIDE DEF copy
  <2>4. /\ stamper'.step = "copied" /\ stamper'.copy = copy
        /\ stamper'.input = stamper.input /\ stamper'.opened = stamper.opened
    BY <1>1, <2>2 DEF Stampers
  <2>5. Source' = Source
    BY <1>3, <2>4, SameSource
  <2>6. PICK first \in templates : AtCopyRest(first)
    BY <2>1 DEF TemplateRead
  <2>7. cells = Joined(first.cells, own.cells, Buffer)
    BY <2>6 DEF AtCopyRest, Like, Joined
  <2> HIDE DEF cells
  <2>13. PICK second \in templates : second = own
    BY <1>4
  <2>8. Copied(first, second)'
    BY <2>3, <2>4, <2>6, <2>7, <2>13 DEF Copied, AtCopyRest, Like
  <2>9. AtCopied(first, second)'
    BY <1>3, <2>4, <2>5, <2>6, <2>8, <2>13 DEF AtCopied, AtCopyRest, Whole, Still
  <2>10. \E x, y \in templates' : AtCopied(x, y)'
    BY <1>3, <2>9
  <2>11. stamper'.step \notin Bundling \union {"write"} \union Publishing
    BY <2>4, StepKinds
  <2>12. QED BY <1>3, <1>4, <2>4, <2>5, <2>10, <2>11 DEF TemplateRead
<1>9. CASE HashFirst
  <2>1. stamper.step = "hash"
        /\ stamper' = [[stamper EXCEPT !.step = "hash rest"] EXCEPT !.hashed = begun]
    BY <1>9 DEF HashFirst
  <2> HIDE DEF begun
  <2>2. /\ stamper'.step = "hash rest" /\ stamper'.copy = stamper.copy /\ stamper'.hashed = begun
        /\ stamper'.input = stamper.input /\ stamper'.opened = stamper.opened
    BY <1>1, <2>1 DEF Stampers
  <2>3. Source' = Source
    BY <1>3, <2>2, SameSource
  <2>4. PICK first \in templates, second \in templates : AtHash(first, second)
    BY <2>1 DEF TemplateRead
  <2>5. Copied(first, second)' /\ (Whole(first) => Whole(first)') /\ (Whole(second) => Whole(second)')
    BY <2>2, <2>4 DEF AtHash, Copied, Whole
  <2>10. PICK third \in templates : third = own
    BY <1>4
  <2>6. AtHashRest(first, second, third)'
    BY <1>3, <1>6, <2>2, <2>3, <2>4, <2>5, <2>10 DEF AtHash, AtHashRest, Deceived
  <2>7. \E x, y, z \in templates' : AtHashRest(x, y, z)'
    BY <1>3, <2>6
  <2>8. stamper'.step \notin Bundling \union {"write"} \union Publishing
    BY <2>2, StepKinds
  <2>9. QED BY <1>3, <1>4, <2>2, <2>3, <2>7, <2>8 DEF TemplateRead
<1>10. QED
  BY <1>7, <1>8, <1>9

(* Its time and length, and then its digest, are compared.                  *)
LEMMA TemplateChecked ==
  ASSUME TypedStamp, TemplateRead, Recheck \/ HashRest
  PROVE  TemplateRead'
<1>1. stamper.step \in {"copied", "hash rest"}
  BY DEF Recheck, HashRest, Check
<1>2. /\ Source.file \in templates /\ stamper.opened.time <= Source.time
      /\ quiet \in Nat /\ meddles \in Nat /\ quiet <= meddles
  BY <1>1 DEF TemplateRead, Beginning, TypedStamp, StampTypeOK
<1>3. CASE Recheck /\ ~Fail
  <2>1. /\ stamper.step = "copied" /\ SourceUnchanged /\ stamper'.step = "hash"
        /\ Source' = Source /\ stamper'.copy = stamper.copy /\ stamper'.opened = stamper.opened
        /\ UNCHANGED <<templates, quiet, meddles>>
    BY <1>3, CheckedStep DEF Recheck
  <2>2. Still /\ Whole(Source.file)
    BY <2>1 DEF SourceUnchanged, Still, Whole
  <2>3. PICK first \in templates, second \in templates : AtCopied(first, second)
    BY <2>1 DEF TemplateRead
  <2>4. quiet = 0 \/ (quiet = 1 /\ meddles >= 1) \/ quiet >= 2
    BY <1>2
  <2>5. AtHash(first, second)
    BY <2>2, <2>3, <2>4 DEF AtCopied, AtHash, Deceived
  <2>6. AtHash(first, second)'
    BY <2>1, <2>5 DEF AtHash, Copied, Whole, Deceived
  <2>7. \E x, y \in templates' : AtHash(x, y)'
    BY <2>1, <2>6
  <2>8. stamper'.step \notin Bundling \union {"write"} \union Publishing
    BY <2>1, StepKinds
  <2>9. QED BY <1>2, <2>1, <2>7, <2>8 DEF TemplateRead
<1>4. CASE HashRest /\ ~Fail
  <2>5. Check("hash rest", CopyMatchesSource, "bundle") /\ ~Fail
    BY <1>4 DEF HashRest
  <2>1. /\ stamper.step = "hash rest" /\ CopyMatchesSource /\ stamper'.step = "bundle"
        /\ Source' = Source /\ stamper'.copy = stamper.copy /\ stamper'.opened = stamper.opened
        /\ UNCHANGED <<templates, quiet, meddles>>
    <3>1. stamper.step = "hash rest" /\ CopyMatchesSource
      BY <1>4 DEF HashRest, Check
    <3>2. PICK condition : condition = CopyMatchesSource
      OBVIOUS
    <3>3. Check("hash rest", condition, "bundle")
      BY <2>5, <3>2
    <3>4. QED BY <2>5, <3>1, <3>3, CheckedStep
  <2>2. OneVersion \/ Deceived
    BY <2>1, CopyHeld
  <2>3. (OneVersion \/ Deceived)'
    BY <2>1, <2>2 DEF OneVersion, Deceived
  <2>4. QED BY <1>2, <2>1, <2>3 DEF TemplateRead
<1>5. QED
  BY <1>3, <1>4, TemplateFailed

(* The reads of the bundle.                                                 *)
LEMMA BundleReads ==
  ASSUME TypedStamp, CopyBundleFirst \/ CopyBundleRest \/ HashBundleFirst \/ HashBundleRest, ~Fail
  PROVE  /\ stamper'.embedded = stamper.embedded /\ stamper'.copy = stamper.copy
         /\ stamper'.opened = stamper.opened /\ stamper'.bundleOpened = stamper.bundleOpened
         /\ Source' = Source /\ UNCHANGED <<bundle, templates, bundles, quiet, meddles>>
         /\ \/ /\ stamper.step = "bundle" /\ ~stamper.embedded /\ stamper'.step = "write"
               /\ stamper'.content = stamper.content
            \/ /\ stamper.step = "bundle" /\ stamper.embedded /\ stamper'.step = "bundle rest"
               /\ stamper'.content = Upto(bundle.cells, BundleBuffer)
            \/ /\ stamper.step = "bundle rest" /\ stamper'.step = "bundle copied"
               /\ stamper'.content = stamper.content \o From(bundle.cells, BundleBuffer)
            \/ /\ stamper.step = "bundle hash" /\ stamper'.step = "bundle hash rest"
               /\ stamper'.content = stamper.content
               /\ stamper'.rehashed = Upto(bundle.cells, BundleBuffer)
            \/ /\ stamper.step = "bundle hash rest" /\ stamper'.step = "bundle hashed"
               /\ stamper'.content = stamper.content
               /\ stamper'.rehashed = Upto(stamper.rehashed \o From(bundle.cells, BundleBuffer),
                                           stamper.bundleOpened.len)
<1> DEFINE first == Upto(bundle.cells, BundleBuffer)
           rest == From(bundle.cells, BundleBuffer)
           content == stamper.content \o rest
           rehashed == Upto(stamper.rehashed \o rest, stamper.bundleOpened.len)
<1>1. stamper \in Stampers
  BY DiskFacts
<1>2. /\ UNCHANGED <<Files, templates, bundles>>
      /\ \/ /\ stamper.step = "bundle" /\ ~stamper.embedded
            /\ stamper' = [stamper EXCEPT !.step = "write"]
         \/ /\ stamper.step = "bundle" /\ stamper.embedded
            /\ stamper' = [[stamper EXCEPT !.step = "bundle rest"] EXCEPT !.content = first]
         \/ /\ stamper.step = "bundle rest"
            /\ stamper' = [[stamper EXCEPT !.step = "bundle copied"] EXCEPT !.content = content]
         \/ /\ stamper.step = "bundle hash"
            /\ stamper' = [[stamper EXCEPT !.step = "bundle hash rest"] EXCEPT !.rehashed = first]
         \/ /\ stamper.step = "bundle hash rest"
            /\ stamper' = [[stamper EXCEPT !.step = "bundle hashed"] EXCEPT !.rehashed = rehashed]
  <2>1. CASE CopyBundleFirst
    BY <2>1 DEF CopyBundleFirst, Goto
  <2>2. CASE CopyBundleRest
    BY <2>2 DEF CopyBundleRest
  <2>3. CASE HashBundleFirst
    BY <2>3 DEF HashBundleFirst
  <2>4. CASE HashBundleRest
    BY <2>4 DEF HashBundleRest
  <2>5. QED BY <2>1, <2>2, <2>3, <2>4
<1> HIDE DEF first, content, rehashed
<1>3. /\ stamper'.embedded = stamper.embedded /\ stamper'.copy = stamper.copy
      /\ stamper'.opened = stamper.opened /\ stamper'.bundleOpened = stamper.bundleOpened
      /\ stamper'.input = stamper.input
      /\ \/ /\ stamper.step = "bundle" /\ ~stamper.embedded /\ stamper'.step = "write"
            /\ stamper'.content = stamper.content
         \/ /\ stamper.step = "bundle" /\ stamper.embedded /\ stamper'.step = "bundle rest"
            /\ stamper'.content = first
         \/ /\ stamper.step = "bundle rest" /\ stamper'.step = "bundle copied"
            /\ stamper'.content = content
         \/ /\ stamper.step = "bundle hash" /\ stamper'.step = "bundle hash rest"
            /\ stamper'.content = stamper.content /\ stamper'.rehashed = first
         \/ /\ stamper.step = "bundle hash rest" /\ stamper'.step = "bundle hashed"
            /\ stamper'.content = stamper.content /\ stamper'.rehashed = rehashed
  <2>1. CASE /\ stamper.step = "bundle" /\ ~stamper.embedded
            /\ stamper' = [stamper EXCEPT !.step = "write"]
    BY <1>1, <2>1 DEF Stampers
  <2>2. CASE /\ stamper.step = "bundle" /\ stamper.embedded
            /\ stamper' = [[stamper EXCEPT !.step = "bundle rest"] EXCEPT !.content = first]
    BY <1>1, <2>2 DEF Stampers
  <2>3. CASE /\ stamper.step = "bundle rest"
            /\ stamper' = [[stamper EXCEPT !.step = "bundle copied"] EXCEPT !.content = content]
    BY <1>1, <2>3 DEF Stampers
  <2>4. CASE /\ stamper.step = "bundle hash"
            /\ stamper' = [[stamper EXCEPT !.step = "bundle hash rest"] EXCEPT !.rehashed = first]
    BY <1>1, <2>4 DEF Stampers
  <2>5. CASE /\ stamper.step = "bundle hash rest"
            /\ stamper' = [[stamper EXCEPT !.step = "bundle hashed"] EXCEPT !.rehashed = rehashed]
    BY <1>1, <2>5 DEF Stampers
  <2>6. QED BY <1>2, <2>1, <2>2, <2>3, <2>4, <2>5
<1>4. UNCHANGED <<disk, bundle, templates, bundles, quiet, meddles>>
  BY <1>2 DEF Files
<1>5. Source' = Source
  BY <1>3, <1>4, SameSource
<1>6. QED
  BY <1>3, <1>4, <1>5 DEF first, content, rehashed

(* The changes other programs make.                                         *)
LEMMA MeddledFacts ==
  ASSUME TypedStamp, TemplateRead, Others, ~\E signature \in Signatures : Sign(signature)
  PROVE  /\ Active /\ stamper' = stamper /\ quiet' <= meddles'
         /\ stamper.step \notin Beginning => Meddled
         /\ bundles \subseteq bundles' /\ quiet' \in Nat
         /\ \/ UNCHANGED <<bundle, bundles>> /\ quiet' \in {quiet, quiet + 1}
            \/ /\ stamper.embedded => bundle'.cells \in bundles'
               /\ \/ bundle'.time = bundle.time /\ quiet' = quiet + 1
                  \/ bundle'.time = bundle.time + 1 /\ quiet' = quiet
<1>1. quiet \in Nat /\ meddles \in Nat /\ quiet <= meddles
  BY DEF TypedStamp, StampTypeOK, TemplateRead
<1>2. /\ stamper \in Stampers /\ disk \in Seq(Inodes) /\ binary \in 1 .. Len(disk)
      /\ bundle.time \in Nat
      /\ stamper.step \notin Beginning => stamper.input \in 1 .. Len(disk)
  BY DiskFacts
<1>3. stamper.step \notin Beginning => Source.file \in templates
  BY DEF TemplateRead
<1>4. ASSUME NEW silent \in BOOLEAN
      PROVE  \/ Ticks(silent) = 0 /\ (CountQuiet(silent) => quiet' = quiet + 1)
             \/ Ticks(silent) = 1 /\ (CountQuiet(silent) => quiet' = quiet)
  <2>1. CASE silent
    BY <1>1, <2>1 DEF Ticks, CountQuiet
  <2>2. CASE ~silent
    BY <1>1, <2>2 DEF Ticks, CountQuiet
  <2>3. QED BY <2>1, <2>2
<1>5. \A exe \in Builds : exe \in Executables(Cells)
  BY GivenFiles
<1>6. ASSUME NEW exe \in Builds, NEW silent \in BOOLEAN, OverwriteTemplate(exe, silent)
      PROVE  /\ Active /\ stamper' = stamper /\ quiet' <= meddles' /\ quiet' \in Nat
             /\ stamper.step \notin Beginning => Meddled
             /\ UNCHANGED <<bundle, bundles>> /\ quiet' \in {quiet, quiet + 1}
  <2> DEFINE ticks == Ticks(silent)
  <2>1. /\ Active /\ meddles' = meddles + 1 /\ stamper' = stamper
        /\ disk' = [disk EXCEPT ![binary] = [file |-> exe, time |-> @.time + ticks]]
        /\ CountQuiet(silent) /\ UNCHANGED <<bundle, bundles>>
        /\ templates' = IF stamper.input = binary THEN templates \union {exe} ELSE templates
    BY <1>6 DEF OverwriteTemplate, Meddle
  <2>2. \/ ticks = 0 /\ quiet' = quiet + 1
        \/ ticks = 1 /\ quiet' = quiet
    BY <1>4, <2>1
  <2> HIDE DEF ticks
  <2>3. ticks \in Nat
    BY <2>2
  <2>4. Changed(disk', disk, binary, exe) /\ disk'[binary].time = disk[binary].time + ticks
    BY <1>2, <1>5, <2>1, <2>3, FileReplaced
  <2>5. quiet' <= meddles' /\ quiet' \in {quiet, quiet + 1} /\ quiet' \in Nat
    BY <1>1, <2>1, <2>2
  <2>6. disk[binary].time \in Nat
    BY DiskFacts
  <2>7. ASSUME stamper.step \notin Beginning PROVE Meddled
    <3>1. CASE stamper.input = binary
      <4>1. /\ Source'.file = exe /\ Source'.time = Source.time + ticks /\ Source.time \in Nat
            /\ templates' = templates \union {exe}
        BY <2>1, <2>4, <2>6, <3>1 DEF Source, Changed
      <4>2. QED BY <1>1, <2>1, <2>2, <4>1 DEF Meddled
    <3>2. CASE stamper.input # binary
      <4>1. Source' = Source
        BY <1>2, <2>1, <2>4, <2>7, <3>2 DEF Source, Changed
      <4>2. templates' = templates
        BY <2>1, <3>2
      <4>3. QED BY <1>3, <2>1, <2>5, <2>7, <4>1, <4>2 DEF Meddled
    <3>3. QED BY <3>1, <3>2
  <2>8. QED BY <2>1, <2>5, <2>7
<1>7. ASSUME NEW exe \in Builds, ReplaceTemplate(exe) \/ ReplaceTemporary(exe)
      PROVE  /\ Active /\ stamper' = stamper /\ quiet' <= meddles'
             /\ stamper.step \notin Beginning => Meddled
             /\ UNCHANGED <<bundle, bundles, quiet>>
  <2>1. /\ Active /\ meddles' = meddles + 1
        /\ disk' = Append(disk, [file |-> exe, time |-> 0])
        /\ UNCHANGED <<stamper, bundle, bundles, templates, quiet>>
    BY <1>7 DEF ReplaceTemplate, ReplaceTemporary, Meddle
  <2>2. \A j \in 1 .. Len(disk) : disk'[j] = disk[j]
    BY <1>2, <1>5, <2>1, FileMade
  <2>3. ASSUME stamper.step \notin Beginning PROVE Meddled
    <3>1. Source' = Source
      BY <1>2, <2>1, <2>2, <2>3 DEF Source
    <3>2. QED BY <1>3, <2>1, <2>3, <3>1 DEF Meddled
  <2>4. QED BY <1>1, <2>1, <2>3
<1>8. ASSUME NEW cells \in Bundles, NEW silent \in BOOLEAN, OverwriteBundle(cells, silent)
      PROVE  /\ Active /\ stamper' = stamper /\ quiet' <= meddles' /\ quiet' \in Nat
             /\ stamper.step \notin Beginning => Meddled
             /\ bundles \subseteq bundles' /\ (stamper.embedded => bundle'.cells \in bundles')
             /\ \/ bundle'.time = bundle.time /\ quiet' = quiet + 1
                \/ bundle'.time = bundle.time + 1 /\ quiet' = quiet
  <2> DEFINE t == bundle.time + Ticks(silent)
  <2>1. /\ Active /\ meddles' = meddles + 1 /\ stamper' = stamper
        /\ bundle' = [cells |-> cells, time |-> t]
        /\ CountQuiet(silent) /\ UNCHANGED <<disk, templates>>
        /\ bundles' = IF stamper.embedded THEN bundles \union {cells} ELSE bundles
    BY <1>8 DEF OverwriteBundle, Meddle
  <2>2. \/ t = bundle.time /\ quiet' = quiet + 1
        \/ t = bundle.time + 1 /\ quiet' = quiet
    BY <1>2, <1>4, <2>1
  <2> HIDE DEF t
  <2>3. /\ bundle'.time = t /\ bundle'.cells = cells
        /\ bundles \subseteq bundles' /\ (stamper.embedded => bundle'.cells \in bundles')
    BY <2>1
  <2>4. quiet' <= meddles' /\ quiet' \in {quiet, quiet + 1} /\ quiet' \in Nat
    BY <1>1, <2>1, <2>2
  <2>5. ASSUME stamper.step \notin Beginning PROVE Meddled
    <3>1. Source' = Source
      BY <2>1, SameSource
    <3>2. QED BY <1>3, <2>1, <2>4, <2>5, <3>1 DEF Meddled
  <2>6. QED BY <2>1, <2>2, <2>3, <2>4, <2>5
<1>9. QED
  BY <1>1, <1>6, <1>7, <1>8 DEF Others

(* Every step keeps what is known of the copy.                              *)
LEMMA TemplateStep ==
  ASSUME TypedStamp, TemplateRead, [StampNext]_stampVars
  PROVE  TemplateRead'
<1>1. quiet \in Nat /\ meddles \in Nat /\ quiet <= meddles /\ stamper \in Stampers
  BY DiskFacts DEF TypedStamp, StampTypeOK, TemplateRead
<1>2. ASSUME NEW runtime \in Runtimes, NEW platform \in Platforms, NEW embedded \in BOOLEAN,
             BeginStamp(runtime, platform, embedded)
      PROVE  TemplateRead'
  <2>1. stamper'.step \in Beginning
    <3> DEFINE blank == Idle("begun")
               header == Header(runtime, platform)
    <3>1. blank \in Stampers /\ blank.step = "begun" /\ "begun" \in Beginning
          /\ Idle("failed").step \in Beginning
      BY Blank
    <3>2. \/ stamper' = Idle("failed")
          \/ stamper' = [[blank EXCEPT !.header = header] EXCEPT !.embedded = embedded]
      BY <1>2 DEF BeginStamp
    <3> HIDE DEF blank, header
    <3>3. QED BY <3>1, <3>2 DEF Stampers
  <2>2. quiet' = 0 /\ meddles' = meddles
    BY <1>2 DEF BeginStamp
  <2>3. QED BY <1>1, <2>1, <2>2, TemplateUnread
<1>3. ASSUME OpenBundle \/ CheckPersisted PROVE TemplateRead'
  <2>1. CASE OpenBundle
    <3> DEFINE opened == [len |-> Len(bundle.cells), time |-> bundle.time]
    <3>1. \/ stamper' = [[stamper EXCEPT !.step = "bundle opened"] EXCEPT !.bundleOpened = opened]
          \/ stamper' = [stamper EXCEPT !.step = "bundle opened"]
      BY <2>1 DEF OpenBundle, Goto
    <3> HIDE DEF opened
    <3>2. stamper'.step = "bundle opened"
      BY <1>1, <3>1 DEF Stampers
    <3>3. UNCHANGED <<quiet, meddles>>
      BY <2>1 DEF OpenBundle, Files
    <3>4. QED BY <1>1, <3>2, <3>3, TemplateUnread DEF Beginning
  <2>2. CASE CheckPersisted
    <3>1. stamper' = Idle(IF binary = stamper.output THEN "done" ELSE "failed")
          /\ UNCHANGED <<quiet, meddles>>
      BY <2>2 DEF CheckPersisted, Files
    <3>2. stamper'.step \in Beginning
      BY <3>1, Blank
    <3>3. QED BY <1>1, <3>1, <3>2, TemplateUnread
  <2>3. QED BY <1>3, <2>1, <2>2
<1>4. ASSUME CopyBundleFirst \/ CopyBundleRest \/ HashBundleFirst \/ HashBundleRest
      PROVE  TemplateRead'
  <2>1. CASE ~Fail
    <3>1. /\ stamper.step \in Bundling /\ stamper'.step \in Bundling \union {"write"}
          /\ stamper'.copy = stamper.copy /\ stamper'.opened = stamper.opened
          /\ Source' = Source /\ UNCHANGED <<templates, quiet, meddles>>
      BY <1>4, <2>1, BundleReads DEF Bundling
    <3>2. QED BY <3>1, TemplateWasRead
  <2>2. QED BY <2>1, TemplateFailed
<1>5. ASSUME RecheckBundle \/ RecheckHashedBundle \/ ReadBack \/ CheckTemporary \/ CheckTemplate
      PROVE  TemplateRead'
  <2>1. CASE ~Fail
    <3> DEFINE after == Bundling \union {"write"} \union Publishing
    <3>1. PICK from, condition, to :
            Check(from, condition, to) /\ from \in after /\ to \in after
      <4>1. CASE RecheckBundle
        BY <4>1 DEF RecheckBundle, Bundling
      <4>2. CASE RecheckHashedBundle
        BY <4>2 DEF RecheckHashedBundle, Bundling
      <4>3. CASE ReadBack
        BY <4>3 DEF ReadBack, Publishing
      <4>4. CASE CheckTemporary
        BY <4>4 DEF CheckTemporary, Publishing
      <4>5. CASE CheckTemplate
        BY <4>5 DEF CheckTemplate, Publishing
      <4>6. QED BY <1>5, <4>1, <4>2, <4>3, <4>4, <4>5
    <3>2. /\ stamper.step \in after /\ stamper'.step \in after
          /\ stamper'.copy = stamper.copy /\ stamper'.opened = stamper.opened
          /\ Source' = Source /\ UNCHANGED <<templates, quiet, meddles>>
      BY <2>1, <3>1, CheckedStep
    <3>3. QED BY <3>2, TemplateWasRead
  <2>2. QED BY <2>1, TemplateFailed
<1>6. ASSUME WriteStamp PROVE TemplateRead'
  <2> DEFINE exe == WriteRuntimeData(stamper.copy, stamper.header, stamper.content)
  <2>1. CASE ~Fail
    <3>1. /\ stamper.step = "write" /\ disk' = [disk EXCEPT ![stamper.output].file = exe]
          /\ stamper' = [stamper EXCEPT !.step = "read back"]
          /\ UNCHANGED <<templates, quiet, meddles>>
      BY <1>6, <2>1 DEF WriteStamp, Goto
    <3> HIDE DEF exe
    <3>2. /\ stamper'.step = "read back" /\ stamper'.input = stamper.input
          /\ stamper'.copy = stamper.copy /\ stamper'.opened = stamper.opened
      BY <1>1, <3>1 DEF Stampers
    <3>3. /\ stamper.input # stamper.output /\ stamper.input \in 1 .. Len(disk)
          /\ disk \in Seq(Inodes)
      BY <3>1 DEF TypedStamp, StampTypeOK, Placed, Beginning
    <3>4. disk'[stamper.input] = disk[stamper.input]
      <4> DEFINE new == [disk[stamper.output] EXCEPT !.file = exe]
                 i == stamper.input
                 o == stamper.output
      <4>1. disk' = [disk EXCEPT ![o] = new]
        BY <3>1
      <4> HIDE DEF new, o, i
      <4>2. i # o /\ i \in 1 .. Len(disk) /\ disk \in Seq(Inodes)
        BY <3>3 DEF i, o
      <4>3. disk'[i] = disk[i]
        BY <4>1, <4>2
      <4>4. QED BY <4>3 DEF i
    <3>5. Source' = Source
      BY <3>2, <3>4 DEF Source
    <3>6. QED BY <3>1, <3>2, <3>5, TemplateWasRead DEF Publishing
  <2>2. QED BY <2>1, TemplateFailed
<1>7. ASSUME Rename PROVE TemplateRead'
  <2>1. /\ stamper.step = "rename" /\ stamper' = [stamper EXCEPT !.step = "renamed"]
        /\ UNCHANGED <<disk, templates, quiet, meddles>>
    BY <1>7 DEF Rename, Goto
  <2>2. /\ stamper'.step = "renamed" /\ stamper'.input = stamper.input
        /\ stamper'.copy = stamper.copy /\ stamper'.opened = stamper.opened
    BY <1>1, <2>1 DEF Stampers
  <2>3. Source' = Source
    BY <2>1, <2>2, SameSource
  <2>4. QED BY <2>1, <2>2, <2>3, TemplateWasRead DEF Publishing
<1>8. ASSUME Others PROVE TemplateRead'
  <2>1. CASE \E signature \in Signatures : Sign(signature)
    <3>1. stamper.step = "done" /\ UNCHANGED <<stamper, quiet, meddles>>
      BY <2>1 DEF Sign
    <3>2. QED BY <1>1, <3>1, TemplateUnread DEF Beginning
  <2>2. CASE ~\E signature \in Signatures : Sign(signature)
    <3>1. /\ stamper' = stamper /\ quiet' <= meddles'
          /\ stamper.step \notin Beginning => Meddled
      BY <1>8, <2>2, MeddledFacts
    <3>2. QED BY <3>1, MeddledTemplate, TemplateUnread
  <2>3. QED BY <2>1, <2>2
<1>9. CASE UNCHANGED stampVars
  <2>1. UNCHANGED <<disk, stamper, templates, quiet, meddles>>
    BY <1>9 DEF stampVars
  <2>2. Source' = Source
    BY <2>1, SameSource
  <2>3. /\ AtOpened => AtOpened'
        /\ \A first : AtCopyRest(first) => AtCopyRest(first)'
        /\ \A first, second : AtCopied(first, second) => AtCopied(first, second)'
        /\ \A first, second : AtHash(first, second) => AtHash(first, second)'
        /\ \A first, second, third :
             AtHashRest(first, second, third) => AtHashRest(first, second, third)'
        /\ OneVersion \/ Deceived => (OneVersion \/ Deceived)'
    <3>1. AtOpened => AtOpened'
      BY <2>1, <2>2 DEF AtOpened, Whole, Still
    <3>2. ASSUME NEW first, AtCopyRest(first) PROVE AtCopyRest(first)'
      BY <2>1, <2>2, <3>2 DEF AtCopyRest, Whole, Still
    <3>3. ASSUME NEW first, NEW second, AtCopied(first, second) PROVE AtCopied(first, second)'
      BY <2>1, <2>2, <3>3 DEF AtCopied, Copied, Whole, Still
    <3>4. ASSUME NEW first, NEW second, AtHash(first, second) PROVE AtHash(first, second)'
      BY <2>1, <2>2, <3>4 DEF AtHash, Copied, Deceived, Whole, Still
    <3>5. ASSUME NEW first, NEW second, NEW third, AtHashRest(first, second, third)
          PROVE  AtHashRest(first, second, third)'
      BY <2>1, <2>2, <3>5 DEF AtHashRest, Copied, Deceived, Whole, Still
    <3>6. OneVersion \/ Deceived => (OneVersion \/ Deceived)'
      BY <2>1 DEF OneVersion, Deceived
    <3>7. QED BY <3>1, <3>2, <3>3, <3>4, <3>5, <3>6
  <2>4. /\ (\E first \in templates : AtCopyRest(first)) =>
              (\E first \in templates : AtCopyRest(first))'
        /\ (\E first, second \in templates : AtCopied(first, second)) =>
              (\E first, second \in templates : AtCopied(first, second))'
        /\ (\E first, second \in templates : AtHash(first, second)) =>
              (\E first, second \in templates : AtHash(first, second))'
        /\ (\E first, second, third \in templates : AtHashRest(first, second, third)) =>
              (\E first, second, third \in templates : AtHashRest(first, second, third))'
    BY <2>1, <2>3, Zenon
  <2>5. QED BY <2>1, <2>2, <2>3, <2>4 DEF TemplateRead
<1>10. QED
  BY <1>2, <1>3, <1>4, <1>5, <1>6, <1>7, <1>8, <1>9, TemplateOpening, TemplateCopied,
     TemplateChecked
  DEF StampNext, Stamper

-----------------------------------------------------------------------------
(* The bundle while it is read                                              *)

(* The bundle, whose time is compared again after it is hashed: only one    *)
(* overwrite that kept the time can have happened by then.                  *)
BundleStill == bundle.time = stamper.bundleOpened.time
WholeBundle(cells) == Len(cells) = stamper.bundleOpened.len

AtBundleOpened ==
  stamper.embedded /\ BundleStill /\ quiet = 0 => WholeBundle(bundle.cells)
AtBundleRest(first) ==
  /\ stamper.content = Upto(first, BundleBuffer)
  /\ BundleStill /\ quiet = 0 => first = bundle.cells /\ WholeBundle(bundle.cells)
  /\ BundleStill /\ quiet = 1 => first = bundle.cells \/ WholeBundle(first)
AtBundleCopied(first, second) ==
  /\ stamper.content = Joined(first, second, BundleBuffer)
  /\ BundleStill /\ quiet = 0 => first = second
  /\ BundleStill /\ quiet = 1 => first = second \/ (WholeBundle(first) /\ bundle.cells = second)
AtBundleHash ==
  BundleStill /\ quiet <= 1 =>
    stamper.content \in bundles \/ (quiet = 1 /\ WholeBundle(bundle.cells))
AtBundleHashRest ==
  BundleStill /\ quiet <= 1 =>
    \/ stamper.content \in bundles
    \/ /\ quiet = 1 /\ WholeBundle(bundle.cells)
       /\ stamper.rehashed = Upto(bundle.cells, BundleBuffer)
AtBundleHashed ==
  BundleStill /\ quiet <= 1 => stamper.content \in bundles \/ stamper.rehashed \in bundles

Unbundled == {"idle", "failed", "done", "begun"}
BundleAhead == {"bundle opened", "opened", "bundle"} \union Copying

BundleRead ==
  /\ stamper.step \notin Unbundled =>
       /\ stamper.embedded =>
            bundle.cells \in bundles /\ stamper.bundleOpened.time <= bundle.time
       /\ ~stamper.embedded => stamper.content = <<>> /\ <<>> \in bundles
  /\ stamper.step \in Bundling \ {"bundle"} => stamper.embedded
  /\ stamper.step = "begun" => stamper.content = <<>>
  /\ stamper.step \in BundleAhead => AtBundleOpened
  /\ stamper.step = "bundle rest" => \E first \in bundles : AtBundleRest(first)
  /\ stamper.step = "bundle copied" => \E first, second \in bundles : AtBundleCopied(first, second)
  /\ stamper.step = "bundle hash" => AtBundleHash
  /\ stamper.step = "bundle hash rest" => AtBundleHashRest
  /\ stamper.step = "bundle hashed" => AtBundleHashed
  /\ stamper.step \in {"write"} \union Publishing => stamper.content \in bundles \/ quiet >= 2

(* The steps by what BundleRead asks of them.                               *)
LEMMA BundleKinds ==
  /\ \A s \in Unbundled \union {"renamed"} :
       s \notin {"write"} \union BundleAhead \union Bundling \union Publishing
  /\ \A s \in BundleAhead : s \notin Unbundled \union {"write"} \union (Bundling \ {"bundle"})
                                       \union Publishing
  /\ \A s \in Bundling \ {"bundle"} : s \notin Unbundled \union {"write"} \union BundleAhead
                                        \union Publishing
  /\ \A s \in {"write"} \union Publishing : s \notin Unbundled \union Bundling \union BundleAhead
  /\ Bundling \ {"bundle"} =
       {"bundle rest", "bundle copied", "bundle hash", "bundle hash rest", "bundle hashed"}
  /\ Unbundled \subseteq Beginning /\ "renamed" \notin Unbundled
BY DEF Beginning, Copying, Bundling, Publishing, Unbundled, BundleAhead

(* A change by another program, which may be to the bundle.                 *)
BundleMeddled ==
  /\ stamper' = stamper /\ bundles \subseteq bundles' /\ quiet' \in Nat
  /\ \/ UNCHANGED <<bundle, bundles>> /\ quiet' \in {quiet, quiet + 1}
     \/ /\ stamper.embedded => bundle'.cells \in bundles'
        /\ \/ bundle'.time = bundle.time /\ quiet' = quiet + 1
           \/ bundle'.time = bundle.time + 1 /\ quiet' = quiet

(* Such a change keeps what is known of the bundle.                         *)
LEMMA MeddledBundle ==
  ASSUME TypedStamp, BundleRead, BundleMeddled
  PROVE  BundleRead'
<1> DEFINE step == stamper.step
<1>1. /\ quiet \in Nat /\ bundle.time \in Nat /\ stamper.bundleOpened.time \in Nat
  <2>1. quiet \in Nat /\ bundle.time \in Nat /\ stamper \in Stampers
    BY DiskFacts DEF TypedStamp, StampTypeOK
  <2>2. QED BY <2>1 DEF Stampers, Opened
<1>2. /\ stamper' = stamper /\ bundles \subseteq bundles' /\ quiet' \in Nat
      /\ \/ UNCHANGED <<bundle, bundles>> /\ quiet' \in {quiet, quiet + 1}
         \/ /\ stamper.embedded => bundle'.cells \in bundles'
            /\ \/ bundle'.time = bundle.time /\ quiet' = quiet + 1
               \/ bundle'.time = bundle.time + 1 /\ quiet' = quiet
  BY DEF BundleMeddled
<1>3. /\ BundleStill' /\ quiet' = 0 /\ stamper.bundleOpened.time <= bundle.time =>
           bundle' = bundle /\ BundleStill /\ quiet = 0
      /\ BundleStill' /\ quiet' = 1 /\ stamper.bundleOpened.time <= bundle.time =>
           \/ bundle' = bundle /\ BundleStill /\ quiet \in {0, 1}
           \/ BundleStill /\ quiet = 0
  BY <1>1, <1>2 DEF BundleStill
<1>4. ASSUME step \notin Unbundled
      PROVE  /\ stamper'.embedded =>
                  bundle'.cells \in bundles' /\ stamper'.bundleOpened.time <= bundle'.time
             /\ ~stamper'.embedded => stamper'.content = <<>> /\ <<>> \in bundles'
             /\ stamper.embedded => stamper.bundleOpened.time <= bundle.time
  <2>1. /\ stamper.embedded =>
             bundle.cells \in bundles /\ stamper.bundleOpened.time <= bundle.time
        /\ ~stamper.embedded => stamper.content = <<>> /\ <<>> \in bundles
    BY <1>4 DEF BundleRead
  <2>2. stamper.embedded => bundle'.cells \in bundles'
    BY <1>2, <2>1
  <2>3. QED BY <1>1, <1>2, <2>1, <2>2
<1>5. ASSUME step \in BundleAhead PROVE AtBundleOpened'
  <2>1. AtBundleOpened /\ step \notin Unbundled
    BY <1>5, BundleKinds DEF BundleRead
  <2>2. QED BY <1>2, <1>3, <1>4, <2>1 DEF AtBundleOpened, WholeBundle
<1>6. ASSUME step \in Bundling \ {"bundle"}
      PROVE  stamper.embedded /\ stamper.bundleOpened.time <= bundle.time
  BY <1>4, <1>6, BundleKinds DEF BundleRead
<1>7. ASSUME step = "bundle rest" PROVE \E first \in bundles' : AtBundleRest(first)'
  <2>1. PICK first \in bundles : AtBundleRest(first)
    BY <1>7 DEF BundleRead
  <2>2. stamper.bundleOpened.time <= bundle.time
    BY <1>6, <1>7, BundleKinds
  <2>3. AtBundleRest(first)'
    BY <1>2, <1>3, <2>1, <2>2 DEF AtBundleRest, WholeBundle
  <2>4. QED BY <1>2, <2>3
<1>8. ASSUME step = "bundle copied" PROVE \E x, y \in bundles' : AtBundleCopied(x, y)'
  <2>1. PICK first \in bundles, second \in bundles : AtBundleCopied(first, second)
    BY <1>8 DEF BundleRead
  <2>2. stamper.bundleOpened.time <= bundle.time
    BY <1>6, <1>8, BundleKinds
  <2>3. AtBundleCopied(first, second)'
    BY <1>2, <1>3, <2>1, <2>2 DEF AtBundleCopied, WholeBundle
  <2>4. QED BY <1>2, <2>3
<1>9. ASSUME step = "bundle hash" PROVE AtBundleHash'
  <2>1. AtBundleHash /\ stamper.bundleOpened.time <= bundle.time
    BY <1>6, <1>9, BundleKinds DEF BundleRead
  <2>2. QED BY <1>1, <1>2, <1>3, <2>1 DEF AtBundleHash, WholeBundle
<1>10. ASSUME step = "bundle hash rest" PROVE AtBundleHashRest'
  <2>1. AtBundleHashRest /\ stamper.bundleOpened.time <= bundle.time
    BY <1>6, <1>10, BundleKinds DEF BundleRead
  <2>2. QED BY <1>1, <1>2, <1>3, <2>1 DEF AtBundleHashRest, WholeBundle
<1>11. ASSUME step = "bundle hashed" PROVE AtBundleHashed'
  <2>1. AtBundleHashed /\ stamper.bundleOpened.time <= bundle.time
    BY <1>6, <1>11, BundleKinds DEF BundleRead
  <2>2. QED BY <1>1, <1>2, <1>3, <2>1 DEF AtBundleHashed
<1>12. ASSUME step \in {"write"} \union Publishing
       PROVE  stamper'.content \in bundles' \/ quiet' >= 2
  <2>1. stamper.content \in bundles \/ quiet >= 2
    BY <1>12 DEF BundleRead
  <2>2. QED BY <1>1, <1>2, <2>1
<1>13. QED
  BY <1>2, <1>4, <1>5, <1>6, <1>7, <1>8, <1>9, <1>10, <1>11, <1>12 DEF BundleRead

(* Before the bundle is opened there is nothing to keep.                    *)
LEMMA BundleUnread ==
  ASSUME \/ stamper'.step \in {"idle", "failed", "done"}
         \/ stamper'.step = "begun" /\ stamper'.content = <<>>
  PROVE  BundleRead'
<1>1. stamper'.step \in Unbundled
  BY DEF Unbundled
<1>2. stamper'.step \notin {"write"} \union BundleAhead \union Bundling \union Publishing
  BY <1>1, BundleKinds
<1>3. stamper'.step \notin Bundling \ {"bundle"}
  BY <1>2
<1>4. stamper'.step \notin
        {"bundle rest", "bundle copied", "bundle hash", "bundle hash rest", "bundle hashed"}
  BY <1>3, BundleKinds
<1>5. QED
  BY <1>1, <1>2, <1>4 DEF BundleRead

LEMMA BundleFailed ==
  ASSUME Fail
  PROVE  BundleRead'
<1>1. stamper'.step = "failed"
  BY Blank DEF Fail
<1>2. QED
  BY <1>1, BundleUnread

(* Steps that do not read the bundle.                                       *)
SameBundle ==
  /\ stamper'.embedded = stamper.embedded /\ stamper'.content = stamper.content
  /\ stamper'.rehashed = stamper.rehashed /\ stamper'.bundleOpened = stamper.bundleOpened
  /\ UNCHANGED <<bundle, bundles, quiet>>

(* They keep what is known of it.                                           *)
LEMMA BundleStays ==
  ASSUME BundleRead, SameBundle,
         \/ stamper.step \in BundleAhead /\ stamper'.step \in BundleAhead
         \/ /\ stamper.step \in {"write"} \union Publishing
            /\ stamper'.step \in {"write", "renamed"} \union Publishing
  PROVE  BundleRead'
<1>1. /\ stamper'.embedded = stamper.embedded /\ stamper'.content = stamper.content
      /\ stamper'.rehashed = stamper.rehashed /\ stamper'.bundleOpened = stamper.bundleOpened
      /\ UNCHANGED <<bundle, bundles, quiet>>
  BY DEF SameBundle
<1>2. stamper.step \notin Unbundled
  BY BundleKinds
<1>3. /\ stamper.embedded =>
           bundle.cells \in bundles /\ stamper.bundleOpened.time <= bundle.time
      /\ ~stamper.embedded => stamper.content = <<>> /\ <<>> \in bundles
  BY <1>2 DEF BundleRead
<1>4. /\ stamper'.step \notin Bundling \ {"bundle"}
      /\ stamper'.step \notin
           {"begun", "bundle rest", "bundle copied", "bundle hash", "bundle hash rest",
            "bundle hashed"}
  <2>1. stamper'.step \notin Bundling \ {"bundle"} /\ stamper'.step \notin Unbundled
    BY BundleKinds
  <2>2. stamper'.step # "begun"
    BY <2>1 DEF Unbundled
  <2>3. QED BY <2>1, <2>2, BundleKinds
<1>5. stamper'.step \in BundleAhead => AtBundleOpened'
  <2>1. ASSUME stamper'.step \in BundleAhead PROVE AtBundleOpened'
    <3>1. stamper.step \in BundleAhead
      <4>1. stamper'.step # "renamed"
        BY <2>1, BundleKinds
      <4>2. stamper'.step \notin {"write"} \union Publishing
        BY <2>1, BundleKinds
      <4>3. QED BY <4>1, <4>2
    <3>2. AtBundleOpened
      BY <3>1 DEF BundleRead
    <3>3. QED BY <1>1, <3>2 DEF AtBundleOpened, BundleStill, WholeBundle
  <2>2. QED BY <2>1
<1>6. stamper'.step \in {"write"} \union Publishing => (stamper'.content \in bundles' \/ quiet' >= 2)
  <2>1. ASSUME stamper'.step \in {"write"} \union Publishing
        PROVE  stamper'.content \in bundles' \/ quiet' >= 2
    <3>1. stamper.step \in {"write"} \union Publishing
      BY <2>1, BundleKinds
    <3>2. stamper.content \in bundles \/ quiet >= 2
      BY <3>1 DEF BundleRead
    <3>3. QED BY <1>1, <3>2
  <2>2. QED BY <2>1
<1>7. QED
  BY <1>1, <1>3, <1>4, <1>5, <1>6 DEF BundleRead

(* The bundle is opened.                                                    *)
LEMMA BundleOpening ==
  ASSUME TypedStamp, BundleRead, OpenBundle
  PROVE  BundleRead'
<1> DEFINE opened == [len |-> Len(bundle.cells), time |-> bundle.time]
<1>1. /\ stamper \in Stampers /\ stamper.step = "begun" /\ bundle.time \in Nat
      /\ UNCHANGED <<bundle, quiet>>
      /\ stamper.content = <<>>
  BY DiskFacts DEF OpenBundle, Files, BundleRead
<1>2. opened.len = Len(bundle.cells) /\ opened.time = bundle.time
  OBVIOUS
<1>3. \/ /\ stamper.embedded /\ bundles' = {bundle.cells}
         /\ stamper' = [[stamper EXCEPT !.step = "bundle opened"] EXCEPT !.bundleOpened = opened]
      \/ /\ ~stamper.embedded /\ bundles' = {<<>>}
         /\ stamper' = [stamper EXCEPT !.step = "bundle opened"]
  BY DEF OpenBundle, Goto
<1> HIDE DEF opened
<1>4. /\ stamper'.step = "bundle opened" /\ stamper'.embedded = stamper.embedded
      /\ stamper'.content = <<>>
      /\ \/ stamper.embedded /\ bundles' = {bundle.cells} /\ stamper'.bundleOpened = opened
         \/ ~stamper.embedded /\ bundles' = {<<>>}
  BY <1>1, <1>3 DEF Stampers
<1>5. AtBundleOpened'
  BY <1>1, <1>2, <1>4 DEF AtBundleOpened, WholeBundle
<1>6. /\ stamper'.embedded =>
           bundle'.cells \in bundles' /\ stamper'.bundleOpened.time <= bundle'.time
      /\ ~stamper'.embedded => stamper'.content = <<>> /\ <<>> \in bundles'
  <2>1. bundle' = bundle /\ bundle.time \in Nat /\ bundle.time <= bundle.time
    BY <1>1
  <2>2. CASE stamper.embedded
    <3>1. /\ bundle.cells \in bundles' /\ stamper'.bundleOpened.time = bundle.time
          /\ stamper'.embedded
      BY <1>2, <1>4, <2>2
    <3>2. QED BY <2>1, <3>1
  <2>3. CASE ~stamper.embedded
    <3>1. bundles' = {<<>>} /\ ~stamper'.embedded
      BY <1>4, <2>3
    <3>2. QED BY <1>4, <3>1
  <2>4. QED BY <2>2, <2>3
<1>7. stamper'.step \in BundleAhead
  BY <1>4 DEF BundleAhead
<1>8. stamper'.step \notin {"write"} \union (Bundling \ {"bundle"}) \union Publishing
  BY <1>7, BundleKinds
<1>9. QED
  BY <1>4, <1>5, <1>6, <1>8 DEF BundleRead

(* It is read once and again.                                               *)
LEMMA BundleCopied ==
  ASSUME TypedStamp, BundleRead, ~Fail,
         CopyBundleFirst \/ CopyBundleRest \/ HashBundleFirst \/ HashBundleRest
  PROVE  BundleRead'
<1>1. /\ stamper'.embedded = stamper.embedded
      /\ stamper'.bundleOpened = stamper.bundleOpened
      /\ UNCHANGED <<bundle, bundles, quiet>>
      /\ \/ /\ stamper.step = "bundle" /\ ~stamper.embedded /\ stamper'.step = "write"
            /\ stamper'.content = stamper.content
         \/ /\ stamper.step = "bundle" /\ stamper.embedded /\ stamper'.step = "bundle rest"
            /\ stamper'.content = Upto(bundle.cells, BundleBuffer)
         \/ /\ stamper.step = "bundle rest" /\ stamper'.step = "bundle copied"
            /\ stamper'.content = stamper.content \o From(bundle.cells, BundleBuffer)
         \/ /\ stamper.step = "bundle hash" /\ stamper'.step = "bundle hash rest"
            /\ stamper'.content = stamper.content
            /\ stamper'.rehashed = Upto(bundle.cells, BundleBuffer)
         \/ /\ stamper.step = "bundle hash rest" /\ stamper'.step = "bundle hashed"
            /\ stamper'.content = stamper.content
            /\ stamper'.rehashed = Upto(stamper.rehashed \o From(bundle.cells, BundleBuffer),
                                        stamper.bundleOpened.len)
  BY BundleReads
<1>2. stamper.step \in Bundling /\ stamper.step \notin Unbundled /\ stamper.step # "begun"
  <2>1. stamper.step \in Bundling
    BY <1>1 DEF Bundling
  <2>2. stamper.step \notin Unbundled
    BY <2>1, BundleKinds
  <2>3. QED BY <2>1, <2>2 DEF Unbundled
<1>3. /\ stamper.embedded =>
           bundle.cells \in bundles /\ stamper.bundleOpened.time <= bundle.time
      /\ ~stamper.embedded => stamper.content = <<>> /\ <<>> \in bundles
      /\ stamper.step # "bundle" => stamper.embedded
  BY <1>2 DEF BundleRead
<1>4. CASE stamper.step = "bundle" /\ ~stamper.embedded
  <2>1. stamper'.step = "write" /\ stamper'.content = <<>> /\ <<>> \in bundles'
    BY <1>1, <1>3, <1>4
  <2>2. stamper'.step \notin Bundling \union BundleAhead
    BY <2>1, BundleKinds
  <2>3. QED BY <1>1, <1>4, <2>1, <2>2 DEF BundleRead
<1>5. ASSUME stamper.step = "bundle" => stamper.embedded
      PROVE  /\ stamper'.embedded /\ bundle'.cells \in bundles'
             /\ stamper'.bundleOpened.time <= bundle'.time
             /\ stamper'.step \in Bundling \ {"bundle"}
             /\ stamper'.step \notin {"begun", "write"} \union BundleAhead \union Publishing
  <2>1. stamper'.step \in Bundling \ {"bundle"}
    BY <1>1, <1>5 DEF Bundling
  <2>2. stamper'.step \notin {"write"} \union BundleAhead \union Publishing \union Unbundled
    BY <2>1, BundleKinds
  <2>3. QED BY <1>1, <1>3, <1>5, <2>1, <2>2 DEF Unbundled
<1>6. CASE stamper.step = "bundle" /\ stamper.embedded
  <2>1. AtBundleOpened
    <3>1. stamper.step \in BundleAhead
      BY <1>6 DEF BundleAhead
    <3>2. QED BY <3>1 DEF BundleRead
  <2>2. PICK first \in bundles : first = bundle.cells
    BY <1>3, <1>6
  <2>3. stamper'.step = "bundle rest" /\ stamper'.content = Upto(first, BundleBuffer)
    BY <1>1, <1>6, <2>2
  <2>4. AtBundleRest(first)'
    BY <1>1, <1>6, <2>1, <2>2, <2>3 DEF AtBundleOpened, AtBundleRest, BundleStill, WholeBundle
  <2>5. \E x \in bundles' : AtBundleRest(x)'
    BY <1>1, <2>4
  <2>6. QED BY <1>5, <1>6, <2>3, <2>5 DEF BundleRead
<1>7. CASE stamper.step = "bundle rest"
  <2>1. PICK first \in bundles : AtBundleRest(first)
    BY <1>7 DEF BundleRead
  <2>2. PICK second \in bundles : second = bundle.cells
    BY <1>3, <1>7
  <2>3. stamper'.step = "bundle copied"
        /\ stamper'.content = stamper.content \o From(bundle.cells, BundleBuffer)
    BY <1>1, <1>7
  <2>4. stamper'.content = Joined(first, second, BundleBuffer)
    BY <2>1, <2>2, <2>3 DEF AtBundleRest, Joined
  <2>5. AtBundleCopied(first, second)'
    BY <1>1, <2>1, <2>2, <2>4 DEF AtBundleRest, AtBundleCopied, BundleStill, WholeBundle
  <2>6. \E x, y \in bundles' : AtBundleCopied(x, y)'
    BY <1>1, <2>5
  <2>7. QED BY <1>5, <1>7, <2>3, <2>6 DEF BundleRead
<1>8. CASE stamper.step = "bundle hash"
  <2>1. AtBundleHash
    BY <1>8 DEF BundleRead
  <2>2. /\ stamper'.step = "bundle hash rest" /\ stamper'.content = stamper.content
        /\ stamper'.rehashed = Upto(bundle.cells, BundleBuffer)
    BY <1>1, <1>8
  <2>3. AtBundleHashRest'
    BY <1>1, <2>1, <2>2 DEF AtBundleHash, AtBundleHashRest, BundleStill, WholeBundle
  <2>4. QED BY <1>5, <1>8, <2>2, <2>3 DEF BundleRead
<1>9. CASE stamper.step = "bundle hash rest"
  <2>1. AtBundleHashRest
    BY <1>9 DEF BundleRead
  <2>2. /\ stamper'.step = "bundle hashed" /\ stamper'.content = stamper.content
        /\ stamper'.rehashed = Upto(stamper.rehashed \o From(bundle.cells, BundleBuffer),
                                    stamper.bundleOpened.len)
    BY <1>1, <1>9
  <2>3. ASSUME WholeBundle(bundle.cells), stamper.rehashed = Upto(bundle.cells, BundleBuffer)
        PROVE  stamper'.rehashed = bundle.cells
    <3>1. stamper'.rehashed
            = Upto(Joined(bundle.cells, bundle.cells, BundleBuffer), Len(bundle.cells))
      BY <2>2, <2>3 DEF Joined, WholeBundle
    <3>2. bundle.cells \in Seq(Given) /\ BundleBuffer \in Nat
      BY DiskFacts, StampAssumption
    <3>3. Joined(bundle.cells, bundle.cells, BundleBuffer) = bundle.cells
      BY <3>2, JoinedSame
    <3>4. Upto(bundle.cells, Len(bundle.cells)) = bundle.cells
      BY <3>2, UptoLength
    <3>5. QED BY <3>1, <3>3, <3>4
  <2>4. AtBundleHashed'
    BY <1>1, <1>3, <1>9, <2>1, <2>2, <2>3 DEF AtBundleHashRest, AtBundleHashed, BundleStill
  <2>5. QED BY <1>5, <1>9, <2>2, <2>4 DEF BundleRead
<1>10. QED
  BY <1>1, <1>4, <1>6, <1>7, <1>8, <1>9

(* Its time and length, and then its digest, are compared.                  *)
LEMMA BundleFound ==
  ASSUME BundleUnchanged
  PROVE  BundleStill /\ WholeBundle(bundle.cells)
BY DEF BundleUnchanged, BundleStill, WholeBundle

LEMMA BundleAgrees ==
  ASSUME BundleStill, AtBundleHashed, quiet \in Nat, stamper.rehashed = stamper.content
  PROVE  stamper.content \in bundles \/ quiet >= 2
BY DEF AtBundleHashed

LEMMA BundleCompared ==
  ASSUME NEW first \in bundles, NEW second \in bundles, AtBundleCopied(first, second),
         first = second => stamper.content \in bundles, WholeBundle(bundle.cells),
         quiet \in Nat
  PROVE  AtBundleHash
BY DEF AtBundleCopied, AtBundleHash

LEMMA BundleChecked ==
  ASSUME TypedStamp, BundleRead, RecheckBundle \/ RecheckHashedBundle, ~Fail
  PROVE  BundleRead'
<1>1. stamper.step \in {"bundle copied", "bundle hashed"}
  BY DEF RecheckBundle, RecheckHashedBundle, Check
<1>2. stamper.step \in Bundling \ {"bundle"} /\ stamper.step \notin Unbundled
  BY <1>1, BundleKinds
<1>3. /\ stamper.embedded /\ bundle.cells \in bundles
      /\ stamper.bundleOpened.time <= bundle.time /\ quiet \in Nat
  BY <1>2 DEF BundleRead, TypedStamp, StampTypeOK
<1>4. CASE RecheckBundle
  <2>0. Check("bundle copied", BundleUnchanged, "bundle hash")
    BY <1>4 DEF RecheckBundle
  <2>1. BundleUnchanged
    BY <1>4 DEF RecheckBundle, Check
  <2>2. PICK condition : condition = BundleUnchanged
    OBVIOUS
  <2>3. /\ stamper.step = "bundle copied" /\ stamper'.step = "bundle hash"
        /\ stamper'.content = stamper.content /\ stamper'.embedded = stamper.embedded
        /\ stamper'.bundleOpened = stamper.bundleOpened
        /\ UNCHANGED <<bundle, bundles, quiet>>
    <3>1. Check("bundle copied", condition, "bundle hash")
      BY <2>0, <2>2
    <3>2. QED BY <3>1, CheckedStep
  <2>4. WholeBundle(bundle.cells)
    BY <2>1, BundleFound
  <2>5. PICK first \in bundles, second \in bundles : AtBundleCopied(first, second)
    BY <2>3 DEF BundleRead
  <2>6. first = second => stamper.content \in bundles
    <3>1. first \in Seq(Given) /\ BundleBuffer \in Nat
      BY StampAssumption DEF TypedStamp, StampTypeOK
    <3>2. Joined(first, first, BundleBuffer) = first
      BY <3>1, JoinedSame
    <3>3. QED BY <2>5, <3>2 DEF AtBundleCopied
  <2>7. AtBundleHash'
    <3>1. AtBundleHash
      BY <1>3, <2>4, <2>5, <2>6, BundleCompared
    <3>2. QED BY <2>3, <3>1 DEF AtBundleHash, BundleStill, WholeBundle
  <2>8. stamper'.step \notin {"write"} \union BundleAhead \union Publishing \union Unbundled
    BY <2>3, BundleKinds
  <2>9. QED BY <1>3, <2>3, <2>7, <2>8 DEF BundleRead
<1>5. CASE RecheckHashedBundle
  <2>0. /\ BundleUnchanged /\ stamper.rehashed = stamper.content
        /\ stamper.step = "bundle hashed"
    BY <1>5 DEF RecheckHashedBundle, Check
  <2>1. /\ stamper' = [stamper EXCEPT !.step = "write"]
        /\ UNCHANGED <<Files, templates, bundles>>
    BY <1>5 DEF RecheckHashedBundle, Check, Goto
  <2>2. /\ stamper'.step = "write"
        /\ stamper'.content = stamper.content /\ stamper'.embedded = stamper.embedded
        /\ stamper'.bundleOpened = stamper.bundleOpened
        /\ UNCHANGED <<bundle, bundles, quiet>>
    <3>1. stamper \in Stampers
      BY DiskFacts
    <3>2. QED BY <2>1, <3>1 DEF Stampers, Files
  <2>3. BundleStill
    BY <2>0, BundleFound
  <2>4. AtBundleHashed
    BY <2>0 DEF BundleRead
  <2>5. stamper.content \in bundles \/ quiet >= 2
    BY <1>3, <2>0, <2>3, <2>4, BundleAgrees
  <2>6. stamper'.step \notin Bundling \union BundleAhead \union Unbundled
    BY <2>2, BundleKinds
  <2>7. QED BY <1>3, <2>2, <2>5, <2>6 DEF BundleRead
<1>6. QED
  BY <1>4, <1>5

-----------------------------------------------------------------------------
(* The theorem about both                                                   *)

(* Every step keeps what is known of the bundle.                            *)
LEMMA BundleStep ==
  ASSUME TypedStamp, TemplateRead, BundleRead, [StampNext]_stampVars
  PROVE  BundleRead'
<1>1. stamper \in Stampers
  BY DiskFacts
<1>2. ASSUME NEW runtime \in Runtimes, NEW platform \in Platforms, NEW embedded \in BOOLEAN,
             BeginStamp(runtime, platform, embedded)
      PROVE  BundleRead'
  <2> DEFINE blank == Idle("begun")
             header == Header(runtime, platform)
  <2>1. blank \in Stampers /\ blank.step = "begun" /\ Idle("failed").step = "failed"
    BY Blank
  <2>2. blank.content = <<>>
    BY DEF Idle
  <2>3. \/ stamper' = Idle("failed")
        \/ stamper' = [[blank EXCEPT !.header = header] EXCEPT !.embedded = embedded]
    BY <1>2 DEF BeginStamp
  <2> HIDE DEF blank, header
  <2>4. \/ stamper'.step = "failed"
        \/ stamper'.step = "begun" /\ stamper'.content = <<>>
    BY <2>1, <2>2, <2>3 DEF Stampers
  <2>5. QED BY <2>4, BundleUnread
<1>3. ASSUME OpenTemplate \/ CreateTemporary \/ CopyFirst \/ CopyRest \/ HashFirst, ~Fail
      PROVE  BundleRead'
  <2> DEFINE begun == [Source.file EXCEPT !.cells = Upto(@, Buffer)]
             opened == [len |-> Len(disk[binary].file.cells), time |-> disk[binary].time]
             copy == [stamper.copy EXCEPT !.cells = @ \o From(Source.file.cells, Buffer)]
             output == Len(disk')
  <2>1. /\ stamper.step \in {"bundle opened", "opened", "copy", "copy rest", "hash"}
        /\ UNCHANGED <<bundle, bundles, quiet>>
    BY <1>3 DEF OpenTemplate, CreateTemporary, CopyFirst, CopyRest, HashFirst, Files
  <2>2. \/ stamper' = [[[stamper EXCEPT !.step = "opened"] EXCEPT !.input = binary]
                         EXCEPT !.opened = opened]
        \/ stamper' = [[stamper EXCEPT !.step = "copy"] EXCEPT !.output = output]
        \/ stamper' = [[stamper EXCEPT !.step = "copy rest"] EXCEPT !.copy = begun]
        \/ stamper' = [[stamper EXCEPT !.step = "copied"] EXCEPT !.copy = copy]
        \/ stamper' = [[stamper EXCEPT !.step = "hash rest"] EXCEPT !.hashed = begun]
    <3>1. CASE OpenTemplate
      BY <3>1 DEF OpenTemplate
    <3>2. CASE CreateTemporary
      BY <1>3, <3>2 DEF CreateTemporary
    <3>3. CASE CopyFirst
      BY <3>3 DEF CopyFirst
    <3>4. CASE CopyRest
      <4>1. stamper' = [stamper EXCEPT !.step = "copied",
                          !.copy.cells = @ \o From(Source.file.cells, Buffer)]
        BY <3>4 DEF CopyRest
      <4>2. QED BY <1>1, <4>1 DEF Stampers
    <3>5. CASE HashFirst
      BY <3>5 DEF HashFirst
    <3>6. QED BY <1>3, <3>1, <3>2, <3>3, <3>4, <3>5
  <2> HIDE DEF begun, opened, copy, output
  <2>3. /\ stamper'.embedded = stamper.embedded /\ stamper'.content = stamper.content
        /\ stamper'.rehashed = stamper.rehashed /\ stamper'.bundleOpened = stamper.bundleOpened
        /\ stamper'.step \in {"opened", "copy", "copy rest", "copied", "hash rest"}
    BY <1>1, <2>2 DEF Stampers
  <2>4. SameBundle
    BY <2>1, <2>3 DEF SameBundle
  <2>5. stamper.step \in BundleAhead /\ stamper'.step \in BundleAhead
    BY <2>1, <2>3 DEF BundleAhead, Copying
  <2>6. QED BY <2>4, <2>5, BundleStays
<1>4. ASSUME Recheck \/ HashRest \/ ReadBack \/ CheckTemporary \/ CheckTemplate, ~Fail
      PROVE  BundleRead'
  <2>1. PICK from, condition, to :
          /\ Check(from, condition, to)
          /\ \/ from \in BundleAhead /\ to \in BundleAhead
             \/ from \in Publishing /\ to \in Publishing
    <3>1. CASE Recheck
      BY <3>1 DEF Recheck, BundleAhead, Copying
    <3>2. CASE HashRest
      BY <3>2 DEF HashRest, BundleAhead, Copying
    <3>3. CASE ReadBack
      BY <3>3 DEF ReadBack, Publishing
    <3>4. CASE CheckTemporary
      BY <3>4 DEF CheckTemporary, Publishing
    <3>5. CASE CheckTemplate
      BY <3>5 DEF CheckTemplate, Publishing
    <3>6. QED BY <1>4, <3>1, <3>2, <3>3, <3>4, <3>5
  <2>2. /\ stamper.step = from /\ stamper'.step = to
        /\ stamper'.embedded = stamper.embedded /\ stamper'.content = stamper.content
        /\ stamper'.rehashed = stamper.rehashed /\ stamper'.bundleOpened = stamper.bundleOpened
        /\ UNCHANGED <<bundle, bundles, quiet>>
    BY <1>4, <2>1, CheckedStep
  <2>3. SameBundle
    BY <2>2 DEF SameBundle
  <2>4. QED BY <2>1, <2>2, <2>3, BundleStays
<1>5. ASSUME WriteStamp \/ Rename, ~Fail
      PROVE  BundleRead'
  <2>1. /\ stamper.step \in {"write", "rename"}
        /\ \/ stamper' = [stamper EXCEPT !.step = "read back"]
           \/ stamper' = [stamper EXCEPT !.step = "renamed"]
        /\ UNCHANGED <<bundle, bundles, quiet>>
    <3>1. CASE WriteStamp
      BY <1>5, <3>1 DEF WriteStamp, Goto
    <3>2. CASE Rename
      BY <3>2 DEF Rename, Goto
    <3>3. QED BY <1>5, <3>1, <3>2
  <2>2. /\ stamper'.embedded = stamper.embedded /\ stamper'.content = stamper.content
        /\ stamper'.rehashed = stamper.rehashed /\ stamper'.bundleOpened = stamper.bundleOpened
        /\ stamper'.step \in {"read back", "renamed"}
    BY <1>1, <2>1 DEF Stampers
  <2>3. SameBundle
    BY <2>1, <2>2 DEF SameBundle
  <2>4. /\ stamper.step \in {"write"} \union Publishing
        /\ stamper'.step \in {"write", "renamed"} \union Publishing
    BY <2>1, <2>2 DEF Publishing
  <2>5. QED BY <2>3, <2>4, BundleStays
<1>6. ASSUME CheckPersisted PROVE BundleRead'
  <2>1. stamper'.step \in {"done", "failed"}
    BY <1>6, Blank DEF CheckPersisted
  <2>2. QED BY <2>1, BundleUnread
<1>7. ASSUME Others PROVE BundleRead'
  <2>1. CASE \E signature \in Signatures : Sign(signature)
    <3>1. stamper'.step = "done"
      BY <2>1 DEF Sign
    <3>2. QED BY <3>1, BundleUnread
  <2>2. CASE ~\E signature \in Signatures : Sign(signature)
    <3>1. BundleMeddled
      BY <1>7, <2>2, MeddledFacts DEF BundleMeddled
    <3>2. QED BY <3>1, MeddledBundle
  <2>3. QED BY <2>1, <2>2
<1>8. CASE UNCHANGED stampVars
  <2>1. UNCHANGED <<stamper, bundle, bundles, quiet>> /\ quiet \in Nat
    BY <1>8 DEF stampVars, TypedStamp, StampTypeOK
  <2>2. BundleMeddled
    BY <2>1 DEF BundleMeddled
  <2>3. QED BY <2>2, MeddledBundle
<1>9. CASE Fail
  BY <1>9, BundleFailed
<1>10. CASE Stamper
  BY <1>2, <1>3, <1>4, <1>5, <1>6, <1>9, <1>10, BundleOpening, BundleCopied, BundleChecked
  DEF Stamper
<1>11. QED
  BY <1>7, <1>8, <1>10 DEF StampNext

(* At first nothing was read.                                               *)
LEMMA ReadsBegin ==
  ASSUME StampInit
  PROVE  TemplateRead /\ BundleRead
<1>1. stamper.step = "idle" /\ quiet = 0 /\ meddles = 0
  BY DEF StampInit, Idle
<1>2. stamper.step \in Beginning /\ stamper.step \in Unbundled /\ stamper.step # "begun"
  BY <1>1 DEF Beginning, Unbundled
<1>3. stamper.step \notin {"opened", "write"} \union Copying \union Bundling \union Publishing
  BY <1>2, StepKinds
<1>4. stamper.step \notin {"copy", "copy rest", "copied", "hash", "hash rest"}
  BY <1>3, StepKinds
<1>5. TemplateRead
  BY <1>1, <1>2, <1>3, <1>4 DEF TemplateRead
<1>6. /\ stamper.step \notin BundleAhead
      /\ stamper.step \notin
           {"bundle rest", "bundle copied", "bundle hash", "bundle hash rest", "bundle hashed"}
  BY <1>2, <1>3, BundleKinds
<1>7. BundleRead
  BY <1>2, <1>3, <1>6 DEF BundleRead
<1>8. QED
  BY <1>5, <1>7

(* A stamp is made of one version of the template, or of its beginning, and *)
(* of one of the bundle, whatever other programs write while append_to_binary*)
(* reads them, unless two overwrites keep the time or there are three.      *)
THEOREM StampsAreOneVersion == StampSpec => []StampIsOneVersion
<1>1. StampInit => TypedStamp /\ TemplateRead /\ BundleRead
  BY TypedInit, ReadsBegin
<1>2. ASSUME TypedStamp, TemplateRead, BundleRead, [StampNext]_stampVars
      PROVE  TypedStamp' /\ TemplateRead' /\ BundleRead'
  BY <1>2, TypedStep, TemplateStep, BundleStep
<1>3. ASSUME TypedStamp, TemplateRead, BundleRead PROVE StampIsOneVersion
  <2>1. ASSUME stamper.step \in Publishing, quiet < 2, meddles < 3
        PROVE  OneVersion /\ stamper.content \in bundles
    <3>1. quiet \in Nat /\ meddles \in Nat
      BY <1>3 DEF TypedStamp, StampTypeOK
    <3>2. OneVersion \/ Deceived
      BY <1>3, <2>1 DEF TemplateRead
    <3>3. stamper.content \in bundles \/ quiet >= 2
      BY <1>3, <2>1 DEF BundleRead
    <3>4. QED BY <2>1, <3>1, <3>2, <3>3 DEF Deceived
  <2>2. QED BY <2>1 DEF StampIsOneVersion, OneVersion, Publishing
<1>4. QED
  BY <1>1, <1>2, <1>3, PTL DEF StampSpec

-----------------------------------------------------------------------------
(* Installation ownership: what a stamped runtime records of itself         *)

(* What is constant about executables and names.                            *)
LEMMA Constants ==
  /\ FirstExe \in Exes /\ \A exe \in Exes : IdentityOf[exe] \in Identity
  /\ NONE \notin Exes /\ NONE \notin Paths /\ NONE \notin Labels /\ NONE \notin Instructions
BY OwnershipAssumption

(* An executable is replaced, never removed.                                *)
FilesStay == \A path \in Paths : file[path] \in Exes => file'[path] \in Exes

(* At first there is no installation and no process.                        *)
LEMMA InitCorrect == Init => IInv
<1> SUFFICES ASSUME Init PROVE IInv
  OBVIOUS
<1> USE Constants DEF Init
<1>1. rec.path = NONE /\ rec.label = NONE /\ rec.pending = NONE /\ rec \in Record
  BY DEF Record, Ownerships
<1>2. TypeOK
  BY <1>1 DEF TypeOK
<1>3. RecordInv /\ RecordedVersionIsStamped
  BY <1>1 DEF RecordInv, RecordedVersionIsStamped, initialized
<1>4. \A p \in Processes : ProcessInv(p)
  BY DEF ProcessInv
<1> QED
  BY <1>2, <1>3, <1>4 DEF IInv

(* What a process carries stays true while its file is there.               *)
LEMMA ProcessKept ==
  ASSUME IInv, FilesStay, NEW q \in Processes,
         pc'[q] = pc[q], running'[q] = running[q], stash'[q] = stash[q]
  PROVE  ProcessInv(q)'
<1>1. ProcessInv(q)
  BY DEF IInv
<1>2. pc[q] # "rest" => Path(q) \in Paths
  BY <1>1 DEF ProcessInv, Process, Path
<1> QED
  BY <1>1, <1>2 DEF FilesStay, ProcessInv, Path

(* What nobody touches stays.                                               *)
LEMMA UnchangedFilesStay ==
  ASSUME file' = file
  PROVE  FilesStay
BY DEF FilesStay

(* A step of one process.                                                   *)
LEMMA OneProcessMoves ==
  ASSUME IInv, NEW p \in Processes, FilesStay,
         \A q \in Processes \ {p} :
           pc'[q] = pc[q] /\ running'[q] = running[q] /\ stash'[q] = stash[q],
         TypeOK', RecordInv', RecordedVersionIsStamped', ProcessInv(p)'
  PROVE  IInv'
<1>1. \A q \in Processes \ {p} : ProcessInv(q)'
  BY ProcessKept
<1> QED
  BY <1>1 DEF IInv

(* A step with which a process ends.                                        *)
LEMMA EndsPreserves ==
  ASSUME IInv, NEW p \in Processes, Ends(p), FilesStay,
         file' \in [Paths -> Exes \union {NONE}], rec' \in Record,
         RecordInv', RecordedVersionIsStamped'
  PROVE  IInv'
<1>1. TypeOK'
  BY DEF IInv, TypeOK, Ends
<1>2. ProcessInv(p)'
  BY DEF IInv, TypeOK, Ends, ProcessInv
<1> QED
  BY <1>1, <1>2, OneProcessMoves DEF IInv, TypeOK, Ends

(* What says nothing of the record leaves what is known of it.              *)
LEMMA RecordKept ==
  ASSUME IInv, rec' = rec, FilesStay
  PROVE  rec' \in Record /\ RecordInv' /\ RecordedVersionIsStamped'
<1>1. initialized => rec.path \in Paths /\ rec.digest \in Exes
  BY DEF IInv, TypeOK, Record, RecordInv, initialized
<1> QED
  BY <1>1 DEF IInv, TypeOK, RecordInv, RecordedVersionIsStamped, initialized, FilesStay

(* A coordinated update that is resolved.                                   *)
LEMMA Resolves ==
  ASSUME IInv, rec.pending # NONE, ResolvePending
  PROVE  /\ file' \in [Paths -> Exes \union {NONE}] /\ rec' \in Record
         /\ FilesStay /\ RecordInv' /\ RecordedVersionIsStamped'
<1> USE DEF IInv
<1>1. /\ rec.path \in Paths /\ rec.digest \in Exes /\ rec.pending \in Exes
      /\ file[rec.path] \in Exes /\ rec \in Record /\ file \in [Paths -> Exes \union {NONE}]
      /\ IdentityOf[rec.pending] \in Identity
  BY Constants DEF TypeOK, RecordInv, Record, initialized
<1>2. CASE /\ file[rec.path] \in {rec.digest, rec.pending}
           /\ rec' = Installed
           /\ file' = [file EXCEPT ![rec.path] = rec.pending]
  <2>1. /\ rec' \in Record /\ rec'.path = rec.path /\ rec'.identity = IdentityOf[rec.pending]
        /\ rec'.digest = rec.pending /\ rec'.pending = NONE
    BY <1>1, <1>2 DEF Installed, Record
  <2>2. file' \in [Paths -> Exes \union {NONE}] /\ file'[rec.path] = rec.pending
    BY <1>1, <1>2
  <2>3. FilesStay
    BY <1>1, <1>2 DEF FilesStay
  <2>4. RecordInv' /\ RecordedVersionIsStamped'
    BY <1>1, <2>1, <2>2, Constants DEF RecordInv, RecordedVersionIsStamped, initialized
  <2> QED
    BY <2>1, <2>2, <2>3, <2>4
<1>3. CASE rec' = [rec EXCEPT !.pending = NONE] /\ UNCHANGED file
  <2>1. /\ rec' \in Record /\ rec'.path = rec.path /\ rec'.identity = rec.identity
        /\ rec'.digest = rec.digest /\ rec'.pending = NONE
    BY <1>1, <1>3 DEF Record
  <2>2. RecordInv' /\ RecordedVersionIsStamped'
    BY <1>1, <1>3, <2>1, Constants DEF RecordInv, RecordedVersionIsStamped, initialized
  <2> QED
    BY <1>1, <1>3, <2>1, <2>2, UnchangedFilesStay
<1> QED
  BY <1>2, <1>3 DEF ResolvePending

(* A record that a process writes for the executable it runs.               *)
LEMMA Replaces ==
  ASSUME IInv, NEW p \in Processes, pc[p] # "rest", file' = file,
         NEW asked \in Reading \union Request, NEW instruction \in Instructions \union {NONE},
         rec' = Replacement(p, asked, instruction), asked.path = Path(p),
         StampMatches(p, asked.path)
  PROVE  rec' \in Record /\ RecordInv' /\ RecordedVersionIsStamped'
<1>1. Path(p) \in Paths /\ Exe(p) \in Exes /\ file[Path(p)] \in Exes
  BY DEF IInv, ProcessInv, Process, Path, Exe
<1>2. /\ rec'.path = Path(p) /\ rec'.identity = IdentityOf[Exe(p)]
      /\ rec'.digest = file[Path(p)] /\ rec'.pending = NONE /\ rec' \in Record
  BY <1>1, Constants DEF Replacement, Record, Reading, Request, Ownerships
<1> QED
  BY <1>1, <1>2, Constants
  DEF RecordInv, RecordedVersionIsStamped, initialized, StampMatches

-----------------------------------------------------------------------------
(* Each step *)

(* A process starts from the executable at a path.                          *)
LEMMA InvokePreserves ==
  ASSUME IInv, NEW p \in Processes, NEW path \in Paths,
         Invoke(p, path) \/ InvokeRecordInstallation(p, path)
  PROVE  IInv'
<1>1. /\ file' = file /\ rec' = rec /\ stash' = stash /\ file[path] # NONE
      /\ running' = [running EXCEPT ![p] = [path |-> path, exe |-> file[path]]]
  BY DEF Invoke, InvokeRecordInstallation
<1>2. /\ [path |-> path, exe |-> file[path]] \in Process /\ file[path] \in Exes
      /\ running'[p] = [path |-> path, exe |-> file[path]]
  BY <1>1 DEF IInv, TypeOK, Process
<1>3. PICK l \in {"recover", "record"} : pc' = [pc EXCEPT ![p] = l]
  BY DEF Invoke, InvokeRecordInstallation
<1>4. TypeOK'
  BY <1>1, <1>2, <1>3 DEF IInv, TypeOK
<1>5. ProcessInv(p)'
  BY <1>1, <1>2, <1>3 DEF IInv, TypeOK, ProcessInv, Path
<1> QED
  BY <1>1, <1>3, <1>4, <1>5, UnchangedFilesStay, RecordKept, OneProcessMoves DEF IInv, TypeOK

(* A process goes on with what it was started from.                         *)
LEMMA MovesPreserves ==
  ASSUME IInv, NEW p \in Processes, NEW l \in {"initialize", "reconcile"}, pc[p] # "rest",
         Moves(p, l), UNCHANGED <<file, rec, stash>>
  PROVE  IInv'
<1>1. TypeOK'
  BY DEF IInv, TypeOK, Moves
<1>2. pc'[p] = l
  BY DEF IInv, TypeOK, Moves
<1>3. ProcessInv(p)'
  BY <1>2 DEF IInv, ProcessInv, Moves, Path
<1> QED
  BY <1>1, <1>3, UnchangedFilesStay, RecordKept, OneProcessMoves DEF IInv, TypeOK, Moves

(* A pending update is resolved, or left.                                   *)
LEMMA RecoverPendingPreserves ==
  ASSUME IInv, NEW p \in Processes, RecoverPending(p)
  PROVE  IInv'
<1>1. CASE Moves(p, "initialize") /\ UNCHANGED <<file, rec, stash>>
  BY <1>1, MovesPreserves DEF RecoverPending
<1>2. CASE rec.pending # NONE /\ ResolvePending /\ Ends(p)
  BY <1>2, Resolves, EndsPreserves
<1>3. CASE Ends(p) /\ UNCHANGED <<file, rec>>
  BY <1>3, UnchangedFilesStay, RecordKept, EndsPreserves DEF IInv, TypeOK
<1> QED
  BY <1>1, <1>2, <1>3 DEF RecoverPending

(* There may be nothing to reconcile.                                       *)
LEMMA InitializeCurrentPreserves ==
  ASSUME IInv, NEW p \in Processes, InitializeCurrent(p)
  PROVE  IInv'
<1>1. CASE Moves(p, "reconcile") /\ UNCHANGED <<file, rec, stash>>
  BY <1>1, MovesPreserves DEF InitializeCurrent
<1>2. CASE Ends(p) /\ UNCHANGED <<file, rec>>
  BY <1>2, UnchangedFilesStay, RecordKept, EndsPreserves DEF IInv, TypeOK
<1> QED
  BY <1>1, <1>2 DEF InitializeCurrent

(* The executable that is hashed lies where the running one was.             *)
LEMMA ReconcileCurrentPreserves ==
  ASSUME IInv, NEW p \in Processes, ReconcileCurrent(p)
  PROVE  IInv'
<1> DEFINE recorded == rec.label # NONE /\ initialized
           path == IF recorded THEN rec.path ELSE Path(p)
           carried == [ownership |-> rec.ownership, instruction |-> rec.instruction,
                       label |-> IF recorded THEN rec.label ELSE NONE,
                       path |-> path, digest |-> file[path]]
<1>1. CASE Ends(p)
  BY <1>1, UnchangedFilesStay, RecordKept, EndsPreserves DEF ReconcileCurrent, IInv, TypeOK
<1>2. CASE IsRunning(p, path) /\ stash' = [stash EXCEPT ![p] = carried] /\ Moves(p, "persist")
  <2>1. file' = file /\ rec' = rec /\ pc[p] = "reconcile"
    BY DEF ReconcileCurrent
  <2>2. /\ running[p] \in Process /\ file[Path(p)] \in Exes
        /\ Path(p) \in Paths /\ path = Path(p)
    BY <1>2, <2>1 DEF IInv, ProcessInv, Process, Path, IsRunning
  <2>3. carried \in Reading
    BY <2>2 DEF IInv, TypeOK, Record, Reading
  <2>4. /\ pc'[p] = "persist" /\ stash'[p] = carried /\ running' = running
        /\ carried.path = Path(p)
    BY <1>2, <2>2 DEF Moves, IInv, TypeOK
  <2>5. TypeOK'
    BY <1>2, <2>1, <2>3 DEF IInv, TypeOK, Moves
  <2>6. ProcessInv(p)'
    BY <2>1, <2>2, <2>3, <2>4 DEF ProcessInv, Path
  <2> QED
    BY <1>2, <2>1, <2>5, <2>6, UnchangedFilesStay, RecordKept, OneProcessMoves
    DEF IInv, TypeOK, Moves
<1> QED
  BY <1>1, <1>2 DEF ReconcileCurrent

(* What was hashed is recorded with the version that is stamped in it.      *)
LEMMA ReconcileCurrentExecutablePreserves ==
  ASSUME IInv, NEW p \in Processes, ReconcileCurrentExecutable(p)
  PROVE  IInv'
<1>1. pc[p] = "persist" /\ Ends(p) /\ file' = file
  BY DEF ReconcileCurrentExecutable
<1>2. /\ stash[p] \in Reading /\ stash[p].path = Path(p)
      /\ stash[p].instruction \in Instructions \union {NONE}
  BY <1>1 DEF IInv, ProcessInv, Reading
<1>3. rec' \in Record /\ RecordInv' /\ RecordedVersionIsStamped'
  <2>1. CASE CanReconcile(p)
    BY <1>1, <1>2, <2>1, Replaces DEF ReconcileCurrentExecutable, CanReconcile
  <2>2. CASE ~CanReconcile(p)
    BY <1>1, <2>2, RecordKept, UnchangedFilesStay DEF ReconcileCurrentExecutable
  <2> QED
    BY <2>1, <2>2
<1> QED
  BY <1>1, <1>3, EndsPreserves, UnchangedFilesStay DEF IInv, TypeOK

(* So is what an installer records.                                         *)
LEMMA RecordInstallationPreserves ==
  ASSUME IInv, NEW p \in Processes, NEW asked \in Request, RecordInstallation(p, asked)
  PROVE  IInv'
<1>1. pc[p] = "record" /\ Ends(p) /\ file' = file
  BY DEF RecordInstallation
<1>2. RequestedInstruction(asked) \in Instructions \union {NONE}
  BY DEF IInv, TypeOK, Request, Record, RequestedInstruction
<1>3. rec' \in Record /\ RecordInv' /\ RecordedVersionIsStamped'
  <2>1. CASE CanRecord(p, asked)
    <3>1. asked.path = Path(p) /\ StampMatches(p, asked.path)
      BY <2>1 DEF CanRecord, IsRunning
    <3>2. rec' = Replacement(p, asked, RequestedInstruction(asked))
      BY <2>1 DEF RecordInstallation
    <3> QED
      BY <1>1, <1>2, <3>1, <3>2, Replaces
  <2>2. CASE ~CanRecord(p, asked)
    BY <1>1, <2>2, RecordKept, UnchangedFilesStay DEF RecordInstallation
  <2> QED
    BY <2>1, <2>2
<1> QED
  BY <1>1, <1>3, EndsPreserves, UnchangedFilesStay DEF IInv, TypeOK

(* A step that is nobody's, with all processes where they are.              *)
LEMMA OutsideStep ==
  ASSUME IInv, FilesStay, UNCHANGED <<pc, running, stash>>,
         file' \in [Paths -> Exes \union {NONE}], rec' \in Record,
         RecordInv', RecordedVersionIsStamped'
  PROVE  IInv'
<1>1. \A p \in Processes : ProcessInv(p)'
  BY ProcessKept
<1>2. TypeOK'
  BY DEF IInv, TypeOK
<1> QED
  BY <1>1, <1>2 DEF IInv

(* A package manager or an installer replaces a file.                       *)
LEMMA InstallExternallyPreserves ==
  ASSUME IInv, NEW path \in Paths, NEW exe \in Exes, InstallExternally(path, exe)
  PROVE  IInv'
<1>1. FilesStay /\ file' \in [Paths -> Exes \union {NONE}]
  BY DEF FilesStay, InstallExternally, IInv, TypeOK
<1> QED
  BY <1>1, RecordKept, OutsideStep DEF InstallExternally

(* What is staged is recorded of a direct installation.                     *)
LEMMA StageCandidatePreserves ==
  ASSUME IInv, NEW exe \in Exes, StageCandidate(exe)
  PROVE  IInv'
<1>1. /\ rec' \in Record /\ rec'.path = rec.path /\ rec'.identity = rec.identity
      /\ rec'.digest = rec.digest /\ rec'.pending = exe /\ rec'.ownership = "direct"
      /\ file' = file /\ rec'.label = rec.label
  BY DEF StageCandidate, IInv, TypeOK, Record
<1>2. RecordInv' /\ RecordedVersionIsStamped'
  BY <1>1 DEF StageCandidate, IInv, RecordInv, RecordedVersionIsStamped, initialized
<1> QED
  BY <1>1, <1>2, UnchangedFilesStay, OutsideStep DEF StageCandidate, IInv, TypeOK

(* A coordinated update ends.                                               *)
LEMMA FinishUpdatePreserves ==
  ASSUME IInv, FinishUpdate
  PROVE  IInv'
BY Resolves, OutsideStep DEF FinishUpdate

-----------------------------------------------------------------------------
(* All steps *)

(* Every step preserves the invariant.                                      *)
LEMMA NextPreserves == IInv /\ [Next]_vars => IInv'
<1> SUFFICES ASSUME IInv, [Next]_vars PROVE IInv'
  OBVIOUS
<1>1. CASE UNCHANGED vars
  BY <1>1, UnchangedFilesStay, RecordKept, OutsideStep DEF vars, IInv, TypeOK
<1>2. ASSUME NEW p \in Processes, ProcessStep(p) PROVE IInv'
  BY <1>2, RecoverPendingPreserves, InitializeCurrentPreserves, ReconcileCurrentPreserves,
     ReconcileCurrentExecutablePreserves, RecordInstallationPreserves DEF ProcessStep
<1>3. ASSUME NEW p \in Processes, NEW path \in Paths,
             Invoke(p, path) \/ InvokeRecordInstallation(p, path)
      PROVE  IInv'
  BY <1>3, InvokePreserves
<1> QED
  BY <1>1, <1>2, <1>3, InstallExternallyPreserves, StageCandidatePreserves,
     FinishUpdatePreserves DEF Next

(* The invariant holds in every state.                                      *)
LEMMA Invariance == Spec => []IInv
BY InitCorrect, NextPreserves, PTL DEF Spec

-----------------------------------------------------------------------------

(* The variables have their types.                                          *)
THEOREM TypeCorrect == Spec => []TypeOK
<1>1. IInv => TypeOK
  BY DEF IInv
<1> QED
  BY <1>1, Invariance, PTL

(* Whatever the processes interleave and the package managers replace, the  *)
(* recorded version is the one stamped in the recorded executable.          *)
THEOREM VersionsAreStamped == Spec => []RecordedVersionIsStamped
<1>1. IInv => RecordedVersionIsStamped
  BY DEF IInv
<1> QED
  BY <1>1, Invariance, PTL

(* What can change the record, and into what.                               *)
LEMMA RecordChanges ==
  ASSUME IInv, Next, rec' # rec
  PROVE  \/ rec.pending # NONE /\ rec' \in {Installed, [rec EXCEPT !.pending = NONE]}
         \/ \E p \in Processes :
              \/ /\ ReconcileCurrentExecutable(p) /\ CanReconcile(p)
                 /\ rec' = Replacement(p, stash[p], stash[p].instruction)
              \/ \E asked \in Request :
                   /\ RecordInstallation(p, asked) /\ CanRecord(p, asked)
                   /\ rec' = Replacement(p, asked, RequestedInstruction(asked))
         \/ \E exe \in Exes : StageCandidate(exe)
<1>1. ASSUME NEW p \in Processes, ProcessStep(p)
      PROVE  \/ rec.pending # NONE /\ rec' \in {Installed, [rec EXCEPT !.pending = NONE]}
             \/ /\ ReconcileCurrentExecutable(p) /\ CanReconcile(p)
                /\ rec' = Replacement(p, stash[p], stash[p].instruction)
             \/ \E asked \in Request :
                  /\ RecordInstallation(p, asked) /\ CanRecord(p, asked)
                  /\ rec' = Replacement(p, asked, RequestedInstruction(asked))
  <2>1. CASE RecoverPending(p)
    BY <2>1 DEF RecoverPending, ResolvePending
  <2>2. CASE InitializeCurrent(p) \/ ReconcileCurrent(p)
    BY <2>2 DEF InitializeCurrent, ReconcileCurrent
  <2>3. CASE ReconcileCurrentExecutable(p)
    BY <2>3 DEF ReconcileCurrentExecutable
  <2>4. CASE \E asked \in Request : RecordInstallation(p, asked)
    BY <2>4 DEF RecordInstallation
  <2> QED
    BY <1>1, <2>1, <2>2, <2>3, <2>4 DEF ProcessStep
<1>2. CASE FinishUpdate
  BY <1>2 DEF FinishUpdate, ResolvePending
<1> QED
  BY <1>1, <1>2 DEF Next, Invoke, InvokeRecordInstallation, InstallExternally

(* What a process has when it writes the record.                            *)
LEMMA ReplacementIs ==
  ASSUME NEW p \in Processes, NEW asked \in Reading \union Request,
         NEW instruction \in Instructions \union {NONE}
  PROVE  LET new == Replacement(p, asked, instruction) IN
           /\ new.ownership = asked.ownership /\ new.label = asked.label
           /\ new.path = asked.path /\ new.instruction = instruction
           /\ new.identity = IdentityOf[Exe(p)] /\ new.digest = file[asked.path]
           /\ new.ownership \in {"direct", "external"}
BY DEF Reading, Request, Replacement, Ownerships

(* External stays external, and a confirmed installation keeps its label,   *)
(* its path and its instruction, unless an invocation writes what it has    *)
(* read before.                                                             *)
THEOREM InstallationsAreKept == Spec => InstallationIsKept
<1>1. IInv /\ [Next]_vars =>
        [\/ \E p \in Processes : ActsOnStaleReading(p)
         \/ /\ rec.ownership = "external" =>
                 /\ rec'.ownership = "external"
                 /\ rec.label # NONE =>
                      rec'.path = rec.path /\ rec'.instruction = rec.instruction
            /\ \/ rec.label \in {NONE, rec'.label}
               \/ rec.ownership = "direct" /\ rec'.ownership = "external"]_rec
  <2> SUFFICES ASSUME IInv, [Next]_vars, rec' # rec,
                      \A p \in Processes : ~ActsOnStaleReading(p)
               PROVE  /\ rec.ownership = "external" =>
                           /\ rec'.ownership = "external"
                           /\ rec.label # NONE =>
                                rec'.path = rec.path /\ rec'.instruction = rec.instruction
                      /\ \/ rec.label \in {NONE, rec'.label}
                         \/ rec.ownership = "direct" /\ rec'.ownership = "external"
    OBVIOUS
  <2>1. Next
    BY DEF vars
  <2>2. rec \in Record
    BY DEF IInv, TypeOK
  <2>3. CASE rec' \in {Installed, [rec EXCEPT !.pending = NONE]}
    <3>1. /\ rec'.ownership = rec.ownership /\ rec'.label = rec.label /\ rec'.path = rec.path
          /\ rec'.instruction = rec.instruction
      BY <2>2, <2>3 DEF Installed, Record
    <3> QED
      BY <3>1
  <2>4. ASSUME NEW p \in Processes, ReconcileCurrentExecutable(p), CanReconcile(p),
               rec' = Replacement(p, stash[p], stash[p].instruction)
        PROVE  /\ rec'.ownership = rec.ownership /\ rec'.label = rec.label
               /\ rec'.path = rec.path /\ rec'.instruction = rec.instruction
    <3>1. pc[p] = "persist" /\ pc'[p] = "rest"
      BY <2>4 DEF ReconcileCurrentExecutable, Ends, IInv, TypeOK
    <3>2. stash[p] \in Reading /\ stash[p].instruction \in Instructions \union {NONE}
      BY <3>1 DEF IInv, ProcessInv, Reading
    <3>3. /\ stash[p].ownership = rec.ownership /\ stash[p].label = rec.label
          /\ stash[p].path = rec.path /\ stash[p].instruction = rec.instruction
      BY <3>1 DEF ActsOnStaleReading
    <3> QED
      BY <2>4, <3>1, <3>2, <3>3, ReplacementIs
  <2>5. ASSUME NEW p \in Processes, NEW asked \in Request, CanRecord(p, asked),
               rec' = Replacement(p, asked, RequestedInstruction(asked))
        PROVE  /\ rec.ownership = "external" =>
                    /\ rec'.ownership = "external"
                    /\ rec.label # NONE =>
                         rec'.path = rec.path /\ rec'.instruction = rec.instruction
               /\ \/ rec.label \in {NONE, rec'.label}
                  \/ rec.ownership = "direct" /\ rec'.ownership = "external"
    <3>1. RequestedInstruction(asked) \in Instructions \union {NONE}
      BY <2>2 DEF Request, Record, RequestedInstruction
    <3>2. /\ rec'.ownership = asked.ownership /\ rec'.label = asked.label
          /\ rec'.path = asked.path /\ rec'.instruction = RequestedInstruction(asked)
      BY <2>5, <3>1, ReplacementIs
    <3> QED
      BY <2>5, <3>2 DEF CanRecord
  <2>6. ASSUME NEW exe \in Exes, StageCandidate(exe)
        PROVE  /\ rec'.ownership = rec.ownership /\ rec'.label = rec.label
               /\ rec'.path = rec.path /\ rec'.instruction = rec.instruction
    BY <2>2, <2>6 DEF StageCandidate, Record
  <2> QED
    BY <2>1, <2>3, <2>4, <2>5, <2>6, RecordChanges
<1> QED
  BY <1>1, Invariance, PTL DEF Spec, InstallationIsKept

(* Nothing but its resolution touches a pending update, and nothing but an  *)
(* update changes the executable of a confirmed direct installation.        *)
THEOREM UpdatesOnly == Spec => OnlyUpdatesTakeEffect
<1>1. IInv /\ [Next]_vars =>
        [/\ rec.pending # NONE => rec' \in {Installed, [rec EXCEPT !.pending = NONE]}
         /\ ConfirmedDirect =>
              \/ rec'.ownership = "external"
              \/ rec.pending # NONE /\ rec' = Installed
              \/ rec'.digest = rec.digest /\ rec'.identity = rec.identity /\ rec'.path = rec.path]_rec
  <2> SUFFICES ASSUME IInv, [Next]_vars, rec' # rec
               PROVE  /\ rec.pending # NONE => rec' \in {Installed, [rec EXCEPT !.pending = NONE]}
                      /\ ConfirmedDirect =>
                           \/ rec'.ownership = "external"
                           \/ rec.pending # NONE /\ rec' = Installed
                           \/ /\ rec'.digest = rec.digest /\ rec'.identity = rec.identity
                              /\ rec'.path = rec.path
    OBVIOUS
  <2>1. Next
    BY DEF vars
  <2>2. rec \in Record
    BY DEF IInv, TypeOK
  <2>3. CASE rec.pending # NONE /\ rec' \in {Installed, [rec EXCEPT !.pending = NONE]}
    BY <2>2, <2>3 DEF Record
  <2>4. ASSUME NEW p \in Processes, ReconcileCurrentExecutable(p), CanReconcile(p),
               rec' = Replacement(p, stash[p], stash[p].instruction)
        PROVE  rec.pending = NONE /\ ~ConfirmedDirect
    BY <2>4 DEF CanReconcile
  <2>5. ASSUME NEW p \in Processes, NEW asked \in Request, CanRecord(p, asked),
               rec' = Replacement(p, asked, RequestedInstruction(asked))
        PROVE  /\ rec.pending = NONE
               /\ ConfirmedDirect =>
                    \/ rec'.ownership = "external"
                    \/ /\ rec'.digest = rec.digest /\ rec'.identity = rec.identity
                       /\ rec'.path = rec.path
    <3>1. RequestedInstruction(asked) \in Instructions \union {NONE}
      BY <2>2 DEF Request, Record, RequestedInstruction
    <3>2. /\ rec'.ownership = asked.ownership /\ rec'.path = asked.path
          /\ rec'.identity = IdentityOf[Exe(p)] /\ rec'.digest = file[asked.path]
          /\ rec'.ownership \in {"direct", "external"}
      BY <2>5, <3>1, ReplacementIs
    <3> QED
      BY <2>5, <3>2 DEF CanRecord, ConfirmedDirect
  <2>6. ASSUME NEW exe \in Exes, StageCandidate(exe)
        PROVE  /\ rec.pending = NONE /\ rec'.digest = rec.digest
               /\ rec'.identity = rec.identity /\ rec'.path = rec.path
    BY <2>2, <2>6 DEF StageCandidate, Record
  <2> QED
    BY <2>1, <2>3, <2>4, <2>5, <2>6, RecordChanges
<1> QED
  BY <1>1, Invariance, PTL DEF Spec, OnlyUpdatesTakeEffect

(* A process that runs the executable of an external installation, as it is *)
(* now, finds what it needs to reconcile it.                                *)
LEMMA ReconcilesPresent ==
  ASSUME IInv, NEW p \in Processes, pc[p] \in {"initialize", "reconcile", "persist"},
         rec.ownership = "external", rec.label # NONE,
         running[p] = [path |-> rec.path, exe |-> file[rec.path]]
  PROVE  /\ initialized /\ rec.pending = NONE /\ ~ConfirmedDirect
         /\ Exe(p) = file[rec.path] /\ Path(p) = rec.path
         /\ pc[p] = "persist" => stash[p] \in Reading /\ stash[p].path = rec.path
BY DEF IInv, TypeOK, Record, RecordInv, ProcessInv, ConfirmedDirect, Exe, Path

(* An invocation of a package that was replaced brings version and build    *)
(* number up to date, and the digest with them when they were not, with any *)
(* number of other invocations and installers at work.                      *)
THEOREM ExternalsAreReconciled == Spec => ExternalIsReconciled
<1>1. IInv /\ [Next]_vars =>
        [\A p \in Processes :
           /\ pc[p] \in {"initialize", "reconcile", "persist"} /\ pc'[p] = "rest"
           /\ rec.ownership = "external" /\ rec.label # NONE
           /\ running[p] = [path |-> rec.path, exe |-> file[rec.path]]
           /\ pc[p] = "persist" => stash[p].digest = Exe(p)
           => /\ rec'.identity = IdentityOf[Exe(p)]
              /\ rec'.digest = Exe(p) \/ rec.identity = IdentityOf[Exe(p)]]_vars
  <2> SUFFICES ASSUME IInv, [Next]_vars, NEW p \in Processes,
                      pc[p] \in {"initialize", "reconcile", "persist"}, pc'[p] = "rest",
                      rec.ownership = "external", rec.label # NONE,
                      running[p] = [path |-> rec.path, exe |-> file[rec.path]],
                      pc[p] = "persist" => stash[p].digest = Exe(p)
               PROVE  /\ rec'.identity = IdentityOf[Exe(p)]
                      /\ rec'.digest = Exe(p) \/ rec.identity = IdentityOf[Exe(p)]
    OBVIOUS
  <2>1. InitializeCurrent(p) \/ ReconcileCurrent(p) \/ ReconcileCurrentExecutable(p)
    <3>1. \E q \in Processes : ProcessStep(q)
      BY DEF Next, vars, Invoke, InvokeRecordInstallation, InstallExternally, StageCandidate,
         FinishUpdate, IInv, TypeOK
    <3>2. PICK q \in Processes : ProcessStep(q)
      BY <3>1
    <3>3. q = p
      BY <3>2 DEF ProcessStep, RecoverPending, InitializeCurrent, ReconcileCurrent,
         ReconcileCurrentExecutable, RecordInstallation, Ends, Moves, IInv, TypeOK
    <3> QED
      BY <3>2, <3>3 DEF ProcessStep, RecoverPending, RecordInstallation
  <2>2. CASE InitializeCurrent(p)
    BY <2>2, ReconcilesPresent DEF InitializeCurrent, Moves, IInv, TypeOK
  <2>3. CASE ReconcileCurrent(p)
    BY <2>3, ReconcilesPresent DEF ReconcileCurrent, IsRunning, Moves, IInv, TypeOK
  <2>4. CASE ReconcileCurrentExecutable(p)
    <3>1. pc[p] = "persist"
      BY <2>4 DEF ReconcileCurrentExecutable
    <3>2. CanReconcile(p) /\ file[stash[p].path] = Exe(p)
      BY <3>1, ReconcilesPresent DEF CanReconcile, StampMatches
    <3>3. stash[p] \in Reading /\ stash[p].instruction \in Instructions \union {NONE}
      BY <3>1, ReconcilesPresent DEF Reading
    <3> QED
      BY <2>4, <3>1, <3>2, <3>3, ReplacementIs DEF ReconcileCurrentExecutable
  <2> QED
    BY <2>1, <2>2, <2>3, <2>4
<1> QED
  BY <1>1, Invariance, PTL DEF Spec, ExternalIsReconciled
=============================================================================
