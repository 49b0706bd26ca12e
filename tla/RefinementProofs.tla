-------------------------- MODULE RefinementProofs --------------------------
(***************************************************************************)
(* The storage engine implements DurableStore: what it starts with maps to *)
(* an initial state of the abstract store, and each of its steps to a step *)
(* of the store or to none.                                                *)
(***************************************************************************)
EXTENDS VerifyProofs, EngineRefinement

-----------------------------------------------------------------------------
(* What a power cut may leave. *)

(* The images of the first n cells, as the recursion in Images has them.   *)
Extended(medium, p, n) ==
    {Append(p, c) : c \in {c \in medium[n - 1] :
        n > 1 => (p[n - 1] = Eof => c = Eof)}}

PickStep(medium, pick, n) ==
    IF n = 0 THEN {<<>>}
    ELSE UNION {Extended(medium, p, n) : p \in pick[n - 1]}

Pick(medium) == CHOOSE pick : pick = [n \in 0 .. FileCap |-> PickStep(medium, pick, n)]

(* The same set, without recursion. *)
Prefixes(medium, n) ==
    {p \in [1 .. n -> Cell] :
        /\ \A i \in 1 .. n : p[i] \in medium[i - 1]
        /\ \A i \in 2 .. n : p[i - 1] = Eof => p[i] = Eof}

LEMMA ImagesArePicked ==
    ASSUME NEW m
    PROVE  Images(m) = {img \in {[o \in Offset |-> p[o + 1]] : p \in Pick(m)[FileCap]} :
                          IsImage(img, m)}
  BY DEF Images, Pick, PickStep, Extended

LEMMA PrefixesNone ==
    ASSUME NEW m
    PROVE  Prefixes(m, 0) = {<<>>}
<1>1. 1 .. 0 = {} /\ 2 .. 0 = {}
  OBVIOUS
<1>2. [1 .. 0 -> Cell] = {<<>>}
  <2>1. ASSUME NEW p \in [1 .. 0 -> Cell]
        PROVE  p = <<>>
    <3>1. p \in Seq(Cell) /\ Len(p) = 0
      BY <1>1
    <3> QED BY <3>1
  <2>2. <<>> \in [1 .. 0 -> Cell]
    BY <1>1
  <2> QED BY <2>1, <2>2
<1> QED
  BY <1>1, <1>2 DEF Prefixes

LEMMA PrefixesExtend ==
    ASSUME NEW m \in [Offset -> SUBSET Cell], NEW n \in 1 .. FileCap
    PROVE  Prefixes(m, n) = UNION {Extended(m, p, n) : p \in Prefixes(m, n - 1)}
<1>1. /\ n \in Nat /\ n - 1 \in Nat /\ n - 1 \in Offset /\ n >= 1
      /\ \A i \in 1 .. n - 1 : i \in 1 .. n
      /\ \A i \in 1 .. n : i \in 1 .. n - 1 \/ i = n
  BY ConstantTypes DEF Offset
<1>2. ASSUME NEW q \in Prefixes(m, n)
      PROVE  \E p \in Prefixes(m, n - 1) : q \in Extended(m, p, n)
  <2> DEFINE p == [i \in 1 .. n - 1 |-> q[i]]
  <2>1. /\ q \in [1 .. n -> Cell]
        /\ \A i \in 1 .. n : q[i] \in m[i - 1]
        /\ \A i \in 2 .. n : q[i - 1] = Eof => q[i] = Eof
    BY DEF Prefixes
  <2>2. p \in Prefixes(m, n - 1)
    BY <1>1, <2>1 DEF Prefixes
  <2>3. q = Append(p, q[n])
    <3>1. p \in Seq(Cell) /\ Len(p) = n - 1 /\ q \in Seq(Cell) /\ Len(q) = n
      BY <1>1, <2>1
    <3>2. Append(p, q[n]) = [i \in 1 .. n |-> IF i = n THEN q[n] ELSE p[i]]
      BY <1>1, <3>1
    <3>3. \A i \in 1 .. n : q[i] = IF i = n THEN q[n] ELSE p[i]
      BY <1>1
    <3> HIDE DEF p
    <3> QED BY <2>1, <3>2, <3>3
  <2>4. q[n] \in m[n - 1] /\ (n > 1 => (p[n - 1] = Eof => q[n] = Eof))
    BY <1>1, <2>1
  <2> HIDE DEF p
  <2> QED
    BY <2>2, <2>3, <2>4 DEF Extended
<1>3. ASSUME NEW p \in Prefixes(m, n - 1), NEW q \in Extended(m, p, n)
      PROVE  q \in Prefixes(m, n)
  <2>1. PICK c \in m[n - 1] : /\ n > 1 => (p[n - 1] = Eof => c = Eof)
                              /\ q = Append(p, c)
    BY DEF Extended
  <2>2. /\ p \in [1 .. n - 1 -> Cell] /\ c \in Cell
        /\ \A i \in 1 .. n - 1 : p[i] \in m[i - 1]
        /\ \A i \in 2 .. n - 1 : p[i - 1] = Eof => p[i] = Eof
    BY <1>1 DEF Prefixes
  <2>3. /\ q \in [1 .. n -> Cell]
        /\ q[n] = c /\ \A i \in 1 .. n - 1 : q[i] = p[i]
    <3>1. p \in Seq(Cell) /\ Len(p) = n - 1
      BY <1>1, <2>2
    <3>2. /\ q \in Seq(Cell) /\ Len(q) = n
          /\ q[n] = c /\ \A i \in 1 .. n - 1 : q[i] = p[i]
      BY <1>1, <2>1, <2>2, <3>1
    <3>3. q \in [1 .. n -> Cell]
      BY <1>1, <3>2
    <3> QED
      BY <3>2, <3>3
  <2>4. \A i \in 1 .. n : q[i] \in m[i - 1]
    BY <1>1, <2>2, <2>3
  <2>5. ASSUME NEW i \in 2 .. n, q[i - 1] = Eof
        PROVE  q[i] = Eof
    <3>1. CASE i = n
      BY <1>1, <2>1, <2>3, <2>5, <3>1
    <3>2. CASE i # n
      <4>1. i \in 2 .. n - 1 /\ i - 1 \in 1 .. n - 1 /\ i \in 1 .. n - 1
        BY <1>1, <3>2
      <4> QED BY <2>2, <2>3, <2>5, <4>1
    <3> QED BY <3>1, <3>2
  <2> QED
    BY <2>3, <2>4, <2>5 DEF Prefixes
<1> QED
  BY <1>2, <1>3

(* The recursion defines a function, and it reaches every prefix. *)
LEMMA PickEquation ==
    ASSUME NEW m \in [Offset -> SUBSET Cell]
    PROVE  \A n \in 0 .. FileCap : Pick(m)[n] = PickStep(m, Pick(m), n)
<1> DEFINE w == [n \in 0 .. FileCap |-> Prefixes(m, n)]
<1>1. ASSUME NEW n \in 0 .. FileCap
      PROVE  w[n] = PickStep(m, w, n)
  <2>1. CASE n = 0
    BY <2>1, PrefixesNone DEF PickStep
  <2>2. CASE n # 0
    <3>1. n \in 1 .. FileCap /\ n - 1 \in 0 .. FileCap
      BY <2>2, ConstantTypes
    <3>2. w[n - 1] = Prefixes(m, n - 1) /\ w[n] = Prefixes(m, n)
      BY <3>1
    <3> HIDE DEF w
    <3> QED BY <2>2, <3>1, <3>2, PrefixesExtend DEF PickStep
  <2> QED BY <2>1, <2>2
<1>2. w = [n \in 0 .. FileCap |-> PickStep(m, w, n)]
  <2>1. w = [n \in 0 .. FileCap |-> w[n]]
    OBVIOUS
  <2> HIDE DEF w
  <2> QED BY <1>1, <2>1
<1>3. Pick(m) = [n \in 0 .. FileCap |-> PickStep(m, Pick(m), n)]
  <2> HIDE DEF w
  <2> QED BY <1>2 DEF Pick
<1> QED
  BY <1>3

LEMMA PrefixesPicked ==
    ASSUME NEW m \in [Offset -> SUBSET Cell]
    PROVE  Prefixes(m, FileCap) \subseteq Pick(m)[FileCap]
<1> DEFINE T == {n \in 0 .. FileCap : ~(Prefixes(m, n) \subseteq Pick(m)[n])}
<1>1. 0 \notin T
  BY PickEquation, PrefixesNone, ConstantTypes DEF PickStep
<1>2. ASSUME NEW n \in 1 .. FileCap, Prefixes(m, n - 1) \subseteq Pick(m)[n - 1]
      PROVE  Prefixes(m, n) \subseteq Pick(m)[n]
  <2>1. Pick(m)[n] = UNION {Extended(m, p, n) : p \in Pick(m)[n - 1]}
    <3>1. n \in 0 .. FileCap /\ n # 0
      BY ConstantTypes
    <3>2. Pick(m)[n] = PickStep(m, Pick(m), n)
      BY <3>1, PickEquation
    <3> QED
      BY <3>1, <3>2 DEF PickStep
  <2> QED
    BY <1>2, <2>1, PrefixesExtend
<1>3. T = {}
  <2> SUFFICES ASSUME T # {} PROVE FALSE
    OBVIOUS
  <2>1. T \subseteq Nat
    BY ConstantTypes
  <2>2. PICK n \in T : \A k \in T : n <= k
    <3> HIDE DEF T
    <3> QED BY <2>1, LeastNat
  <2>3. n \in 1 .. FileCap /\ n - 1 \in 0 .. FileCap /\ n - 1 \notin T
    BY <1>1, <2>2, ConstantTypes
  <2> QED
    BY <1>2, <2>2, <2>3
<1> QED
  BY <1>3, ConstantTypes

(* Images holds exactly the files that are images of the medium.           *)
LEMMA ImagesAre ==
    ASSUME NEW m \in [Offset -> SUBSET Cell], NEW img
    PROVE  img \in Images(m) <=> img \in [Offset -> Cell] /\ IsImage(img, m)
<1>1. ASSUME img \in Images(m)
      PROVE  img \in [Offset -> Cell] /\ IsImage(img, m)
  <2>1. IsImage(img, m) /\ img = [o \in Offset |-> img[o]]
    BY <1>1, ImageShape
  <2>2. \A o \in Offset : img[o] \in Cell
    BY <2>1 DEF IsImage
  <2> QED
    BY <2>1, <2>2
<1>2. ASSUME img \in [Offset -> Cell], IsImage(img, m)
      PROVE  img \in Images(m)
  <2> DEFINE p == [i \in 1 .. FileCap |-> img[i - 1]]
  <2>1. p \in Prefixes(m, FileCap)
    <3>1. /\ \A i \in 1 .. FileCap : i - 1 \in Offset
          /\ \A i \in 2 .. FileCap : /\ i - 1 \in 1 .. FileCap /\ i \in 1 .. FileCap
                                     /\ i - 1 \in Offset \ {0}
      BY ConstantTypes DEF Offset
    <3>2. \A i \in 1 .. FileCap : p[i] \in Cell /\ p[i] \in m[i - 1]
      BY <1>2, <3>1 DEF IsImage
    <3>3. \A i \in 2 .. FileCap : p[i - 1] = Eof => p[i] = Eof
      <4> SUFFICES ASSUME NEW i \in 2 .. FileCap, p[i - 1] = Eof
                   PROVE  p[i] = Eof
        OBVIOUS
      <4>1. p[i - 1] = img[(i - 1) - 1] /\ p[i] = img[i - 1]
        BY <3>1
      <4> HIDE DEF p
      <4> QED BY <1>2, <3>1, <4>1 DEF IsImage
    <3> QED
      BY <3>2, <3>3 DEF Prefixes
  <2>2. img = [o \in Offset |-> p[o + 1]]
    <3>1. \A o \in Offset : o + 1 \in 1 .. FileCap /\ (o + 1) - 1 = o
      BY ConstantTypes DEF Offset
    <3> QED
      BY <1>2, <3>1
  <2> HIDE DEF p
  <2>3. p \in Pick(m)[FileCap]
    BY <2>1, PrefixesPicked
  <2> QED
    BY <1>2, <2>2, <2>3, ImagesArePicked
<1> QED
  BY <1>1, <1>2

-----------------------------------------------------------------------------
(* What open finds depends on the two slots alone, as long as every header *)
(* that may be there describes a log that is whole.                        *)

Reach(m) == CHOOSE n \in LogEnds(m) : \A k \in LogEnds(m) : k <= n

Kept(m) == [o \in Offset |-> IF o < Reach(m) THEN m[o] ELSE {Eof}]

(* Every header the medium m may hold leads to a log that f holds, and     *)
(* that is on the medium.                                                  *)
MediumWhole(f, m) ==
    \A s \in Slot : \A c \in m[s] :
        c.tag = "header" =>
            /\ HeaderWhole(f, c.header)
            /\ \A o \in LOG_START .. c.header.log_end - 1 : m[o] = {f[o]}

(* What open makes of a file with the slots of g and the logs of f. *)
Found(f, g) ==
    IF g[0] = Eof THEN NoDatabase
    ELSE IF g[1] # Eof /\ Valid(decode_slots(g)) # {}
    THEN Snapshot(f, load_index(f, LiveHeader(g)))
    ELSE Rejected

Pair(a, b) == [s \in Slot |-> IF s = 0 THEN a ELSE b]

LEMMA OutcomesKept ==
    ASSUME NEW m
    PROVE  Outcomes(m) = {Recovered(img) : img \in Images(Kept(m))}
  BY DEF Outcomes, Kept, Reach

LEMMA HeaderCellShape ==
    ASSUME NEW m \in [Offset -> SUBSET Cell], NEW s \in Slot, NEW c \in m[s],
           c.tag = "header"
    PROVE  /\ c \in Cell /\ c \in HeaderCell /\ c.header \in Header
           /\ c.header.log_end \in LOG_START .. FileCap
           /\ c.header.log_end \in Int
<1>1. c \in Cell
  BY ConstantTypes
<1>2. c \in HeaderCell
  BY <1>1 DEF Cell, HeaderCell, FrameCell, Word, Eof, Zero, Torn
<1>3. c.header \in Header
  BY <1>2 DEF HeaderCell
<1> QED
  BY <1>1, <1>2, <1>3, ConstantTypes DEF Header

(* The longest log of all is that of a header, or empty. *)
LEMMA ReachIs ==
    ASSUME NEW m \in [Offset -> SUBSET Cell]
    PROVE  /\ Reach(m) \in LOG_START .. FileCap /\ Reach(m) \in Int
           /\ \A s \in Slot : \A c \in m[s] :
                 c.tag = "header" => c.header.log_end <= Reach(m)
           /\ \/ Reach(m) = LOG_START
              \/ \E s \in Slot : \E c \in m[s] :
                    c.tag = "header" /\ c.header.log_end = Reach(m)
<1>1. LogEnds(m) \subseteq LOG_START .. FileCap /\ LOG_START \in LogEnds(m)
  BY HeaderCellShape, ConstantTypes DEF LogEnds
<1> DEFINE T == {FileCap - n : n \in LogEnds(m)}
<1>2. PICK k \in T : \A j \in T : k <= j
  <2>1. T \subseteq Nat /\ T # {}
    BY <1>1, ConstantTypes
  <2> HIDE DEF T
  <2> QED BY <2>1, LeastNat
<1>3. PICK n \in LogEnds(m) : k = FileCap - n
  BY <1>2
<1>4. \A j \in LogEnds(m) : j <= n
  <2> SUFFICES ASSUME NEW j \in LogEnds(m) PROVE j <= n
    OBVIOUS
  <2>1. FileCap - n <= FileCap - j
    BY <1>2, <1>3
  <2>2. j \in Int /\ n \in Int /\ FileCap \in Int
    BY <1>1, ConstantTypes
  <2> QED
    BY <2>1, <2>2
<1>5. Reach(m) \in LogEnds(m) /\ \A j \in LogEnds(m) : j <= Reach(m)
  BY <1>3, <1>4 DEF Reach
<1>6. \A s \in Slot : \A c \in m[s] :
         c.tag = "header" => c.header.log_end \in LogEnds(m)
  BY DEF LogEnds
<1>7. \/ Reach(m) = LOG_START
      \/ \E s \in Slot : \E c \in m[s] :
            c.tag = "header" /\ c.header.log_end = Reach(m)
  BY <1>5 DEF LogEnds
<1>8. Reach(m) \in LOG_START .. FileCap /\ Reach(m) \in Int
  BY <1>1, <1>5, ConstantTypes
<1> QED
  BY <1>5, <1>6, <1>7, <1>8

LEMMA FoundSame ==
    ASSUME NEW f, NEW g, NEW i, \A s \in Slot : g[s] = i[s]
    PROVE  Found(f, g) = Found(f, i)
<1>1. decode_slots(g) = decode_slots(i) /\ LiveHeader(g) = LiveHeader(i)
  BY LiveSame
<1>2. g[0] = i[0] /\ g[1] = i[1]
  BY ConstantTypes
<1> QED
  BY <1>1, <1>2 DEF Found

(* What open makes of a file that the medium may hold. *)
LEMMA FileFound ==
    ASSUME NEW f \in [Offset -> Cell], NEW m \in [Offset -> SUBSET Cell],
           MediumWhole(f, m), NEW g \in [Offset -> Cell],
           \A s \in Slot : g[s] \in m[s],
           \A o \in LOG_START .. Reach(m) - 1 : g[o] \in m[o]
    PROVE  Recovered(g) = Found(f, g)
<1> DEFINE h == LiveHeader(g)
<1>1. CASE g[0] = Eof
  BY <1>1 DEF Recovered, Found
<1>2. CASE g[0] # Eof /\ ~(g[1] # Eof /\ Valid(decode_slots(g)) # {})
  <2>1. ~Loadable(g)
    BY <1>2, ConstantTypes DEF Loadable
  <2> QED
    BY <1>2, <2>1 DEF Recovered, Found
<1>3. CASE g[0] # Eof /\ g[1] # Eof /\ Valid(decode_slots(g)) # {}
  <2>1. PICK s \in Slot : g[s].tag = "header" /\ g[s].header = h /\ h \in Header
    BY <1>3, LiveCell
  <2>2. g[s] \in m[s]
    OBVIOUS
  <2>3. /\ HeaderWhole(f, h)
        /\ \A o \in LOG_START .. h.log_end - 1 : m[o] = {f[o]}
    BY <2>1, <2>2 DEF MediumWhole
  <2>4. h.log_end \in LOG_START .. FileCap /\ h.log_end <= Reach(m) /\ Reach(m) \in Int
    BY <2>1, <2>2, ReachIs, HeaderCellShape
  <2>5. \A o \in LOG_START .. h.log_end - 1 : g[o] = f[o]
    <3> HIDE DEF h
    <3>1. \A o \in LOG_START .. h.log_end - 1 : o \in LOG_START .. Reach(m) - 1
      BY <2>4, ConstantTypes
    <3> QED
      BY <2>3, <3>1
  <2>6. /\ HeaderWhole(g, h)
        /\ Snapshot(g, load_index(g, h)) = Snapshot(f, load_index(f, h))
    BY <2>1, <2>3, <2>5, HeaderWholeStable
  <2>7. h.log_end - 1 \in Offset /\ g[h.log_end - 1] # Eof
    <3> HIDE DEF h
    <3>1. CASE h.log_end = LOG_START
      BY <1>3, <3>1, ConstantTypes DEF Offset
    <3>2. CASE h.log_end # LOG_START
      <4>1. h.log_end - 1 \in LOG_START .. h.log_end - 1 /\ h.log_end - 1 \in Offset
        BY <2>4, <3>2, ConstantTypes DEF Offset
      <4> QED
        BY <2>6, <4>1 DEF HeaderWhole
    <3> QED
      BY <3>1, <3>2
  <2>8. h.master_len = 0 \/ HasMaster(g, h.master_ptr)
    BY <2>6 DEF HeaderWhole, MasterWithin
  <2>9. Loadable(g)
    BY <1>3, <2>7, <2>8, ConstantTypes DEF Loadable
  <2> QED
    BY <1>3, <2>6, <2>9 DEF Recovered, Found
<1> QED
  BY <1>1, <1>2, <1>3

(* So what a power cut may leave is what a pair of slots may lead to.      *)
MayRemain(m, a, b) ==
    /\ a \in m[0] /\ b \in m[1]
    /\ a = Eof => b = Eof
    /\ Reach(m) > LOG_START => b # Eof

LEMMA OutcomesAre ==
    ASSUME NEW f \in [Offset -> Cell], NEW m \in [Offset -> SUBSET Cell],
           MediumWhole(f, m)
    PROVE  \A r : r \in Outcomes(m) <=>
              \E a, b : MayRemain(m, a, b) /\ r = Found(f, Pair(a, b))
<1>1. /\ Reach(m) \in LOG_START .. FileCap /\ Reach(m) \in Int
      /\ \A o \in Offset : Kept(m)[o] = IF o < Reach(m) THEN m[o] ELSE {Eof}
      /\ Kept(m) \in [Offset -> SUBSET Cell]
  BY ReachIs, SpecialCells DEF Kept
<1>2. \A o \in LOG_START .. Reach(m) - 1 : o \in Offset /\ m[o] = {f[o]} /\ f[o] # Eof
  <2>1. CASE Reach(m) = LOG_START
    BY <2>1, ConstantTypes
  <2>2. CASE Reach(m) # LOG_START
    <3>1. PICK s \in Slot : \E c \in m[s] : c.tag = "header" /\ c.header.log_end = Reach(m)
      BY <2>2, ReachIs
    <3>2. \A o \in LOG_START .. Reach(m) - 1 : m[o] = {f[o]} /\ f[o] # Eof
      BY <3>1 DEF MediumWhole, HeaderWhole
    <3> QED
      BY <1>1, <3>2, ConstantTypes DEF Offset
  <2> QED
    BY <2>1, <2>2
<1>3. /\ 0 \in Offset /\ 1 \in Offset /\ 0 \in Slot /\ 1 \in Slot
      /\ Kept(m)[0] = m[0] /\ Kept(m)[1] = m[1]
  BY <1>1, ConstantTypes
<1>4. ASSUME NEW img \in Images(Kept(m))
      PROVE  /\ MayRemain(m, img[0], img[1])
             /\ Recovered(img) = Found(f, Pair(img[0], img[1]))
  <2>1. img \in [Offset -> Cell] /\ IsImage(img, Kept(m))
    BY <1>1, <1>4, ImagesAre
  <2>2. \A o \in LOG_START .. Reach(m) - 1 : img[o] \in m[o]
    BY <1>1, <1>2, <2>1, ConstantTypes DEF IsImage
  <2>3. img[0] \in m[0] /\ img[1] \in m[1]
    BY <1>3, <2>1 DEF IsImage
  <2>4. img[0] = Eof => img[1] = Eof
    BY <1>3, <2>1 DEF IsImage
  <2>5. ASSUME Reach(m) > LOG_START
        PROVE  img[1] # Eof
    <3>1. 2 \in LOG_START .. Reach(m) - 1
      BY <1>1, <2>5, ConstantTypes
    <3>2. img[2] # Eof /\ 2 \in Offset
      BY <1>2, <2>2, <3>1
    <3>3. img[2 - 1] = Eof => img[2] = Eof
      BY <2>1, <3>2 DEF IsImage
    <3> QED
      BY <3>2, <3>3
  <2>6. \A s \in Slot : img[s] \in m[s]
    BY <2>3, ConstantTypes
  <2>7. Recovered(img) = Found(f, img)
    BY <2>1, <2>2, <2>6, FileFound
  <2>8. Found(f, img) = Found(f, Pair(img[0], img[1]))
    <3>1. \A s \in Slot : img[s] = Pair(img[0], img[1])[s]
      BY ConstantTypes DEF Pair
    <3> QED
      BY <3>1, FoundSame
  <2> QED
    BY <2>3, <2>4, <2>5, <2>7, <2>8 DEF MayRemain
<1>5. ASSUME NEW a, NEW b, MayRemain(m, a, b)
      PROVE  Found(f, Pair(a, b)) \in Outcomes(m)
  <2> DEFINE img == [o \in Offset |-> IF o = 0 THEN a ELSE IF o = 1 THEN b
                                      ELSE IF o < Reach(m) THEN f[o] ELSE Eof]
  <2>1. /\ a \in m[0] /\ b \in m[1] /\ a \in Cell /\ b \in Cell
        /\ a = Eof => b = Eof
        /\ Reach(m) > LOG_START => b # Eof
    BY <1>3, <1>5 DEF MayRemain
  <2>2. img \in [Offset -> Cell]
    BY <2>1, SpecialCells
  <2>3. /\ img[0] = a /\ img[1] = b
        /\ \A o \in Offset : o >= LOG_START =>
              img[o] = IF o < Reach(m) THEN f[o] ELSE Eof
    BY <1>3, ConstantTypes DEF Offset
  <2> HIDE DEF img
  <2>4. \A o \in Offset : o = 0 \/ o = 1 \/ o >= LOG_START
    BY ConstantTypes DEF Offset
  <2>5. \A o \in Offset : img[o] \in Kept(m)[o]
    <3> SUFFICES ASSUME NEW o \in Offset PROVE img[o] \in Kept(m)[o]
      OBVIOUS
    <3>1. CASE o = 0 \/ o = 1
      BY <1>3, <2>1, <2>3, <3>1
    <3>2. CASE o >= LOG_START
      <4>1. o < Reach(m) => o \in LOG_START .. Reach(m) - 1
        BY <1>1, <3>2, ConstantTypes DEF Offset
      <4> QED
        BY <1>1, <1>2, <2>3, <3>2, <4>1
    <3> QED
      BY <2>4, <3>1, <3>2
  <2>6. ASSUME NEW o \in Offset \ {0}, img[o - 1] = Eof
        PROVE  img[o] = Eof
    <3>1. CASE o = 1
      BY <2>1, <2>3, <2>6, <3>1
    <3>2. CASE o = 2
      <4>1. ~(Reach(m) > LOG_START)
        BY <2>1, <2>3, <2>6, <3>2
      <4> QED
        BY <1>1, <2>3, <3>2, <4>1, ConstantTypes
    <3>3. CASE o # 1 /\ o # 2
      <4>1. o - 1 \in Offset /\ o - 1 >= LOG_START /\ o >= LOG_START
        BY <3>3, ConstantTypes DEF Offset
      <4>2. ~(o - 1 < Reach(m))
        <5>1. o - 1 < Reach(m) => o - 1 \in LOG_START .. Reach(m) - 1
          BY <1>1, <4>1, ConstantTypes DEF Offset
        <5> QED
          BY <1>2, <2>3, <2>6, <4>1, <5>1
      <4>3. ~(o < Reach(m))
        BY <1>1, <4>2, ConstantTypes DEF Offset
      <4> QED
        BY <2>3, <4>1, <4>3
    <3> QED
      BY <3>1, <3>2, <3>3
  <2>7. img \in Images(Kept(m))
    <3>1. IsImage(img, Kept(m))
      BY <2>5, <2>6 DEF IsImage
    <3> QED
      BY <1>1, <2>2, <3>1, ImagesAre
  <2>8. Recovered(img) = Found(f, Pair(a, b))
    BY <1>4, <2>3, <2>7
  <2> QED
    BY <2>7, <2>8, OutcomesKept
<1> QED
  BY <1>4, <1>5, OutcomesKept

(* Of a file that is synced a power cut can leave only that file. *)
LEMMA SyncedOutcomes ==
    ASSUME NEW f \in [Offset -> Cell], NEW m \in [Offset -> SUBSET Cell],
           MediumWhole(f, m), \A o \in Offset : m[o] = {f[o]},
           f[0] = Eof => f[1] = Eof,
           Reach(m) > LOG_START => f[1] # Eof
    PROVE  Outcomes(m) = {Recovered(f)}
<1>1. 0 \in Offset /\ 1 \in Offset
  BY ConstantTypes
<1>2. \A a, b : MayRemain(m, a, b) <=> a = f[0] /\ b = f[1]
  BY <1>1 DEF MayRemain
<1>3. \A s \in Slot : f[s] = Pair(f[0], f[1])[s]
  BY ConstantTypes DEF Pair
<1>4. Found(f, f) = Found(f, Pair(f[0], f[1]))
  BY <1>3, FoundSame
<1>5. Recovered(f) = Found(f, f)
  <2>1. \A s \in Slot : f[s] \in m[s]
    BY ConstantTypes
  <2>2. \A o \in LOG_START .. Reach(m) - 1 : f[o] \in m[o]
    BY ReachIs, ConstantTypes DEF Offset
  <2> QED
    BY <2>1, <2>2, FileFound
<1>6. \A r : r \in Outcomes(m) <=> r = Recovered(f)
  BY <1>2, <1>4, <1>5, OutcomesAre
<1> QED
  BY <1>6

(* What the cells of a file lead to is the same in another file with the   *)
(* same logs.                                                              *)
LEMMA FoundStable ==
    ASSUME NEW f \in [Offset -> Cell], NEW g \in [Offset -> Cell],
           NEW m \in [Offset -> SUBSET Cell], MediumWhole(f, m),
           NEW i, \A s \in Slot : i[s] \in m[s],
           \A s \in Slot : \A c \in m[s] : c.tag = "header" =>
              \A o \in LOG_START .. c.header.log_end - 1 : g[o] = f[o]
    PROVE  Found(g, i) = Found(f, i)
<1>1. CASE Valid(decode_slots(i)) = {}
  BY <1>1 DEF Found
<1>2. CASE Valid(decode_slots(i)) # {}
  <2> DEFINE j == [o \in Offset |-> IF o \in Slot THEN i[o] ELSE Eof]
  <2>1. /\ j \in [Offset -> Cell]
        /\ \A s \in Slot : j[s] = i[s]
    BY SpecialCells, ConstantTypes
  <2> HIDE DEF j
  <2>2. decode_slots(j) = decode_slots(i) /\ LiveHeader(j) = LiveHeader(i)
    BY <2>1, LiveSame
  <2>3. PICK s \in Slot : j[s].tag = "header" /\ j[s].header = LiveHeader(j)
                          /\ LiveHeader(j) \in Header
    BY <1>2, <2>1, <2>2, LiveCell
  <2>4. j[s] \in m[s]
    BY <2>1
  <2>5. /\ HeaderWhole(f, LiveHeader(i))
        /\ \A o \in LOG_START .. LiveHeader(i).log_end - 1 : g[o] = f[o]
    BY <2>2, <2>3, <2>4 DEF MediumWhole
  <2>6. Snapshot(g, load_index(g, LiveHeader(i))) = Snapshot(f, load_index(f, LiveHeader(i)))
    BY <2>2, <2>3, <2>5, HeaderWholeStable
  <2> QED
    BY <2>6 DEF Found
<1> QED
  BY <1>1, <1>2

(* A database that open accepts is none of the two that are not one. *)
LEMMA SnapshotIsDatabase ==
    ASSUME NEW f \in [Offset -> Cell], NEW x \in MasterIndex
    PROVE  /\ Snapshot(f, x) \in Database
           /\ Snapshot(f, x) # NoDatabase /\ Snapshot(f, x) # Rejected
<1>1. ASSUME NEW id \in DocId
      PROVE  read_record(f, x, id) \in [kind : RecordKind, payload : Seq(Word)]
                                          \cup {Unreadable, Deleted, NotFound}
  <2>1. ASSUME NEW p, read_record_at(f, p) # Unreadable
        PROVE  read_record_at(f, p) \in [kind : RecordKind, payload : Seq(Word)]
    <3>1. /\ p \in Offset /\ decode_frame(f[p]).crc \in Seq(Word)
          /\ read_record_at(f, p) = [kind |-> decode_frame(f[p]).kind,
                                     payload |-> decode_frame(f[p]).crc]
      BY <2>1, RecordShape
    <3>2. decode_frame(f[p]) # Unreadable
      BY <2>1 DEF read_record_at
    <3>3. decode_frame(f[p]).kind \in RecordKind
      <4>1. f[p] \in Cell
        BY <3>1
      <4>2. CASE f[p].tag = "frame"
        <5>1. f[p] \in FrameCell
          BY <4>1, <4>2 DEF Cell, HeaderCell, Word, Eof, Zero, Torn
        <5> QED
          BY <4>2, <5>1 DEF FrameCell, decode_frame
      <4>3. CASE f[p].tag = "zero"
        BY <4>3 DEF decode_frame, RecordKind
      <4>4. CASE f[p].tag \notin {"frame", "zero"}
        BY <3>2, <4>4 DEF decode_frame
      <4> QED BY <4>2, <4>3, <4>4
    <3> QED
      BY <3>1, <3>3
  <2> QED
    BY <2>1 DEF read_record
<1>2. x.next_doc_id \in Nat
  BY ConstantTypes DEF MasterIndex
<1>3. Snapshot(f, x) \in Database
  BY <1>1, <1>2 DEF Snapshot, Database
<1> QED
  BY <1>3, RefinementAssumption

LEMMA EmptyDatabase ==
    ASSUME NEW f
    PROVE  Snapshot(f, DefaultIndex) = Store!Empty
  BY ConstantTypes DEF Snapshot, read_record, DefaultIndex, Known, NoOffset, Store!Empty

-----------------------------------------------------------------------------
(* The abstract state. *)

LEMMA AbstractFields ==
    ASSUME NEW open, NEW f, NEW m, NEW x, NEW h
    PROVE  LET a == Abstract(open, f, m, x, h)
           IN /\ a.up = open /\ a.base = Recovered(f) /\ a.outcomes = Outcomes(m)
              /\ a.view = IF open THEN Snapshot(f, x) ELSE Recovered(f)
              /\ a.live = IF open THEN Snapshot(f, load_index(f, h)) ELSE Recovered(f)
  BY DEF Abstract

(* What the engine's invariants say of the logs in the file. *)
EngineInv ==
    /\ TypeOK /\ RecoveryInv /\ CommitInv
    /\ MediumWhole(file, disk)

LEMMA LogsWhole == TypeOK /\ RecoveryInv /\ CommitInv => EngineInv
<1> SUFFICES ASSUME TypeOK, RecoveryInv, CommitInv,
                    NEW s \in Slot, NEW c \in disk[s], c.tag = "header"
             PROVE  /\ HeaderWhole(file, c.header)
                    /\ \A o \in LOG_START .. c.header.log_end - 1 : disk[o] = {file[o]}
  BY DEF EngineInv, MediumWhole
<1>1. FileTypeOK /\ FileInv /\ HeadersIndexed
  BY DEF TypeOK, RecoveryInv, CommitInv
<1>2. c.header \in Header /\ c.header.log_end \in LOG_START .. FileCap
  BY <1>1, CandidateType
<1>3. Supported(c.header) /\ IndexWithin(file, load_index(file, c.header), c.header.log_end)
  BY <1>1 DEF FileInv, HeadersSupported, HeadersIndexed
<1>4. HeaderWhole(file, c.header)
  BY <1>1, <1>2, <1>3, SupportedIsWhole
<1>5. \A o \in LOG_START .. c.header.log_end - 1 : o \in Offset /\ o \notin unsynced
  BY <1>2, <1>3, ConstantTypes DEF Supported, Offset
<1> QED
  BY <1>1, <1>4, <1>5 DEF FileInv, SyncedIsCached

LEMMA EngineTypes ==
    ASSUME EngineInv
    PROVE  /\ file \in [Offset -> Cell] /\ disk \in [Offset -> SUBSET Cell]
           /\ FileTypeOK /\ FileInv /\ MediumWhole(file, disk)
           /\ \A o \in Offset : file[o] \in disk[o]
           /\ \A s \in Slot : file[s] \in disk[s]
           /\ index \in MasterIndex /\ header \in Header
           /\ end \in LOG_START .. FileCap /\ end \in Int
           /\ Recovered(file) = Found(file, file)
<1>1. /\ file \in [Offset -> Cell] /\ disk \in [Offset -> SUBSET Cell]
      /\ FileTypeOK /\ FileInv /\ MediumWhole(file, disk)
      /\ \A o \in Offset : file[o] \in disk[o]
      /\ index \in MasterIndex /\ header \in Header
      /\ end \in LOG_START .. FileCap /\ end \in Int
  BY ConstantTypes DEF EngineInv, TypeOK, FileTypeOK, RecoveryInv, FileInv, SyncedIsCached
<1>2. \A s \in Slot : file[s] \in disk[s]
  BY <1>1, ConstantTypes
<1>3. \A o \in LOG_START .. Reach(disk) - 1 : file[o] \in disk[o]
  BY <1>1, ReachIs, ConstantTypes DEF Offset
<1> QED
  BY <1>1, <1>2, <1>3, FileFound

LEMMA EngineTypesNext ==
    ASSUME EngineInv'
    PROVE  /\ file' \in [Offset -> Cell] /\ disk' \in [Offset -> SUBSET Cell]
           /\ FileTypeOK' /\ FileInv' /\ MediumWhole(file', disk')
           /\ \A o \in Offset : file'[o] \in disk'[o]
           /\ \A s \in Slot : file'[s] \in disk'[s]
           /\ Recovered(file') = Found(file', file')
<1>1. /\ file' \in [Offset -> Cell] /\ disk' \in [Offset -> SUBSET Cell]
      /\ FileTypeOK' /\ FileInv' /\ MediumWhole(file', disk')
      /\ \A o \in Offset : file'[o] \in disk'[o]
  BY DEF EngineInv, TypeOK, FileTypeOK, RecoveryInv, FileInv, SyncedIsCached
<1>2. \A s \in Slot : file'[s] \in disk'[s]
  BY <1>1, ConstantTypes
<1>3. \A o \in LOG_START .. Reach(disk') - 1 : file'[o] \in disk'[o]
  <2>1. Reach(disk') \in LOG_START .. FileCap
    BY <1>1, ReachIs
  <2> QED
    BY <1>1, <2>1, ConstantTypes DEF Offset
<1> QED
  BY <1>1, <1>2, <1>3, FileFound

AbsIs == abs = Abstract(IsOpen, file, disk, index, header)

LEMMA AbsState ==
    ASSUME AbsIs
    PROVE  /\ abs.base = Recovered(file) /\ abs.outcomes = Outcomes(disk)
           /\ IsOpen => /\ abs.up = TRUE
                        /\ abs.view = Snapshot(file, index)
                        /\ abs.live = Snapshot(file, load_index(file, header))
           /\ ~IsOpen => /\ abs.up = FALSE
                         /\ abs.view = Recovered(file) /\ abs.live = Recovered(file)
<1>1. /\ abs.up = IsOpen /\ abs.base = Recovered(file) /\ abs.outcomes = Outcomes(disk)
      /\ abs.view = IF IsOpen THEN Snapshot(file, index) ELSE Recovered(file)
      /\ abs.live = IF IsOpen THEN Snapshot(file, load_index(file, header))
                    ELSE Recovered(file)
  BY AbstractFields DEF AbsIs
<1>2. IsOpen \in BOOLEAN
  BY DEF IsOpen
<1>3. CASE IsOpen
  BY <1>1, <1>2, <1>3
<1>4. CASE ~IsOpen
  BY <1>1, <1>2, <1>4
<1> QED
  BY <1>3, <1>4

LEMMA AbsStateNext ==
    ASSUME AbsIs'
    PROVE  /\ abs'.base = Recovered(file') /\ abs'.outcomes = Outcomes(disk')
           /\ IsOpen' => /\ abs'.up = TRUE
                         /\ abs'.view = Snapshot(file', index')
                         /\ abs'.live = Snapshot(file', load_index(file', header'))
           /\ ~IsOpen' => /\ abs'.up = FALSE
                          /\ abs'.view = Recovered(file') /\ abs'.live = Recovered(file')
<1>1. /\ abs'.up = IsOpen' /\ abs'.base = Recovered(file') /\ abs'.outcomes = Outcomes(disk')
      /\ abs'.view = IF IsOpen' THEN Snapshot(file', index') ELSE Recovered(file')
      /\ abs'.live = IF IsOpen' THEN Snapshot(file', load_index(file', header'))
                     ELSE Recovered(file')
  BY AbstractFields DEF AbsIs
<1>2. IsOpen' \in BOOLEAN
  BY DEF IsOpen
<1>3. CASE IsOpen'
  BY <1>1, <1>2, <1>3
<1>4. CASE ~IsOpen'
  BY <1>1, <1>2, <1>4
<1> QED
  BY <1>3, <1>4

(* What a step of the engine is for the abstract store. *)
StoreStep == [Store!Next]_(Store!vars)

(* A step that changes nothing the abstract state depends on. *)
LEMMA Stutters ==
    ASSUME AbsIs, AbsIs', IsOpen <=> IsOpen',
           Recovered(file') = Recovered(file), Outcomes(disk') = Outcomes(disk),
           IsOpen => /\ Snapshot(file', index') = Snapshot(file, index)
                     /\ Snapshot(file', load_index(file', header'))
                           = Snapshot(file, load_index(file, header))
    PROVE  StoreStep
  BY AbsState, AbsStateNext DEF StoreStep, Store!vars

LEMMA UnchangedStutters ==
    ASSUME AbsIs, AbsIs', IsOpen <=> IsOpen', UNCHANGED <<file, disk, index, header>>
    PROVE  StoreStep
  BY Stutters

-----------------------------------------------------------------------------
(* The steps, by what they are for the abstract store. *)

(* What is known of an open handle. *)
LEMMA OpenHandle ==
    ASSUME EngineInv, IsOpen
    PROVE  /\ HeaderWhole(file, header) /\ header.log_end \in Int /\ header.log_end <= end
           /\ IndexWithin(file, index, end) /\ HeadersWithin(end)
           /\ live_slot \in Slot /\ file[live_slot] = header_encode(header)
           /\ header_encode(header).tag = "header" /\ header_encode(header).header = header
           /\ file[0] # Eof /\ file[1] # Eof
<1>1. /\ TypeOK /\ RecoveryInv /\ CommitInv /\ FileTypeOK /\ header \in Header
      /\ HandleOpen /\ FileInv
  BY DEF EngineInv, RecoveryInv, HandleInv, TypeOK
<1>2. /\ live_slot \in Slot /\ file[live_slot] = header_encode(header)
      /\ HeadersWithin(end)
  BY <1>1 DEF HandleOpen, TypeOK
<1>3. header_encode(header).tag = "header" /\ header_encode(header).header = header
  BY DEF header_encode
<1>4. file[live_slot] \in disk[live_slot]
  BY <1>2, EngineTypes
<1>5. HeaderWhole(file, header) /\ header.log_end <= end
  BY <1>2, <1>3, <1>4, EngineTypes DEF MediumWhole, HeadersWithin
<1>6. header.log_end \in Int
  BY <1>1, ConstantTypes DEF Header
<1>7. IndexWithin(file, index, end) /\ file[1] # Eof
  BY <1>1, ConstantTypes DEF CommitInv, HandleIndexed, RegionInFile
<1>8. file[0] # Eof
  <2> SUFFICES ASSUME file[0] = Eof PROVE FALSE
    OBVIOUS
  <2>1. disk[0] = {Eof} /\ disk[1] = {Eof}
    BY <1>1 DEF FileInv, NewIsEmpty
  <2>2. file[live_slot] = Eof
    BY <1>2, <1>4, <2>1, ConstantTypes
  <2> QED
    BY <1>2, <1>3, <2>2 DEF Eof
<1> QED
  BY <1>2, <1>3, <1>5, <1>6, <1>7, <1>8

(* Writing at the end of the log, whole or in part, tells nothing to a     *)
(* handle that is opened later and nothing to one that is open.            *)
LEMMA LogWriteUnseen ==
    ASSUME EngineInv, EngineInv', IsOpen,
           NEW cells \in Seq(Cell), NEW k \in 0 .. Len(cells), WritePrefix(cells, k, end)
    PROVE  /\ Recovered(file') = Recovered(file) /\ Outcomes(disk') = Outcomes(disk)
           /\ Snapshot(file', index) = Snapshot(file, index)
           /\ Snapshot(file', load_index(file', header))
                 = Snapshot(file, load_index(file, header))
<1>1. TypeOK /\ FileTypeOK /\ FileTypeOK' /\ RecoveryInv
  BY DEF EngineInv, TypeOK
<1>2. /\ \A s \in Slot : disk'[s] = disk[s]
      /\ \A s \in Slot : \A c \in disk'[s] : c.tag = "header" =>
            \A o \in LOG_START .. c.header.log_end - 1 : file'[o] = file[o]
      /\ \A o \in LOG_START .. end - 1 : file'[o] = file[o]
  BY <1>1, AppendKeepsLogs
<1>3. \A s \in Slot : file'[s] = file[s]
  BY <1>1, OpenHandle, AppendKeepsFile DEF RecoveryInv
<1>4. Recovered(file') = Recovered(file)
  <2>1. Found(file', file') = Found(file', file)
    BY <1>3, FoundSame
  <2>2. Found(file', file) = Found(file, file)
    <3>1. \A s \in Slot : \A c \in disk[s] : c.tag = "header" =>
             \A o \in LOG_START .. c.header.log_end - 1 : file'[o] = file[o]
      BY <1>2
    <3> QED
      BY <3>1, EngineTypes, EngineTypesNext, FoundStable
  <2> QED
    BY <2>1, <2>2, EngineTypes, EngineTypesNext
<1>5. Outcomes(disk') = Outcomes(disk)
  <2>1. LogEnds(disk') = LogEnds(disk)
    <3>1. {disk'[s] : s \in Slot} = {disk[s] : s \in Slot}
      BY <1>2
    <3> QED
      BY <3>1 DEF LogEnds
  <2>2. Reach(disk') = Reach(disk)
    BY <2>1 DEF Reach
  <2>3. Reach(disk) <= end /\ Reach(disk) \in Int
    BY EngineTypes, ReachIs, OpenHandle, ConstantTypes DEF HeadersWithin
  <2>4. ASSUME NEW o \in Offset, o < Reach(disk)
        PROVE  disk'[o] = disk[o]
    <3>1. end \in Nat /\ end \in Int
      BY EngineTypes, ConstantTypes
    <3>2. o \notin end .. end + k - 1
      BY <2>3, <2>4, <3>1 DEF Offset
    <3>3. \A x \in Offset : x \notin end .. end + k - 1 => disk'[x] = disk[x]
      BY <1>1, <3>1, WriteEffect
    <3> QED
      BY <3>2, <3>3
  <2>5. Kept(disk') = Kept(disk)
    BY <2>2, <2>4 DEF Kept
  <2> QED
    BY <2>5, OutcomesKept
<1>6. Snapshot(file', index) = Snapshot(file, index)
  BY <1>2, EngineTypes, EngineTypesNext, OpenHandle, IndexStable
<1>7. Snapshot(file', load_index(file', header)) = Snapshot(file, load_index(file, header))
  <2>1. \A o \in LOG_START .. header.log_end - 1 : file'[o] = file[o]
    BY <1>2, EngineTypes, OpenHandle, ConstantTypes
  <2> QED
    BY <2>1, EngineTypes, EngineTypesNext, OpenHandle, HeaderWholeStable
<1> QED
  BY <1>4, <1>5, <1>6, <1>7

(* A sync leaves one thing to find. *)
LEMMA SyncSettles ==
    ASSUME EngineInv, EngineInv', file[0] # Eof, file[1] # Eof, sync_data
    PROVE  file' = file /\ Outcomes(disk') = {Recovered(file')}
<1>1. file' = file
  BY DEF sync_data
<1>2. \A o \in Offset : disk'[o] = {file'[o]}
  BY EngineTypes DEF sync_data, FileInv, SyncedIsCached
<1> QED
  BY <1>1, <1>2, EngineTypesNext, SyncedOutcomes

(* append_raw, and its failure. *)
LEMMA RecordUnseen ==
    ASSUME EngineInv, EngineInv', IsOpen,
           NEW kind \in RecordKind, NEW payload \in Seq(Word),
           append_raw(kind, payload) \/ append_raw_error(kind, payload)
    PROVE  /\ Recovered(file') = Recovered(file) /\ Outcomes(disk') = Outcomes(disk)
           /\ Snapshot(file', index) = Snapshot(file, index)
           /\ Snapshot(file', load_index(file', header))
                 = Snapshot(file, load_index(file, header))
<1> DEFINE cells == record_cells(kind, payload)
<1>1. cells \in Seq(Cell) /\ Len(cells) \in Nat
  BY RecordCellsType
<1>2. PICK k \in 0 .. Len(cells) : WritePrefix(cells, k, end)
  <2>1. CASE append_raw(kind, payload)
    BY <1>1, <2>1 DEF append_raw, WriteRecord, write_all_at
  <2>2. CASE append_raw_error(kind, payload)
    BY <1>1, <2>2 DEF append_raw_error, WriteFault, WriteError
  <2> QED
    BY <2>1, <2>2
<1> HIDE DEF cells
<1> QED
  BY <1>1, <1>2, LogWriteUnseen

(* Calls that fail or return early, and steps of a commit between two      *)
(* syncs: no step of the store.                                            *)
LEMMA QuietRefines ==
    ASSUME EngineInv, EngineInv', AbsIs, AbsIs',
           \/ UNCHANGED vars
           \/ CommitMasterTooLarge \/ CommitSyncError \/ InitializeSyncError
           \/ CommitHeaderError
    PROVE  StoreStep
<1>1. CASE UNCHANGED vars
  BY <1>1, UnchangedStutters DEF vars, fileVars, handleVars, IsOpen
<1>2. CASE CommitMasterTooLarge \/ CommitSyncError \/ InitializeSyncError
  BY <1>2, UnchangedStutters
  DEF CommitMasterTooLarge, CommitSyncError, InitializeSyncError, CommitReturns, SyncError,
      fileVars, handleVars, IsOpen
<1>3. CASE CommitHeaderError
  <2> DEFINE v == victim_slot(slots)
  <2>1. /\ pc = "write_header" /\ pc' = "idle" /\ UNCHANGED <<index, header>>
        /\ WritePrefix(<<header_encode(NextHeader)>>, 0, v)
    BY <1>3 DEF CommitHeaderError, CommitReturns, WriteFault, WriteError
  <2>2. v \in Nat
    BY <2>1, VictimIsNotLive, ConstantTypes DEF EngineInv, IsOpen
  <2>3. v .. v + 0 - 1 = {}
    BY <2>2
  <2>4. UNCHANGED <<file, disk>>
    BY <2>1, <2>3, EngineTypes DEF WritePrefix
  <2> QED
    BY <2>1, <2>4, UnchangedStutters DEF IsOpen
<1> QED
  BY <1>1, <1>2, <1>3

LEMMA AppendErrorRefines ==
    ASSUME EngineInv, EngineInv', AbsIs, AbsIs',
           \/ \E kind \in AppendKinds, d \in Doc : AppendError(kind, d)
           \/ \E id \in DocId : TombstoneError(id)
           \/ CommitAppendMaster \/ CommitMasterError
    PROVE  StoreStep
<1>1. /\ IsOpen /\ IsOpen' /\ UNCHANGED <<header, index>>
      /\ \E kind \in RecordKind, payload \in Seq(Word) :
            append_raw(kind, payload) \/ append_raw_error(kind, payload)
  <2>1. CASE \E kind \in AppendKinds, d \in Doc : AppendError(kind, d)
    BY <2>1, PayloadTypes, EngineAssumption DEF AppendError, IsOpen
  <2>2. CASE \E id \in DocId : TombstoneError(id)
    BY <2>2, PayloadTypes DEF TombstoneError, IsOpen, RecordKind
  <2>3. CASE CommitAppendMaster \/ CommitMasterError
    BY <2>3, PayloadTypes, EngineTypes
    DEF CommitAppendMaster, CommitMasterError, IsOpen, RecordKind
  <2> QED
    BY <2>1, <2>2, <2>3
<1>2. /\ Recovered(file') = Recovered(file) /\ Outcomes(disk') = Outcomes(disk)
      /\ Snapshot(file', index) = Snapshot(file, index)
      /\ Snapshot(file', load_index(file', header))
            = Snapshot(file, load_index(file, header))
  BY <1>1, RecordUnseen
<1> QED
  BY <1>1, <1>2, Stutters

(* The first two syncs of a commit. *)
LEMMA SyncRefines ==
    ASSUME EngineInv, EngineInv', AbsIs, AbsIs', CommitSyncRecords \/ CommitSyncMaster
    PROVE  StoreStep
<1>1. IsOpen /\ IsOpen' /\ UNCHANGED <<header, index>> /\ sync_data
  BY DEF CommitSyncRecords, CommitSyncMaster, IsOpen, handleVars
<1>2. file' = file /\ Outcomes(disk') = {Recovered(file')}
  BY <1>1, OpenHandle, SyncSettles
<1>3. Store!Settle
  BY <1>1, <1>2, AbsState, AbsStateNext DEF Store!Settle, Store!Durable
<1> QED
  BY <1>3 DEF StoreStep, Store!Next

(* load. *)
LEMMA LoadRefines ==
    ASSUME EngineInv, EngineInv', AbsIs, AbsIs', OpenLoad
    PROVE  StoreStep
<1>1. /\ ~IsOpen /\ IsOpen' /\ UNCHANGED <<file, disk>>
      /\ file[0] # Eof /\ Loadable(file)
      /\ header' = LiveHeader(file) /\ index' = load_index(file, LiveHeader(file))
  BY DEF OpenLoad, LoadHandle, IsOpen, fileVars
<1>2. Recovered(file) = Snapshot(file, index')
  BY <1>1 DEF Recovered
<1>3. index' \in MasterIndex
  BY <1>1, EngineTypes, LoadIndexType DEF Loadable
<1>4. Recovered(file) \notin {NoDatabase, Rejected}
  BY <1>2, <1>3, EngineTypes, SnapshotIsDatabase
<1>5. Store!Open
  BY <1>1, <1>2, <1>4, AbsState, AbsStateNext DEF Store!Open
<1> QED
  BY <1>5 DEF StoreStep, Store!Next

(* A handle is dropped, or its process killed. *)
LEMMA DropRefines ==
    ASSUME EngineInv, EngineInv', AbsIs, AbsIs', Drop
    PROVE  StoreStep
<1>1. ~IsOpen' /\ UNCHANGED <<file, disk>>
  BY DEF Drop, IsOpen, fileVars
<1>2. CASE IsOpen
  <2>1. Store!Stop
    BY <1>1, <1>2, AbsState, AbsStateNext DEF Store!Stop, Store!Closed
  <2> QED
    BY <2>1 DEF StoreStep, Store!Next
<1>3. CASE ~IsOpen
  BY <1>1, <1>3, Stutters
<1> QED
  BY <1>2, <1>3

(* The power fails. *)
LEMMA PowerRefines ==
    ASSUME EngineInv, EngineInv', AbsIs, AbsIs', PowerLoss
    PROVE  StoreStep
<1>1. PICK img \in Images(disk) : file' = img /\ disk' = [o \in Offset |-> {img[o]}]
  BY DEF PowerLoss, PowerCut
<1>2. ~IsOpen'
  BY DEF PowerLoss, IsOpen
<1>3. img \in [Offset -> Cell] /\ IsImage(img, disk)
  BY <1>1, EngineTypes, ImagesAre
<1>4. 0 \in Offset /\ 1 \in Offset /\ 0 \in Slot /\ 1 \in Slot
  BY ConstantTypes
<1>5. img[0] = Eof => img[1] = Eof
  <2>1. 1 \in Offset \ {0} /\ 1 - 1 = 0
    BY <1>4
  <2>2. img[1 - 1] = Eof => img[1] = Eof
    BY <1>3, <2>1 DEF IsImage
  <2> QED
    BY <2>1, <2>2
<1>6. \A o \in Offset : img[o] \in disk[o]
  BY <1>3 DEF IsImage
<1>7. ASSUME NEW s \in Slot, NEW c \in disk[s], c.tag = "header", c.header.log_end > LOG_START
      PROVE  img[1] # Eof
  <2>1. c.header.log_end \in LOG_START .. FileCap
    BY <1>7, EngineTypes, HeaderCellShape
  <2>2. 2 \in LOG_START .. c.header.log_end - 1 /\ 2 \in Offset
    BY <1>7, <2>1, ConstantTypes DEF Offset
  <2>3. disk[2] = {file[2]} /\ file[2] # Eof
    BY <1>7, <2>2, EngineTypes DEF MediumWhole, HeaderWhole
  <2>4. img[2] # Eof
    BY <1>6, <2>2, <2>3
  <2>5. img[2 - 1] = Eof => img[2] = Eof
    BY <1>3, <2>2 DEF IsImage
  <2> QED
    BY <2>4, <2>5
<1>8. Reach(disk) > LOG_START => img[1] # Eof
  <2> SUFFICES ASSUME Reach(disk) > LOG_START PROVE img[1] # Eof
    OBVIOUS
  <2>1. PICK s \in Slot : \E c \in disk[s] : c.tag = "header" /\ c.header.log_end = Reach(disk)
    BY EngineTypes, ReachIs, ConstantTypes
  <2> QED
    BY <1>7, <2>1
<1>9. Recovered(file') \in Outcomes(disk)
  <2>1. MayRemain(disk, img[0], img[1])
    BY <1>4, <1>5, <1>6, <1>8 DEF MayRemain
  <2>2. \A s \in Slot : img[s] = Pair(img[0], img[1])[s]
    BY ConstantTypes DEF Pair
  <2>3. Recovered(img) = Found(file, img)
    <3>1. Reach(disk) \in LOG_START .. FileCap
      BY EngineTypes, ReachIs
    <3>2. \A o \in LOG_START .. Reach(disk) - 1 : img[o] \in disk[o]
      BY <1>6, <3>1, ConstantTypes DEF Offset
    <3>3. \A s \in Slot : img[s] \in disk[s]
      BY <1>6, ConstantTypes
    <3> QED
      BY <1>3, <3>2, <3>3, EngineTypes, FileFound
  <2>4. Recovered(img) = Found(file, Pair(img[0], img[1]))
    BY <2>2, <2>3, FoundSame
  <2> QED
    BY <1>1, <2>1, <2>4, EngineTypes, OutcomesAre
<1>10. Outcomes(disk') = {Recovered(file')}
  <2>1. \A o \in Offset : disk'[o] = {file'[o]}
    BY <1>1
  <2>2. ASSUME Reach(disk') > LOG_START
        PROVE  file'[1] # Eof
    <3>1. PICK s \in Slot :
            \E c \in disk'[s] : c.tag = "header" /\ c.header.log_end = Reach(disk')
      BY <2>2, EngineTypesNext, ReachIs, ConstantTypes
    <3>2. PICK c \in disk'[s] : c.tag = "header" /\ c.header.log_end = Reach(disk')
      BY <3>1
    <3>3. c \in disk[s]
      BY <1>1, <1>6, <3>2, ConstantTypes
    <3> QED
      BY <1>1, <1>7, <2>2, <3>2, <3>3
  <2> QED
    BY <1>1, <1>5, <2>1, <2>2, EngineTypesNext, SyncedOutcomes
<1>11. Store!PowerLoss
  BY <1>2, <1>9, <1>10, AbsState, AbsStateNext
  DEF Store!PowerLoss, Store!Durable, Store!Closed
<1> QED
  BY <1>11 DEF StoreStep, Store!Next

(* The header open picks, from that of the newest generation. *)
LEMMA NewestIs ==
    ASSUME NEW g, \A s \in Slot : g[s] \in Cell,
           NEW s \in Slot, NEW h \in Header, g[s] = header_encode(h),
           \A t \in Slot \ {s} :
              g[t].tag = "header" => g[t].header.generation < h.generation
    PROVE  Valid(decode_slots(g)) # {} /\ LiveHeader(g) = h
<1> DEFINE j == [o \in Offset |-> IF o \in Slot THEN g[o] ELSE Eof]
<1>1. j \in [Offset -> Cell] /\ \A t \in Slot : j[t] = g[t]
  BY SpecialCells, ConstantTypes
<1> HIDE DEF j
<1>2. decode_slots(j) = decode_slots(g) /\ LiveHeader(j) = LiveHeader(g)
  BY <1>1, LiveSame
<1>3. g[s].tag = "header" /\ g[s].header = h /\ h.generation \in Nat
  BY DEF header_encode, Header
<1>4. Valid(decode_slots(g)) # {}
  <2>1. decode_slots(g)[s] = h
    BY <1>3 DEF decode_slots, header_decode
  <2>2. h # NoHeader
    BY DEF Header, NoHeader
  <2> QED
    BY <2>1, <2>2 DEF Valid
<1>5. PICK t \in Slot : /\ j[t].tag = "header" /\ j[t].header = LiveHeader(j)
                        /\ LiveHeader(j) \in Header
                        /\ \A u \in Slot : j[u].tag = "header" =>
                              j[u].header.generation <= LiveHeader(j).generation
  BY <1>1, <1>2, <1>4, LiveCell
<1>6. h.generation <= LiveHeader(g).generation /\ LiveHeader(g).generation \in Nat
  BY <1>1, <1>2, <1>3, <1>5 DEF Header
<1>7. t = s
  <2> SUFFICES ASSUME t # s PROVE FALSE
    OBVIOUS
  <2>1. LiveHeader(g).generation < h.generation
    BY <1>1, <1>2, <1>5
  <2> QED
    BY <1>3, <1>6, <2>1
<1> QED
  BY <1>1, <1>2, <1>3, <1>4, <1>5, <1>7

(* What open may find of a database that is being created. *)
LEMMA NewFound ==
    ASSUME NEW f, NEW g, g[0] \in {Eof, header_encode(InitialHeader), Zero},
           g[1] \in {Eof, Zero}
    PROVE  Found(f, g) \in {NoDatabase, Rejected, Store!Empty}
<1>1. CASE g[0] = Eof \/ g[1] = Eof \/ Valid(decode_slots(g)) = {}
  BY <1>1 DEF Found
<1>2. CASE g[0] # Eof /\ g[1] # Eof /\ Valid(decode_slots(g)) # {}
  <2>1. g[1] = Zero
    BY <1>2
  <2>2. decode_slots(g)[1] = NoHeader
    BY <2>1, ConstantTypes DEF decode_slots, header_decode, Zero
  <2>3. decode_slots(g)[0] # NoHeader
    BY <1>2, <2>2, ConstantTypes DEF Valid
  <2>4. g[0] # Zero
    BY <2>3, ConstantTypes DEF decode_slots, header_decode, Zero
  <2>5. g[0] = header_encode(InitialHeader)
    BY <1>2, <2>4
  <2>6. \A s \in Slot : g[s] \in Cell
    BY <2>1, <2>5, HeaderCellType, InitialHeaderType, SpecialCells, ConstantTypes
  <2>7. \A t \in Slot \ {0} : g[t].tag # "header"
    BY <2>1, ConstantTypes DEF Zero
  <2>8. LiveHeader(g) = InitialHeader
    BY <2>5, <2>6, <2>7, NewestIs, InitialHeaderType, ConstantTypes
  <2>9. load_index(f, LiveHeader(g)) = DefaultIndex
    BY <2>8 DEF load_index, InitialHeader
  <2> QED
    BY <1>2, <2>9, EmptyDatabase DEF Found
<1> QED
  BY <1>1, <1>2

(* initialize, up to its sync, and its failure. *)
LEMMA CreateRefines ==
    ASSUME EngineInv, EngineInv', AbsIs, AbsIs', OpenCreate \/ OpenCreateError
    PROVE  StoreStep
<1>1. /\ pc = "closed" /\ file[0] = Eof /\ ~IsOpen /\ ~IsOpen'
  BY DEF OpenCreate, OpenCreateError, IsOpen
<1>2. HeaderRegion \in Seq(Cell) /\ Len(HeaderRegion) = 2
  BY HeaderRegionType
<1>3. PICK k \in 0 .. Len(HeaderRegion) : WritePrefix(HeaderRegion, k, 0)
  <2>1. CASE OpenCreate
    BY <1>2, <2>1 DEF OpenCreate, write_all_at
  <2>2. CASE OpenCreateError
    BY <1>2, <2>2 DEF OpenCreateError, WriteFault, WriteError
  <2> QED
    BY <2>1, <2>2
<1>4. /\ 0 \in Offset /\ 1 \in Offset /\ 0 \in Slot /\ 1 \in Slot
      /\ disk[0] = {Eof} /\ disk[1] = {Eof} /\ file[1] = Eof
  BY <1>1, EngineTypes, ConstantTypes DEF FileInv, NewIsEmpty
<1>5. Damaged(0) = Zero /\ Damaged(1) = Zero
  BY <1>1, <1>4 DEF Damaged
<1>6. HeaderRegion[1] = header_encode(InitialHeader) /\ HeaderRegion[2] = Zero
  BY DEF HeaderRegion
<1>7. \A x \in Offset :
        /\ x \notin 0 .. 0 + k - 1 => disk'[x] = disk[x]
        /\ x \in 0 .. 0 + k - 1 => disk'[x] = disk[x] \cup {HeaderRegion[x - 0 + 1], Damaged(x)}
  <2> DEFINE cells == HeaderRegion
  <2>1. FileTypeOK /\ cells \in Seq(Cell) /\ k \in 0 .. Len(cells) /\ 0 \in Nat
    BY <1>2, EngineTypes
  <2>2. WritePrefix(cells, k, 0)
    BY <1>3
  <2> HIDE DEF cells
  <2>3. \A x \in Offset :
          /\ x \notin 0 .. 0 + k - 1 => disk'[x] = disk[x]
          /\ x \in 0 .. 0 + k - 1 => disk'[x] = disk[x] \cup {cells[x - 0 + 1], Damaged(x)}
    BY <2>1, <2>2, WriteEffect
  <2> QED
    BY <2>3 DEF cells
<1>8. disk'[0] \subseteq {Eof, header_encode(InitialHeader), Zero}
  <2>1. HeaderRegion[0 - 0 + 1] = header_encode(InitialHeader)
    BY <1>6
  <2> QED
    BY <1>4, <1>5, <1>7, <2>1
<1>9. disk'[1] \subseteq {Eof, Zero}
  <2>1. HeaderRegion[1 - 0 + 1] = Zero
    BY <1>6
  <2> QED
    BY <1>4, <1>5, <1>7, <2>1
<1>10. Recovered(file') \in {NoDatabase, Rejected, Store!Empty}
  <2>1. file'[0] \in disk'[0] /\ file'[1] \in disk'[1]
    BY <1>4, EngineTypesNext
  <2>2. Found(file', file') \in {NoDatabase, Rejected, Store!Empty}
    BY <1>8, <1>9, <2>1, NewFound
  <2> QED
    BY <2>2, EngineTypesNext
<1>11. Outcomes(disk') \subseteq {NoDatabase, Rejected, Store!Empty}
  <2> SUFFICES ASSUME NEW r \in Outcomes(disk')
               PROVE  r \in {NoDatabase, Rejected, Store!Empty}
    OBVIOUS
  <2>1. PICK a, b : MayRemain(disk', a, b) /\ r = Found(file', Pair(a, b))
    BY EngineTypesNext, OutcomesAre
  <2>2. Pair(a, b)[0] = a /\ Pair(a, b)[1] = b
    BY <1>4 DEF Pair
  <2>3. a \in {Eof, header_encode(InitialHeader), Zero} /\ b \in {Eof, Zero}
    BY <1>8, <1>9, <2>1 DEF MayRemain
  <2> QED
    BY <2>1, <2>2, <2>3, NewFound
<1>12. Recovered(file) = NoDatabase
  BY <1>1 DEF Recovered
<1>13. Store!Create
  BY <1>1, <1>10, <1>11, <1>12, AbsState, AbsStateNext DEF Store!Create, Store!Closed
<1> QED
  BY <1>13 DEF StoreStep, Store!Next

(* initialize returns. *)
LEMMA InitializeRefines ==
    ASSUME EngineInv, EngineInv', AbsIs, AbsIs', InitializeSync
    PROVE  StoreStep
<1>1. /\ pc = "init" /\ ~IsOpen /\ IsOpen' /\ sync_data /\ UNCHANGED <<header, index>>
  BY DEF InitializeSync, IsOpen
<1>2. /\ header = InitialHeader /\ index = DefaultIndex
      /\ file[0] = header_encode(InitialHeader) /\ file[1] = Zero
  BY <1>1 DEF EngineInv, RecoveryInv, HandleInv, HandleUnused, HandleCreating,
              CommitInv, HandleIndexed
<1>3. file[0] # Eof /\ file[1] # Eof
  BY <1>2 DEF header_encode, Zero, Eof
<1>4. file' = file /\ Outcomes(disk') = {Recovered(file')}
  BY <1>1, <1>3, SyncSettles
<1>5. LiveHeader(file) = InitialHeader /\ Valid(decode_slots(file)) # {}
  <2>1. \A s \in Slot : file[s] \in Cell
    BY EngineTypes, ConstantTypes
  <2>2. \A t \in Slot \ {0} : file[t].tag # "header"
    BY <1>2, ConstantTypes DEF Zero
  <2> QED
    BY <1>2, <2>1, <2>2, NewestIs, InitialHeaderType, ConstantTypes
<1>6. load_index(file, InitialHeader) = DefaultIndex
  BY DEF load_index, InitialHeader
<1>7. Recovered(file) = Snapshot(file, DefaultIndex)
  BY <1>3, <1>5, <1>6, EngineTypes DEF Found
<1>8. Recovered(file) \notin {NoDatabase, Rejected}
  BY <1>7, EngineTypes, DefaultIndexType, SnapshotIsDatabase
<1>9. Store!Open
  BY <1>1, <1>2, <1>4, <1>6, <1>7, <1>8, AbsState, AbsStateNext
  DEF Store!Open, Store!Durable
<1> QED
  BY <1>9 DEF StoreStep, Store!Next

(* What an append and a tombstone do to what a handle reads. *)
LEMMA InsertedReads ==
    ASSUME NEW f, NEW x \in MasterIndex, x.next_doc_id \in DocId, NEW e,
           IndexWithin(f, x, e), NEW o \in Nat, o # NoOffset
    PROVE  Snapshot(f, InsertNew(x, o)) =
              [docs |-> [Snapshot(f, x).docs EXCEPT ![x.next_doc_id] = read_record_at(f, o)],
               next |-> x.next_doc_id + 1]
<1> DEFINE n == x.next_doc_id
           y == InsertNew(x, o)
<1>1. /\ x.offsets \in [DocId -> Nat] /\ y.dead = x.dead /\ y.next_doc_id = n + 1
      /\ y.offsets = [x.offsets EXCEPT ![n] = o]
  BY DEF MasterIndex, InsertNew
<1>2. y.offsets[n] = o /\ \A id \in DocId \ {n} : y.offsets[id] = x.offsets[id]
  BY <1>1
<1>3. n \notin x.dead
  <2>1. n \notin 1 .. n - 1
    BY ConstantTypes DEF DocId
  <2> QED
    BY <2>1 DEF IndexWithin
<1> HIDE DEF y
<1>4. n \in Known(y) /\ \A id \in DocId \ {n} : id \in Known(y) <=> id \in Known(x)
  BY <1>2 DEF Known
<1>5. read_record(f, y, n) = read_record_at(f, o)
  BY <1>1, <1>2, <1>3, <1>4 DEF read_record
<1>6. \A id \in DocId \ {n} : read_record(f, y, id) = read_record(f, x, id)
  BY <1>1, <1>2, <1>4 DEF read_record
<1>7. Snapshot(f, y).docs = [Snapshot(f, x).docs EXCEPT ![n] = read_record_at(f, o)]
  <2>1. Snapshot(f, y).docs = [id \in DocId |-> read_record(f, y, id)]
    BY DEF Snapshot
  <2>2. Snapshot(f, x).docs = [id \in DocId |-> read_record(f, x, id)]
    BY DEF Snapshot
  <2> QED
    BY <1>5, <1>6, <2>1, <2>2
<1> QED
  BY <1>1, <1>7 DEF Snapshot, y

LEMMA BuriedReads ==
    ASSUME NEW f, NEW x \in MasterIndex, NEW b \in DocId
    PROVE  Snapshot(f, [x EXCEPT !.dead = @ \cup {b}])
              = [Snapshot(f, x) EXCEPT !.docs[b] = Deleted]
<1> DEFINE y == [x EXCEPT !.dead = @ \cup {b}]
<1>1. y.dead = x.dead \cup {b} /\ y.offsets = x.offsets /\ y.next_doc_id = x.next_doc_id
  BY DEF MasterIndex
<1> HIDE DEF y
<1>2. Known(y) = Known(x)
  BY <1>1 DEF Known
<1>3. read_record(f, y, b) = Deleted
  BY <1>1 DEF read_record
<1>4. \A id \in DocId \ {b} : read_record(f, y, id) = read_record(f, x, id)
  BY <1>1, <1>2 DEF read_record
<1>5. [id \in DocId |-> read_record(f, y, id)]
         = [[id \in DocId |-> read_record(f, x, id)] EXCEPT ![b] = Deleted]
  BY <1>3, <1>4
<1>6. Snapshot(f, y) = [Snapshot(f, x) EXCEPT !.docs[b] = Deleted]
  <2> DEFINE before == [id \in DocId |-> read_record(f, x, id)]
             after  == [id \in DocId |-> read_record(f, y, id)]
  <2>1. Snapshot(f, x) = [docs |-> before, next |-> x.next_doc_id]
    BY DEF Snapshot
  <2>2. Snapshot(f, y) = [docs |-> after, next |-> x.next_doc_id]
    BY <1>1 DEF Snapshot
  <2>3. after = [before EXCEPT ![b] = Deleted]
    BY <1>5
  <2> HIDE DEF before, after
  <2> QED
    BY <2>1, <2>2, <2>3
<1> QED
  BY <1>6 DEF y

(* append. *)
LEMMA PutRefines ==
    ASSUME EngineInv, EngineInv', AbsIs, AbsIs',
           \E kind \in AppendKinds, d \in Doc : Append_(kind, d)
    PROVE  StoreStep
<1>1. PICK kind \in AppendKinds, d \in Doc : Append_(kind, d)
  OBVIOUS
<1>2. /\ IsOpen /\ IsOpen' /\ UNCHANGED header
      /\ kind \in RecordKind /\ doc_payload(d) \in Seq(Word)
      /\ append_raw(kind, doc_payload(d))
      /\ index.next_doc_id <= MaxDocId /\ index' = InsertNew(index, end)
  BY <1>1, PayloadTypes, EngineAssumption DEF Append_, IsOpen
<1> DEFINE c == [kind |-> kind, payload |-> doc_payload(d)]
<1>3. /\ Recovered(file') = Recovered(file) /\ Outcomes(disk') = Outcomes(disk)
      /\ Snapshot(file', index) = Snapshot(file, index)
      /\ Snapshot(file', load_index(file', header))
            = Snapshot(file, load_index(file, header))
  BY <1>2, RecordUnseen
<1>4. /\ end \in Nat /\ LOG_START <= end /\ end # NoOffset
      /\ end + 1 + Len(doc_payload(d)) <= FileCap /\ Len(doc_payload(d)) <= MaxRecordLen
      /\ \A o \in LOG_START .. end - 1 : file'[o] = file[o]
      /\ \A o \in end .. end + Len(doc_payload(d)) :
            file'[o] = record_cells(kind, doc_payload(d))[o - end + 1]
  <2>1. TypeOK /\ FileTypeOK' /\ RecoveryInv /\ CommitInv
    BY DEF EngineInv, TypeOK
  <2>2. /\ end' = end + 1 + Len(doc_payload(d)) /\ end' <= FileCap
        /\ end \in Nat /\ LOG_START <= end /\ Len(doc_payload(d)) <= MaxRecordLen
        /\ \A o \in LOG_START .. end - 1 : file'[o] = file[o]
        /\ \A o \in end .. end + Len(doc_payload(d)) :
              file'[o] = record_cells(kind, doc_payload(d))[o - end + 1]
    BY <1>2, <2>1, AppendedRecord
  <2> QED
    BY <2>2, ConstantTypes DEF NoOffset
<1>5. read_record_at(file', end) = c
  BY <1>2, <1>4, EngineTypesNext, RecordWritten
<1>6. IndexWithin(file', index, end)
  BY <1>2, <1>4, EngineTypes, EngineTypesNext, OpenHandle, IndexStable
<1>7. index.next_doc_id \in DocId
  BY <1>2, EngineTypes, ConstantTypes DEF MasterIndex, DocId
<1>8. Snapshot(file', index') =
         [docs |-> [Snapshot(file, index).docs EXCEPT ![index.next_doc_id] = c],
          next |-> index.next_doc_id + 1]
  BY <1>2, <1>3, <1>4, <1>5, <1>6, <1>7, EngineTypes, InsertedReads
<1>9. Snapshot(file, index).next = index.next_doc_id
  BY DEF Snapshot
<1>10. Store!Put
  <2>1. c \in Document
    BY DEF Document
  <2> HIDE DEF c
  <2>2. /\ abs.up = TRUE /\ abs'.up = TRUE
        /\ abs.view = Snapshot(file, index) /\ abs'.view = Snapshot(file', index')
        /\ abs'.live = abs.live /\ abs'.base = abs.base /\ abs'.outcomes = abs.outcomes
    BY <1>2, <1>3, AbsState, AbsStateNext
  <2>3. abs.view.next \in DocId
    BY <1>7, <1>9, <2>2
  <2>4. abs'.view = [docs |-> [abs.view.docs EXCEPT ![abs.view.next] = c],
                     next |-> abs.view.next + 1]
    BY <1>8, <1>9, <2>2
  <2> QED
    BY <2>1, <2>2, <2>3, <2>4 DEF Store!Put
<1> QED
  BY <1>10 DEF StoreStep, Store!Next

(* tombstone. *)
LEMMA DeleteRefines ==
    ASSUME EngineInv, EngineInv', AbsIs, AbsIs', \E id \in DocId : Tombstone(id)
    PROVE  StoreStep
<1>1. PICK id \in DocId : Tombstone(id)
  OBVIOUS
<1>2. /\ IsOpen /\ IsOpen' /\ UNCHANGED header
      /\ id \in Known(index) /\ id \notin index.dead
      /\ append_raw("Tombstone", tombstone_payload(id))
      /\ index' = [index EXCEPT !.dead = @ \cup {id}]
  BY <1>1 DEF Tombstone, Bury, live_ids, IsOpen
<1>3. /\ Recovered(file') = Recovered(file) /\ Outcomes(disk') = Outcomes(disk)
      /\ Snapshot(file', index) = Snapshot(file, index)
      /\ Snapshot(file', load_index(file', header))
            = Snapshot(file, load_index(file, header))
  <2>1. "Tombstone" \in RecordKind /\ tombstone_payload(id) \in Seq(Word)
    BY PayloadTypes DEF RecordKind
  <2> QED
    BY <1>2, <2>1, RecordUnseen
<1>4. Snapshot(file', index') = [Snapshot(file, index) EXCEPT !.docs[id] = Deleted]
  BY <1>2, <1>3, EngineTypes, BuriedReads
<1>5. Snapshot(file, index).docs[id] \notin {NotFound, Deleted}
  <2>1. Snapshot(file, index).docs[id] = read_record_at(file, index.offsets[id])
    BY <1>2 DEF Snapshot, read_record
  <2>2. read_record_at(file, index.offsets[id]) # Unreadable
    BY <1>2, OpenHandle DEF IndexWithin, RecordWithin
  <2>3. PICK k, p : read_record_at(file, index.offsets[id]) = [kind |-> k, payload |-> p]
    <3> DEFINE o == index.offsets[id]
    <3>1. file \in [Offset -> Cell] /\ read_record_at(file, o) # Unreadable
      BY <2>2, EngineTypes
    <3> HIDE DEF o
    <3>2. read_record_at(file, o) = [kind |-> decode_frame(file[o]).kind,
                                     payload |-> decode_frame(file[o]).crc]
      BY <3>1, RecordShape
    <3> QED
      BY <3>2 DEF o
  <2>4. [kind |-> k, payload |-> p] # NotFound /\ [kind |-> k, payload |-> p] # Deleted
    BY DEF NotFound, Deleted
  <2> QED
    BY <2>1, <2>3, <2>4
<1>6. Store!Delete
  <2>1. /\ abs.up = TRUE /\ abs'.up = TRUE
        /\ abs.view = Snapshot(file, index) /\ abs'.view = Snapshot(file', index')
        /\ abs'.live = abs.live /\ abs'.base = abs.base /\ abs'.outcomes = abs.outcomes
    BY <1>2, <1>3, AbsState, AbsStateNext
  <2> QED
    BY <1>4, <1>5, <2>1 DEF Store!Delete
<1> QED
  BY <1>6 DEF StoreStep, Store!Next

(* The commit point: what a handle reads may be found from here on. *)
LEMMA WriteHeaderRefines ==
    ASSUME EngineInv, EngineInv', AbsIs, AbsIs', CommitWriteHeader
    PROVE  StoreStep
<1> DEFINE v == victim_slot(slots)
           N == header_encode(NextHeader)
           H == header_encode(header)
           P(c) == [s \in Slot |-> IF s = v THEN c ELSE H]
<1>1. /\ pc = "write_header" /\ pc' = "sync_header" /\ IsOpen /\ IsOpen'
      /\ UNCHANGED <<header, index, master_ptr>>
      /\ write_all_at(<<N>>, v)
      /\ TypeOK /\ FileTypeOK' /\ RecoveryInv /\ CommitInv'
  BY DEF CommitWriteHeader, handleVars, IsOpen, EngineInv, TypeOK
<1>2. /\ v \in Slot /\ v # live_slot /\ live_slot \in Slot
      /\ \A s \in Slot : s = v \/ s = live_slot
      /\ file[live_slot] = H /\ H.tag = "header" /\ H.header = header
  BY <1>1, OpenHandle, VictimIsNotLive, ConstantTypes
<1>3. /\ file'[v] = N /\ \A o \in Offset \ {v} : file'[o] = file[o] /\ disk'[o] = disk[o]
      /\ disk'[v] = disk[v] \cup {N, Damaged(v)}
      /\ \A o \in Offset : disk[o] = {file[o]}
  BY <1>1, HeaderWriteKeepsFile
<1>4. /\ N.tag = "header" /\ N.header = NextHeader /\ NextHeader \in Header
      /\ NextHeader.generation = header.generation + 1
      /\ NextHeader.master_ptr = master_ptr /\ NextHeader.master_len = EncodedLen(index)
      /\ header \in Header /\ header.generation \in Nat
      /\ N \in Cell /\ H \in Cell /\ Torn \in Cell
  BY <1>1, NextHeaderType, HeaderCellType, SpecialCells DEF header_encode, NextHeader, TypeOK, Header
<1>5. /\ N # Eof /\ H # Eof /\ Torn # Eof /\ file[v] # Eof /\ Torn.tag # "header"
      /\ file[0] # Eof /\ file[1] # Eof
  BY <1>1, <1>2, <1>4, OpenHandle, ConstantTypes DEF Eof, Torn
<1>6. disk'[v] = {file[v], N, Torn} /\ disk'[live_slot] = {H}
  BY <1>2, <1>3, <1>5, ConstantTypes DEF Damaged
<1>7. \A e \in LOG_START .. FileCap : \A o \in LOG_START .. e - 1 : file'[o] = file[o]
  BY <1>2, <1>3, ConstantTypes DEF Offset
<1>8. Snapshot(file', index) = Snapshot(file, index)
  BY <1>1, <1>7, EngineTypes, EngineTypesNext, OpenHandle, IndexStable
<1>9. Snapshot(file', load_index(file', header)) = Snapshot(file, load_index(file, header))
  <2>1. header.log_end \in LOG_START .. FileCap
    BY <1>4 DEF Header
  <2> QED
    BY <1>1, <1>4, <1>7, <2>1, EngineTypes, EngineTypesNext, OpenHandle, HeaderWholeStable
<1>10. load_index(file', NextHeader) = index
  <2>1. read_record_at(file', master_ptr).payload = index_encode(index)
    BY <1>1 DEF CommitInv, MasterHoldsIndex
  <2>2. EncodedLen(index) # 0
    BY EngineTypes, EncodedLenType
  <2> QED
    BY <1>4, <2>1, <2>2, EngineTypes, LoadIndexEncoded
<1> HIDE DEF v, N, H
<1>11. \A c : /\ P(c)[v] = c /\ P(c)[live_slot] = H
              /\ c # Eof => P(c)[0] # Eof /\ P(c)[1] # Eof
  BY <1>2, <1>5, ConstantTypes
<1> HIDE DEF P
(* What open makes of the slots, by what is in the one that was written. *)
<1>12. Found(file', P(N)) = Snapshot(file, index)
  <2>1. \A s \in Slot : P(N)[s] \in Cell
    BY <1>2, <1>4, <1>11
  <2>2. \A t \in Slot \ {v} : P(N)[t].header.generation < NextHeader.generation
    BY <1>2, <1>4, <1>11
  <2>3. P(N)[v] = header_encode(NextHeader)
    BY <1>11 DEF N
  <2>4. Valid(decode_slots(P(N))) # {} /\ LiveHeader(P(N)) = NextHeader
    BY <1>2, <1>4, <2>1, <2>2, <2>3, NewestIs
  <2> QED
    BY <1>5, <1>8, <1>10, <1>11, <2>4 DEF Found
<1>13. Found(file', P(Torn)) = Snapshot(file, load_index(file, header))
  <2>1. \A s \in Slot : P(Torn)[s] \in Cell
    BY <1>2, <1>4, <1>11
  <2>2. \A t \in Slot \ {live_slot} : P(Torn)[t].tag # "header"
    BY <1>2, <1>5, <1>11
  <2>3. P(Torn)[live_slot] = header_encode(header)
    BY <1>11 DEF H
  <2>4. Valid(decode_slots(P(Torn))) # {} /\ LiveHeader(P(Torn)) = header
    BY <1>2, <1>4, <2>1, <2>2, <2>3, NewestIs
  <2> QED
    BY <1>5, <1>9, <1>11, <2>4 DEF Found
<1>14. Found(file', P(file[v])) = Recovered(file)
  <2>1. \A s \in Slot : P(file[v])[s] = file[s]
    BY <1>2, <1>11
  <2>2. Found(file', P(file[v])) = Found(file', file)
    BY <2>1, FoundSame
  <2>3. \A s \in Slot : \A c \in disk[s] : c.tag = "header" =>
           \A o \in LOG_START .. c.header.log_end - 1 : file'[o] = file[o]
    BY <1>7, EngineTypes, HeaderCellShape
  <2> QED
    BY <2>2, <2>3, EngineTypes, EngineTypesNext, FoundStable
<1>15. Recovered(file') = Snapshot(file, index)
  <2>1. \A s \in Slot : P(N)[s] = file'[s]
    BY <1>2, <1>3, <1>11, ConstantTypes
  <2>2. Found(file', P(N)) = Found(file', file')
    BY <2>1, FoundSame
  <2> QED
    BY <1>12, <2>2, EngineTypesNext
<1>16. Outcomes(disk) = {Recovered(file)}
  BY <1>3, <1>5, EngineTypes, SyncedOutcomes
<1>17. \A r : r \in Outcomes(disk') <=> \E c \in disk'[v] : r = Found(file', P(c))
  <2>1. \A c \in disk'[v] : c # Eof
    BY <1>5, <1>6
  <2>2. \A r : r \in Outcomes(disk') <=>
           \E a, b : MayRemain(disk', a, b) /\ r = Found(file', Pair(a, b))
    BY EngineTypesNext, OutcomesAre
  <2>3. ASSUME NEW a, NEW b, MayRemain(disk', a, b)
        PROVE  \E c \in disk'[v] : Found(file', Pair(a, b)) = Found(file', P(c))
    <3>1. Pair(a, b)[0] = a /\ Pair(a, b)[1] = b
      BY ConstantTypes DEF Pair
    <3>2. Pair(a, b)[v] \in disk'[v] /\ Pair(a, b)[live_slot] = H
      BY <1>2, <1>6, <2>3, <3>1, ConstantTypes DEF MayRemain
    <3>3. \A s \in Slot : Pair(a, b)[s] = P(Pair(a, b)[v])[s]
      BY <1>2, <1>11, <3>2
    <3> QED
      BY <3>2, <3>3, FoundSame
  <2>4. ASSUME NEW c \in disk'[v]
        PROVE  /\ MayRemain(disk', P(c)[0], P(c)[1])
               /\ Found(file', Pair(P(c)[0], P(c)[1])) = Found(file', P(c))
    <3>1. \A s \in Slot : P(c)[s] \in disk'[s] /\ P(c)[s] # Eof
      BY <1>2, <1>5, <1>6, <1>11, <2>1
    <3>2. MayRemain(disk', P(c)[0], P(c)[1])
      BY <3>1, ConstantTypes DEF MayRemain
    <3>3. \A s \in Slot : Pair(P(c)[0], P(c)[1])[s] = P(c)[s]
      BY ConstantTypes DEF Pair
    <3> QED
      BY <3>2, <3>3, FoundSame
  <2> QED
    BY <2>2, <2>3, <2>4
<1>18. Store!CommitAttempt
  <2>1. /\ Snapshot(file, index) \in Outcomes(disk')
        /\ Snapshot(file, load_index(file, header)) \in Outcomes(disk')
    BY <1>6, <1>12, <1>13, <1>17
  <2>2. Outcomes(disk') \subseteq Outcomes(disk) \cup
           {Snapshot(file, index), Snapshot(file, load_index(file, header))}
    BY <1>6, <1>12, <1>13, <1>14, <1>16, <1>17
  <2> QED
    BY <1>1, <1>8, <1>9, <1>15, <2>1, <2>2, AbsState, AbsStateNext DEF Store!CommitAttempt
<1> QED
  BY <1>18 DEF StoreStep, Store!Next

(* commit returns Ok. *)
LEMMA CommitOkRefines ==
    ASSUME EngineInv, EngineInv', AbsIs, AbsIs', CommitSyncHeader
    PROVE  StoreStep
<1> DEFINE v == victim_slot(slots)
<1>1. /\ pc = "sync_header" /\ IsOpen /\ IsOpen' /\ sync_data /\ ~dirty'
      /\ header' = NextHeader /\ index' = index
      /\ TypeOK /\ RecoveryInv /\ CommitInv'
  BY DEF CommitSyncHeader, InstallHeader, CommitReturns, IsOpen, EngineInv
<1>2. /\ v \in Slot /\ v # live_slot /\ live_slot \in Slot
      /\ \A s \in Slot : s = v \/ s = live_slot
      /\ file[live_slot].header = header /\ file[0] # Eof /\ file[1] # Eof
  BY <1>1, OpenHandle, VictimIsNotLive, ConstantTypes
<1>3. file[v] = header_encode(NextHeader)
  BY <1>1 DEF RecoveryInv, HandleInv, HandleCommitting
<1>4. /\ NextHeader \in Header /\ header.generation \in Nat
      /\ NextHeader.generation = header.generation + 1
  BY <1>1, NextHeaderType DEF TypeOK, Header, NextHeader
<1>5. file' = file /\ Outcomes(disk') = {Recovered(file')}
  BY <1>1, <1>2, SyncSettles
<1>6. Valid(decode_slots(file)) # {} /\ LiveHeader(file) = NextHeader
  <2>1. \A s \in Slot : file[s] \in Cell
    BY EngineTypes, ConstantTypes
  <2>2. \A t \in Slot \ {v} : file[t].header.generation < NextHeader.generation
    BY <1>2, <1>4
  <2> HIDE DEF v
  <2> QED
    BY <1>2, <1>3, <1>4, <2>1, <2>2, NewestIs
<1>7. load_index(file', header') = index
  BY <1>1 DEF CommitInv, DirtyMeansUnsaved
<1>8. Recovered(file') = Snapshot(file, index)
  BY <1>1, <1>2, <1>5, <1>6, <1>7, EngineTypes DEF Found
<1>9. Store!CommitOk
  BY <1>1, <1>5, <1>7, <1>8, AbsState, AbsStateNext DEF Store!CommitOk, Store!Durable
<1> QED
  BY <1>9 DEF StoreStep, Store!Next

-----------------------------------------------------------------------------
(* The theorem. *)

(* An empty file is an empty store. *)
LEMMA InitRefines ==
    ASSUME RefinementInit
    PROVE  AbsIs /\ Store!Init
<1>1. Init /\ ~IsOpen /\ abs = Abstract(FALSE, file, disk, index, header)
  BY DEF RefinementInit, Init, IsOpen
<1>2. IsOpen = FALSE
  BY <1>1 DEF IsOpen
<1>3. AbsIs
  BY <1>1, <1>2 DEF AbsIs
<1>4. EngineInv
  BY <1>1, InitTyped, InitRecoverable, InitCommitted, LogsWhole
<1>5. \A o \in Offset : file[o] = Eof /\ disk[o] = {file[o]}
  BY <1>1 DEF Init, FileInit
<1>6. Recovered(file) = NoDatabase
  BY <1>5, ConstantTypes DEF Recovered
<1>7. Outcomes(disk) = {NoDatabase}
  <2>1. \A s \in Slot : \A c \in disk[s] : c.tag # "header"
    BY <1>5, ConstantTypes DEF Eof
  <2>2. ~(Reach(disk) > LOG_START)
    BY <2>1, <1>4, EngineTypes, ReachIs, ConstantTypes
  <2>3. file[1] = Eof
    BY <1>5, ConstantTypes
  <2> QED
    BY <1>4, <1>5, <1>6, <2>2, <2>3, EngineTypes, SyncedOutcomes
<1> QED
  BY <1>1, <1>3, <1>6, <1>7, AbsState DEF Store!Init

(* Each step of the engine is a step of the store, or none. *)
LEMMA StepRefines ==
    ASSUME EngineInv, EngineInv', AbsIs, AbsIs', [Next]_vars
    PROVE  StoreStep
<1>1. CASE UNCHANGED vars
  BY <1>1, QuietRefines
<1>2. CASE Next
  BY <1>2, QuietRefines, CreateRefines, InitializeRefines, LoadRefines, PutRefines,
     DeleteRefines, AppendErrorRefines, SyncRefines, WriteHeaderRefines,
     CommitOkRefines, DropRefines, PowerRefines
  DEF Next, CommitNext, OpenRejected, CommitClean, AppendTooLarge, TombstoneMissing
<1> QED
  BY <1>1, <1>2

(* Unless the kernel drops the pages of a failed sync, every behaviour of  *)
(* the engine is one of the store it promises: a handle reads what was     *)
(* appended and not deleted, a commit that returns Ok leaves a power cut   *)
(* nothing else to find, one that fails or is cut short leaves all of its  *)
(* documents or none, and open finds a database that some commit or        *)
(* creation left (engine.rs open, append, tombstone, commit and load).     *)
THEOREM EngineImplementsStore ==
    ASSUME ~SyncErrorDropsWrites
    PROVE  RefinementSpec => ImplementsDurableStore
<1>1. RefinementInit => Init /\ AbsIs /\ Store!Init
  BY InitRefines DEF RefinementInit
<1>2. [RefinementNext]_<<vars, abs>> => [Next]_vars
  BY DEF RefinementNext
<1>3. AbsIs /\ [RefinementNext]_<<vars, abs>> => AbsIs'
  BY DEF RefinementNext, AbsIs, IsOpen, vars, fileVars, handleVars
<1>4. TypeOK /\ RecoveryInv /\ CommitInv => EngineInv
  BY LogsWhole
<1>5. EngineInv /\ EngineInv' /\ AbsIs /\ AbsIs' /\ [Next]_vars
         => [Store!Next]_(Store!vars)
  BY StepRefines DEF StoreStep
<1>6. Spec => []TypeOK /\ []RecoveryInv /\ []CommitInv
  BY TypeCorrect, RecoveryInvariant, CommitInvariant
<1>7. RefinementSpec => Spec
  BY <1>1, <1>2, PTL DEF RefinementSpec, Spec
<1>8. RefinementSpec => []EngineInv
  BY <1>4, <1>6, <1>7, PTL
<1>9. RefinementSpec => []AbsIs
  BY <1>1, <1>3, PTL DEF RefinementSpec
<1>10. RefinementSpec => Store!Spec
  BY <1>1, <1>2, <1>5, <1>8, <1>9, PTL DEF RefinementSpec, Store!Spec
<1> QED
  BY <1>10 DEF ImplementsDurableStore
=============================================================================
