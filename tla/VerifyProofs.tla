---------------------------- MODULE VerifyProofs ----------------------------
(***************************************************************************)
(* Proofs about verify's walk over a log: what it returns is determined by *)
(* the log below log_end, a record appended there adds itself, and so it   *)
(* succeeds on every database that is open.                                *)
(*                                                                         *)
(* The walk is a recursive function.  Facts about every offset it reaches  *)
(* are proved by induction in the form of a least counterexample.          *)
(***************************************************************************)
EXTENDS CommitProofs, WellFoundedInduction

(* A set of natural numbers that is not empty has a least element. *)
LEMMA LeastNat ==
    ASSUME NEW T, T \subseteq Nat, T # {}
    PROVE  \E x \in T : \A y \in T : x <= y
<1> DEFINE R == {ss \in Nat \X Nat : ss[1] < ss[2]}
<1>1. IsWellFoundedOn(R, Nat)
  BY NatLessThanWellFounded DEF OpToRel
<1>2. PICK x \in T : \A y \in T : ~ (<<y, x>> \in R)
  <2> HIDE DEF R
  <2> QED BY <1>1, WFMin
<1>3. \A y \in T : ~(y < x)
  BY <1>2
<1> QED
  BY <1>2, <1>3

(* One step of the walk, the rest of it being w. *)
WalkStep(f, e, w, o) ==
    IF o = e THEN {}
    ELSE LET r == read_record_at(f, o)
         IN IF o > e \/ r = Unreadable
            THEN {VerifyError}
            ELSE {o} \cup w[o + RECORD_HEADER_SIZE + Len(r.payload)]

(* A step looks at the rest of the walk only further on. *)
LEMMA WalkLooksAhead ==
    ASSUME NEW f \in [Offset -> Cell], NEW e, NEW v, NEW w, NEW o \in 0 .. FileCap,
           \A x \in o + 1 .. FileCap : v[x] = w[x]
    PROVE  WalkStep(f, e, v, o) = WalkStep(f, e, w, o)
<1> DEFINE r == read_record_at(f, o)
<1>1. CASE r = Unreadable
  BY <1>1 DEF WalkStep
<1>2. CASE r # Unreadable
  <2>1. /\ o + decode_frame(f[o]).len \in Offset /\ decode_frame(f[o]).len \in Nat
        /\ Len(r.payload) = decode_frame(f[o]).len
    BY <1>2, RecordShape
  <2>2. o + RECORD_HEADER_SIZE + Len(r.payload) \in o + 1 .. FileCap
    <3>1. /\ o \in Int /\ FileCap \in Int /\ RECORD_HEADER_SIZE = 1
          /\ o + decode_frame(f[o]).len <= FileCap - 1
      BY <2>1, ConstantTypes DEF Offset
    <3> QED
      BY <2>1, <3>1
  <2> QED
    BY <2>2 DEF WalkStep
<1> QED
  BY <1>1, <1>2

(* The walk's recursion defines a function: by induction on how far from   *)
(* the end of the device it is to start.                                   *)
LEMMA WalkExists ==
    ASSUME NEW f \in [Offset -> Cell], NEW e
    PROVE  \E w : w = [o \in 0 .. FileCap |-> WalkStep(f, e, w, o)]
<1> DEFINE ok(k) == \E w : /\ w = [o \in 0 .. FileCap |-> w[o]]
                           /\ \A o \in FileCap - k .. FileCap : w[o] = WalkStep(f, e, w, o)
           T == {k \in 0 .. FileCap : ~ok(k)}
<1>1. ok(0)
  <2> DEFINE w == [o \in 0 .. FileCap |-> IF o = e THEN {} ELSE {VerifyError}]
  <2>1. read_record_at(f, FileCap) = Unreadable
    <3>1. FileCap \notin Offset
      BY ConstantTypes DEF Offset
    <3> QED BY <3>1, RecordShape
  <2>2. w[FileCap] = WalkStep(f, e, w, FileCap)
    BY <2>1, ConstantTypes DEF WalkStep
  <2>3. FileCap - 0 .. FileCap = {FileCap}
    BY ConstantTypes
  <2> HIDE DEF w
  <2>4. w = [o \in 0 .. FileCap |-> w[o]]
    BY DEF w
  <2> QED BY <2>2, <2>3, <2>4
<1>2. ASSUME NEW k \in 1 .. FileCap, ok(k - 1)
      PROVE  ok(k)
  <2> DEFINE x == FileCap - k
  <2>1. PICK w : /\ w = [o \in 0 .. FileCap |-> w[o]]
                 /\ \A o \in FileCap - (k - 1) .. FileCap : w[o] = WalkStep(f, e, w, o)
    BY <1>2
  <2> DEFINE g == [o \in 0 .. FileCap |-> IF o = x THEN WalkStep(f, e, w, x) ELSE w[o]]
  <2>2. /\ x \in 0 .. FileCap /\ FileCap - (k - 1) = x + 1
        /\ \A o \in x .. FileCap : o \in 0 .. FileCap
        /\ \A o \in x .. FileCap : o # x => o \in x + 1 .. FileCap
    BY ConstantTypes
  <2>3. \A o \in x + 1 .. FileCap : g[o] = w[o]
    BY <2>2, ConstantTypes
  <2>4. ASSUME NEW o \in x .. FileCap
        PROVE  g[o] = WalkStep(f, e, g, o)
    <3>1. \A y \in o + 1 .. FileCap : g[y] = w[y]
      <4> HIDE DEF g
      <4> QED BY <2>2, <2>3, ConstantTypes
    <3>2. WalkStep(f, e, g, o) = WalkStep(f, e, w, o)
      <4> HIDE DEF g
      <4> QED BY <2>2, <3>1, WalkLooksAhead
    <3>3. CASE o = x
      BY <2>2, <3>2, <3>3
    <3>4. CASE o # x
      BY <2>1, <2>2, <2>3, <3>2, <3>4
    <3> QED BY <3>3, <3>4
  <2>5. g = [o \in 0 .. FileCap |-> g[o]]
    OBVIOUS
  <2> HIDE DEF g
  <2> QED BY <2>4, <2>5
<1>3. ok(FileCap)
  <2> HIDE DEF ok
  <2>1. CASE T = {}
    BY <2>1, ConstantTypes
  <2>2. CASE T # {}
    <3>1. PICK k \in T : \A y \in T : k <= y
      <4>1. T \subseteq Nat
        BY ConstantTypes
      <4> HIDE DEF T
      <4> QED BY <2>2, <4>1, LeastNat
    <3>2. k \in 1 .. FileCap
      BY <1>1, <3>1, ConstantTypes
    <3>3. ok(k - 1)
      BY <3>1, <3>2, ConstantTypes
    <3> QED BY <1>2, <3>1, <3>2, <3>3
  <2> QED BY <2>1, <2>2
<1>4. PICK w : /\ w = [o \in 0 .. FileCap |-> w[o]]
               /\ \A o \in FileCap - FileCap .. FileCap : w[o] = WalkStep(f, e, w, o)
  BY <1>3
<1>5. \A o \in 0 .. FileCap : w[o] = WalkStep(f, e, w, o)
  BY <1>4, ConstantTypes
<1>6. w = [o \in 0 .. FileCap |-> WalkStep(f, e, w, o)]
  BY <1>4, <1>5
<1> QED
  BY <1>6

(* The walk from every offset, which verify takes from LOG_START. *)
Walk(f, e) == CHOOSE w : w = [o \in 0 .. FileCap |-> WalkStep(f, e, w, o)]

LEMMA WalkEquation ==
    ASSUME NEW f \in [Offset -> Cell], NEW e
    PROVE  \A o \in 0 .. FileCap : Walk(f, e)[o] = WalkStep(f, e, Walk(f, e), o)
<1>1. Walk(f, e) = [o \in 0 .. FileCap |-> WalkStep(f, e, Walk(f, e), o)]
  BY WalkExists DEF Walk
<1> QED
  BY <1>1

LEMMA VerifyIsWalk ==
    ASSUME NEW f, NEW e
    PROVE  verify(f, e) = Walk(f, e)[LOG_START]
  BY DEF verify, Walk, WalkStep

(* A walk that succeeds goes from one readable record to the next and      *)
(* never beyond log_end.                                                   *)
LEMMA WalkVisits ==
    ASSUME NEW f \in [Offset -> Cell], NEW e \in LOG_START .. FileCap,
           NEW o \in LOG_START .. FileCap, VerifyError \notin Walk(f, e)[o]
    PROVE  \/ o = e /\ Walk(f, e)[o] = {}
           \/ LET next == o + RECORD_HEADER_SIZE + decode_frame(f[o]).len
              IN /\ read_record_at(f, o) # Unreadable
                 /\ o < e /\ next \in o + 1 .. FileCap
                 /\ Walk(f, e)[o] = {o} \cup Walk(f, e)[next]
<1>1. Walk(f, e)[o] = WalkStep(f, e, Walk(f, e), o) /\ e \in Int /\ o \in Nat
  BY WalkEquation, ConstantTypes
<1>2. CASE o = e
  BY <1>1, <1>2 DEF WalkStep
<1>3. CASE o # e
  <2>1. ~(o > e) /\ read_record_at(f, o) # Unreadable
    BY <1>1, <1>3 DEF WalkStep
  <2>2. /\ o + decode_frame(f[o]).len \in Offset /\ decode_frame(f[o]).len \in Nat
        /\ Len(read_record_at(f, o).payload) = decode_frame(f[o]).len
    BY <2>1, RecordShape
  <2>3. Walk(f, e)[o] = {o} \cup Walk(f, e)[o + RECORD_HEADER_SIZE + decode_frame(f[o]).len]
    BY <1>1, <1>3, <2>1, <2>2 DEF WalkStep
  <2> QED
    BY <1>1, <1>3, <2>1, <2>2, <2>3, ConstantTypes DEF Offset
<1> QED
  BY <1>2, <1>3

(* A walk that succeeds up to e does the same in any file that holds the   *)
(* same log below e, and goes on from there if the log is longer.          *)
LEMMA WalkExtends ==
    ASSUME NEW f \in [Offset -> Cell], NEW g \in [Offset -> Cell],
           NEW e \in LOG_START .. FileCap, NEW e2 \in e .. FileCap,
           \A o \in LOG_START .. e - 1 : g[o] = f[o]
    PROVE  \A o \in LOG_START .. e :
              VerifyError \notin Walk(f, e)[o]
                => Walk(g, e2)[o] = Walk(f, e)[o] \cup Walk(g, e2)[e]
<1> DEFINE same(o) == VerifyError \notin Walk(f, e)[o]
                        => Walk(g, e2)[o] = Walk(f, e)[o] \cup Walk(g, e2)[e]
           T == {k \in 0 .. e - LOG_START : ~same(e - k)}
<1>1. ASSUME NEW o \in LOG_START .. e, \A x \in o + 1 .. e : same(x)
      PROVE  same(o)
  <2> SUFFICES ASSUME VerifyError \notin Walk(f, e)[o]
               PROVE  Walk(g, e2)[o] = Walk(f, e)[o] \cup Walk(g, e2)[e]
    OBVIOUS
  <2> DEFINE next == o + RECORD_HEADER_SIZE + decode_frame(f[o]).len
  <2>0. o \in LOG_START .. FileCap /\ o \in 0 .. FileCap /\ e \in Int /\ e2 \in Int
        /\ LOG_START \in Int
    BY ConstantTypes
  <2>1. CASE o = e /\ Walk(f, e)[o] = {}
    BY <2>1
  <2>2. CASE /\ read_record_at(f, o) # Unreadable
             /\ o < e /\ next \in o + 1 .. FileCap
             /\ Walk(f, e)[o] = {o} \cup Walk(f, e)[next]
    <3>1. next \in LOG_START .. FileCap /\ VerifyError \notin Walk(f, e)[next]
      BY <2>0, <2>2
    <3>2. next \in o + 1 .. e
      <4>1. next = e \/ next < e
        BY <3>1, WalkVisits
      <4> QED BY <2>0, <2>2, <4>1
    <3>3. RecordWithin(f, o, e)
      <4>1. decode_frame(f[o]).len \in Nat
        BY <2>2, RecordShape
      <4> QED BY <2>0, <2>2, <3>2, <4>1, ConstantTypes DEF RecordWithin
    <3>4. read_record_at(g, o) = read_record_at(f, o)
      BY <2>0, <3>3, RecordStable
    <3>5. Len(read_record_at(f, o).payload) = decode_frame(f[o]).len
      BY <2>2, RecordShape
    <3>6. Walk(g, e2)[o] = {o} \cup Walk(g, e2)[next]
      <4>1. Walk(g, e2)[o] = WalkStep(g, e2, Walk(g, e2), o)
        BY <2>0, WalkEquation
      <4>2. o # e2 /\ ~(o > e2)
        BY <2>0, <2>2
      <4> QED BY <2>2, <3>4, <3>5, <4>1, <4>2 DEF WalkStep
    <3>7. Walk(g, e2)[next] = Walk(f, e)[next] \cup Walk(g, e2)[e]
      BY <1>1, <3>1, <3>2
    <3> QED BY <2>2, <3>6, <3>7
  <2> QED
    BY <2>0, <2>1, <2>2, WalkVisits
<1>2. T = {}
  <2> SUFFICES ASSUME T # {} PROVE FALSE
    OBVIOUS
  <2>1. PICK k \in T : \A y \in T : k <= y
    <3>1. T \subseteq Nat
      BY ConstantTypes
    <3> HIDE DEF T
    <3> QED BY <3>1, LeastNat
  <2> HIDE DEF same
  <2>2. e - k \in LOG_START .. e
    BY <2>1, ConstantTypes
  <2>3. \A x \in (e - k) + 1 .. e : same(x)
    <3> SUFFICES ASSUME NEW x \in (e - k) + 1 .. e PROVE same(x)
      OBVIOUS
    <3>1. e - x \in 0 .. e - LOG_START /\ ~(k <= e - x) /\ e - (e - x) = x
      BY <2>1, ConstantTypes
    <3>2. e - x \notin T
      BY <2>1, <3>1
    <3>3. same(e - (e - x))
      BY <3>1, <3>2
    <3> QED BY <3>1, <3>3
  <2> QED
    BY <1>1, <2>1, <2>2, <2>3
<1> HIDE DEF same
<1>3. ASSUME NEW o \in LOG_START .. e
      PROVE  same(o)
  <2>1. e - o \in 0 .. e - LOG_START /\ e - (e - o) = o
    BY ConstantTypes
  <2>2. same(e - (e - o))
    BY <1>2, <2>1
  <2> QED BY <2>1, <2>2
<1> QED
  BY <1>3 DEF same

(* What verify finds is determined by the log below log_end. *)
LEMMA VerifyStable ==
    ASSUME NEW f \in [Offset -> Cell], NEW g \in [Offset -> Cell],
           NEW e \in LOG_START .. FileCap,
           \A o \in LOG_START .. e - 1 : g[o] = f[o], VerifyError \notin verify(f, e)
    PROVE  verify(g, e) = verify(f, e)
<1>1. LOG_START \in LOG_START .. e /\ e \in e .. FileCap /\ e \in 0 .. FileCap
  BY ConstantTypes
<1>2. Walk(g, e)[LOG_START] = Walk(f, e)[LOG_START] \cup Walk(g, e)[e]
  BY <1>1, VerifyIsWalk, WalkExtends
<1>3. Walk(g, e)[e] = {}
  BY <1>1, WalkEquation DEF WalkStep
<1> QED
  BY <1>2, <1>3, VerifyIsWalk

(* The walk of a log with one record more comes by that record as well. *)
LEMMA VerifyAppended ==
    ASSUME NEW f \in [Offset -> Cell], NEW g \in [Offset -> Cell],
           NEW e \in LOG_START .. FileCap,
           \A o \in LOG_START .. e - 1 : g[o] = f[o], VerifyError \notin verify(f, e),
           read_record_at(g, e) # Unreadable,
           NEW e2, e2 = e + RECORD_HEADER_SIZE + Len(read_record_at(g, e).payload)
    PROVE  verify(g, e2) = verify(f, e) \cup {e}
<1>1. e2 \in e + 1 .. FileCap
  <2>1. /\ decode_frame(g[e]).len \in Nat /\ e + decode_frame(g[e]).len \in Offset
        /\ Len(read_record_at(g, e).payload) = decode_frame(g[e]).len
    BY RecordShape
  <2> QED BY <2>1, ConstantTypes DEF Offset
<1>2. /\ LOG_START \in LOG_START .. e /\ e2 \in e .. FileCap /\ e \in 0 .. FileCap
      /\ e2 \in 0 .. FileCap /\ e # e2 /\ ~(e > e2)
  BY <1>1, ConstantTypes
<1>3. Walk(g, e2)[LOG_START] = Walk(f, e)[LOG_START] \cup Walk(g, e2)[e]
  BY <1>2, VerifyIsWalk, WalkExtends
<1>4. Walk(g, e2)[e2] = {}
  BY <1>2, WalkEquation DEF WalkStep
<1>5. Walk(g, e2)[e] = {e}
  <2>1. Walk(g, e2)[e] = WalkStep(g, e2, Walk(g, e2), e)
    BY <1>2, WalkEquation
  <2>2. WalkStep(g, e2, Walk(g, e2), e) = {e} \cup Walk(g, e2)[e2]
    BY <1>2 DEF WalkStep
  <2> QED BY <1>4, <2>1, <2>2
<1> QED
  BY <1>3, <1>5, VerifyIsWalk

(* A log with no record in it takes no walk. *)
LEMMA VerifyEmpty ==
    ASSUME NEW f \in [Offset -> Cell]
    PROVE  verify(f, LOG_START) = {}
<1>1. LOG_START \in 0 .. FileCap
  BY ConstantTypes
<1>2. Walk(f, LOG_START)[LOG_START]
        = WalkStep(f, LOG_START, Walk(f, LOG_START), LOG_START)
  BY <1>1, WalkEquation
<1> QED
  BY <1>2, VerifyIsWalk DEF WalkStep

(* A log that the walk gets through holds no foreign bytes, in a frame or  *)
(* in a payload.                                                           *)
LEMMA WalkedIsWhole ==
    ASSUME NEW f \in [Offset -> Cell], NEW e \in LOG_START .. FileCap,
           VerifyError \notin verify(f, e)
    PROVE  \A o \in LOG_START .. e - 1 : f[o] # Torn
<1> DEFINE whole(o) == VerifyError \notin Walk(f, e)[o]
                         => \A x \in o .. e - 1 : f[x] # Torn
           T == {k \in 0 .. e - LOG_START : ~whole(e - k)}
<1>1. ASSUME NEW o \in LOG_START .. e, \A x \in o + 1 .. e : whole(x)
      PROVE  whole(o)
  <2> SUFFICES ASSUME VerifyError \notin Walk(f, e)[o]
               PROVE  \A x \in o .. e - 1 : f[x] # Torn
    OBVIOUS
  <2> DEFINE next == o + RECORD_HEADER_SIZE + decode_frame(f[o]).len
  <2>0. o \in LOG_START .. FileCap /\ e \in Int /\ LOG_START \in Int
    BY ConstantTypes
  <2>1. CASE o = e /\ Walk(f, e)[o] = {}
    BY <2>0, <2>1
  <2>2. CASE /\ read_record_at(f, o) # Unreadable
             /\ o < e /\ next \in o + 1 .. FileCap
             /\ Walk(f, e)[o] = {o} \cup Walk(f, e)[next]
    <3>1. next \in LOG_START .. FileCap /\ VerifyError \notin Walk(f, e)[next]
      BY <2>0, <2>2
    <3>2. next \in o + 1 .. e
      <4>1. next = e \/ next < e
        BY <3>1, WalkVisits
      <4> QED BY <2>0, <2>2, <4>1
    <3>3. \A x \in next .. e - 1 : f[x] # Torn
      BY <1>1, <3>1, <3>2
    <3>4. f[o] # Torn
      <4>1. decode_frame(f[o]) # Unreadable
        BY <2>2 DEF read_record_at
      <4>2. decode_frame(Torn) = Unreadable
        BY DEF decode_frame, Torn
      <4> QED
        BY <4>1, <4>2
    <3>5. \A x \in o + 1 .. next - 1 : f[x] # Torn
      <4>1. /\ decode_frame(f[o]).len \in Nat /\ decode_frame(f[o]).crc \in Seq(Word)
            /\ Len(decode_frame(f[o]).crc) = decode_frame(f[o]).len
        BY <2>2, RecordShape
      <4>2. \A i \in 1 .. decode_frame(f[o]).len : f[o + i] = decode_frame(f[o]).crc[i]
        BY <2>2 DEF read_record_at
      <4>3. \A i \in 1 .. decode_frame(f[o]).len : f[o + i] \in Word
        BY <4>1, <4>2
      <4>4. Torn \notin Word
        BY DEF Torn, Word
      <4>5. ASSUME NEW x \in o + 1 .. next - 1
            PROVE  x - o \in 1 .. decode_frame(f[o]).len /\ o + (x - o) = x
        BY <2>0, <4>1, <4>5, ConstantTypes
      <4> QED
        BY <4>3, <4>4, <4>5
    <3> QED
      BY <2>0, <3>2, <3>3, <3>4, <3>5
  <2> QED
    BY <2>0, <2>1, <2>2, WalkVisits
<1>2. T = {}
  <2> SUFFICES ASSUME T # {} PROVE FALSE
    OBVIOUS
  <2>1. PICK k \in T : \A y \in T : k <= y
    <3>1. T \subseteq Nat
      BY ConstantTypes
    <3> HIDE DEF T
    <3> QED BY <3>1, LeastNat
  <2> HIDE DEF whole
  <2>2. e - k \in LOG_START .. e
    BY <2>1, ConstantTypes
  <2>3. \A x \in (e - k) + 1 .. e : whole(x)
    <3> SUFFICES ASSUME NEW x \in (e - k) + 1 .. e PROVE whole(x)
      OBVIOUS
    <3>1. e - x \in 0 .. e - LOG_START /\ ~(k <= e - x) /\ e - (e - x) = x
      BY <2>1, ConstantTypes
    <3>2. e - x \notin T
      BY <2>1, <3>1
    <3>3. whole(e - (e - x))
      BY <3>1, <3>2
    <3> QED BY <3>1, <3>3
  <2> QED
    BY <1>1, <2>1, <2>2, <2>3
<1>3. whole(LOG_START)
  <2> HIDE DEF whole
  <2>1. e - LOG_START \in 0 .. e - LOG_START /\ e - (e - LOG_START) = LOG_START
    BY ConstantTypes
  <2>2. whole(e - (e - LOG_START))
    BY <1>2, <2>1
  <2> QED BY <2>1, <2>2
<1> QED
  BY <1>3, VerifyIsWalk DEF whole

(* What a header's walk comes by does not change with what follows its log. *)
LEMMA HeaderWalksStable ==
    ASSUME NEW f \in [Offset -> Cell], NEW g \in [Offset -> Cell], NEW h \in Header,
           h.master_len = 0 \/ MasterWithin(f, h.master_ptr, h.log_end),
           \A o \in LOG_START .. h.log_end - 1 : g[o] = f[o], HeaderWalks(f, h)
    PROVE  HeaderWalks(g, h)
<1>1. h.log_end \in LOG_START .. FileCap /\ h.log_end \in Int
  BY ConstantTypes DEF Header
<1>2. verify(g, h.log_end) = verify(f, h.log_end)
  BY <1>1, VerifyStable DEF HeaderWalks, Walks
<1>3. load_index(g, h) = load_index(f, h)
  BY <1>1, LoadIndexStable
<1> QED
  BY <1>2, <1>3 DEF HeaderWalks, Walks

-----------------------------------------------------------------------------
(* The inductive step. *)

(* A step that brings no header to a slot, and leaves the log of each as   *)
(* it was, keeps every walk that succeeded.                                *)
LEMMA HeadersWalkKept ==
    ASSUME FileTypeOK, FileTypeOK', FileInv, HeadersWalk,
           \A s \in Slot : \A c \in disk'[s] : c.tag = "header" =>
              /\ c \in disk[s]
              /\ \A o \in LOG_START .. c.header.log_end - 1 : file'[o] = file[o]
    PROVE  HeadersWalk'
<1> SUFFICES ASSUME NEW s \in Slot, NEW c \in disk'[s], c.tag = "header"
             PROVE  HeaderWalks(file', c.header)
  BY DEF HeadersWalk
<1> DEFINE h == c.header
<1>1. c \in disk[s] /\ \A o \in LOG_START .. h.log_end - 1 : file'[o] = file[o]
  OBVIOUS
<1>2. h \in Header /\ h.log_end \in Int
  BY <1>1, CandidateType, ConstantTypes
<1>3. h.master_len = 0 \/ MasterWithin(file, h.master_ptr, h.log_end)
  <2>1. Supported(h)
    BY <1>1 DEF FileInv, HeadersSupported
  <2> QED BY <1>2, <2>1, MasterBelowWithin DEF Supported
<1>4. HeaderWalks(file, h)
  BY <1>1 DEF HeadersWalk
<1>5. file \in [Offset -> Cell] /\ file' \in [Offset -> Cell]
  BY DEF FileTypeOK
<1> QED
  BY <1>1, <1>2, <1>3, <1>4, <1>5, HeaderWalksStable

LEMMA MediumKeepsWalks ==
    ASSUME FileTypeOK, FileTypeOK', FileInv, HeadersWalk,
           UNCHANGED fileVars \/ sync_data \/ SyncError \/ PowerCut
    PROVE  HeadersWalk'
  BY MediumKeepsLogs, HeadersWalkKept

(* A handle whose index, end and log a step leaves as they were. *)
LEMMA HandleWalksKept ==
    ASSUME TypeOK, FileTypeOK', VerifyInv, IsOpen,
           UNCHANGED <<index, end>>, \A o \in LOG_START .. end - 1 : file'[o] = file[o]
    PROVE  HandleWalks' /\ verify(file', end') = verify(file, end)
<1>1. /\ file \in [Offset -> Cell] /\ file' \in [Offset -> Cell]
      /\ end \in LOG_START .. FileCap
  BY DEF TypeOK, FileTypeOK
<1>2. Walks(file, index, end)
  BY DEF VerifyInv, HandleWalks
<1>3. verify(file', end) = verify(file, end)
  BY <1>1, <1>2, VerifyStable DEF Walks
<1> QED
  BY <1>2, <1>3 DEF HandleWalks, Walks

(* What a successful append adds to the walk. *)
LEMMA AppendedWalks ==
    ASSUME TypeOK, FileTypeOK', RecoveryInv, CommitInv, VerifyInv, IsOpen, IsOpen',
           NEW kind \in RecordKind, NEW payload \in Seq(Word),
           append_raw(kind, payload), UNCHANGED header
    PROVE  /\ HeadersWalk'
           /\ verify(file', end') = verify(file, end) \cup {end}
           /\ VerifyError \notin verify(file', end')
           /\ {index.offsets[id] : id \in Known(index)} \subseteq verify(file', end')
<1> DEFINE cells == record_cells(kind, payload)
           k == Len(cells)
<1>1. cells \in Seq(Cell) /\ k \in Nat
  BY RecordCellsType
<1>2. /\ WritePrefix(cells, k, end) /\ k \in 0 .. Len(cells)
      /\ FileTypeOK /\ FileInv /\ HeadersWalk
  BY <1>1 DEF append_raw, WriteRecord, write_all_at, TypeOK, RecoveryInv, VerifyInv
<1>3. HeadersWalk'
  <2>1. \A s \in Slot : \A c \in disk'[s] : c.tag = "header" =>
           /\ c \in disk[s]
           /\ \A o \in LOG_START .. c.header.log_end - 1 : file'[o] = file[o]
    BY <1>1, <1>2, AppendKeepsLogs
  <2> QED BY <1>2, <2>1, HeadersWalkKept
<1>4. /\ end' = end + 1 + Len(payload)
      /\ end \in Nat /\ LOG_START <= end /\ end' <= FileCap /\ Len(payload) <= MaxRecordLen
      /\ file \in [Offset -> Cell] /\ file' \in [Offset -> Cell]
      /\ \A o \in LOG_START .. end - 1 : file'[o] = file[o]
      /\ \A o \in end .. end + Len(payload) : file'[o] = cells[o - end + 1]
  BY AppendedRecord
<1>5. end \in LOG_START .. FileCap
  BY DEF TypeOK
<1>6. read_record_at(file', end) = [kind |-> kind, payload |-> payload]
  BY <1>4, RecordWritten
<1>7. Walks(file, index, end)
  BY DEF VerifyInv, HandleWalks
<1>8. verify(file', end') = verify(file, end) \cup {end}
  <2>1. read_record_at(file', end) # Unreadable
    BY <1>6, ReadableRecords
  <2>2. end' = end + RECORD_HEADER_SIZE + Len(read_record_at(file', end).payload)
    BY <1>4, <1>6, ConstantTypes
  <2>3. VerifyError \notin verify(file, end)
    BY <1>7 DEF Walks
  <2>4. /\ file \in [Offset -> Cell] /\ file' \in [Offset -> Cell]
        /\ \A o \in LOG_START .. end - 1 : file'[o] = file[o]
    BY <1>4
  <2> QED
    BY <1>5, <2>1, <2>2, <2>3, <2>4, VerifyAppended
<1>9. end # VerifyError
  BY <1>5, ConstantTypes DEF VerifyError
<1> QED
  BY <1>3, <1>7, <1>8, <1>9 DEF Walks

(* The appends, in append, tombstone and commit, preserve the invariant. *)
LEMMA AppendVerifyStep ==
    ASSUME TypeOK, TypeOK', RecoveryInv, CommitInv, VerifyInv,
           \/ \E kind \in AppendKinds, d \in Doc : Append_(kind, d)
           \/ \E id \in DocId : Tombstone(id)
           \/ CommitAppendMaster
    PROVE  VerifyInv'
<1>1. /\ FileTypeOK' /\ pc \in {"idle", "append_master"} /\ pc' \in {"idle", "sync_master"}
      /\ UNCHANGED header /\ index \in MasterIndex
  BY DEF TypeOK, Append_, Tombstone, Bury, CommitAppendMaster
<1>2. IsOpen /\ IsOpen'
  BY <1>1, OpenStates
<1>3. CASE \E kind \in AppendKinds, d \in Doc : Append_(kind, d)
  <2>1. PICK kind \in AppendKinds, d \in Doc : Append_(kind, d)
    BY <1>3
  <2>2. /\ kind \in RecordKind /\ doc_payload(d) \in Seq(Word)
        /\ append_raw(kind, doc_payload(d)) /\ pc' = "idle"
        /\ index' = InsertNew(index, end)
    BY <2>1, PayloadTypes, EngineAssumption DEF Append_
  <2>3. /\ HeadersWalk' /\ end \in verify(file', end')
        /\ VerifyError \notin verify(file', end')
        /\ {index.offsets[id] : id \in Known(index)} \subseteq verify(file', end')
    BY <1>1, <1>2, <2>2, AppendedWalks
  <2>4. \A id \in Known(index') : index'.offsets[id] \in verify(file', end')
    <3> SUFFICES ASSUME NEW id \in Known(index')
                 PROVE  index'.offsets[id] \in verify(file', end')
      OBVIOUS
    <3>1. /\ id \in DocId /\ index'.offsets[id] # NoOffset
          /\ index'.offsets = [index.offsets EXCEPT ![index.next_doc_id] = end]
          /\ index.offsets \in [DocId -> Nat]
      BY <1>1, <2>2 DEF Known, InsertNew, MasterIndex
    <3>2. CASE id = index.next_doc_id
      BY <2>3, <3>1, <3>2
    <3>3. CASE id # index.next_doc_id
      BY <2>3, <3>1, <3>3 DEF Known
    <3> QED BY <3>2, <3>3
  <2>5. Walks(file', index', end')
    BY <2>3, <2>4 DEF Walks
  <2> QED
    BY <2>2, <2>3, <2>5 DEF VerifyInv, HandleWalks, MasterWalked
<1>4. CASE \E id \in DocId : Tombstone(id)
  <2>1. PICK id \in DocId : Tombstone(id)
    BY <1>4
  <2>2. /\ "Tombstone" \in RecordKind /\ tombstone_payload(id) \in Seq(Word)
        /\ append_raw("Tombstone", tombstone_payload(id)) /\ pc' = "idle"
        /\ index' = [index EXCEPT !.dead = @ \cup {id}]
    BY <2>1, PayloadTypes DEF RecordKind, Tombstone, Bury
  <2>3. index'.offsets = index.offsets /\ Known(index') = Known(index)
    BY <1>1, <2>2 DEF Known, MasterIndex
  <2>4. /\ HeadersWalk' /\ VerifyError \notin verify(file', end')
        /\ {index.offsets[x] : x \in Known(index)} \subseteq verify(file', end')
    BY <1>1, <1>2, <2>2, AppendedWalks
  <2>5. Walks(file', index', end')
    BY <2>3, <2>4 DEF Walks
  <2> QED
    BY <2>2, <2>4, <2>5 DEF VerifyInv, HandleWalks, MasterWalked
<1>5. CASE CommitAppendMaster
  <2>1. /\ "MasterIndex" \in RecordKind /\ index_encode(index) \in Seq(Word)
        /\ append_raw("MasterIndex", index_encode(index))
        /\ master_ptr' = end /\ index' = index
    BY <1>1, <1>5, PayloadTypes DEF RecordKind, CommitAppendMaster
  <2>2. /\ HeadersWalk' /\ end \in verify(file', end')
        /\ VerifyError \notin verify(file', end')
        /\ {index.offsets[x] : x \in Known(index)} \subseteq verify(file', end')
    BY <1>1, <1>2, <2>1, AppendedWalks
  <2> QED
    BY <2>1, <2>2 DEF VerifyInv, HandleWalks, MasterWalked, Walks
<1> QED
  BY <1>3, <1>4, <1>5

(* Creating a database puts no header in a slot but that of an empty log. *)
LEMMA CreateVerifyStep ==
    ASSUME TypeOK, TypeOK', RecoveryInv, VerifyInv, OpenCreate \/ OpenCreateError
    PROVE  VerifyInv'
<1>1. /\ FileTypeOK /\ FileTypeOK' /\ FileInv /\ pc = "closed" /\ file[0] = Eof
      /\ pc' \in {"init", "closed"}
  BY DEF TypeOK, RecoveryInv, OpenCreate, OpenCreateError
<1>2. PICK k \in 0 .. 2 : WritePrefix(HeaderRegion, k, 0)
  BY HeaderRegionType
  DEF OpenCreate, OpenCreateError, write_all_at, WriteFault, WriteError
<1>3. \A s \in Slot : \A c \in disk'[s] :
        c.tag = "header" => c.header = InitialHeader
  BY <1>1, <1>2, CreateKeepsFile
<1>4. HeaderWalks(file', InitialHeader)
  <2>1. verify(file', LOG_START) = {}
    BY <1>1, VerifyEmpty DEF FileTypeOK
  <2>2. load_index(file', InitialHeader) = DefaultIndex /\ Known(DefaultIndex) = {}
    BY DEF load_index, InitialHeader, Known, DefaultIndex
  <2> QED
    BY <2>1, <2>2 DEF HeaderWalks, Walks, InitialHeader
<1> QED
  BY <1>1, <1>3, <1>4 DEF VerifyInv, HeadersWalk, HandleWalks, MasterWalked, IsOpen

(* Opening a database takes the walk of the header it finds. *)
LEMMA OpenVerifyStep ==
    ASSUME TypeOK, TypeOK', RecoveryInv, CommitInv, VerifyInv,
           InitializeSync \/ InitializeSyncError \/ OpenLoad
    PROVE  VerifyInv'
<1>1. /\ FileTypeOK /\ FileTypeOK' /\ FileInv /\ HeadersWalk
      /\ sync_data \/ SyncError \/ UNCHANGED fileVars
      /\ pc' \in {"idle", "closed"}
  BY DEF TypeOK, RecoveryInv, VerifyInv, InitializeSync, InitializeSyncError, OpenLoad, LoadHandle
<1>2. HeadersWalk'
  BY <1>1, MediumKeepsWalks
<1>3. HandleWalks'
  <2>1. CASE InitializeSyncError
    BY <2>1 DEF InitializeSyncError, HandleWalks, IsOpen
  <2>2. CASE InitializeSync
    <3>1. end' = LOG_START /\ index' = DefaultIndex
      BY <2>2
      DEF InitializeSync, RecoveryInv, HandleInv, HandleUnused, CommitInv, HandleIndexed, IsOpen
    <3>2. verify(file', LOG_START) = {} /\ Known(DefaultIndex) = {}
      BY <1>1, VerifyEmpty DEF FileTypeOK, Known, DefaultIndex
    <3> QED BY <3>1, <3>2 DEF HandleWalks, Walks
  <2>3. CASE OpenLoad
    <3> DEFINE h == LiveHeader(file)
               s == select_live(decode_slots(file))
    <3>1. /\ Loadable(file) /\ file' = file /\ file \in [Offset -> Cell]
          /\ index' = load_index(file, h) /\ end' = h.log_end
      BY <1>1, <2>3 DEF OpenLoad, LoadHandle, fileVars, FileTypeOK
    <3>2. s \in Slot /\ file[s].tag = "header" /\ file[s].header = h
      BY <3>1, LiveCell DEF Loadable
    <3>3. file[s] \in disk[s]
      BY <1>1, <3>2, ConstantTypes DEF FileInv, SyncedIsCached
    <3>4. HeaderWalks(file, h)
      BY <1>1, <3>2, <3>3 DEF HeadersWalk
    <3> QED BY <3>1, <3>4 DEF HandleWalks, HeaderWalks
  <2> QED BY <2>1, <2>2, <2>3
<1> QED
  BY <1>1, <1>2, <1>3 DEF VerifyInv, MasterWalked

(* The header a commit writes leads to the handle's index, up to its end. *)
LEMMA WriteHeaderVerifyStep ==
    ASSUME TypeOK, TypeOK', RecoveryInv, CommitInv, CommitInv', VerifyInv, CommitWriteHeader
    PROVE  VerifyInv'
<1> DEFINE v == victim_slot(slots)
           N == header_encode(NextHeader)
<1>1. /\ FileTypeOK /\ FileTypeOK' /\ FileInv /\ HeadersWalk
      /\ pc = "write_header" /\ pc' = "sync_header" /\ index \in MasterIndex
      /\ UNCHANGED <<header, index, end, master_ptr>> /\ write_all_at(<<N>>, v)
      /\ file' \in [Offset -> Cell]
  BY DEF TypeOK, FileTypeOK, RecoveryInv, VerifyInv, CommitWriteHeader, handleVars
<1>2. /\ IsOpen /\ v \in Slot
  BY <1>1, OpenStates, VictimIsNotLive
<1>3. /\ \A o \in Offset \ {v} : file'[o] = file[o] /\ disk'[o] = disk[o]
      /\ \A c \in disk'[v] : c.tag = "header" => c \in disk[v] \/ c = N
  BY <1>1, HeaderWriteKeepsFile
<1>4. \A e \in LOG_START .. FileCap : \A o \in LOG_START .. e - 1 : file'[o] = file[o]
  BY <1>2, <1>3, ConstantTypes DEF Offset
<1>5. /\ HandleWalks' /\ verify(file', end) = verify(file, end)
      /\ master_ptr \in verify(file, end)
  <2>1. \A o \in LOG_START .. end - 1 : file'[o] = file[o]
    BY <1>4 DEF TypeOK
  <2> QED BY <1>1, <1>2, <2>1, HandleWalksKept DEF VerifyInv, MasterWalked
<1>6. HeaderWalks(file', NextHeader)
  <2>1. load_index(file', NextHeader) = index
    <3>1. read_record_at(file', master_ptr).payload = index_encode(index)
      BY <1>1 DEF CommitInv, MasterHoldsIndex
    <3>2. NextHeader.master_ptr = master_ptr /\ NextHeader.master_len = EncodedLen(index)
      BY DEF NextHeader
    <3>3. EncodedLen(index) # 0
      BY <1>1, EncodedLenType
    <3> QED BY <1>1, <3>1, <3>2, <3>3, LoadIndexEncoded
  <2>2. NextHeader.log_end = end /\ NextHeader.master_ptr = master_ptr
    BY DEF NextHeader
  <2>3. Walks(file', index, end)
    <3>1. IsOpen'
      BY <1>1, OpenStates
    <3> QED BY <1>1, <1>5, <3>1 DEF HandleWalks
  <2> QED
    BY <1>5, <2>1, <2>2, <2>3 DEF HeaderWalks
<1>7. HeadersWalk'
  <2> SUFFICES ASSUME NEW s \in Slot, NEW c \in disk'[s], c.tag = "header"
               PROVE  HeaderWalks(file', c.header)
    BY DEF HeadersWalk
  <2>1. CASE c = N
    BY <1>6, <2>1 DEF header_encode
  <2>2. CASE c \in disk[s]
    <3>1. c.header \in Header /\ c.header.log_end \in LOG_START .. FileCap
          /\ c.header.log_end \in Int
      BY <1>1, <2>2, CandidateType, ConstantTypes
    <3>2. Supported(c.header) /\ HeaderWalks(file, c.header)
      BY <1>1, <2>2 DEF FileInv, HeadersSupported, HeadersWalk
    <3>3. c.header.master_len = 0 \/ MasterWithin(file, c.header.master_ptr, c.header.log_end)
      BY <1>1, <3>1, <3>2, MasterBelowWithin DEF Supported
    <3>4. file \in [Offset -> Cell]
      BY <1>1 DEF FileTypeOK
    <3> QED BY <1>1, <1>4, <3>1, <3>2, <3>3, <3>4, HeaderWalksStable
  <2>3. c = N \/ c \in disk[s]
    BY <1>2, <1>3, ConstantTypes
  <2> QED BY <2>1, <2>2, <2>3
<1> QED
  BY <1>1, <1>5, <1>7 DEF VerifyInv, MasterWalked

(* Every other step leaves the handle's log, and every header's, alone. *)
LEMMA OtherVerifyStep ==
    ASSUME TypeOK, TypeOK', RecoveryInv, CommitInv, VerifyInv,
           \/ \E kind \in AppendKinds, d \in Doc : AppendError(kind, d)
           \/ \E id \in DocId : TombstoneError(id)
           \/ CommitMasterError \/ CommitMasterTooLarge \/ CommitHeaderError
           \/ CommitSyncRecords \/ CommitSyncMaster \/ CommitSyncHeader \/ CommitSyncError
           \/ UNCHANGED vars
    PROVE  VerifyInv'
<1>1. /\ FileTypeOK /\ FileTypeOK' /\ FileInv /\ HeadersWalk /\ HandleWalks
      /\ UNCHANGED <<index, end>>
  BY DEF TypeOK, RecoveryInv, VerifyInv, AppendError, append_raw_error, TombstoneError,
         CommitMasterError, CommitMasterTooLarge, CommitHeaderError, CommitReturns,
         CommitSyncRecords, CommitSyncMaster, CommitSyncHeader, InstallHeader,
         CommitSyncError, handleVars, vars
<1>2. \/ pc' \in {"idle", "append_master"}
      \/ pc' = "write_header" /\ pc = "sync_master" /\ master_ptr' = master_ptr
      \/ pc' = pc /\ master_ptr' = master_ptr
  BY DEF AppendError, TombstoneError, CommitMasterError, CommitMasterTooLarge,
         CommitHeaderError, CommitReturns, CommitSyncRecords, CommitSyncMaster,
         CommitSyncHeader, InstallHeader, CommitSyncError, vars, handleVars
<1>3. IsOpen' => IsOpen
  BY DEF IsOpen, AppendError, TombstoneError, CommitMasterError, CommitMasterTooLarge,
         CommitHeaderError, CommitReturns, CommitSyncRecords, CommitSyncMaster,
         CommitSyncHeader, InstallHeader, CommitSyncError, vars
<1>4. SUFFICES HeadersWalk' /\ (IsOpen => \A o \in LOG_START .. end - 1 : file'[o] = file[o])
  <2> SUFFICES ASSUME HeadersWalk',
                      IsOpen => \A o \in LOG_START .. end - 1 : file'[o] = file[o]
               PROVE  VerifyInv'
    OBVIOUS
  <2>1. CASE IsOpen
    <3>1. HandleWalks' /\ verify(file', end') = verify(file, end)
      BY <1>1, <2>1, HandleWalksKept
    <3>2. MasterWalked'
      BY <1>2, <3>1 DEF MasterWalked, VerifyInv
    <3> QED BY <3>1, <3>2 DEF VerifyInv
  <2>2. CASE ~IsOpen
    BY <1>3, <2>2 DEF VerifyInv, HandleWalks, MasterWalked, IsOpen
  <2> QED BY <2>1, <2>2
<1>5. CASE UNCHANGED fileVars \/ sync_data \/ SyncError
  <2>1. file' = file
    BY <1>5 DEF fileVars, sync_data, SyncError
  <2> QED BY <1>1, <1>5, <2>1, MediumKeepsWalks
<1>6. ASSUME NEW kind \in RecordKind, NEW payload \in Seq(Word),
             append_raw_error(kind, payload), IsOpen
      PROVE  HeadersWalk' /\ \A o \in LOG_START .. end - 1 : file'[o] = file[o]
  <2> DEFINE cells == record_cells(kind, payload)
  <2>1. cells \in Seq(Cell) /\ Len(cells) \in Nat
    BY RecordCellsType
  <2>2. PICK k \in 0 .. Len(cells) : WritePrefix(cells, k, end)
    BY <1>6, <2>1 DEF append_raw_error, WriteFault, WriteError
  <2> HIDE DEF cells
  <2>3. /\ \A s \in Slot : \A c \in disk'[s] : c.tag = "header" =>
              /\ c \in disk[s]
              /\ \A o \in LOG_START .. c.header.log_end - 1 : file'[o] = file[o]
        /\ \A o \in LOG_START .. end - 1 : file'[o] = file[o]
    BY <1>1, <1>6, <2>1, <2>2, AppendKeepsLogs
  <2> QED BY <1>1, <2>3, HeadersWalkKept
<1>7. CASE \/ \E kind \in AppendKinds, d \in Doc : AppendError(kind, d)
           \/ \E id \in DocId : TombstoneError(id)
           \/ CommitMasterError
  <2>1. IsOpen /\ index \in MasterIndex
    BY <1>7 DEF AppendError, TombstoneError, CommitMasterError, IsOpen, TypeOK
  <2>2. PICK kind \in RecordKind, payload \in Seq(Word) : append_raw_error(kind, payload)
    BY <1>7, <2>1, PayloadTypes, EngineAssumption
    DEF AppendError, TombstoneError, CommitMasterError, RecordKind
  <2> QED BY <1>6, <2>1, <2>2
<1>8. CASE CommitHeaderError
  <2>1. PICK k \in 0 .. 0 : WritePrefix(<<header_encode(NextHeader)>>, k, victim_slot(slots))
    BY <1>8 DEF CommitHeaderError, WriteFault, WriteError
  <2>2. victim_slot(slots) .. victim_slot(slots) + k - 1 = {}
    BY <2>1, VictimSlot, ConstantTypes DEF TypeOK
  <2>3. UNCHANGED fileVars
    BY <1>1, <2>1, <2>2 DEF WritePrefix, fileVars, FileTypeOK
  <2> QED BY <1>5, <2>3
<1>9. CASE \/ CommitMasterTooLarge \/ CommitSyncRecords \/ CommitSyncMaster
           \/ CommitSyncHeader \/ CommitSyncError \/ UNCHANGED vars
  BY <1>5, <1>9
  DEF CommitMasterTooLarge, CommitSyncRecords, CommitSyncMaster, CommitSyncHeader,
      CommitSyncError, vars
<1> QED
  BY <1>7, <1>8, <1>9

-----------------------------------------------------------------------------
(* The theorems. *)

(* Records follow one another without a gap up to the log_end of every     *)
(* header a crash may leave and up to the next append of an open handle,   *)
(* and the walk comes by every document and master index that one of them  *)
(* leads to (engine.rs append_raw, commit and load).                       *)
THEOREM VerifyInvariant ==
    ASSUME ~SyncErrorDropsWrites
    PROVE  Spec => []VerifyInv
<1>1. Init => VerifyInv
  <2> SUFFICES ASSUME Init PROVE VerifyInv
    OBVIOUS
  <2>1. \A o \in Offset : disk[o] = {Eof}
    BY DEF Init, FileInit
  <2>2. \A s \in Slot : \A c \in disk[s] : c.tag # "header"
    BY <2>1, ConstantTypes DEF Eof
  <2> QED
    BY <2>2 DEF Init, VerifyInv, HeadersWalk, HandleWalks, MasterWalked, IsOpen
<1>2. TypeOK /\ TypeOK' /\ RecoveryInv /\ CommitInv /\ CommitInv' /\ VerifyInv /\ [Next]_vars
        => VerifyInv'
  <2> SUFFICES ASSUME TypeOK, TypeOK', RecoveryInv, CommitInv, CommitInv', VerifyInv,
                      [Next]_vars
               PROVE  VerifyInv'
    OBVIOUS
  <2>1. CASE Drop \/ PowerLoss
    <3>1. /\ FileTypeOK /\ FileTypeOK' /\ FileInv /\ HeadersWalk
          /\ UNCHANGED fileVars \/ PowerCut
          /\ pc' = "closed"
      BY <2>1 DEF TypeOK, RecoveryInv, VerifyInv, Drop, PowerLoss
    <3>2. HeadersWalk'
      BY <3>1, MediumKeepsWalks
    <3> QED BY <3>1, <3>2 DEF VerifyInv, HandleWalks, MasterWalked, IsOpen
  <2> QED
    BY <2>1, CreateVerifyStep, OpenVerifyStep, AppendVerifyStep, WriteHeaderVerifyStep,
       OtherVerifyStep
    DEF Next, CommitNext, OpenRejected, CommitClean, AppendTooLarge, TombstoneMissing
<1> QED
  BY <1>1, <1>2, TypeCorrect, RecoveryInvariant, CommitInvariant, PTL DEF Spec

(* verify succeeds on every database that is open, and comes by the live   *)
(* master index and every document that index knows (engine.rs verify).    *)
THEOREM Verified ==
    ASSUME ~SyncErrorDropsWrites
    PROVE  Spec => []VerifyPasses
<1>1. TypeOK /\ RecoveryInv /\ VerifyInv => VerifyPasses
  <2> SUFFICES ASSUME TypeOK, RecoveryInv, VerifyInv, IsOpen
               PROVE  HeaderWalks(file, header)
    BY DEF VerifyPasses, HeaderWalks, Walks, IsOpen
  <2>1. /\ file[live_slot] = header_encode(header) /\ live_slot \in Slot
        /\ file[live_slot] \in disk[live_slot]
    BY ConstantTypes
    DEF RecoveryInv, HandleInv, HandleOpen, FileInv, SyncedIsCached, TypeOK
  <2>2. /\ header_encode(header).tag = "header" /\ header_encode(header).header = header
        /\ header_encode(header) \in disk[live_slot]
    BY <2>1 DEF header_encode
  <2> QED
    BY <2>1, <2>2 DEF VerifyInv, HeadersWalk
<1> QED
  BY <1>1, TypeCorrect, RecoveryInvariant, VerifyInvariant, PTL
=============================================================================
