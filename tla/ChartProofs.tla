----------------------------- MODULE ChartProofs -----------------------------
(***************************************************************************)
(* Theorems about the charts of the web pages, the gestures on them and    *)
(* their time axis, for all channels, samples, limits, ranges, windows and *)
(* tables of ticks, and however many charts and gestures there are.  The   *)
(* lemmas about numbers and lists at its start serve the other panels too. *)
(***************************************************************************)
EXTENDS ZoomGestures, ChartPanel, StreamingScale, TLAPS, FiniteSetTheorems, SequenceTheorems,
        WellFoundedInduction

(* The least of some numbers; the smallest and the largest of a set.         *)
LEMMA LeastOf ==
  ASSUME NEW T, T \subseteq Nat, T # {}
  PROVE  \E x \in T : \A y \in T : x <= y
<1> DEFINE R == OpToRel(<, Nat)
<1>1. IsWellFoundedOn(R, Nat)
  BY NatLessThanWellFounded, Zenon
<1>2. \A x, y \in Nat : <<x, y>> \in R <=> x < y
  BY DEF OpToRel
<1> HIDE DEF R
<1>3. PICK x \in T : \A y \in T : <<y, x>> \notin R
  BY <1>1, WFMin
<1>4. \A y \in T : ~(y < x)
  BY <1>2, <1>3
<1> QED
  BY <1>4

LEMMA MinIs ==
  ASSUME NEW S \in SUBSET Int, NEW m \in S, \A x \in S : m <= x
  PROVE  Min(S) = m
<1>1. \A x \in S : (\A y \in S : x <= y) => x = m
  OBVIOUS
<1>2. Min(S) \in S /\ \A y \in S : Min(S) <= y
  BY DEF Min
<1> QED
  BY <1>1, <1>2

LEMMA MaxIs ==
  ASSUME NEW S \in SUBSET Int, NEW m \in S, \A x \in S : m >= x
  PROVE  Max(S) = m
<1>1. \A x \in S : (\A y \in S : x >= y) => x = m
  OBVIOUS
<1>2. Max(S) \in S /\ \A y \in S : Max(S) >= y
  BY DEF Max
<1> QED
  BY <1>1, <1>2

(* A splice takes out one element and keeps the others in their order.       *)
LEMMA RemovedAt ==
  ASSUME NEW S, NEW s \in Seq(S), NEW k \in DOMAIN s
  PROVE  /\ RemoveAt(s, k) \in Seq(S) /\ Len(RemoveAt(s, k)) = Len(s) - 1
         /\ \A i \in 1 .. Len(s) - 1 : RemoveAt(s, k)[i] = s[IF i < k THEN i ELSE i + 1]
<1> DEFINE t == RemoveAt(s, k)
           a == SubSeq(s, 1, k - 1)
           b == SubSeq(s, k + 1, Len(s))
<1>1. k \in 1 .. Len(s) /\ Len(s) \in Nat
  OBVIOUS
<1>2. a \in Seq(S) /\ Len(a) = k - 1 /\ \A i \in 1 .. k - 1 : a[i] = s[i]
  BY <1>1, SubSeqProperties
<1>3. b \in Seq(S) /\ Len(b) = Len(s) - k /\ \A i \in 1 .. Len(s) - k : b[i] = s[k + i]
  BY <1>1, SubSeqProperties
<1>4. t = a \o b
  BY DEF RemoveAt
<1> HIDE DEF t, a, b
<1>5. /\ t \in Seq(S) /\ Len(t) = Len(a) + Len(b)
      /\ \A i \in 1 .. Len(a) + Len(b) : t[i] = IF i <= Len(a) THEN a[i] ELSE b[i - Len(a)]
  BY <1>2, <1>3, <1>4, ConcatProperties
<1>6. Len(t) = Len(s) - 1
  BY <1>1, <1>2, <1>3, <1>5
<1>7. ASSUME NEW i \in 1 .. Len(s) - 1 PROVE t[i] = s[IF i < k THEN i ELSE i + 1]
  <2>1. t[i] = IF i <= k - 1 THEN a[i] ELSE b[i - (k - 1)]
    <3>1. i \in 1 .. Len(a) + Len(b) /\ Len(a) = k - 1
      BY <1>1, <1>2, <1>3
    <3> QED
      BY <1>5, <3>1
  <2>2. CASE i < k
    <3>1. i \in 1 .. k - 1
      BY <1>1, <2>2
    <3> QED
      BY <1>1, <1>2, <2>1, <2>2, <3>1
  <2>3. CASE ~(i < k)
    <3>1. i - (k - 1) \in 1 .. Len(s) - k /\ k + (i - (k - 1)) = i + 1 /\ ~(i <= k - 1)
      BY <1>1, <2>3
    <3>2. b[i - (k - 1)] = s[k + (i - (k - 1))]
      BY <1>3, <3>1
    <3> QED
      BY <2>1, <2>3, <3>1, <3>2
  <2> QED
    BY <2>2, <2>3
<1> QED
  BY <1>5, <1>6, <1>7 DEF t
-----------------------------------------------------------------------------
(* The gestures on a chart's axis.                                           *)
Ranges == [min : Int, max : Int]
Proper(r) == r \in Ranges /\ r.min <= r.max

(* The axis and the range it goes back to: nobody but the plugin sets one,   *)
(* so that what it finds unset at first is what a reset restores.            *)
AxisOK ==
  /\ limits \in AxisLimits /\ dataRange \in DataRanges
  /\ options = None \/ Proper(options)
  /\ initialRange.options = None /\ panDelta \in Int
  /\ running => options \in {None, updated} /\ (initialRange = NoOriginal => options = None)

(* The listeners and flags of the gestures, and the timers that end them.    *)
FlagsOK ==
  /\ dragStart \in BOOLEAN /\ dragMoved \in BOOLEAN /\ dragging \in BOOLEAN
  /\ panning \in BOOLEAN /\ panTimer \in BOOLEAN /\ running \in BOOLEAN
TimersOK ==
  /\ dragTimers \in Nat /\ gestures \in 0 .. MaxGestures
  /\ dragTimers <= gestures /\ (dragStart => dragTimers < gestures)
PansOK ==
  /\ panAt \in -1 .. 1 \cup {Far}
  /\ panAt # Far => panning /\ ~panTimer
GesturesOK ==
  /\ listeners \in [Types -> {0, 1}]
  /\ FlagsOK /\ TimersOK /\ PansOK
  /\ ~running => ~dragStart /\ panAt = Far

ZoomInv == AxisOK /\ GesturesOK /\ HandlersOnce

(* The greater and the less of two numbers, as updateRange takes them.       *)
LEMMA MaxOfTwo == \A a, b \in Int : Max({a, b}) = IF a >= b THEN a ELSE b
<1> SUFFICES ASSUME NEW a \in Int, NEW b \in Int PROVE Max({a, b}) = IF a >= b THEN a ELSE b
  OBVIOUS
<1> DEFINE m == IF a >= b THEN a ELSE b
<1>1. m \in {a, b} /\ \A x \in {a, b} : m >= x
  OBVIOUS
<1> HIDE DEF m
<1>2. {a, b} \in SUBSET Int
  OBVIOUS
<1>3. Max({a, b}) = m
  BY <1>1, <1>2, MaxIs
<1> QED
  BY <1>3 DEF m

LEMMA LessOfTwo == \A a, b \in Int : Min({a, b}) = IF a <= b THEN a ELSE b
<1> SUFFICES ASSUME NEW a \in Int, NEW b \in Int PROVE Min({a, b}) = IF a <= b THEN a ELSE b
  OBVIOUS
<1> DEFINE m == IF a <= b THEN a ELSE b
<1>1. m \in {a, b} /\ \A x \in {a, b} : m <= x
  OBVIOUS
<1> HIDE DEF m
<1>2. {a, b} \in SUBSET Int
  OBVIOUS
<1>3. Min({a, b}) = m
  BY <1>1, <1>2, MinIs
<1> QED
  BY <1>3 DEF m

LEMMA LimitsAre ==
  ASSUME ZoomInv
  PROVE  /\ limits.min \in Int /\ limits.max \in Int /\ limits.minRange \in Nat
         /\ limits.min <= 0 /\ limits.max >= 4 /\ limits.minRange <= limits.max - limits.min
BY ZoomAssumption DEF ZoomInv, AxisOK, AxisLimits

LEMMA ScaleIs == ASSUME ZoomInv PROVE Proper(Scale)
BY ZoomAssumption DEF ZoomInv, AxisOK, Proper, Ranges, Scale, DataRanges, None

(* updateRange with the numbers spelled out: lo and hi are the range clipped *)
(* to the limits, len is the length it is to have.                           *)
Fitted(lo, hi, len, r) ==
  \/ hi - lo = len /\ r.min = lo /\ r.max = hi
  \/ hi - lo # len /\ limits.min > hi - len /\ r.min = lo /\ r.max = lo + len
  \/ hi - lo # len /\ limits.min <= hi - len /\ limits.max < lo + len /\ r.min = hi - len /\ r.max = hi
  \/ /\ hi - lo # len /\ limits.min <= hi - len /\ limits.max >= lo + len
     /\ \E half \in Int : /\ 2 * half \in {len - hi + lo, len - hi + lo - 1}
                            /\ r.min = lo - half /\ r.max = hi + half

LEMMA UpdatedIs ==
  ASSUME ZoomInv, NEW r \in Ranges, NEW zoomed \in BOOLEAN
  PROVE  LET lo == IF r.min >= limits.min THEN r.min ELSE limits.min
             hi == IF r.max <= limits.max THEN r.max ELSE limits.max
             len == IF ~zoomed THEN Span(Scale)
                    ELSE IF hi - lo >= limits.minRange THEN hi - lo ELSE limits.minRange
         IN  UpdatedRange(r, zoomed) \in Ranges /\ Fitted(lo, hi, len, UpdatedRange(r, zoomed))
<1> DEFINE lo == IF r.min >= limits.min THEN r.min ELSE limits.min
           hi == IF r.max <= limits.max THEN r.max ELSE limits.max
           len == IF ~zoomed THEN Span(Scale)
                  ELSE IF hi - lo >= limits.minRange THEN hi - lo ELSE limits.minRange
           cmin == Max({r.min, limits.min})
           cmax == Min({r.max, limits.max})
           range == IF zoomed THEN Max({cmax - cmin, limits.minRange}) ELSE Span(Scale)
           half == (range - cmax + cmin) \div 2
<1>1. r.min \in Int /\ r.max \in Int
  BY DEF Ranges
<1>2. cmin = lo /\ cmax = hi /\ lo \in Int /\ hi \in Int
  BY <1>1, LimitsAre, MaxOfTwo, LessOfTwo
<1>3. range = len /\ len \in Int
  <2>1. Span(Scale) \in Int
    BY ScaleIs DEF Proper, Ranges, Span
  <2> HIDE DEF lo, hi, cmin, cmax
  <2>2. hi - lo \in Int /\ limits.minRange \in Int
    BY <1>2, LimitsAre
  <2>3. cmax - cmin = hi - lo
    BY <1>2
  <2>4. Max({hi - lo, limits.minRange}) = IF hi - lo >= limits.minRange THEN hi - lo ELSE limits.minRange
    BY <2>2, MaxOfTwo
  <2> QED
    BY <2>1, <2>2, <2>3, <2>4
<1> DEFINE u == UpdatedRange(r, zoomed)
<1>4. u = CASE cmax - cmin = range -> [min |-> cmin, max |-> cmax]
            [] cmax - cmin # range /\ limits.min > cmax - range -> [min |-> cmin, max |-> cmin + range]
            [] cmax - cmin # range /\ limits.min <= cmax - range /\ limits.max < cmin + range ->
                 [min |-> cmax - range, max |-> cmax]
            [] OTHER -> [min |-> cmin - half, max |-> cmax + half]
  BY DEF UpdatedRange
<1> HIDE DEF lo, hi, len, cmin, cmax, range, u
<1>5. half \in Int /\ 2 * half \in {len - hi + lo, len - hi + lo - 1}
  <2>1. PICK d \in Int : d = len - hi + lo
    BY <1>2, <1>3
  <2>2. half = d \div 2
    BY <1>2, <1>3, <2>1
  <2> HIDE DEF half
  <2>3. d \div 2 \in Int /\ 2 * (d \div 2) \in {d, d - 1}
    BY <2>1
  <2>4. half \in Int /\ 2 * half \in {d, d - 1}
    BY <2>2, <2>3
  <2> QED
    BY <1>2, <1>3, <2>1, <2>4
<1> HIDE DEF half
<1>6. u \in Ranges /\ Fitted(lo, hi, len, u)
  BY <1>2, <1>3, <1>4, <1>5, LimitsAre DEF Ranges, Fitted
<1> QED
  BY <1>6 DEF lo, hi, len, u

(* A range that is proper stays so.                                          *)
LEMMA UpdatedProper ==
  ASSUME ZoomInv, NEW r, Proper(r), NEW zoomed \in BOOLEAN,
         ~zoomed => Span(r) = Span(Scale)
  PROVE  Proper(UpdatedRange(r, zoomed))
<1> DEFINE lo == IF r.min >= limits.min THEN r.min ELSE limits.min
           hi == IF r.max <= limits.max THEN r.max ELSE limits.max
           len == IF ~zoomed THEN Span(Scale)
                  ELSE IF hi - lo >= limits.minRange THEN hi - lo ELSE limits.minRange
           u == UpdatedRange(r, zoomed)
<1>1. r \in Ranges /\ r.min \in Int /\ r.max \in Int /\ r.min <= r.max
  BY DEF Proper, Ranges
<1>2. u \in Ranges /\ Fitted(lo, hi, len, u)
  BY <1>1, UpdatedIs
<1>3. /\ lo \in Int /\ hi \in Int /\ len \in Nat /\ u.min \in Int /\ u.max \in Int
      /\ zoomed => len >= hi - lo /\ len >= limits.minRange
      /\ ~zoomed => len = r.max - r.min
  BY <1>1, <1>2, LimitsAre, ScaleIs DEF Proper, Ranges, Span
<1> HIDE DEF u, len
<1>4. u.min <= u.max
  BY <1>1, <1>2, <1>3, LimitsAre DEF Fitted
<1> QED
  BY <1>2, <1>4 DEF Proper, u

(* A range within the limits stays within them.                              *)
LEMMA UpdatedWithin ==
  ASSUME ZoomInv, NEW r, Proper(r), NEW zoomed \in BOOLEAN,
         Span(Scale) <= limits.max - limits.min, 2 * limits.minRange <= limits.max - limits.min,
         IF zoomed THEN r.min <= limits.max /\ r.max >= limits.min ELSE Span(r) = Span(Scale)
  PROVE  Within(UpdatedRange(r, zoomed)) /\ (~zoomed => Span(UpdatedRange(r, zoomed)) = Span(Scale))
<1> DEFINE lo == IF r.min >= limits.min THEN r.min ELSE limits.min
           hi == IF r.max <= limits.max THEN r.max ELSE limits.max
           len == IF ~zoomed THEN Span(Scale)
                  ELSE IF hi - lo >= limits.minRange THEN hi - lo ELSE limits.minRange
           u == UpdatedRange(r, zoomed)
<1>1. r \in Ranges /\ r.min \in Int /\ r.max \in Int /\ r.min <= r.max
  BY DEF Proper, Ranges
<1>2. u \in Ranges /\ Fitted(lo, hi, len, u)
  BY <1>1, UpdatedIs
<1>3. /\ lo \in Int /\ hi \in Int /\ len \in Nat /\ u.min \in Int /\ u.max \in Int
      /\ lo >= limits.min /\ hi <= limits.max /\ len <= limits.max - limits.min
      /\ lo \in {r.min, limits.min} /\ hi \in {r.max, limits.max}
      /\ r.min <= lo /\ hi <= r.max
      /\ zoomed => lo <= hi /\ len >= hi - lo /\ len \in {hi - lo, limits.minRange}
      /\ ~zoomed => len = r.max - r.min /\ len = Span(Scale)
  BY <1>1, <1>2, LimitsAre, ScaleIs DEF Proper, Ranges, Span
<1> HIDE DEF u, len, lo, hi
<1>4. limits.min \in Int /\ limits.max \in Int
  BY LimitsAre
<1>5. CASE zoomed
  <2>1. hi - lo <= len
    BY <1>3, <1>5
  <2>2. limits.min <= u.min /\ u.max <= limits.max
    <3>1. CASE hi - lo = len /\ u.min = lo /\ u.max = hi
      BY <1>3, <1>4, <3>1
    <3>2. CASE hi - lo # len /\ limits.min > hi - len /\ u.min = lo /\ u.max = lo + len
      BY <1>3, <1>4, <1>5, <2>1, <3>2, LimitsAre
    <3>3. CASE limits.min <= hi - len /\ limits.max < lo + len /\ u.min = hi - len /\ u.max = hi
      BY <1>3, <1>4, <3>3
    <3>4. ASSUME limits.min <= hi - len, limits.max >= lo + len,
                 NEW half \in Int, 2 * half \in {len - hi + lo, len - hi + lo - 1},
                 u.min = lo - half, u.max = hi + half
          PROVE  limits.min <= u.min /\ u.max <= limits.max
      <4>1. half <= len - hi + lo
        BY <1>3, <2>1, <3>4
      <4> QED
        BY <1>3, <1>4, <3>4, <4>1
    <3> QED
      BY <1>2, <3>1, <3>2, <3>3, <3>4 DEF Fitted
  <2> QED
    BY <1>5, <2>2 DEF Within, u
<1>6. CASE ~zoomed
  <2>1. len = r.max - r.min /\ len = Span(Scale) /\ hi - lo <= len
    BY <1>1, <1>3, <1>6
  <2>2. limits.min <= u.min /\ u.max <= limits.max /\ u.max - u.min = len
    <3>1. CASE hi - lo = len /\ u.min = lo /\ u.max = hi
      BY <1>3, <1>4, <3>1
    <3>2. CASE hi - lo # len /\ limits.min > hi - len /\ u.min = lo /\ u.max = lo + len
      BY <1>1, <1>3, <1>4, <2>1, <3>2
    <3>3. CASE limits.min <= hi - len /\ limits.max < lo + len /\ u.min = hi - len /\ u.max = hi
      BY <1>3, <1>4, <3>3
    <3>4. CASE hi - lo # len /\ limits.min <= hi - len /\ limits.max >= lo + len
      <4>1. lo # limits.min /\ hi # limits.max
        BY <1>3, <1>4, <2>1, <3>4
      <4>2. lo = r.min /\ hi = r.max
        BY <1>3, <4>1
      <4> QED
        BY <1>1, <2>1, <3>4, <4>2
    <3> QED
      BY <1>2, <3>1, <3>2, <3>3, <3>4 DEF Fitted
  <2> QED
    BY <2>1, <2>2 DEF Within, Span, u
<1> QED
  BY <1>5, <1>6

(* A zoom that meets no limit gives the range asked for.                     *)
LEMMA UpdatedExact ==
  ASSUME ZoomInv, NEW r, Proper(r),
         UpdatedRange(r, TRUE).min > limits.min, UpdatedRange(r, TRUE).max < limits.max,
         Span(UpdatedRange(r, TRUE)) > limits.minRange
  PROVE  UpdatedRange(r, TRUE).min = r.min /\ UpdatedRange(r, TRUE).max = r.max
<1> DEFINE lo == IF r.min >= limits.min THEN r.min ELSE limits.min
           hi == IF r.max <= limits.max THEN r.max ELSE limits.max
           len == IF hi - lo >= limits.minRange THEN hi - lo ELSE limits.minRange
           u == UpdatedRange(r, TRUE)
<1>1. r \in Ranges /\ r.min \in Int /\ r.max \in Int /\ r.min <= r.max
  BY DEF Proper, Ranges
<1>2. u \in Ranges /\ Fitted(lo, hi, len, u)
  BY <1>1, UpdatedIs
<1>3. /\ lo \in Int /\ hi \in Int /\ len \in Nat /\ u.min \in Int /\ u.max \in Int
      /\ lo = r.min \/ lo = limits.min
      /\ hi = r.max \/ hi = limits.max
      /\ len = hi - lo \/ len = limits.minRange
  <2>1. lo \in Int /\ hi \in Int /\ (lo = r.min \/ lo = limits.min) /\ (hi = r.max \/ hi = limits.max)
    BY <1>1, LimitsAre
  <2>2. u.min \in Int /\ u.max \in Int
    BY <1>2 DEF Ranges
  <2> HIDE DEF lo, hi, u
  <2>3. len \in Nat /\ (len = hi - lo \/ len = limits.minRange)
    BY <2>1, LimitsAre
  <2> QED
    BY <2>1, <2>2, <2>3
<1>4. u.min > limits.min /\ u.max < limits.max /\ u.max - u.min > limits.minRange
  BY DEF Span
<1> HIDE DEF u, len, lo, hi
<1>5. u.min = lo /\ u.max = hi
  BY <1>2, <1>3, <1>4, LimitsAre DEF Fitted
<1>6. u.min = r.min /\ u.max = r.max
  BY <1>1, <1>3, <1>4, <1>5, LimitsAre
<1> QED
  BY <1>6 DEF u

(* The ranges that the gestures ask for.                                     *)
LEMMA PannedBy ==
  ASSUME ZoomInv, NEW d \in Int
  PROVE  LET r == [min |-> Scale.min - d, max |-> Scale.max - d]
         IN  Proper(r) /\ Span(r) = Span(Scale)
BY ScaleIs DEF Proper, Ranges, Span

LEMMA WheelIs ==
  ASSUME ZoomInv, NEW k \in 0 .. 2, NEW new \in Int,
         \/ Span(Scale) % 4 = 0 /\ Span(Scale) > 4 /\ new = Span(Scale) \div 2
         \/ Span(Scale) % 2 = 0 /\ new = -Span(Scale)
  PROVE  /\ Proper(ZoomedBy(new, k))
         /\ ZoomedBy(new, k).min <= Scale.max /\ ZoomedBy(new, k).max >= Scale.min
         /\ 2 * ZoomedBy(new, k).min + k * Span(ZoomedBy(new, k)) = 2 * Scale.min + k * Span(Scale)
<1> DEFINE a == Scale.min
           b == Scale.max
           s == Span(Scale)
           h == new \div 2
<1>1. a \in Int /\ b \in Int /\ a <= b /\ s = b - a /\ s \in Nat
  BY ScaleIs DEF Proper, Ranges, Span
<1>2. h \in Int /\ new = 2 * h /\ (s = 4 * h \/ s = -2 * h)
  <2> HIDE DEF a, b
  <2>1. CASE s % 4 = 0 /\ s > 4 /\ new = s \div 2
    BY <1>1, <2>1
  <2>2. CASE s % 2 = 0 /\ new = -s
    BY <1>1, <2>2
  <2> QED
    BY <2>1, <2>2
<1>3. ZoomedBy(new, k).min = a + (new * k) \div 2 /\ ZoomedBy(new, k).max = b - (new * (2 - k)) \div 2
      /\ ZoomedBy(new, k) = [min |-> ZoomedBy(new, k).min, max |-> ZoomedBy(new, k).max]
  BY DEF ZoomedBy
<1> HIDE DEF a, b, s, h
<1>4. (new * k) \div 2 = h * k /\ (new * (2 - k)) \div 2 = h * (2 - k)
  <2>1. CASE k = 0
    BY <1>2, <2>1
  <2>2. CASE k = 1
    BY <1>2, <2>2
  <2>3. CASE k = 2
    BY <1>2, <2>3
  <2> QED
    BY <2>1, <2>2, <2>3
<1> DEFINE z == ZoomedBy(new, k)
<1> HIDE DEF z
<1>5. z.min = a + h * k /\ z.max = b - h * (2 - k) /\ z = [min |-> z.min, max |-> z.max]
  BY <1>3, <1>4 DEF z
<1>6. /\ z.min \in Int /\ z.max \in Int /\ z.min <= z.max /\ z.min <= b /\ z.max >= a
      /\ 2 * z.min + k * (z.max - z.min) = 2 * a + k * (b - a)
  <2>1. CASE k = 0
    BY <1>1, <1>2, <1>5, <2>1
  <2>2. CASE k = 1
    BY <1>1, <1>2, <1>5, <2>2
  <2>3. CASE k = 2
    BY <1>1, <1>2, <1>5, <2>3
  <2> QED
    BY <2>1, <2>2, <2>3
<1> QED
  BY <1>5, <1>6 DEF Proper, Ranges, Span, a, b, z

-----------------------------------------------------------------------------
LEMMA NoneIs == None.min = 1 /\ None.max = 0 /\ ~Proper(None) /\ NoOriginal.scale = None
BY DEF None, NoOriginal, Proper

(* What storeOriginalScaleLimits keeps is an axis without options.           *)
LEMMA StoredIs ==
  ASSUME ZoomInv, running
  PROVE  StoredOriginal.options = None /\ StoredOriginal # NoOriginal
<1>1. options \in {None, updated} /\ (initialRange = NoOriginal => options = None) /\ initialRange.options = None
  BY DEF ZoomInv, AxisOK
<1>2. CASE ShouldUpdate
  <2>1. options = None
    BY <1>1, <1>2 DEF ShouldUpdate
  <2>2. StoredOriginal = [scale |-> Scale, options |-> options]
    BY <1>2 DEF StoredOriginal
  <2>3. Scale # None
    BY ScaleIs, NoneIs
  <2> QED
    BY <2>1, <2>2, <2>3, NoneIs
<1>3. CASE ~ShouldUpdate
  BY <1>1, <1>3 DEF ShouldUpdate, StoredOriginal
<1> QED
  BY <1>2, <1>3

LEMMA GiveInv ==
  ASSUME ZoomInv, running, NEW r, Proper(r), NEW zoomed \in BOOLEAN,
         ~zoomed => Span(r) = Span(Scale), Give(r, zoomed), UNCHANGED <<limits, dataRange>>, panDelta' \in Int
  PROVE  AxisOK'
<1>1. options' = UpdatedRange(r, zoomed) /\ updated' = options' /\ initialRange' = StoredOriginal
  BY DEF Give
<1>2. Proper(options')
  BY <1>1, UpdatedProper
<1> QED
  BY <1>1, <1>2, StoredIs DEF ZoomInv, AxisOK, Proper, Ranges

LEMMA SameAxis ==
  ASSUME ZoomInv, UNCHANGED <<limits, dataRange, axisOf, panDelta>>, running' => running PROVE AxisOK'
BY DEF ZoomInv, AxisOK, axisOf, Proper, Ranges

LEMMA Relistened ==
  ASSUME NEW l \in [Types -> {0, 1}]
  PROVE  /\ Relisten(l) \in [Types -> {0, 1}] /\ Relisten(l)["mousemove"] = l["mousemove"]
         /\ \A t \in Types \ {"mousemove"} : Relisten(l)[t] = 1
BY DEF Relisten, Listening, Types

LEMMA SameListeners ==
  ASSUME ZoomInv, running, running', dragStart' = dragStart, listeners' \in {listeners, Relisten(listeners)}
  PROVE  listeners' \in [Types -> {0, 1}] /\ HandlersOnce'
<1>1. listeners \in [Types -> {0, 1}] /\ HandlersOnce
  BY DEF ZoomInv, GesturesOK
<1>2. "mousemove" \in Types
  BY DEF Types
<1>3. /\ listeners' \in [Types -> {0, 1}] /\ listeners'["mousemove"] = listeners["mousemove"]
      /\ \A t \in Types \ {"mousemove"} : listeners'[t] = 1
  BY <1>1, Relistened DEF HandlersOnce
<1> QED
  BY <1>1, <1>2, <1>3 DEF HandlersOnce

LEMMA ZoomStart == ZoomInit => ZoomInv
<1> SUFFICES ASSUME ZoomInit PROVE ZoomInv
  OBVIOUS
<1>1. AxisOK
  BY DEF ZoomInit, AxisOK, NoOriginal
<1>2. GesturesOK
  <2>1. listeners \in [Types -> {0, 1}] /\ gestures \in 0 .. MaxGestures
    BY ZoomAssumption DEF ZoomInit
  <2>2. /\ dragStart = FALSE /\ dragMoved = FALSE /\ dragging = FALSE /\ panning = FALSE /\ panTimer = FALSE
        /\ running = TRUE /\ panAt = Far /\ dragTimers = 0 /\ gestures = 0
    BY DEF ZoomInit
  <2>3. FlagsOK
    BY <2>2, Zenon DEF FlagsOK
  <2>4. TimersOK
    BY <2>1, <2>2 DEF TimersOK
  <2> QED
    BY <2>1, <2>2, <2>3, <2>4 DEF GesturesOK, PansOK
<1>3. HandlersOnce
  BY DEF ZoomInit, HandlersOnce, Types
<1> QED
  BY <1>1, <1>2, <1>3 DEF ZoomInv

LEMMA GestureIs == Gesture => running /\ gestures < MaxGestures /\ gestures' = gestures + 1
BY DEF Gesture

(* The wheel.                                                                *)
LEMMA WheelStep ==
  ASSUME ZoomInv, NEW k \in 0 .. 2, WheelIn(k) \/ WheelOut(k)
  PROVE  /\ ZoomInv'
         /\ \E r : /\ Proper(r) /\ options' = UpdatedRange(r, TRUE) /\ r.min <= Scale.max /\ r.max >= Scale.min
                   /\ 2 * r.min + k * Span(r) = 2 * Scale.min + k * Span(Scale)
<1>1. Span(Scale) \in Int
  BY ScaleIs DEF Proper, Ranges, Span
<1>2. PICK new \in Int : /\ Wheel(new, k)
                         /\ \/ Span(Scale) % 4 = 0 /\ Span(Scale) > 4 /\ new = Span(Scale) \div 2
                            \/ Span(Scale) % 2 = 0 /\ new = -Span(Scale)
  <2>1. Span(Scale) \div 2 \in Int /\ -Span(Scale) \in Int
    BY <1>1
  <2> QED
    BY <2>1 DEF WheelIn, WheelOut
<1> DEFINE r == ZoomedBy(new, k)
<1>3. /\ Proper(r) /\ r.min <= Scale.max /\ r.max >= Scale.min
      /\ 2 * r.min + k * Span(r) = 2 * Scale.min + k * Span(Scale)
  BY <1>2, WheelIs
<1>4. /\ Give(r, TRUE) /\ Gesture /\ listeners' = Relisten(listeners)
      /\ UNCHANGED <<limits, dataRange, drag, pan, running>>
  BY <1>2 DEF Wheel
<1> HIDE DEF r
<1>5. running /\ gestures < MaxGestures /\ gestures' = gestures + 1 /\ options' = UpdatedRange(r, TRUE)
  BY <1>4, GestureIs DEF Give
<1>6. AxisOK'
  <2>1. panDelta' \in Int
    BY <1>4 DEF pan, ZoomInv, AxisOK
  <2> QED
    BY <1>3, <1>4, <1>5, <2>1, GiveInv
<1>7. listeners' \in [Types -> {0, 1}] /\ HandlersOnce'
  BY <1>4, <1>5, SameListeners DEF drag
<1>8. GesturesOK'
  BY <1>4, <1>5, <1>7, ZoomAssumption DEF ZoomInv, GesturesOK, FlagsOK, TimersOK, PansOK, drag, pan
<1> QED
  BY <1>3, <1>5, <1>6, <1>7, <1>8 DEF ZoomInv

(* The button of the mouse, and the timer that a drag leaves behind.         *)
LEMMA MouseDownStep == ZoomInv /\ MouseDown => ZoomInv' /\ options' = options
<1> SUFFICES ASSUME ZoomInv, MouseDown PROVE ZoomInv' /\ options' = options
  OBVIOUS
<1>1. /\ Gesture /\ dragStart' = TRUE /\ listeners' = Listening(listeners, "mousemove")
      /\ UNCHANGED <<limits, dataRange, axisOf, pan, dragMoved, dragging, dragTimers, running>>
  BY DEF MouseDown
<1>2. running /\ gestures < MaxGestures /\ gestures' = gestures + 1
  BY <1>1, GestureIs
<1>3. AxisOK'
  BY <1>1, SameAxis DEF pan
<1>4. listeners' \in [Types -> {0, 1}] /\ HandlersOnce'
  BY <1>1, <1>2 DEF ZoomInv, GesturesOK, FlagsOK, TimersOK, PansOK, HandlersOnce, Listening, Types
<1>5. GesturesOK'
  BY <1>1, <1>2, <1>4, ZoomAssumption DEF ZoomInv, GesturesOK, FlagsOK, TimersOK, PansOK, pan
<1> QED
  BY <1>1, <1>3, <1>4, <1>5 DEF ZoomInv, axisOf

LEMMA MouseMoveStep == ZoomInv /\ MouseMove => ZoomInv' /\ options' = options
<1> SUFFICES ASSUME ZoomInv, MouseMove PROVE ZoomInv' /\ options' = options
  OBVIOUS
<1>1. /\ dragStart /\ dragMoved' = TRUE /\ dragging' = TRUE /\ listeners' = Relisten(listeners)
      /\ UNCHANGED <<limits, dataRange, axisOf, pan, dragStart, dragTimers, gestures, running>>
  BY DEF MouseMove
<1>2. running
  BY <1>1 DEF ZoomInv, GesturesOK, FlagsOK, TimersOK, PansOK
<1>3. AxisOK'
  BY <1>1, SameAxis DEF pan
<1>4. listeners' \in [Types -> {0, 1}] /\ HandlersOnce'
  BY <1>1, <1>2, SameListeners
<1>5. GesturesOK'
  BY <1>1, <1>2, <1>4 DEF ZoomInv, GesturesOK, FlagsOK, TimersOK, PansOK, pan
<1> QED
  BY <1>1, <1>3, <1>4, <1>5 DEF ZoomInv, axisOf

LEMMA MouseUpStep ==
  ASSUME ZoomInv, NEW r \in Rects, MouseUp(r)
  PROVE  /\ ZoomInv' /\ panDelta' = panDelta
         /\ \/ options' = options
            \/ Proper(r) /\ options' = UpdatedRange(r, TRUE) /\ r.min <= limits.max /\ r.max >= limits.min
<1>1. /\ dragStart /\ dragStart' = FALSE /\ dragMoved' = FALSE /\ listeners' = Relisten(Released(listeners))
      /\ UNCHANGED <<limits, dataRange, pan, gestures, running>>
  BY DEF MouseUp
<1>2. running /\ running'
  BY <1>1 DEF ZoomInv, GesturesOK, FlagsOK, TimersOK, PansOK
<1>3. listeners' \in [Types -> {0, 1}] /\ HandlersOnce'
  <2>1. Released(listeners) \in [Types -> {0, 1}] /\ Released(listeners)["mousemove"] = 0
    BY DEF ZoomInv, GesturesOK, FlagsOK, TimersOK, PansOK, Released, Dropped, Types
  <2> QED
    BY <1>1, <1>2, <2>1, Relistened DEF HandlersOnce
<1>4. CASE r = None
  <2>1. dragging' = FALSE /\ UNCHANGED <<dragTimers, axisOf>>
    BY <1>4 DEF MouseUp
  <2>2. AxisOK'
    BY <1>1, <2>1, SameAxis DEF pan
  <2>3. GesturesOK'
    BY <1>1, <1>2, <1>3, <2>1 DEF ZoomInv, GesturesOK, FlagsOK, TimersOK, PansOK, pan
  <2> QED
    BY <1>1, <1>3, <2>1, <2>2, <2>3 DEF ZoomInv, axisOf, pan
<1>5. CASE r # None
  <2>1. dragTimers' = dragTimers + 1 /\ Give(r, TRUE) /\ UNCHANGED dragging
    BY <1>5 DEF MouseUp
  <2>2. Proper(r) /\ r.min = 2 /\ r.max = 4
    BY <1>5 DEF Rects, Proper, Ranges
  <2>3. AxisOK'
    <3>1. panDelta' \in Int
      BY <1>1 DEF ZoomInv, AxisOK, pan
    <3> QED
      BY <1>1, <1>2, <2>1, <2>2, <3>1, GiveInv
  <2>4. GesturesOK'
    <3>1. FlagsOK'
      BY <1>1, <2>1 DEF ZoomInv, GesturesOK, FlagsOK, pan
    <3>2. TimersOK'
      <4>1. dragTimers \in Nat /\ gestures \in 0 .. MaxGestures /\ dragTimers < gestures /\ ~dragStart'
        BY <1>1 DEF ZoomInv, GesturesOK, TimersOK
      <4>2. dragTimers' = dragTimers + 1 /\ gestures' = gestures
        BY <1>1, <2>1
      <4> QED
        BY <4>1, <4>2 DEF TimersOK
    <3>3. PansOK'
      BY <1>1 DEF ZoomInv, GesturesOK, PansOK, pan
    <3> QED
      BY <1>2, <1>3, <3>1, <3>2, <3>3 DEF GesturesOK
  <2>5. options' = UpdatedRange(r, TRUE)
    BY <2>1 DEF Give
  <2>6. r.min <= limits.max /\ r.max >= limits.min
    BY <2>2, LimitsAre
  <2>7. panDelta' = panDelta
    BY <1>1 DEF pan
  <2>8. ZoomInv'
    BY <1>3, <2>3, <2>4 DEF ZoomInv
  <2> QED
    BY <2>2, <2>5, <2>6, <2>7, <2>8
<1> QED
  BY <1>4, <1>5

LEMMA DragTimeoutStep == ZoomInv /\ DragTimeout => ZoomInv' /\ options' = options
<1> SUFFICES ASSUME ZoomInv, DragTimeout PROVE ZoomInv' /\ options' = options
  OBVIOUS
<1>1. /\ dragTimers > 0 /\ dragTimers' = dragTimers - 1 /\ dragging' = FALSE
      /\ UNCHANGED <<limits, dataRange, axisOf, pan, listeners, dragStart, dragMoved, gestures, running>>
  BY DEF DragTimeout
<1>2. AxisOK'
  BY <1>1, SameAxis DEF pan
<1>3. HandlersOnce'
  BY <1>1 DEF ZoomInv, HandlersOnce
<1>4. GesturesOK'
  <2>1. FlagsOK' /\ PansOK'
    BY <1>1 DEF ZoomInv, GesturesOK, FlagsOK, PansOK, pan
  <2>2. TimersOK'
    BY <1>1 DEF ZoomInv, GesturesOK, TimersOK
  <2> QED
    BY <1>1, <2>1, <2>2 DEF ZoomInv, GesturesOK, pan
<1> QED
  BY <1>1, <1>2, <1>3, <1>4 DEF ZoomInv, axisOf

(* A pan.                                                                    *)
Panned == \E r : Proper(r) /\ options' = UpdatedRange(r, FALSE) /\ Span(r) = Span(Scale)
LEMMA PanByIs ==
  ASSUME ZoomInv, running, NEW d \in Int, PanBy(d), UNCHANGED <<limits, dataRange, running>>
  PROVE  AxisOK' /\ (options' = options \/ Panned)
<1>1. CASE d = 0
  <2>1. UNCHANGED <<panDelta, axisOf>>
    BY <1>1 DEF PanBy
  <2> QED
    BY <2>1, SameAxis DEF axisOf
<1>2. CASE d # 0
  <2> DEFINE r == [min |-> Scale.min - PanSum(d), max |-> Scale.max - PanSum(d)]
  <2>1. panDelta' = PanSum(d) /\ Give(r, FALSE)
    BY <1>2 DEF PanBy
  <2>2. PanSum(d) \in Int
    BY DEF PanSum, ZoomInv, AxisOK
  <2>3. Proper(r) /\ Span(r) = Span(Scale)
    BY <2>2, PannedBy
  <2> HIDE DEF r
  <2>4. AxisOK'
    BY <2>1, <2>2, <2>3, GiveInv
  <2> QED
    BY <2>1, <2>3, <2>4 DEF Give, Panned
<1> QED
  BY <1>1, <1>2

LEMMA StartPanStep == ASSUME ZoomInv, NEW e \in {-1, 0, 1}, StartPan(e) PROVE ZoomInv' /\ (options' = options \/ Panned)
<1>1. /\ Gesture /\ panAt' = e /\ panning' = TRUE /\ panTimer' = FALSE /\ PanBy(e)
      /\ listeners' = Relisten(listeners) /\ UNCHANGED <<limits, dataRange, drag, running>>
  BY DEF StartPan, TimerCleared
<1>2. running /\ gestures < MaxGestures /\ gestures' = gestures + 1 /\ e \in -1 .. 1
  BY <1>1, GestureIs
<1>3. AxisOK' /\ (options' = options \/ Panned)
  BY <1>1, <1>2, PanByIs
<1>4. listeners' \in [Types -> {0, 1}] /\ HandlersOnce'
  BY <1>1, <1>2, SameListeners DEF drag
<1>5. GesturesOK'
  <2>1. FlagsOK'
    BY <1>1 DEF ZoomInv, GesturesOK, FlagsOK, drag
  <2>2. TimersOK'
    BY <1>1, <1>2, ZoomAssumption DEF ZoomInv, GesturesOK, TimersOK, drag
  <2>3. PansOK'
    BY <1>1, <1>2 DEF PansOK
  <2> QED
    BY <1>1, <1>2, <1>4, <2>1, <2>2, <2>3 DEF ZoomInv, GesturesOK
<1> QED
  BY <1>3, <1>4, <1>5 DEF ZoomInv

LEMMA MovePanStep == ASSUME ZoomInv, NEW e \in {-1, 0, 1}, MovePan(e) PROVE ZoomInv' /\ (options' = options \/ Panned)
<1>1. /\ Gesture /\ panAt # Far /\ panAt' = e /\ panning' = TRUE /\ PanBy(e - panAt)
      /\ listeners' = Relisten(listeners) /\ UNCHANGED <<limits, dataRange, drag, panTimer, running>>
  BY DEF MovePan
<1>2. running /\ gestures < MaxGestures /\ gestures' = gestures + 1 /\ e \in -1 .. 1
  BY <1>1, GestureIs
<1>3. e - panAt \in Int
  BY <1>1, <1>2 DEF ZoomInv, GesturesOK, FlagsOK, TimersOK, PansOK
<1>4. AxisOK' /\ (options' = options \/ Panned)
  BY <1>1, <1>2, <1>3, PanByIs
<1>5. listeners' \in [Types -> {0, 1}] /\ HandlersOnce'
  BY <1>1, <1>2, SameListeners DEF drag
<1>6. GesturesOK'
  BY <1>1, <1>2, <1>5, ZoomAssumption DEF ZoomInv, GesturesOK, FlagsOK, TimersOK, PansOK, drag
<1> QED
  BY <1>4, <1>5, <1>6 DEF ZoomInv

LEMMA EndPanStep == ZoomInv /\ (EndPan \/ PanTimeout) => ZoomInv' /\ options' = options
<1> SUFFICES ASSUME ZoomInv, EndPan \/ PanTimeout PROVE ZoomInv' /\ options' = options
  OBVIOUS
<1>1. UNCHANGED <<limits, dataRange, axisOf, drag, listeners, panDelta, gestures, running>>
  BY DEF EndPan, PanTimeout
<1>2. AxisOK'
  BY <1>1, SameAxis
<1>3. GesturesOK' /\ HandlersOnce'
  BY <1>1 DEF ZoomInv, GesturesOK, FlagsOK, TimersOK, PansOK, HandlersOnce, drag, EndPan, PanTimeout
<1> QED
  BY <1>1, <1>2, <1>3 DEF ZoomInv, axisOf

(* The reset, new data, and the end of the chart.                            *)
LEMMA ResetStep == ZoomInv /\ ResetRange => ZoomInv' /\ options' = None
<1> SUFFICES ASSUME ZoomInv, ResetRange PROVE ZoomInv' /\ options' = None
  OBVIOUS
<1>1. /\ Gesture /\ initialRange' = StoredOriginal /\ options' = StoredOriginal.options
      /\ listeners' = Relisten(listeners) /\ UNCHANGED <<limits, dataRange, updated, drag, pan, running>>
  BY DEF ResetRange
<1>2. running /\ gestures < MaxGestures /\ gestures' = gestures + 1
  BY <1>1, GestureIs
<1>3. options' = None /\ initialRange' # NoOriginal /\ initialRange'.options = None
  BY <1>1, <1>2, StoredIs
<1>4. AxisOK'
  BY <1>1, <1>3 DEF ZoomInv, AxisOK, pan
<1>5. listeners' \in [Types -> {0, 1}] /\ HandlersOnce'
  BY <1>1, <1>2, SameListeners DEF drag
<1>6. GesturesOK'
  BY <1>1, <1>2, <1>5, ZoomAssumption DEF ZoomInv, GesturesOK, FlagsOK, TimersOK, PansOK, drag, pan
<1> QED
  BY <1>3, <1>4, <1>5, <1>6 DEF ZoomInv

LEMMA NewDataStep == ASSUME ZoomInv, NEW r \in DataRanges, NewData(r) PROVE ZoomInv' /\ options' = options
<1>1. /\ running /\ dataRange' = r /\ listeners' = Relisten(listeners)
      /\ UNCHANGED <<limits, axisOf, drag, pan, gestures, running>>
  BY DEF NewData
<1>2. AxisOK'
  BY <1>1 DEF ZoomInv, AxisOK, axisOf, pan, Proper, Ranges
<1>3. listeners' \in [Types -> {0, 1}] /\ HandlersOnce'
  BY <1>1, SameListeners DEF drag
<1>4. GesturesOK'
  BY <1>1, <1>3 DEF ZoomInv, GesturesOK, FlagsOK, TimersOK, PansOK, drag, pan
<1> QED
  BY <1>1, <1>2, <1>3, <1>4 DEF ZoomInv, axisOf

LEMMA StopZoomStep == ZoomInv /\ StopZoom => ZoomInv' /\ options' = options
<1> SUFFICES ASSUME ZoomInv, StopZoom PROVE ZoomInv' /\ options' = options
  OBVIOUS
<1>1. /\ ~running' /\ listeners' = AllDropped
      /\ initialRange' = NoOriginal /\ panDelta' = 0 /\ dragStart' = FALSE /\ dragMoved' = FALSE /\ panAt' = Far
      /\ UNCHANGED <<limits, dataRange, options, dragging, dragTimers, panning, panTimer, gestures>>
  BY DEF StopZoom
<1>2. running' = FALSE
  BY DEF StopZoom
<1>3. AxisOK'
  BY <1>1 DEF ZoomInv, AxisOK, NoOriginal
<1>4. listeners' \in [Types -> {0, 1}] /\ HandlersOnce'
  BY <1>1 DEF AllDropped, HandlersOnce
<1>5. GesturesOK'
  BY <1>1, <1>2, <1>4 DEF ZoomInv, GesturesOK, FlagsOK, TimersOK, PansOK
<1> QED
  BY <1>1, <1>3, <1>4, <1>5 DEF ZoomInv

-----------------------------------------------------------------------------
ZoomedTo ==
  \E r : /\ Proper(r) /\ options' = UpdatedRange(r, TRUE)
         /\ (r.min <= Scale.max /\ r.max >= Scale.min) \/ (r.min <= limits.max /\ r.max >= limits.min)
LEMMA ZoomStep ==
  ASSUME ZoomInv, ZoomNext
  PROVE  ZoomInv' /\ (options' = options \/ options' = None \/ Panned \/ (panDelta' = panDelta /\ ZoomedTo))
<1>1. CASE \E k \in 0 .. 2 : WheelIn(k) \/ WheelOut(k)
  <2>1. PICK k \in 0 .. 2 : WheelIn(k) \/ WheelOut(k)
    BY <1>1
  <2>2. panDelta' = panDelta
    BY <2>1 DEF WheelIn, WheelOut, Wheel, pan
  <2> QED
    BY <2>1, <2>2, WheelStep DEF ZoomedTo
<1>2. CASE MouseDown
  BY <1>2, MouseDownStep
<1>3. CASE MouseMove
  BY <1>3, MouseMoveStep
<1>4. CASE DragTimeout
  BY <1>4, DragTimeoutStep
<1>5. CASE \E r \in Rects : MouseUp(r)
  BY <1>5, MouseUpStep DEF ZoomedTo
<1>6. CASE \E e \in {-1, 0, 1} : StartPan(e) \/ MovePan(e)
  BY <1>6, StartPanStep, MovePanStep
<1>7. CASE EndPan \/ PanTimeout
  BY <1>7, EndPanStep
<1>8. CASE ResetRange
  BY <1>8, ResetStep
<1>9. CASE StopZoom
  BY <1>9, StopZoomStep
<1>10. CASE \E r \in DataRanges : NewData(r)
  BY <1>10, NewDataStep
<1> QED
  BY <1>1, <1>2, <1>3, <1>4, <1>5, <1>6, <1>7, <1>8, <1>9, <1>10 DEF ZoomNext

LEMMA ZoomStays == ZoomInv /\ UNCHANGED zoomVars => ZoomInv'
<1> SUFFICES ASSUME ZoomInv, UNCHANGED zoomVars PROVE ZoomInv'
  OBVIOUS
<1>1. UNCHANGED <<limits, dataRange, axisOf, drag, pan, listeners, gestures, running>>
  BY DEF zoomVars, axisOf, drag, pan
<1>2. AxisOK'
  BY <1>1, SameAxis DEF pan
<1>3. GesturesOK' /\ HandlersOnce'
  BY <1>1 DEF ZoomInv, GesturesOK, FlagsOK, TimersOK, PansOK, HandlersOnce, drag, pan
<1> QED
  BY <1>2, <1>3 DEF ZoomInv

LEMMA ZoomSafe == ZoomInv => ZoomTypeOK /\ HandlersOnce /\ PanningHeld
<1> SUFFICES ASSUME ZoomInv PROVE ZoomTypeOK /\ HandlersOnce /\ PanningHeld
  OBVIOUS
<1>1. options = None \/ options.min <= options.max
  BY DEF ZoomInv, AxisOK, Proper
<1>2. dragTimers \in 0 .. MaxGestures
  BY ZoomAssumption DEF ZoomInv, GesturesOK, TimersOK
<1>3. {dragStart, dragMoved, dragging, panning, panTimer, running} \subseteq BOOLEAN
  BY Zenon DEF ZoomInv, GesturesOK, FlagsOK
<1>4. HandlersOnce /\ PanningHeld
  BY DEF ZoomInv, GesturesOK, PansOK, PanningHeld
<1> QED
  BY <1>1, <1>2, <1>3, <1>4 DEF ZoomTypeOK

(* The wheel turns about the value under the pointer.                        *)
LEMMA WheelKeeps ==
  ASSUME ZoomInv, NEW k \in 0 .. 2, WheelIn(k) \/ WheelOut(k),
         options'.min > limits.min, options'.max < limits.max, Span(options') > limits.minRange
  PROVE  2 * options'.min + k * Span(options') = 2 * Scale.min + k * Span(Scale)
<1>1. PICK r : /\ Proper(r) /\ options' = UpdatedRange(r, TRUE)
               /\ 2 * r.min + k * Span(r) = 2 * Scale.min + k * Span(Scale)
  BY WheelStep
<1>2. options'.min = r.min /\ options'.max = r.max
  BY <1>1, UpdatedExact
<1> QED
  BY <1>1, <1>2 DEF Span

(* Where the least range is at most half of what the limits leave, an axis   *)
(* within its limits stays within them.                                      *)
LEMMA StaysInside ==
  ASSUME 2 * MinRange <= Narrow, ZoomInv, ZoomNext,
         options' # options, options' # None, Within(Scale), Span(Scale) >= limits.minRange
  PROVE  Within(options') /\ (panDelta' # panDelta => Span(options') = Span(Scale))
<1>1. 2 * limits.minRange <= limits.max - limits.min
  BY ZoomAssumption DEF ZoomInv, AxisOK, AxisLimits
<1>2. /\ limits.min \in Int /\ limits.max \in Int /\ Scale.min \in Int /\ Scale.max \in Int
      /\ limits.min <= Scale.min /\ Scale.max <= limits.max
  BY LimitsAre, ScaleIs DEF Proper, Ranges, Within
<1>3. Span(Scale) <= limits.max - limits.min
  BY <1>2 DEF Span
<1>4. CASE Panned
  <2>1. PICK r : Proper(r) /\ options' = UpdatedRange(r, FALSE) /\ Span(r) = Span(Scale)
    BY <1>4 DEF Panned
  <2>2. Within(UpdatedRange(r, FALSE)) /\ Span(UpdatedRange(r, FALSE)) = Span(Scale)
    BY <1>1, <1>3, <2>1, UpdatedWithin
  <2>3. Within(options') /\ Span(options') = Span(Scale)
    BY <2>1, <2>2 DEF Within, Span
  <2> QED
    BY <2>3
<1>5. CASE panDelta' = panDelta /\ ZoomedTo
  <2>1. PICK r : /\ Proper(r) /\ options' = UpdatedRange(r, TRUE)
                 /\ (r.min <= Scale.max /\ r.max >= Scale.min) \/ (r.min <= limits.max /\ r.max >= limits.min)
    BY <1>5 DEF ZoomedTo
  <2>2. r.min <= limits.max /\ r.max >= limits.min
    BY <1>2, <2>1 DEF Proper, Ranges
  <2> QED
    BY <1>1, <1>3, <1>5, <2>1, <2>2, UpdatedWithin
<1> QED
  BY <1>4, <1>5, ZoomStep

(* However the wheel turns and the pointer drags and pans: there is one      *)
(* listener of each type, a pan is never ended by an earlier one, the axis   *)
(* is never turned round, a reset goes back to the range of the data, and    *)
(* the wheel turns about the value under the pointer.                        *)
THEOREM GesturesHold ==
  ZoomSpec => [](ZoomTypeOK /\ HandlersOnce /\ PanningHeld) /\ ResetFitsData /\ WheelKeepsPoint
<1>1. ZoomInit => ZoomInv
  BY ZoomStart
<1>2. ZoomInv /\ [ZoomNext]_zoomVars => ZoomInv'
  BY ZoomStep, ZoomStays
<1>3. ZoomInv => ZoomTypeOK /\ HandlersOnce /\ PanningHeld
  BY ZoomSafe
<1>4. ZoomInv => (ResetRange => options' = None)
  BY ResetStep
<1>5. ZoomInv => (gestures' # gestures => \A k \in 0 .. 2 :
         (WheelIn(k) \/ WheelOut(k)) /\ options'.min > limits.min /\ options'.max < limits.max
           /\ Span(options') > limits.minRange
         => 2 * options'.min + k * Span(options') = 2 * Scale.min + k * Span(Scale))
  BY WheelKeeps
<1> QED
  BY <1>1, <1>2, <1>3, <1>4, <1>5, PTL DEF ZoomSpec, ResetFitsData, WheelKeepsPoint

(* An axis that has limits stays within them, and a pan never changes how    *)
(* much it shows, where the least range is at most half of what the limits   *)
(* leave: with more, a zoom to one side of the axis goes past its other end. *)
THEOREM AxisStaysWithin == ASSUME 2 * MinRange <= Narrow PROVE ZoomSpec => StaysWithin
<1>1. ZoomInit => ZoomInv
  BY ZoomStart
<1>2. ZoomInv /\ [ZoomNext]_zoomVars => ZoomInv'
  BY ZoomStep, ZoomStays
<1>3. ZoomInv /\ [ZoomNext]_zoomVars =>
        (options' # options /\ options' # None /\ Within(Scale) /\ Span(Scale) >= limits.minRange =>
           Within(options') /\ (panAt' # Far /\ gestures' # gestures /\ panDelta' # panDelta
                                  => Span(options') = Span(Scale)))
  <2> SUFFICES ASSUME ZoomInv, [ZoomNext]_zoomVars, options' # options, options' # None,
                      Within(Scale), Span(Scale) >= limits.minRange
               PROVE  Within(options') /\ (panDelta' # panDelta => Span(options') = Span(Scale))
    OBVIOUS
  <2>1. ZoomNext
    BY DEF zoomVars
  <2> QED
    BY <2>1, StaysInside
<1> QED
  BY <1>1, <1>2, <1>3, PTL DEF ZoomSpec, StaysWithin

(* Both together: what the gestures promise wherever the limits leave room   *)
(* for twice the least range.                                                *)
THEOREM GesturesBehave == ASSUME 2 * MinRange <= Narrow PROVE ZoomSpec => GesturesSafe
BY GesturesHold, AxisStaysWithin DEF GesturesSafe
-----------------------------------------------------------------------------
LEMMA FirstPlace ==
  ASSUME NEW s, NEW n \in Nat, NEW places \in SUBSET (1 .. n), places # {}
  PROVE  \E k \in places : Spliced(s, places) = RemoveAt(s, k)
<1> DEFINE k == CHOOSE i \in places : \A j \in places : i <= j
<1>1. \E i \in places : \A j \in places : i <= j
  <2>1. places \subseteq Nat
    OBVIOUS
  <2> QED
    BY <2>1, LeastOf
<1>2. k \in places
  BY <1>1
<1> QED
  BY <1>2 DEF Spliced

Once(s, v) == \A i, j \in DOMAIN s : s[i] = v /\ s[j] = v => i = j
Holds(s, v) == \E i \in DOMAIN s : s[i] = v

LEMMA SplicedAway ==
  ASSUME NEW S, NEW s \in Seq(S), NEW places \in SUBSET DOMAIN s
  PROVE  LET t == Spliced(s, places)
         IN /\ t \in Seq(S)
            /\ \A v : Holds(t, v) => Holds(s, v)
            /\ \A v : Once(s, v) => Once(t, v)
            /\ \A v : Holds(s, v) /\ (\A i \in places : s[i] # v) => Holds(t, v)
            /\ \A v : Once(s, v) /\ (\E i \in places : s[i] = v) /\ (\A i \in places : s[i] = v) => ~Holds(t, v)
<1> DEFINE t == Spliced(s, places)
<1>1. CASE places = {}
  <2>1. t = s
    BY <1>1 DEF Spliced
  <2> QED
    BY <1>1, <2>1
<1>2. CASE places # {}
  <2>1. Len(s) \in Nat /\ DOMAIN s = 1 .. Len(s)
    OBVIOUS
  <2>2. PICK k \in places : t = RemoveAt(s, k)
    BY <1>2, <2>1, FirstPlace
  <2> DEFINE old(i) == IF i < k THEN i ELSE i + 1
  <2> HIDE DEF t
  <2>3. /\ t \in Seq(S) /\ DOMAIN t = 1 .. Len(s) - 1
        /\ \A i \in 1 .. Len(s) - 1 : t[i] = s[old(i)]
    BY <2>2, RemovedAt
  <2>4. \A i \in 1 .. Len(s) - 1 : old(i) \in 1 .. Len(s) /\ old(i) # k
    BY <2>1
  <2>5. \A i, j \in 1 .. Len(s) - 1 : old(i) = old(j) => i = j
    BY <2>1
  <2>6. \A j \in 1 .. Len(s) : j # k => \E i \in 1 .. Len(s) - 1 : old(i) = j
    <3> SUFFICES ASSUME NEW j \in 1 .. Len(s), j # k PROVE \E i \in 1 .. Len(s) - 1 : old(i) = j
      OBVIOUS
    <3>1. CASE j < k
      BY <2>1, <3>1
    <3>2. CASE j > k
      <4>1. j - 1 \in 1 .. Len(s) - 1 /\ old(j - 1) = j
        BY <2>1, <3>2
      <4> QED
        BY <4>1
    <3> QED
      BY <2>1, <3>1, <3>2
  <2> HIDE DEF old
  <2>7. ASSUME NEW v, Holds(t, v) PROVE Holds(s, v)
    BY <2>1, <2>3, <2>4, <2>7 DEF Holds
  <2>8. ASSUME NEW v, Once(s, v) PROVE Once(t, v)
    BY <2>1, <2>3, <2>4, <2>5, <2>8 DEF Once
  <2>9. ASSUME NEW v, Holds(s, v), \A i \in places : s[i] # v PROVE Holds(t, v)
    <3>1. PICK j \in 1 .. Len(s) : s[j] = v
      BY <2>1, <2>9 DEF Holds
    <3>2. j # k
      BY <2>9, <3>1
    <3> QED
      BY <2>3, <2>6, <3>1, <3>2 DEF Holds
  <2>10. ASSUME NEW v, Once(s, v), \A i \in places : s[i] = v, Holds(t, v) PROVE FALSE
    <3>1. PICK i \in 1 .. Len(s) - 1 : s[old(i)] = v
      BY <2>3, <2>10 DEF Holds
    <3>2. s[k] = v /\ k \in 1 .. Len(s)
      BY <2>1, <2>10
    <3> QED
      BY <2>1, <2>4, <2>10, <3>1, <3>2 DEF Once
  <2> QED
    BY <2>3, <2>7, <2>8, <2>9, <2>10 DEF t
<1> QED
  BY <1>1, <1>2

LEMMA AppendedList ==
  ASSUME NEW S, NEW s \in Seq(S), NEW e \in S
  PROVE  /\ Append(s, e) \in Seq(S)
         /\ \A v : Holds(Append(s, e), v) <=> Holds(s, v) \/ v = e
         /\ \A v : v # e /\ Once(s, v) => Once(Append(s, e), v)
         /\ ~Holds(s, e) => Once(Append(s, e), e)
<1> DEFINE t == Append(s, e)
<1>1. /\ t \in Seq(S) /\ Len(s) \in Nat /\ DOMAIN s = 1 .. Len(s) /\ DOMAIN t = 1 .. Len(s) + 1
      /\ \A i \in 1 .. Len(s) + 1 : t[i] = IF i = Len(s) + 1 THEN e ELSE s[i]
  OBVIOUS
<1> HIDE DEF t
<1>2. \A i \in 1 .. Len(s) : i \in 1 .. Len(s) + 1 /\ i # Len(s) + 1
  BY <1>1
<1>3. Len(s) + 1 \in 1 .. Len(s) + 1 /\ \A i \in 1 .. Len(s) + 1 : i = Len(s) + 1 \/ i \in 1 .. Len(s)
  BY <1>1
<1>4. \A v : Holds(t, v) <=> Holds(s, v) \/ v = e
  BY <1>1, <1>2, <1>3 DEF Holds
<1>5. ASSUME NEW v, v # e, Once(s, v) PROVE Once(t, v)
  BY <1>1, <1>3, <1>5 DEF Once
<1>6. ASSUME ~Holds(s, e) PROVE Once(t, e)
  BY <1>1, <1>3, <1>6 DEF Once, Holds
<1> QED
  BY <1>1, <1>4, <1>5, <1>6 DEF t
-----------------------------------------------------------------------------
(* The charts page.                                                          *)
Modes == {"realtime", "anchored"}
ChannelChoices == ChartChannels \cup {NoChannel}
PageWrappers == [id : Wrappers, selected : ChannelChoices]
ChartComponents == [mode : Modes, pause : BOOLEAN, old : ChannelChoices, chart : Nat]
PageCharts == [owner : Wrappers, live : BOOLEAN, channel : ChannelChoices, pause : BOOLEAN,
               points : Seq(Nat), since : Nat, window : Windows, auto : BOOLEAN,
               scale : {"realtime", "time"}]

ChartsTyped ==
  /\ wrappers \in Seq(PageWrappers) /\ wrapperCounter \in 1 .. MaxWrappers
  /\ component \in [Wrappers -> ChartComponents]
  /\ charts \in Seq(PageCharts)
  /\ channelConsumers \in Seq(Wrappers)
  /\ siblings \in Seq(Nat) /\ inSync \in BOOLEAN
  /\ samples \in Seq(ChartChannels)
  /\ failures \subseteq Wrappers
  /\ behind \subseteq DOMAIN charts

(* A component's chart runs and is its own; a wrapper that names no channel  *)
(* has no chart, and identifiers are never given twice.                      *)
Owned ==
  /\ \A id \in Wrappers : HasChart(id) => component[id].chart \in Live
  /\ \A c \in Live : component[charts[c].owner].chart = c
  /\ \A id \in Wrappers : HasChart(id) => charts[component[id].chart].owner = id /\ id \in OnPage
Blanks == \A w \in ToSet(wrappers) : w.selected = NoChannel => ~HasChart(w.id)
IdsGiven == \A id \in OnPage : id < wrapperCounter
SiblingsLive ==
  /\ \A c \in Nat : Once(siblings, c)
  /\ \A c \in Nat : c # NoChart => (Holds(siblings, c) <=> c \in Live)

(* Whoever met no failure is registered once while it has a chart.           *)
Registered ==
  \A id \in Wrappers \ failures : /\ Once(channelConsumers, id)
                                  /\ Holds(channelConsumers, id) <=> HasChart(id)
SinceThen == \A c \in Live : charts[c].since <= Len(samples)
ChartsPlaced == Owned /\ Blanks /\ IdsGiven /\ SiblingsLive
ChartInv == ChartsTyped /\ ChartsPlaced /\ Registered /\ SinceThen /\ PointsOnce /\ LockedTogether
-----------------------------------------------------------------------------
LEMMA ChartStart == ChartInit => ChartInv
<1> SUFFICES ASSUME ChartInit PROVE ChartInv
  OBVIOUS
<1> USE ChartAssumption DEF ChartInit
<1>1. Wrappers # {} /\ 0 \in Wrappers
  BY DEF Wrappers
<1>2. Live = {} /\ DOMAIN charts = {}
  BY DEF Live
<1>3. ChartsTyped
  <2>1. wrappers \in Seq(PageWrappers)
    BY <1>1 DEF PageWrappers, ChannelChoices
  <2>2. component \in [Wrappers -> ChartComponents]
    BY DEF Idle, NoChart, ChartComponents, Modes, ChannelChoices
  <2>3. 1 \in 1 .. MaxWrappers
    OBVIOUS
  <2>4. charts \in Seq(PageCharts) /\ channelConsumers \in Seq(Wrappers) /\ siblings \in Seq(Nat)
    BY EmptySeq
  <2>5. samples \in Seq(ChartChannels) /\ wrapperCounter \in 1 .. MaxWrappers
    BY <2>3, EmptySeq
  <2>6. inSync \in BOOLEAN /\ failures \subseteq Wrappers /\ behind \subseteq DOMAIN charts
    OBVIOUS
  <2> QED
    BY <2>1, <2>2, <2>4, <2>5, <2>6 DEF ChartsTyped
<1>4. \A id \in Wrappers : ~HasChart(id)
  BY DEF HasChart, Idle
<1>5. ToSet(wrappers) = {wrappers[1]}
  BY DEF ToSet
<1>6. ChartsPlaced
  <2>1. wrappers[1] = [id |-> 0, selected |-> NoChannel] /\ OnPage = {0}
    BY <1>5 DEF OnPage
  <2>2. Blanks /\ IdsGiven
    BY <1>1, <1>4, <1>5, <2>1 DEF Blanks, IdsGiven
  <2>3. Owned
    BY <1>2, <1>4 DEF Owned
  <2>4. SiblingsLive
    BY <1>2 DEF SiblingsLive, Once, Holds
  <2> QED
    BY <2>2, <2>3, <2>4 DEF ChartsPlaced
<1>7. Registered
  BY <1>4 DEF Registered, Once, Holds
<1> QED
  BY <1>2, <1>3, <1>6, <1>7 DEF ChartInv, SinceThen, PointsOnce, LockedTogether

(* destroy leaves the other charts, registrations and siblings as they were. *)
LEMMA DestroyedIs ==
  ASSUME ChartInv, NEW id \in Wrappers
  PROVE  /\ ChartsWithout(id) \in Seq(PageCharts) /\ Len(ChartsWithout(id)) = Len(charts)
         /\ \A c \in DOMAIN charts : c # component[id].chart => ChartsWithout(id)[c] = charts[c]
         /\ \A c \in DOMAIN charts : c = component[id].chart => ~ChartsWithout(id)[c].live
         /\ ConsumersWithout(id) \in Seq(Wrappers)
         /\ \A v \in Wrappers \ failures :
              /\ Once(ConsumersWithout(id), v)
              /\ Holds(ConsumersWithout(id), v) <=> v # id /\ HasChart(v)
         /\ SiblingsWithout(id) \in Seq(Nat)
         /\ \A c \in Nat : Once(SiblingsWithout(id), c)
         /\ \A c \in Nat : Holds(SiblingsWithout(id), c) <=> Holds(siblings, c) /\ (HasChart(id) => c # component[id].chart)
<1> USE DEF ChartInv, ChartsTyped
<1>1. component[id].chart \in Nat /\ DOMAIN charts = 1 .. Len(charts)
  BY DEF ChartComponents
<1>2. Gone \in PageCharts /\ ~Gone.live
  BY ChartAssumption DEF Gone, PageCharts, Wrappers, ChannelChoices
<1>3. /\ ChartsWithout(id) \in Seq(PageCharts) /\ Len(ChartsWithout(id)) = Len(charts)
      /\ \A c \in DOMAIN charts :
           ChartsWithout(id)[c] = IF HasChart(id) /\ c = component[id].chart THEN Gone ELSE charts[c]
  BY <1>1, <1>2 DEF ChartsWithout
<1>4. \A c \in DOMAIN charts : c = component[id].chart => HasChart(id)
  BY <1>1 DEF HasChart, NoChart
<1>5. /\ ConsumersWithout(id) \in Seq(Wrappers)
      /\ \A v \in Wrappers \ failures :
           /\ Once(ConsumersWithout(id), v)
           /\ Holds(ConsumersWithout(id), v) <=> v # id /\ HasChart(v)
  <2>1. CASE ~HasChart(id)
    BY <2>1 DEF ConsumersWithout, Registered
  <2>2. CASE HasChart(id)
    <3> DEFINE places == {i \in DOMAIN channelConsumers : channelConsumers[i] = id}
               t == Spliced(channelConsumers, places)
    <3>1. ConsumersWithout(id) = t
      BY <2>2 DEF ConsumersWithout, Deregistered
    <3>2. channelConsumers \in Seq(Wrappers) /\ places \in SUBSET DOMAIN channelConsumers
      OBVIOUS
    <3>3. \A i \in places : channelConsumers[i] = id
      OBVIOUS
    <3>4. Holds(channelConsumers, id) => \E i \in places : channelConsumers[i] = id
      BY DEF Holds
    <3> HIDE DEF places, ChartInv, ChartsTyped
    <3>5. /\ t \in Seq(Wrappers)
          /\ \A v : Holds(t, v) => Holds(channelConsumers, v)
          /\ \A v : Once(channelConsumers, v) => Once(t, v)
          /\ \A v : Holds(channelConsumers, v) /\ (\A i \in places : channelConsumers[i] # v) => Holds(t, v)
          /\ \A v : Once(channelConsumers, v) /\ (\E i \in places : channelConsumers[i] = v)
                    /\ (\A i \in places : channelConsumers[i] = v) => ~Holds(t, v)
      BY <3>2, SplicedAway
    <3> HIDE DEF t
    <3>6. ASSUME NEW v \in Wrappers \ failures
          PROVE  Once(t, v) /\ (Holds(t, v) <=> v # id /\ HasChart(v))
      <4>1. Once(channelConsumers, v) /\ (Holds(channelConsumers, v) <=> HasChart(v))
        BY DEF ChartInv, Registered
      <4>2. CASE v = id
        BY <2>2, <3>3, <3>4, <3>5, <4>1, <4>2
      <4>3. CASE v # id
        BY <3>3, <3>5, <4>1, <4>3
      <4> QED
        BY <4>2, <4>3
    <3> QED
      BY <3>1, <3>5, <3>6
  <2> QED
    BY <2>1, <2>2
<1>6. /\ SiblingsWithout(id) \in Seq(Nat)
      /\ \A c \in Nat : Once(SiblingsWithout(id), c)
      /\ \A c \in Nat : Holds(SiblingsWithout(id), c) <=> Holds(siblings, c) /\ (HasChart(id) => c # component[id].chart)
  <2>1. CASE ~HasChart(id)
    BY <2>1 DEF SiblingsWithout, ChartsPlaced, SiblingsLive
  <2>2. CASE HasChart(id)
    <3> DEFINE own == component[id].chart
               places == {i \in DOMAIN siblings : siblings[i] = own}
               t == Spliced(siblings, places)
    <3>1. SiblingsWithout(id) = t
      BY <2>2 DEF SiblingsWithout, Without
    <3>2. siblings \in Seq(Nat) /\ places \in SUBSET DOMAIN siblings
      OBVIOUS
    <3>3. \A i \in places : siblings[i] = own
      OBVIOUS
    <3>4. Holds(siblings, own) => \E i \in places : siblings[i] = own
      BY DEF Holds
    <3>5. \A c \in Nat : Once(siblings, c)
      BY DEF ChartsPlaced, SiblingsLive
    <3> HIDE DEF places, own, ChartInv, ChartsTyped
    <3>6. /\ t \in Seq(Nat)
          /\ \A v : Holds(t, v) => Holds(siblings, v)
          /\ \A v : Once(siblings, v) => Once(t, v)
          /\ \A v : Holds(siblings, v) /\ (\A i \in places : siblings[i] # v) => Holds(t, v)
          /\ \A v : Once(siblings, v) /\ (\E i \in places : siblings[i] = v)
                    /\ (\A i \in places : siblings[i] = v) => ~Holds(t, v)
      BY <3>2, SplicedAway
    <3> HIDE DEF t
    <3>7. ASSUME NEW c \in Nat PROVE Holds(t, c) <=> Holds(siblings, c) /\ c # own
      <4>1. CASE c = own
        BY <3>3, <3>4, <3>5, <3>6, <4>1
      <4>2. CASE c # own
        BY <3>3, <3>6, <4>2
      <4> QED
        BY <4>1, <4>2
    <3> QED
      BY <2>2, <3>1, <3>5, <3>6, <3>7 DEF own
  <2> QED
    BY <2>1, <2>2
<1> QED
  BY <1>3, <1>4, <1>5, <1>6, <1>2
LEMMA PrimeIs ==
  ASSUME NEW s \in Seq(Nat)
  PROVE  Prime(s) = NoChart \/ (Holds(s, Prime(s)) /\ Prime(s) \in Nat)
<1>1. CASE s = <<>>
  BY <1>1 DEF Prime
<1>2. CASE s # <<>>
  <2>1. 1 \in DOMAIN s /\ Prime(s) = s[1]
    BY <1>2 DEF Prime
  <2> QED
    BY <2>1 DEF Holds
<1> QED
  BY <1>1, <1>2

LEMMA AddedIs ==
  ASSUME NEW s \in Seq(Nat), NEW e \in Nat, \A c \in Nat : Once(s, c)
  PROVE  /\ Added(s, e) \in Seq(Nat)
         /\ \A c \in Nat : Once(Added(s, e), c)
         /\ \A c \in Nat : Holds(Added(s, e), c) <=> Holds(s, c) \/ c = e
<1>1. e \in ToSet(s) <=> Holds(s, e)
  BY DEF ToSet, Holds
<1>2. CASE Holds(s, e)
  BY <1>1, <1>2 DEF Added
<1>3. CASE ~Holds(s, e)
  <2>1. Added(s, e) = Append(s, e)
    BY <1>1, <1>3 DEF Added
  <2> QED
    BY <1>3, <2>1, AppendedList
<1> QED
  BY <1>2, <1>3

(* A component lets go of its chart and has another one, n, or none: the     *)
(* page's other charts are where they were.                                  *)
Moves(id, n) ==
  /\ charts' \in Seq(PageCharts)
  /\ component' \in [Wrappers -> ChartComponents]
  /\ \A v \in Wrappers : v # id => component'[v] = component[v]
  /\ component'[id].chart = n
  /\ \A c \in Live : c # component[id].chart => c \in Live' /\ charts'[c] = charts[c]
  /\ \A c \in Live' : c = n \/ (c \in Live /\ c # component[id].chart)
  /\ n # NoChart => /\ n \in Live' /\ n \notin DOMAIN charts
                    /\ charts'[n].owner = id /\ charts'[n].points = <<>> /\ charts'[n].since = Len(samples)
                    /\ id \in OnPage'
WrappersStay(id, n) ==
  /\ \A v \in OnPage : v # id => (HasChart(v) => v \in OnPage')
  /\ \A w \in ToSet(wrappers') : w.selected = NoChannel =>
       (w.id = id => n = NoChart) /\ (w.id # id => ~HasChart(w.id))
SiblingsMove(id, n) ==
  /\ siblings' \in Seq(Nat)
  /\ \A c \in Nat : Once(siblings', c)
  /\ \A c \in Nat : c # NoChart =>
       (Holds(siblings', c) <=> (Holds(siblings, c) /\ c # component[id].chart) \/ c = n)
  /\ Holds(siblings, NoChart) => Holds(siblings', NoChart)
  /\ Holds(siblings', NoChart) \/
       /\ n # NoChart => n \in behind'
       /\ (IF Prime(siblings') = Prime(siblings) THEN behind ELSE Live) \subseteq behind'

LEMMA Moved ==
  ASSUME ChartInv, NEW id \in Wrappers, NEW n \in Nat, wrappers' \in Seq(PageWrappers),
         UNCHANGED <<samples, inSync>>, failures \subseteq failures',
         Moves(id, n), WrappersStay(id, n), SiblingsMove(id, n)
  PROVE  Owned' /\ Blanks' /\ SiblingsLive' /\ SinceThen' /\ PointsOnce' /\ LockedTogether'
<1>1. ASSUME NEW c \in Live PROVE c \in DOMAIN charts /\ c \in Nat /\ c # NoChart /\ charts[c].owner \in Wrappers
  <2>1. charts \in Seq(PageCharts) /\ c \in 1 .. Len(charts)
    BY DEF ChartInv, ChartsTyped, Live
  <2>2. charts[c] \in PageCharts
    BY <2>1, ElementOfSeq
  <2> QED
    BY <2>1, <2>2 DEF NoChart, PageCharts
<1>2. ASSUME NEW c \in Live' PROVE c \in Nat /\ c # NoChart
  BY DEF Live, Moves, NoChart
<1>3. Owned
  BY DEF ChartInv, ChartsPlaced
<1>4. Owned'
  <2>1. ASSUME NEW v \in Wrappers, HasChart(v)'
        PROVE  component'[v].chart \in Live' /\ charts'[component'[v].chart].owner = v /\ v \in OnPage'
    <3>1. CASE v = id
      BY <2>1, <3>1 DEF HasChart, Moves
    <3>2. CASE v # id
      <4>1. component'[v] = component[v] /\ HasChart(v)
        BY <2>1, <3>2 DEF HasChart, Moves
      <4>2. component[v].chart \in Live /\ charts[component[v].chart].owner = v /\ v \in OnPage
        BY <1>3, <4>1 DEF Owned
      <4>3. component[v].chart # component[id].chart
        BY <1>1, <1>3, <3>2, <4>2 DEF Owned, HasChart
      <4> QED
        BY <3>2, <4>1, <4>2, <4>3 DEF Moves, WrappersStay
    <3> QED
      BY <3>1, <3>2
  <2>2. ASSUME NEW c \in Live' PROVE component'[charts'[c].owner].chart = c
    <3>1. CASE c = n
      BY <1>2, <3>1 DEF Moves
    <3>2. CASE c # n
      <4>1. c \in Live /\ c # component[id].chart /\ charts'[c] = charts[c]
        BY <3>2 DEF Moves
      <4>2. component[charts[c].owner].chart = c /\ charts[c].owner \in Wrappers
        BY <1>1, <1>3, <4>1 DEF Owned
      <4> QED
        BY <4>1, <4>2 DEF Moves
    <3> QED
      BY <3>1, <3>2
  <2> QED
    BY <2>1, <2>2 DEF Owned
<1>5. Blanks'
  <2>1. ASSUME NEW w \in ToSet(wrappers'), w.selected = NoChannel PROVE ~HasChart(w.id)'
    <3>1. w.id \in Wrappers
      <4>1. PICK i \in DOMAIN wrappers' : w = wrappers'[i]
        BY DEF ToSet
      <4>2. w \in PageWrappers
        BY <4>1
      <4> QED
        BY <4>2 DEF PageWrappers
    <3> QED
      BY <2>1, <3>1 DEF WrappersStay, HasChart, Moves
  <2> QED
    BY <2>1 DEF Blanks
<1>6. SiblingsLive'
  <2>1. ASSUME NEW c \in Nat, c # NoChart PROVE Holds(siblings', c) <=> c \in Live'
    <3>1. Holds(siblings', c) <=> (c \in Live /\ c # component[id].chart) \/ c = n
      BY <2>1 DEF SiblingsMove, ChartInv, ChartsPlaced, SiblingsLive
    <3>2. c \in Live' <=> (c \in Live /\ c # component[id].chart) \/ c = n
      BY <2>1 DEF Moves
    <3> QED
      BY <3>1, <3>2
  <2> QED
    BY <2>1 DEF SiblingsMove, SiblingsLive
<1>7. ASSUME NEW c \in Live' PROVE (c = n /\ n # NoChart) \/ (c \in Live /\ charts'[c] = charts[c])
  BY <1>2 DEF Moves
<1>8. Len(samples) \in Nat
  BY DEF ChartInv, ChartsTyped
<1>9. SinceThen'
  <2>1. ASSUME NEW c \in Live' PROVE charts'[c].since <= Len(samples)
    BY <1>7, <1>8 DEF Moves, ChartInv, SinceThen
  <2> QED
    BY <2>1 DEF SinceThen
<1>10. PointsOnce'
  <2>1. ASSUME NEW c \in Live', charts'[c].owner \notin failures'
        PROVE  LET dots == charts'[c].points
               IN /\ {dots[k] : k \in DOMAIN dots} =
                        {i \in DOMAIN samples : i > charts'[c].since /\ samples[i] = charts'[c].channel}
                  /\ \A k, l \in DOMAIN dots : k < l => dots[k] < dots[l]
    <3>1. CASE c = n /\ n # NoChart
      <4>1. charts'[c].points = <<>> /\ charts'[c].since = Len(samples)
        BY <3>1 DEF Moves
      <4>2. ~ \E i \in DOMAIN samples : i > Len(samples)
        BY DEF ChartInv, ChartsTyped
      <4> QED
        BY <4>1, <4>2
    <3>2. CASE c \in Live /\ charts'[c] = charts[c]
      <4>1. charts[c].owner \notin failures
        BY <2>1, <3>2
      <4> QED
        BY <3>2, <4>1 DEF ChartInv, PointsOnce
    <3> QED
      BY <1>7, <3>1, <3>2
  <2> QED
    BY <2>1 DEF PointsOnce
<1>11. LockedTogether'
  <2>1. \A s : NoChart \in ToSet(s) <=> Holds(s, NoChart)
    BY DEF ToSet, Holds
  <2> SUFFICES ASSUME inSync, ~Holds(siblings', NoChart), NEW c \in Live' \ behind'
               PROVE  charts'[c].window = charts'[Prime(siblings')].window
    BY <2>1 DEF LockedTogether
  <2>2. c # n /\ c \in Live /\ charts'[c] = charts[c]
    <3>1. c # n
      BY <1>2 DEF SiblingsMove
    <3> QED
      BY <1>7, <3>1
  <2>3. Prime(siblings') = Prime(siblings) /\ c \notin behind
    BY <2>2 DEF SiblingsMove
  <2>4. ~Holds(siblings, NoChart)
    BY DEF SiblingsMove
  <2>5. charts[c].window = charts[Prime(siblings)].window
    BY <2>1, <2>2, <2>3, <2>4 DEF ChartInv, LockedTogether
  <2>6. Holds(siblings', c) /\ siblings' \in Seq(Nat)
    BY <1>2, <1>6 DEF SiblingsLive, SiblingsMove
  <2>7. Prime(siblings') \in Live'
    <3>1. siblings' # <<>>
      BY <2>6 DEF Holds
    <3>2. Holds(siblings', Prime(siblings')) /\ Prime(siblings') \in Nat
      BY <2>6, <3>1 DEF Prime, Holds
    <3>3. Prime(siblings') # NoChart
      BY <3>2
    <3> QED
      BY <1>6, <3>2, <3>3 DEF SiblingsLive
  <2>8. Prime(siblings) \in Live
    <3>1. siblings # <<>>
      BY <1>1, <2>2 DEF Holds, ChartInv, ChartsPlaced, SiblingsLive
    <3>2. siblings \in Seq(Nat)
      BY DEF ChartInv, ChartsTyped
    <3>3. Holds(siblings, Prime(siblings)) /\ Prime(siblings) \in Nat
      BY <3>1, <3>2 DEF Prime, Holds
    <3>4. Prime(siblings) # NoChart
      BY <2>4, <3>3
    <3> QED
      BY <3>3, <3>4 DEF ChartInv, ChartsPlaced, SiblingsLive
  <2>9. charts'[Prime(siblings)] = charts[Prime(siblings)]
    <3>1. Prime(siblings) \in DOMAIN charts
      BY <1>1, <2>8
    <3> QED
      BY <1>7, <2>3, <2>7, <3>1 DEF Moves
  <2> QED
    BY <2>2, <2>3, <2>5, <2>9
<1> QED
  BY <1>4, <1>5, <1>6, <1>9, <1>10, <1>11
-----------------------------------------------------------------------------
(* A component registers: with a chart, or with none when it cannot be built. *)
LEMMA BuiltStep ==
  ASSUME ChartInv, NEW id \in Wrappers, NEW channel \in ChartChannels, NEW mode \in Modes, NEW old \in ChannelChoices,
         wrappers' \in Seq(PageWrappers), wrapperCounter' \in 1 .. MaxWrappers, id \in OnPage',
         WrappersStay(id, 1), IdsGiven', UNCHANGED <<samples, inSync>>,
         RegisterChart(id, channel, mode, old)
  PROVE  ChartInv'
<1> DEFINE n == Len(charts) + 1
           L == ChartsWithout(id)
           CW == ConsumersWithout(id)
           SW == SiblingsWithout(id)
           own == component[id].chart
<1>1. /\ charts \in Seq(PageCharts) /\ DOMAIN charts = 1 .. Len(charts) /\ Len(charts) \in Nat
      /\ component \in [Wrappers -> ChartComponents] /\ own \in Nat
      /\ samples \in Seq(ChartChannels) /\ Len(samples) \in Nat
      /\ failures \subseteq Wrappers /\ behind \subseteq DOMAIN charts /\ inSync \in BOOLEAN
  BY DEF ChartInv, ChartsTyped, ChartComponents
<1>2. Live \subseteq DOMAIN charts /\ NoChart \notin Live /\ (HasChart(id) <=> own \in Live) /\ (~HasChart(id) => own = NoChart)
  BY <1>1 DEF Live, NoChart, HasChart, ChartInv, ChartsPlaced, Owned
<1>3. /\ L \in Seq(PageCharts) /\ Len(L) = Len(charts)
      /\ \A c \in DOMAIN charts : c # own => L[c] = charts[c]
      /\ \A c \in DOMAIN charts : c = own => ~L[c].live
      /\ CW \in Seq(Wrappers)
      /\ \A v \in Wrappers \ failures : Once(CW, v) /\ (Holds(CW, v) <=> v # id /\ HasChart(v))
      /\ SW \in Seq(Nat)
      /\ \A c \in Nat : Once(SW, c)
      /\ \A c \in Nat : Holds(SW, c) <=> Holds(siblings, c) /\ (HasChart(id) => c # own)
  BY DestroyedIs
<1>0. DefaultWindow \in Windows /\ \A w \in FirstWindows(mode) : w \in Windows
  BY ChartAssumption DEF FirstWindows
<1>12. PICK w \in Windows :
      /\ channelConsumers' = Append(CW, id)
      /\ \/ /\ charts' = Append(L, NewChart(id, channel, mode, w)) /\ siblings' = Added(SW, n)
            /\ component' = [component EXCEPT ![id].chart = n, ![id].mode = mode, ![id].old = old]
            /\ behind' = BehindAfter(siblings', {n}) /\ failures' = failures
         \/ /\ charts' = L /\ siblings' = Added(SW, NoChart)
            /\ component' = [component EXCEPT ![id].chart = NoChart, ![id].mode = mode, ![id].old = old]
            /\ behind' = BehindAfter(siblings', {}) /\ failures' = failures \cup {id}
  BY <1>0 DEF RegisterChart, Destroyed
<1> DEFINE fresh == NewChart(id, channel, mode, w)
<1>4. /\ channelConsumers' = Append(CW, id)
      /\ \/ /\ charts' = Append(L, fresh) /\ siblings' = Added(SW, n)
            /\ component' = [component EXCEPT ![id].chart = n, ![id].mode = mode, ![id].old = old]
            /\ behind' = BehindAfter(siblings', {n}) /\ failures' = failures
         \/ /\ charts' = L /\ siblings' = Added(SW, NoChart)
            /\ component' = [component EXCEPT ![id].chart = NoChart, ![id].mode = mode, ![id].old = old]
            /\ behind' = BehindAfter(siblings', {}) /\ failures' = failures \cup {id}
  BY <1>12
<1>5. fresh \in PageCharts /\ fresh.live /\ fresh.owner = id /\ fresh.points = <<>> /\ fresh.since = Len(samples)
  BY <1>1, ChartAssumption DEF NewChart, PageCharts, ChannelChoices, Modes
<1> HIDE DEF L, CW, SW, fresh
<1>6. channelConsumers' \in Seq(Wrappers)
  BY <1>3, <1>4
<1>7. /\ \A v \in Wrappers \ failures : Once(channelConsumers', v)
      /\ \A v \in Wrappers \ failures : Holds(channelConsumers', v) <=> v = id \/ HasChart(v)
  BY <1>3, <1>4, AppendedList
<1>8. ASSUME NEW m \in Nat, component' = [component EXCEPT ![id].chart = m, ![id].mode = mode, ![id].old = old]
      PROVE  /\ component' \in [Wrappers -> ChartComponents] /\ component'[id].chart = m
             /\ \A v \in Wrappers : v # id => component'[v] = component[v]
  <2>1. component'[id] = [component[id] EXCEPT !.chart = m, !.mode = mode, !.old = old]
    BY <1>1, <1>8
  <2>2. component'[id] \in ChartComponents /\ component'[id].chart = m
    BY <1>1, <2>1 DEF ChartComponents
  <2> QED
    BY <1>1, <1>8, <2>2
<1>9. CASE /\ charts' = Append(L, fresh) /\ siblings' = Added(SW, n)
           /\ component' = [component EXCEPT ![id].chart = n, ![id].mode = mode, ![id].old = old]
           /\ behind' = BehindAfter(siblings', {n}) /\ failures' = failures
  <2>1. /\ n \in Nat /\ n # NoChart /\ n \notin DOMAIN charts
        /\ component' \in [Wrappers -> ChartComponents] /\ component'[id].chart = n
        /\ \A v \in Wrappers : v # id => component'[v] = component[v]
    <3>1. n \in Nat /\ n # NoChart /\ n \notin DOMAIN charts
      BY <1>1 DEF NoChart
    <3> HIDE DEF n
    <3> QED
      BY <3>1, <1>8, <1>9
  <2>2. /\ charts' \in Seq(PageCharts) /\ DOMAIN charts' = 1 .. n /\ charts'[n] = fresh
        /\ \A c \in DOMAIN charts : charts'[c] = L[c]
    BY <1>1, <1>3, <1>5, <1>9
  <2>3. Live' = (Live \ {own}) \cup {n}
    <3>1. \A c \in DOMAIN charts' : c \in DOMAIN charts \/ c = n
      BY <1>1, <2>2
    <3>2. charts'[n].live /\ n \in DOMAIN charts'
      BY <1>1, <1>5, <2>2
    <3>3. \A c \in DOMAIN charts : charts'[c].live <=> c # own /\ charts[c].live
      BY <1>3, <2>2
    <3>4. DOMAIN charts \subseteq DOMAIN charts'
      BY <1>1, <2>2
    <3> HIDE DEF n, own
    <3> QED
      BY <2>1, <3>1, <3>2, <3>3, <3>4 DEF Live
  <2>4. Moves(id, n)
    BY <1>2, <1>3, <1>5, <2>1, <2>2, <2>3 DEF Moves
  <2>5. /\ siblings' \in Seq(Nat) /\ \A c \in Nat : Once(siblings', c)
        /\ \A c \in Nat : Holds(siblings', c) <=> Holds(SW, c) \/ c = n
    <3> HIDE DEF n
    <3>1. siblings' = Added(SW, n) /\ n \in Nat
      BY <1>9, <2>1
    <3> QED
      BY <1>3, <3>1, AddedIs
  <2>6. behind' = (IF Prime(siblings') = Prime(siblings) THEN behind ELSE Live) \cup {n}
    BY <1>9 DEF BehindAfter
  <2>7. SiblingsMove(id, n)
    <3>1. ASSUME NEW c \in Nat, c # NoChart PROVE Holds(siblings', c) <=> (Holds(siblings, c) /\ c # own) \/ c = n
      BY <1>2, <1>3, <2>5, <3>1
    <3>2. Holds(siblings, NoChart) => Holds(siblings', NoChart)
      BY <1>1, <1>3, <2>5 DEF HasChart, NoChart
    <3>3. n \in behind' /\ (IF Prime(siblings') = Prime(siblings) THEN behind ELSE Live) \subseteq behind'
      BY <2>6
    <3> QED
      BY <2>5, <3>1, <3>2, <3>3 DEF SiblingsMove
  <2>8. WrappersStay(id, n)
    BY DEF WrappersStay, NoChart
  <2>9. Owned' /\ Blanks' /\ SiblingsLive' /\ SinceThen' /\ PointsOnce' /\ LockedTogether'
    <3>1. failures \subseteq failures'
      BY <1>9
    <3> QED
      BY <2>1, <2>4, <2>7, <2>8, <3>1, Moved
  <2>10. behind' \subseteq DOMAIN charts'
    BY <1>1, <1>2, <2>2, <2>6
  <2>11. ChartsTyped'
    BY <1>1, <1>6, <1>9, <2>1, <2>2, <2>5, <2>10 DEF ChartsTyped
  <2>12. Registered'
    BY <1>7, <1>9, <2>1 DEF Registered, HasChart
  <2> QED
    BY <2>9, <2>11, <2>12 DEF ChartInv, ChartsPlaced
<1>10. CASE /\ charts' = L /\ siblings' = Added(SW, NoChart)
            /\ component' = [component EXCEPT ![id].chart = NoChart, ![id].mode = mode, ![id].old = old]
            /\ behind' = BehindAfter(siblings', {}) /\ failures' = failures \cup {id}
  <2>1. /\ NoChart \in Nat
        /\ component' \in [Wrappers -> ChartComponents] /\ component'[id].chart = NoChart
        /\ \A v \in Wrappers : v # id => component'[v] = component[v]
    BY <1>8, <1>10 DEF NoChart
  <2>2. Live' = Live \ {own} /\ DOMAIN charts' = DOMAIN charts /\ charts' \in Seq(PageCharts)
    BY <1>1, <1>2, <1>3, <1>10 DEF Live
  <2>3. Moves(id, NoChart)
    BY <1>2, <1>3, <1>10, <2>1, <2>2 DEF Moves
  <2>4. /\ siblings' \in Seq(Nat) /\ \A c \in Nat : Once(siblings', c)
        /\ \A c \in Nat : Holds(siblings', c) <=> Holds(SW, c) \/ c = NoChart
    BY <1>3, <1>10, <2>1, AddedIs
  <2>5. behind' = IF Prime(siblings') = Prime(siblings) THEN behind ELSE Live
    BY <1>10 DEF BehindAfter
  <2>6. SiblingsMove(id, NoChart)
    <3>1. ASSUME NEW c \in Nat, c # NoChart PROVE Holds(siblings', c) <=> (Holds(siblings, c) /\ c # own) \/ c = NoChart
      BY <1>2, <1>3, <2>4, <3>1
    <3>2. Holds(siblings', NoChart)
      BY <2>1, <2>4
    <3> QED
      BY <2>4, <3>1, <3>2 DEF SiblingsMove
  <2>7. WrappersStay(id, NoChart)
    BY DEF WrappersStay
  <2>8. Owned' /\ Blanks' /\ SiblingsLive' /\ SinceThen' /\ PointsOnce' /\ LockedTogether'
    <3>1. failures \subseteq failures'
      BY <1>10
    <3> QED
      BY <2>1, <2>3, <2>6, <2>7, <3>1, Moved
  <2>9. behind' \subseteq DOMAIN charts' /\ failures' \subseteq Wrappers
    BY <1>1, <1>2, <1>10, <2>2, <2>5
  <2>10. ChartsTyped'
    BY <1>1, <1>6, <2>1, <2>2, <2>4, <2>9 DEF ChartsTyped
  <2>11. Registered'
    BY <1>7, <1>10, <2>1 DEF Registered, HasChart
  <2> QED
    BY <2>8, <2>10, <2>11 DEF ChartInv, ChartsPlaced
<1> QED
  BY <1>4, <1>9, <1>10
LEMMA WrapperKnown ==
  ASSUME NEW s \in Seq(PageWrappers), NEW w \in ToSet(s)
  PROVE  w \in PageWrappers /\ w.id \in Wrappers /\ w.selected \in ChannelChoices /\ \E i \in DOMAIN s : w = s[i]
<1>1. PICK i \in DOMAIN s : w = s[i]
  BY DEF ToSet
<1>2. w \in PageWrappers
  BY <1>1
<1> QED
  BY <1>1, <1>2 DEF PageWrappers

LEMMA UpdateSelectedStep ==
  ASSUME ChartInv, NEW id \in Wrappers, NEW channel \in ChartChannels, UpdateSelected(id, channel)
  PROVE  ChartInv'
<1> DEFINE here(w) == IF w.id = id THEN [w EXCEPT !.selected = channel] ELSE w
<1>1. wrappers \in Seq(PageWrappers) /\ wrapperCounter \in 1 .. MaxWrappers /\ component \in [Wrappers -> ChartComponents]
  BY DEF ChartInv, ChartsTyped
<1>2. /\ wrappers' = [i \in DOMAIN wrappers |-> here(wrappers[i])] /\ id \in OnPage
      /\ RegisterChart(id, channel, component[id].mode, channel)
      /\ UNCHANGED <<wrapperCounter, inSync, samples>>
  BY DEF UpdateSelected
<1>3. \A w \in PageWrappers : here(w) \in PageWrappers /\ here(w).id = w.id /\ (w.id # id => here(w) = w)
                              /\ (w.id = id => here(w).selected = channel)
  BY DEF PageWrappers, ChannelChoices
<1>4. wrappers' \in Seq(PageWrappers) /\ DOMAIN wrappers' = DOMAIN wrappers
      /\ \A i \in DOMAIN wrappers : wrappers[i] \in PageWrappers /\ wrappers'[i] = here(wrappers[i])
  BY <1>1, <1>2, <1>3
<1> HIDE DEF here
<1>5. ToSet(wrappers') = {here(w) : w \in ToSet(wrappers)}
  BY <1>4 DEF ToSet
<1>6. OnPage' = OnPage
  <2>1. \A w \in ToSet(wrappers) : here(w).id = w.id
    BY <1>1, <1>3, WrapperKnown
  <2> QED
    BY <1>5, <2>1 DEF OnPage
<1>7. WrappersStay(id, 1)
  <2>1. ASSUME NEW w \in ToSet(wrappers'), w.selected = NoChannel PROVE w.id # id /\ ~HasChart(w.id)
    <3>1. PICK x \in ToSet(wrappers) : w = here(x)
      BY <1>5
    <3>2. x \in PageWrappers
      BY <1>1, WrapperKnown
    <3>3. x.id # id /\ w = x
      BY <1>3, <2>1, <3>1, <3>2, ChartAssumption
    <3> QED
      BY <2>1, <3>3 DEF ChartInv, ChartsPlaced, Blanks
  <2> QED
    BY <1>6, <2>1 DEF WrappersStay
<1>8. IdsGiven'
  BY <1>2, <1>6 DEF ChartInv, ChartsPlaced, IdsGiven
<1>9. component[id].mode \in Modes /\ channel \in ChannelChoices
  BY <1>1 DEF ChartComponents, ChannelChoices
<1> QED
  BY <1>1, <1>2, <1>4, <1>6, <1>7, <1>8, <1>9, BuiltStep

(* What leaves every chart where it belongs.                                 *)
SamePlaces ==
  /\ component' \in [Wrappers -> ChartComponents]
  /\ \A v \in Wrappers : component'[v].chart = component[v].chart
  /\ charts' \in Seq(PageCharts) /\ DOMAIN charts' = DOMAIN charts
  /\ \A c \in DOMAIN charts : /\ charts'[c].live = charts[c].live /\ charts'[c].owner = charts[c].owner
                              /\ charts'[c].since = charts[c].since
  /\ UNCHANGED <<wrappers, wrapperCounter, channelConsumers, siblings, failures>>

LEMMA StillPlaced ==
  ASSUME ChartInv, SamePlaces, Len(samples') >= Len(samples), Len(samples') \in Nat
  PROVE  Live' = Live /\ ChartsPlaced' /\ Registered' /\ SinceThen'
<1> USE DEF SamePlaces
<1>1. Live' = Live /\ OnPage' = OnPage /\ \A v \in Wrappers : HasChart(v)' <=> HasChart(v)
  BY DEF Live, OnPage, HasChart
<1>2. \A c \in Live : /\ c \in DOMAIN charts /\ charts[c].owner \in Wrappers /\ charts'[c].owner = charts[c].owner
                      /\ charts'[c].since = charts[c].since /\ charts[c].since \in Nat
  <2> SUFFICES ASSUME NEW c \in Live
               PROVE  /\ c \in DOMAIN charts /\ charts[c].owner \in Wrappers /\ charts'[c].owner = charts[c].owner
                      /\ charts'[c].since = charts[c].since /\ charts[c].since \in Nat
    OBVIOUS
  <2>1. c \in DOMAIN charts /\ charts[c] \in PageCharts
    BY DEF ChartInv, ChartsTyped, Live
  <2> QED
    BY <2>1 DEF PageCharts
<1>3. Owned'
  BY <1>1, <1>2 DEF ChartInv, ChartsPlaced, Owned
<1>4. Blanks' /\ IdsGiven' /\ SiblingsLive'
  <2>1. \A w \in ToSet(wrappers) : w.id \in Wrappers
    BY WrapperKnown DEF ChartInv, ChartsTyped
  <2> QED
    BY <1>1, <2>1 DEF ChartInv, ChartsPlaced, Blanks, IdsGiven, SiblingsLive
<1>5. Registered'
  BY <1>1 DEF ChartInv, Registered
<1>6. SinceThen'
  <2>1. Len(samples) \in Nat
    BY DEF ChartInv, ChartsTyped
  <2> QED
    BY <1>1, <1>2, <2>1 DEF ChartInv, SinceThen
<1> QED
  BY <1>1, <1>3, <1>4, <1>5, <1>6 DEF ChartsPlaced

LEMMA SameCharts ==
  ASSUME ChartInv, SamePlaces, UNCHANGED <<inSync, samples, charts, behind>>
  PROVE  ChartInv'
<1>1. Len(samples') >= Len(samples) /\ Len(samples') \in Nat
  BY DEF ChartInv, ChartsTyped
<1>2. Live' = Live /\ ChartsPlaced' /\ Registered' /\ SinceThen'
  BY <1>1, StillPlaced
<1>3. ChartsTyped' /\ PointsOnce' /\ LockedTogether'
  BY <1>2 DEF ChartInv, ChartsTyped, PointsOnce, LockedTogether, SamePlaces
<1> QED
  BY <1>2, <1>3 DEF ChartInv

LEMMA TimeModeStep ==
  ASSUME ChartInv, NEW id \in Wrappers, NEW mode \in Modes, TimeModeChange(id, mode)
  PROVE  ChartInv'
<1>1. /\ id \in OnPage /\ UNCHANGED <<wrappers, wrapperCounter, inSync, samples>>
      /\ wrappers \in Seq(PageWrappers) /\ wrapperCounter \in 1 .. MaxWrappers
      /\ component \in [Wrappers -> ChartComponents]
  BY DEF TimeModeChange, ChartInv, ChartsTyped
<1>2. OnPage' = OnPage /\ IdsGiven'
  BY <1>1 DEF OnPage, ChartInv, ChartsPlaced, IdsGiven
<1>3. CASE HasChart(id) /\ Selected(id) # NoChannel
  <2>1. Selected(id) \in ChartChannels
    <3>1. \E w \in ToSet(wrappers) : w.id = id
      BY <1>1 DEF OnPage
    <3>2. (CHOOSE w \in ToSet(wrappers) : w.id = id) \in ToSet(wrappers)
      BY <3>1
    <3> QED
      BY <1>1, <1>3, <3>2, WrapperKnown DEF Selected, ChannelChoices
  <2>2. RegisterChart(id, Selected(id), mode, component[id].old)
    BY <1>3 DEF TimeModeChange
  <2>3. component[id].old \in ChannelChoices
    BY <1>1 DEF ChartComponents
  <2>4. WrappersStay(id, 1)
    BY <1>1, <1>2, <1>3 DEF WrappersStay, ChartInv, ChartsPlaced, Blanks
  <2> QED
    BY <1>1, <1>2, <2>1, <2>2, <2>3, <2>4, BuiltStep
<1>4. CASE ~(HasChart(id) /\ Selected(id) # NoChannel)
  <2>1. component' = [component EXCEPT ![id].mode = mode] /\ UNCHANGED <<charts, channelConsumers, siblings, failures, behind>>
    BY <1>4 DEF TimeModeChange
  <2>2. component'[id] = [component[id] EXCEPT !.mode = mode]
    BY <1>1, <2>1
  <2>3. /\ component' \in [Wrappers -> ChartComponents]
        /\ \A v \in Wrappers : component'[v].chart = component[v].chart
    <3>1. component'[id] \in ChartComponents /\ component'[id].chart = component[id].chart
      BY <1>1, <2>2 DEF ChartComponents
    <3> QED
      BY <1>1, <2>1, <3>1
  <2>4. SamePlaces
    BY <1>1, <2>1, <2>3 DEF SamePlaces, ChartInv, ChartsTyped
  <2> QED
    BY <1>1, <2>1, <2>4, SameCharts
<1> QED
  BY <1>3, <1>4
LEMMA MoreWrappers ==
  ASSUME NEW s \in Seq(PageWrappers), NEW w \in PageWrappers
  PROVE  Append(s, w) \in Seq(PageWrappers) /\ ToSet(Append(s, w)) = ToSet(s) \cup {w}
<1>1. \A t : ToSet(t) = {x : x \in {t[i] : i \in DOMAIN t}}
  BY DEF ToSet
<1>2. ASSUME NEW v PROVE v \in ToSet(Append(s, w)) <=> v \in ToSet(s) \/ v = w
  <2>1. \A t, x : x \in ToSet(t) <=> Holds(t, x)
    BY DEF ToSet, Holds
  <2> QED
    BY <2>1, AppendedList
<1> QED
  BY <1>2, AppendedList

LEMMA AddChartStep == ChartInv /\ AddChart => ChartInv'
<1> SUFFICES ASSUME ChartInv, AddChart PROVE ChartInv'
  OBVIOUS
<1> DEFINE w == [id |-> wrapperCounter, selected |-> NoChannel]
<1>1. /\ wrapperCounter < MaxWrappers /\ wrappers' = Append(wrappers, w) /\ wrapperCounter' = wrapperCounter + 1
      /\ UNCHANGED <<component, charts, channelConsumers, siblings, inSync, samples, failures, behind>>
  BY DEF AddChart
<1>2. wrapperCounter \in 1 .. MaxWrappers /\ wrappers \in Seq(PageWrappers) /\ MaxWrappers \in Nat
  BY ChartAssumption DEF ChartInv, ChartsTyped
<1>3. w \in PageWrappers /\ w.id = wrapperCounter /\ wrapperCounter' \in 1 .. MaxWrappers /\ wrapperCounter \in Wrappers
  BY <1>1, <1>2 DEF PageWrappers, Wrappers, ChannelChoices
<1>4. wrappers' \in Seq(PageWrappers) /\ ToSet(wrappers') = ToSet(wrappers) \cup {w}
  BY <1>1, <1>2, <1>3, MoreWrappers
<1>5. OnPage' = OnPage \cup {wrapperCounter}
  BY <1>3, <1>4 DEF OnPage
<1> HIDE DEF w
<1>6. Live' = Live /\ \A v : HasChart(v)' <=> HasChart(v)
  BY <1>1 DEF Live, HasChart
<1>7. ~HasChart(wrapperCounter)
  BY <1>2, <1>3 DEF ChartInv, ChartsPlaced, Owned, IdsGiven
<1>8. Owned'
  BY <1>1, <1>5, <1>6 DEF ChartInv, ChartsPlaced, Owned
<1>9. Blanks' /\ SiblingsLive'
  BY <1>1, <1>3, <1>4, <1>6, <1>7 DEF ChartInv, ChartsPlaced, Blanks, SiblingsLive
<1>10. IdsGiven'
  <2>1. \A v \in OnPage : v \in Int /\ v < wrapperCounter
    BY <1>2, WrapperKnown DEF ChartInv, ChartsPlaced, IdsGiven, OnPage, Wrappers
  <2> QED
    BY <1>1, <1>2, <1>5, <2>1 DEF IdsGiven
<1>11. ChartsTyped' /\ Registered' /\ SinceThen' /\ PointsOnce' /\ LockedTogether'
  BY <1>1, <1>3, <1>4, <1>6 DEF ChartInv, ChartsTyped, Registered, SinceThen, PointsOnce, LockedTogether
<1> QED
  BY <1>8, <1>9, <1>10, <1>11 DEF ChartInv, ChartsPlaced

(* Only a wrapper without a chart gives way to a loaded one.                 *)
LEMMA BlankIs ==
  ASSUME ChartInv
  PROVE  /\ WithoutBlank \in Seq(PageWrappers) /\ ToSet(WithoutBlank) \subseteq ToSet(wrappers)
         /\ \A w \in ToSet(wrappers) : w \in ToSet(WithoutBlank) \/ w.selected = NoChannel
<1>1. wrappers \in Seq(PageWrappers) /\ Len(wrappers) \in Nat /\ DOMAIN wrappers = 1 .. Len(wrappers)
  BY DEF ChartInv, ChartsTyped
<1>2. CASE wrappers # <<>> /\ Last(wrappers).selected = NoChannel
  <2> DEFINE t == SubSeq(wrappers, 1, Len(wrappers) - 1)
  <2>1. WithoutBlank = t
    BY <1>2 DEF WithoutBlank, Front
  <2>2. t \in Seq(PageWrappers) /\ DOMAIN t = 1 .. Len(wrappers) - 1 /\ \A i \in 1 .. Len(wrappers) - 1 : t[i] = wrappers[i]
    BY <1>1, <1>2, SubSeqProperties
  <2> HIDE DEF t
  <2>3. \A i \in DOMAIN wrappers : i = Len(wrappers) \/ i \in DOMAIN t
    BY <1>1, <2>2
  <2>4. \A i \in DOMAIN t : i \in DOMAIN wrappers
    BY <1>1, <2>2
  <2>5. wrappers[Len(wrappers)].selected = NoChannel
    BY <1>2 DEF Last
  <2> QED
    BY <2>1, <2>2, <2>3, <2>4, <2>5 DEF ToSet
<1>3. CASE ~(wrappers # <<>> /\ Last(wrappers).selected = NoChannel)
  BY <1>1, <1>3 DEF WithoutBlank
<1> QED
  BY <1>2, <1>3

LEMMA LoadChartsStep ==
  ASSUME ChartInv, NEW channel \in ChartChannels, LoadCharts(channel)
  PROVE  ChartInv'
<1> DEFINE id == wrapperCounter
           w == [id |-> id, selected |-> channel]
<1>1. /\ wrapperCounter < MaxWrappers /\ wrappers' = Append(WithoutBlank, w) /\ wrapperCounter' = wrapperCounter + 1
      /\ RegisterChart(id, channel, "realtime", NoChannel) /\ UNCHANGED <<inSync, samples>>
  BY DEF LoadCharts
<1>2. wrapperCounter \in 1 .. MaxWrappers /\ wrappers \in Seq(PageWrappers) /\ MaxWrappers \in Nat
  BY ChartAssumption DEF ChartInv, ChartsTyped
<1>3. /\ w \in PageWrappers /\ w.id = id /\ w.selected = channel /\ wrapperCounter' \in 1 .. MaxWrappers /\ id \in Wrappers
      /\ "realtime" \in Modes /\ NoChannel \in ChannelChoices
  BY <1>1, <1>2 DEF PageWrappers, Wrappers, ChannelChoices, Modes
<1> HIDE DEF w
<1>4. wrappers' \in Seq(PageWrappers) /\ ToSet(wrappers') = ToSet(WithoutBlank) \cup {w}
  BY <1>1, <1>3, MoreWrappers, BlankIs
<1>5. id \in OnPage' /\ \A v \in OnPage' : v \in OnPage \/ v = id
  BY <1>3, <1>4, BlankIs DEF OnPage
<1>6. \A v \in OnPage : v \in Int /\ v < id
  BY <1>2, WrapperKnown DEF ChartInv, ChartsPlaced, IdsGiven, OnPage, Wrappers
<1>7. WrappersStay(id, 1)
  <2>1. ASSUME NEW v \in OnPage, HasChart(v) PROVE v \in OnPage'
    <3>1. PICK x \in ToSet(wrappers) : x.id = v
      BY DEF OnPage
    <3>2. x.selected # NoChannel
      BY <2>1, <3>1 DEF ChartInv, ChartsPlaced, Blanks
    <3>3. x \in ToSet(wrappers')
      BY <1>4, <3>2, BlankIs
    <3> QED
      BY <3>1, <3>3 DEF OnPage
  <2>2. ASSUME NEW x \in ToSet(wrappers'), x.selected = NoChannel PROVE x.id # id /\ ~HasChart(x.id)
    <3>1. x \in ToSet(wrappers)
      BY <1>3, <1>4, <2>2, BlankIs, ChartAssumption
    <3>2. x.id \in OnPage
      BY <3>1 DEF OnPage
    <3> QED
      BY <1>2, <1>6, <2>2, <3>1, <3>2 DEF ChartInv, ChartsPlaced, Blanks
  <2> QED
    BY <2>1, <2>2 DEF WrappersStay
<1>8. IdsGiven'
  <2>1. \A v \in OnPage' : v < id + 1
    BY <1>2, <1>5, <1>6
  <2> QED
    BY <1>1, <2>1 DEF IdsGiven
<1> QED
  BY <1>1, <1>3, <1>4, <1>5, <1>7, <1>8, BuiltStep

LEMMA DeleteChartStep == ASSUME ChartInv, NEW id \in Wrappers, DeleteChart(id) PROVE ChartInv'
<1> DEFINE L == ChartsWithout(id)
           CW == ConsumersWithout(id)
           SW == SiblingsWithout(id)
           own == component[id].chart
           places == {i \in DOMAIN wrappers : wrappers[i].id = id}
<1>1. /\ charts \in Seq(PageCharts) /\ DOMAIN charts = 1 .. Len(charts) /\ Len(charts) \in Nat
      /\ component \in [Wrappers -> ChartComponents] /\ own \in Nat
      /\ samples \in Seq(ChartChannels) /\ Len(samples) \in Nat /\ wrappers \in Seq(PageWrappers)
      /\ wrapperCounter \in 1 .. MaxWrappers
      /\ failures \subseteq Wrappers /\ behind \subseteq DOMAIN charts /\ inSync \in BOOLEAN
  BY DEF ChartInv, ChartsTyped, ChartComponents
<1>2. Live \subseteq DOMAIN charts /\ NoChart \notin Live /\ (HasChart(id) <=> own \in Live) /\ (~HasChart(id) => own = NoChart)
  BY <1>1 DEF Live, NoChart, HasChart, ChartInv, ChartsPlaced, Owned
<1>3. /\ L \in Seq(PageCharts) /\ Len(L) = Len(charts)
      /\ \A c \in DOMAIN charts : c # own => L[c] = charts[c]
      /\ \A c \in DOMAIN charts : c = own => ~L[c].live
      /\ CW \in Seq(Wrappers)
      /\ \A v \in Wrappers \ failures : Once(CW, v) /\ (Holds(CW, v) <=> v # id /\ HasChart(v))
      /\ SW \in Seq(Nat)
      /\ \A c \in Nat : Once(SW, c)
      /\ \A c \in Nat : Holds(SW, c) <=> Holds(siblings, c) /\ (HasChart(id) => c # own)
  BY DestroyedIs
<1>4. /\ charts' = L /\ channelConsumers' = CW /\ siblings' = SW /\ behind' = BehindAfter(siblings', {})
      /\ component' = [component EXCEPT ![id] = Idle]
      /\ wrappers' = Spliced(wrappers, places)
      /\ UNCHANGED <<wrapperCounter, inSync, samples, failures>>
  BY DEF DeleteChart, Destroyed
<1> HIDE DEF L, CW, SW
<1>5. /\ component' \in [Wrappers -> ChartComponents] /\ component'[id].chart = NoChart
      /\ \A v \in Wrappers : v # id => component'[v] = component[v]
  <2>1. Idle \in ChartComponents /\ Idle.chart = NoChart
    BY DEF Idle, NoChart, ChartComponents, Modes, ChannelChoices
  <2> QED
    BY <1>1, <1>4, <2>1
<1>6. Live' = Live \ {own} /\ DOMAIN charts' = DOMAIN charts /\ charts' \in Seq(PageCharts)
  BY <1>1, <1>2, <1>3, <1>4 DEF Live
<1>7. Moves(id, NoChart)
  BY <1>2, <1>3, <1>4, <1>5, <1>6 DEF Moves
<1>8. behind' = IF Prime(siblings') = Prime(siblings) THEN behind ELSE Live
  BY <1>4 DEF BehindAfter
<1>9. SiblingsMove(id, NoChart)
  <2>1. ASSUME NEW c \in Nat, c # NoChart PROVE Holds(SW, c) <=> (Holds(siblings, c) /\ c # own) \/ c = NoChart
    BY <1>2, <1>3, <2>1
  <2>2. Holds(siblings, NoChart) => Holds(SW, NoChart)
    BY <1>1, <1>3 DEF HasChart, NoChart
  <2> QED
    BY <1>3, <1>4, <1>8, <2>1, <2>2 DEF SiblingsMove
<1>10. /\ wrappers' \in Seq(PageWrappers) /\ ToSet(wrappers') \subseteq ToSet(wrappers)
       /\ \A w \in ToSet(wrappers) : w.id # id => w \in ToSet(wrappers')
  <2>1. \A s, v : v \in ToSet(s) <=> Holds(s, v)
    BY DEF ToSet, Holds
  <2>2. places \in SUBSET DOMAIN wrappers /\ \A i \in places : wrappers[i].id = id
    OBVIOUS
  <2> HIDE DEF places
  <2>3. /\ wrappers' \in Seq(PageWrappers)
        /\ \A v : Holds(wrappers', v) => Holds(wrappers, v)
        /\ \A v : Holds(wrappers, v) /\ (\A i \in places : wrappers[i] # v) => Holds(wrappers', v)
    BY <1>1, <1>4, <2>2, SplicedAway
  <2> QED
    BY <2>1, <2>2, <2>3
<1>11. WrappersStay(id, NoChart) /\ OnPage' \subseteq OnPage
  BY <1>10 DEF WrappersStay, OnPage, ChartInv, ChartsPlaced, Blanks
<1>12. Owned' /\ Blanks' /\ SiblingsLive' /\ SinceThen' /\ PointsOnce' /\ LockedTogether'
  <2>1. failures \subseteq failures' /\ NoChart \in Nat /\ UNCHANGED <<samples, inSync>>
    BY <1>4 DEF NoChart
  <2> QED
    BY <1>7, <1>9, <1>10, <1>11, <2>1, Moved
<1>13. behind' \subseteq DOMAIN charts'
  BY <1>1, <1>2, <1>6, <1>8
<1>14. ChartsTyped'
  BY <1>1, <1>3, <1>4, <1>5, <1>6, <1>10, <1>13 DEF ChartsTyped
<1>15. Registered'
  BY <1>3, <1>4, <1>5 DEF Registered, HasChart
<1>16. IdsGiven'
  BY <1>4, <1>11 DEF ChartInv, ChartsPlaced, IdsGiven
<1> QED
  BY <1>12, <1>14, <1>15, <1>16 DEF ChartInv, ChartsPlaced
(* The walk over the siblings meets charts only, and all of them if none of  *)
(* the siblings is null.                                                     *)
LEMMA WalkIs ==
  ASSUME ChartInv
  PROVE  NoChart \notin ToSet(siblings) => Walk({}) = Live
<1> SUFFICES ASSUME NoChart \notin ToSet(siblings) PROVE Walk({}) = Live
  OBVIOUS
<1>1. \A i \in DOMAIN siblings : siblings[i] # NoChart
  BY DEF ToSet
<1>2. Walk({}) = {siblings[i] : i \in DOMAIN siblings}
  BY <1>1 DEF Walk
<1>3. \A c \in Live : c \in Nat /\ c # NoChart
  BY DEF Live, NoChart, ChartInv, ChartsTyped
<1>4. \A i \in DOMAIN siblings : siblings[i] \in Nat
  BY DEF ChartInv, ChartsTyped
<1> QED
  BY <1>1, <1>2, <1>3, <1>4 DEF ChartInv, ChartsPlaced, SiblingsLive, Holds

LEMMA LivePrime ==
  ASSUME ChartInv, Live # {}, NoChart \notin ToSet(siblings)
  PROVE  Prime(siblings) \in Live
<1>1. PICK c \in Live : TRUE
  OBVIOUS
<1>2. c \in Nat /\ c # NoChart /\ siblings \in Seq(Nat)
  BY DEF Live, NoChart, ChartInv, ChartsTyped
<1>3. Holds(siblings, c)
  BY <1>2 DEF ChartInv, ChartsPlaced, SiblingsLive
<1>4. 1 \in DOMAIN siblings /\ Prime(siblings) = siblings[1]
  BY <1>2, <1>3 DEF Holds, Prime
<1>5. Prime(siblings) # NoChart /\ Prime(siblings) \in Nat
  BY <1>2, <1>4 DEF ToSet
<1> QED
  BY <1>4, <1>5 DEF ChartInv, ChartsPlaced, SiblingsLive, Holds

LEMMA ToggleSiblingsStep == ChartInv /\ ToggleSiblings => ChartInv'
<1> SUFFICES ASSUME ChartInv, ToggleSiblings PROVE ChartInv'
  OBVIOUS
<1>1. /\ inSync' = ~inSync /\ behind' = IF inSync' THEN Live ELSE behind
      /\ UNCHANGED <<wrappers, wrapperCounter, component, charts, channelConsumers, siblings, samples, failures>>
  BY DEF ToggleSiblings
<1>2. SamePlaces /\ Len(samples') >= Len(samples) /\ Len(samples') \in Nat
  BY <1>1 DEF SamePlaces, ChartInv, ChartsTyped
<1>3. Live' = Live /\ ChartsPlaced' /\ Registered' /\ SinceThen'
  BY <1>2, StillPlaced
<1>4. behind' \subseteq DOMAIN charts /\ inSync' \in BOOLEAN
  BY <1>1 DEF ChartInv, ChartsTyped, Live
<1>5. ChartsTyped' /\ PointsOnce' /\ LockedTogether'
  BY <1>1, <1>3, <1>4 DEF ChartInv, ChartsTyped, PointsOnce, LockedTogether
<1> QED
  BY <1>3, <1>5 DEF ChartInv

(* A step that touches flags and windows only leaves the points alone.       *)
LEMMA SamePoints ==
  ASSUME ChartInv, SamePlaces, UNCHANGED samples,
         \A c \in DOMAIN charts : charts'[c].points = charts[c].points /\ charts'[c].channel = charts[c].channel
  PROVE  Live' = Live /\ ChartsPlaced' /\ Registered' /\ SinceThen' /\ PointsOnce'
<1>1. Live' = Live /\ ChartsPlaced' /\ Registered' /\ SinceThen'
  <2>1. Len(samples') >= Len(samples) /\ Len(samples') \in Nat
    BY DEF ChartInv, ChartsTyped
  <2> QED
    BY <2>1, StillPlaced
<1>2. PointsOnce'
  <2>1. \A c \in Live : /\ charts'[c].points = charts[c].points /\ charts'[c].channel = charts[c].channel
                        /\ charts'[c].owner = charts[c].owner /\ charts'[c].since = charts[c].since
    BY DEF SamePlaces, Live
  <2> QED
    BY <1>1, <2>1 DEF ChartInv, PointsOnce, SamePlaces
<1> QED
  BY <1>1, <1>2

(* The list of charts after each of some of them was changed.                *)
LEMMA ChartsChanged ==
  ASSUME ChartInv, DOMAIN charts' = DOMAIN charts, charts' = [c \in DOMAIN charts |-> charts'[c]],
         \A c \in DOMAIN charts : charts'[c] \in PageCharts
  PROVE  charts' \in Seq(PageCharts)
<1>1. DOMAIN charts = 1 .. Len(charts) /\ Len(charts) \in Nat
  BY DEF ChartInv, ChartsTyped
<1>2. charts' = [c \in 1 .. Len(charts) |-> charts'[c]]
  BY <1>1
<1> QED
  BY <1>1, <1>2

(* Charts whose axis moved by itself are apart from the others.              *)
LEMMA WalkLive == ASSUME ChartInv, NEW throwing PROVE Walk(throwing) \subseteq Live
<1> SUFFICES ASSUME NEW c \in Walk(throwing) PROVE c \in Live
  OBVIOUS
<1>1. siblings \in Seq(Nat) /\ DOMAIN siblings = 1 .. Len(siblings) /\ Len(siblings) \in Nat
  BY DEF ChartInv, ChartsTyped
<1>2. PICK k \in DOMAIN siblings :
        /\ siblings[k] = c
        /\ \A b \in {i \in DOMAIN siblings : siblings[i] = NoChart \/ siblings[i] \in throwing} : k < b
  BY DEF Walk
<1>3. siblings[k] # NoChart
  BY <1>1, <1>2
<1>4. c \in Nat /\ Holds(siblings, c)
  BY <1>1, <1>2 DEF Holds
<1> QED
  BY <1>2, <1>3, <1>4 DEF ChartInv, ChartsPlaced, SiblingsLive

LEMMA ApartLocked ==
  ASSUME ChartInv, NEW moved, moved \subseteq Live, behind' = Apart(moved), Live' = Live,
         UNCHANGED <<siblings, inSync>>,
         \A c \in Live \ moved : charts'[c].window = charts[c].window
  PROVE  LockedTogether' /\ behind' \subseteq DOMAIN charts
<1>1. behind' \subseteq DOMAIN charts
  BY DEF Apart, Live, ChartInv, ChartsTyped
<1>2. LockedTogether'
  <2> SUFFICES ASSUME inSync, NoChart \notin ToSet(siblings), NEW c \in Live \ behind'
               PROVE  charts'[c].window = charts'[Prime(siblings)].window
    BY DEF LockedTogether
  <2>1. Prime(siblings) \in Live
    BY LivePrime
  <2>2. c \notin behind /\ c \notin moved /\ Prime(siblings) \notin moved
    BY DEF Apart
  <2>3. charts[c].window = charts[Prime(siblings)].window
    BY <2>2 DEF ChartInv, LockedTogether
  <2> QED
    BY <2>1, <2>2, <2>3
<1> QED
  BY <1>1, <1>2

LEMMA FrameStep == ChartInv /\ Scroll => ChartInv'
<1> SUFFICES ASSUME ChartInv, Scroll PROVE ChartInv'
  OBVIOUS
<1>1. /\ charts' = [c \in DOMAIN charts |->
           IF c \in Still THEN [charts[c] EXCEPT !.window = Older(charts[c].window)] ELSE charts[c]]
      /\ behind' = behind \cup (IF Prime(siblings) \in Still THEN Live \ Still ELSE Still)
      /\ UNCHANGED <<wrappers, wrapperCounter, component, channelConsumers, siblings, inSync, samples, failures>>
  BY DEF Scroll
<1>2. /\ charts \in Seq(PageCharts) /\ component \in [Wrappers -> ChartComponents]
      /\ \A c \in DOMAIN charts : charts[c] \in PageCharts
  BY DEF ChartInv, ChartsTyped
<1>3. \A r \in PageCharts : [r EXCEPT !.window = Older(r.window)] \in PageCharts
  BY ChartAssumption DEF PageCharts
<1>4. charts' \in Seq(PageCharts) /\ DOMAIN charts' = DOMAIN charts
  BY <1>1, <1>2, <1>3
<1>5. \A c \in DOMAIN charts :
        /\ charts'[c].live = charts[c].live /\ charts'[c].owner = charts[c].owner
        /\ charts'[c].since = charts[c].since /\ charts'[c].points = charts[c].points
        /\ charts'[c].channel = charts[c].channel
        /\ charts'[c].window = IF c \in Still THEN Older(charts[c].window) ELSE charts[c].window
  BY <1>1, <1>2 DEF PageCharts
<1>6. SamePlaces
  BY <1>1, <1>2, <1>4, <1>5 DEF SamePlaces
<1>7. Live' = Live /\ ChartsPlaced' /\ Registered' /\ SinceThen' /\ PointsOnce'
  BY <1>1, <1>5, <1>6, SamePoints
<1>8. behind' \subseteq DOMAIN charts
  BY <1>1 DEF Live, Still, ChartInv, ChartsTyped
<1>9. LockedTogether'
  <2> SUFFICES ASSUME inSync, NoChart \notin ToSet(siblings), NEW c \in Live \ behind'
               PROVE  charts'[c].window = charts'[Prime(siblings)].window
    BY <1>1, <1>7 DEF LockedTogether
  <2>1. Prime(siblings) \in Live
    BY LivePrime
  <2>2. c \notin behind /\ (c \in Still <=> Prime(siblings) \in Still)
    BY <1>1
  <2>3. charts[c].window = charts[Prime(siblings)].window
    BY <2>2 DEF ChartInv, LockedTogether
  <2>4. c \in DOMAIN charts /\ Prime(siblings) \in DOMAIN charts
    BY <2>1 DEF Live
  <2> QED
    BY <1>5, <2>2, <2>3, <2>4
<1> QED
  BY <1>1, <1>4, <1>7, <1>8, <1>9 DEF ChartInv, ChartsTyped

LEMMA ToggleStreamStep == ASSUME ChartInv, NEW id \in Wrappers, ToggleStream(id) PROVE ChartInv'
<1> DEFINE own == component[id].chart
           flag == ~charts[own].pause
           toggled == {own} \cup (IF inSync THEN Walk({c \in DOMAIN charts : Anchored(c)}) ELSE {})
           resumed == {c \in toggled : charts[c].pause /\ ~flag}
<1>1. PICK f \in AnyWindow(resumed) :
        charts' = [c \in DOMAIN charts |->
          IF c \in toggled THEN [charts[c] EXCEPT !.pause = flag, !.window = f[c]] ELSE charts[c]]
  BY DEF ToggleStream
<1>2. /\ component' = [component EXCEPT ![id].pause = flag] /\ behind' = Apart(resumed) /\ own \in Live
      /\ UNCHANGED <<wrappers, wrapperCounter, channelConsumers, siblings, inSync, samples, failures>>
  BY DEF ToggleStream, ChartInv, ChartsPlaced, Owned
<1>3. /\ charts \in Seq(PageCharts) /\ component \in [Wrappers -> ChartComponents]
      /\ \A c \in DOMAIN charts : charts[c] \in PageCharts
  BY DEF ChartInv, ChartsTyped
<1>4. f \in [DOMAIN charts -> Windows] /\ \A c \in DOMAIN charts \ resumed : f[c] = charts[c].window
  BY DEF AnyWindow
<1>5. toggled \subseteq Live /\ resumed \subseteq Live
  BY <1>2, WalkLive
<1>6. flag \in BOOLEAN
  OBVIOUS
<1> HIDE DEF toggled, resumed, flag
<1>7. \A r \in PageCharts : \A w \in Windows : [r EXCEPT !.pause = flag, !.window = w] \in PageCharts
  BY <1>6 DEF PageCharts
<1>8. charts' \in Seq(PageCharts) /\ DOMAIN charts' = DOMAIN charts
  <2>1. DOMAIN charts' = DOMAIN charts /\ charts' = [c \in DOMAIN charts |-> charts'[c]]
    BY <1>1
  <2>2. ASSUME NEW c \in DOMAIN charts PROVE charts'[c] \in PageCharts
    <3>1. charts[c] \in PageCharts /\ f[c] \in Windows
      BY <1>3, <1>4
    <3>2. charts'[c] = IF c \in toggled THEN [charts[c] EXCEPT !.pause = flag, !.window = f[c]] ELSE charts[c]
      BY <1>1
    <3> QED
      BY <1>7, <3>1, <3>2
  <2> QED
    BY <2>1, <2>2, ChartsChanged
<1>9. \A c \in DOMAIN charts :
        /\ charts'[c].live = charts[c].live /\ charts'[c].owner = charts[c].owner
        /\ charts'[c].since = charts[c].since /\ charts'[c].points = charts[c].points
        /\ charts'[c].channel = charts[c].channel
        /\ c \notin resumed => charts'[c].window = charts[c].window
  BY <1>1, <1>3, <1>4 DEF PageCharts
<1>10. component' \in [Wrappers -> ChartComponents] /\ \A v \in Wrappers : component'[v].chart = component[v].chart
  <2>1. component'[id] = [component[id] EXCEPT !.pause = flag]
    BY <1>2, <1>3
  <2>2. component'[id] \in ChartComponents /\ component'[id].chart = component[id].chart
    BY <1>3, <1>6, <2>1 DEF ChartComponents
  <2> QED
    BY <1>2, <1>3, <2>2
<1>11. SamePlaces
  BY <1>2, <1>8, <1>9, <1>10 DEF SamePlaces
<1>12. Live' = Live /\ ChartsPlaced' /\ Registered' /\ SinceThen' /\ PointsOnce'
  BY <1>2, <1>9, <1>11, SamePoints
<1>13. LockedTogether' /\ behind' \subseteq DOMAIN charts
  <2>1. \A c \in Live \ resumed : charts'[c].window = charts[c].window
    BY <1>9 DEF Live
  <2> QED
    BY <1>2, <1>5, <1>12, <2>1, ApartLocked
<1> QED
  BY <1>2, <1>8, <1>10, <1>12, <1>13 DEF ChartInv, ChartsTyped

(* Windows are set of some charts; who remains behind is given.              *)
LEMMA WindowsSet ==
  ASSUME ChartInv, NEW cs, NEW w \in Windows, charts' = SetWindow(cs, w), behind' \subseteq DOMAIN charts,
         UNCHANGED <<wrappers, wrapperCounter, component, channelConsumers, siblings, inSync, samples, failures>>
  PROVE  /\ ChartsTyped' /\ ChartsPlaced' /\ Registered' /\ SinceThen' /\ PointsOnce'
         /\ Live' = Live
         /\ \A c \in DOMAIN charts : charts'[c].window = IF c \in cs THEN w ELSE charts[c].window
<1>1. /\ charts \in Seq(PageCharts) /\ component \in [Wrappers -> ChartComponents]
      /\ \A c \in DOMAIN charts : charts[c] \in PageCharts
  BY DEF ChartInv, ChartsTyped
<1>2. \A r \in PageCharts : [r EXCEPT !.window = w, !.auto = FALSE] \in PageCharts
  BY DEF PageCharts
<1>3. charts' \in Seq(PageCharts) /\ DOMAIN charts' = DOMAIN charts
  <2>1. DOMAIN charts' = DOMAIN charts /\ charts' = [c \in DOMAIN charts |-> charts'[c]]
    BY DEF SetWindow
  <2>2. \A c \in DOMAIN charts : charts'[c] \in PageCharts
    BY <1>1, <1>2 DEF SetWindow
  <2> QED
    BY <2>1, <2>2, ChartsChanged
<1>4. \A c \in DOMAIN charts : /\ charts'[c].live = charts[c].live /\ charts'[c].owner = charts[c].owner
                               /\ charts'[c].since = charts[c].since /\ charts'[c].points = charts[c].points
                               /\ charts'[c].channel = charts[c].channel
                               /\ charts'[c].window = IF c \in cs THEN w ELSE charts[c].window
  BY <1>1 DEF PageCharts, SetWindow
<1>5. SamePlaces
  BY <1>1, <1>3, <1>4 DEF SamePlaces
<1>6. Live' = Live /\ ChartsPlaced' /\ Registered' /\ SinceThen' /\ PointsOnce'
  BY <1>4, <1>5, SamePoints
<1> QED
  BY <1>3, <1>4, <1>6 DEF ChartInv, ChartsTyped

(* A zoom of one chart while the axes are locked or not.                     *)
LEMMA ZoomedStep ==
  ASSUME ChartInv, NEW c \in Live, NEW w \in Windows,
         charts' = SetWindow({c} \cup (IF inSync THEN Walk({}) ELSE {}), w),
         behind' = IF inSync THEN (behind \cup Live) \ ({c} \cup Walk({})) ELSE behind,
         UNCHANGED <<wrappers, wrapperCounter, component, channelConsumers, siblings, inSync, samples, failures>>
  PROVE  ChartInv'
<1> DEFINE cs == {c} \cup (IF inSync THEN Walk({}) ELSE {})
<1>1. behind' \subseteq DOMAIN charts
  BY DEF ChartInv, ChartsTyped, Live
<1>2. charts' = SetWindow(cs, w)
  OBVIOUS
<1>3. /\ ChartsTyped' /\ ChartsPlaced' /\ Registered' /\ SinceThen' /\ PointsOnce'
      /\ Live' = Live
      /\ \A x \in DOMAIN charts : charts'[x].window = IF x \in cs THEN w ELSE charts[x].window
  <2> HIDE DEF cs
  <2> QED
    BY <1>1, <1>2, WindowsSet
<1>4. LockedTogether'
  <2> SUFFICES ASSUME inSync, NoChart \notin ToSet(siblings), NEW x \in Live \ behind'
               PROVE  charts'[x].window = charts'[Prime(siblings)].window
    BY <1>3 DEF LockedTogether
  <2>1. cs = Live
    BY WalkIs
  <2>2. Prime(siblings) \in Live
    BY LivePrime
  <2> QED
    BY <1>3, <2>1, <2>2 DEF Live
<1> QED
  BY <1>3, <1>4 DEF ChartInv

LEMMA ResetZoomStep == ASSUME ChartInv, NEW id \in Wrappers, ResetZoom(id) PROVE ChartInv'
<1> DEFINE reset == {component[id].chart} \cup (IF inSync THEN Walk({}) ELSE {})
           ran == reset \ Still
           aligned == IF Prime(siblings) \in ran THEN ran ELSE {}
<1>1. PICK f \in AnyWindow(reset) :
        /\ \A c \in ran : f[c] = DefaultWindow
        /\ charts' = [c \in DOMAIN charts |->
             IF c \in reset THEN [charts[c] EXCEPT !.window = f[c], !.auto = Anchored(c)] ELSE charts[c]]
  BY DEF ResetZoom
<1>2. /\ behind' = (IF inSync THEN (behind \cup Live) \ aligned ELSE behind)
      /\ UNCHANGED <<wrappers, wrapperCounter, component, channelConsumers, siblings, inSync, samples, failures>>
  BY DEF ResetZoom
<1>3. reset \subseteq Live
  BY WalkLive DEF ResetZoom, ChartInv, ChartsPlaced, Owned
<1>4. /\ charts \in Seq(PageCharts) /\ component \in [Wrappers -> ChartComponents]
      /\ \A c \in DOMAIN charts : charts[c] \in PageCharts
  BY DEF ChartInv, ChartsTyped
<1>5. f \in [DOMAIN charts -> Windows]
  BY DEF AnyWindow
<1>6. \A c : Anchored(c) \in BOOLEAN
  BY DEF Anchored
<1> HIDE DEF reset
<1>7. \A r \in PageCharts : \A w \in Windows : \A b \in BOOLEAN : [r EXCEPT !.window = w, !.auto = b] \in PageCharts
  BY DEF PageCharts
<1>8. charts' \in Seq(PageCharts) /\ DOMAIN charts' = DOMAIN charts
  <2>1. DOMAIN charts' = DOMAIN charts /\ charts' = [c \in DOMAIN charts |-> charts'[c]]
    BY <1>1
  <2>2. ASSUME NEW c \in DOMAIN charts PROVE charts'[c] \in PageCharts
    <3>1. charts[c] \in PageCharts /\ f[c] \in Windows /\ Anchored(c) \in BOOLEAN
      BY <1>4, <1>5, <1>6
    <3>2. charts'[c] = IF c \in reset THEN [charts[c] EXCEPT !.window = f[c], !.auto = Anchored(c)] ELSE charts[c]
      BY <1>1
    <3>3. [charts[c] EXCEPT !.window = f[c], !.auto = Anchored(c)] \in PageCharts
      <4> DEFINE b == Anchored(c)
      <4>1. b \in BOOLEAN
        BY <3>1
      <4> HIDE DEF b
      <4>2. [charts[c] EXCEPT !.window = f[c], !.auto = b] \in PageCharts
        BY <1>7, <3>1, <4>1
      <4> QED
        BY <4>2 DEF b
    <3> QED
      BY <3>1, <3>2, <3>3
  <2> QED
    BY <2>1, <2>2, ChartsChanged
<1>9. \A c \in DOMAIN charts :
        /\ charts'[c].live = charts[c].live /\ charts'[c].owner = charts[c].owner
        /\ charts'[c].since = charts[c].since /\ charts'[c].points = charts[c].points
        /\ charts'[c].channel = charts[c].channel
        /\ c \in ran => charts'[c].window = DefaultWindow
  BY <1>1, <1>4 DEF PageCharts
<1>10. SamePlaces
  BY <1>2, <1>4, <1>8, <1>9 DEF SamePlaces
<1>11. Live' = Live /\ ChartsPlaced' /\ Registered' /\ SinceThen' /\ PointsOnce'
  BY <1>2, <1>9, <1>10, SamePoints
<1>12. behind' \subseteq DOMAIN charts
  BY <1>2 DEF Live, ChartInv, ChartsTyped
<1>13. LockedTogether'
  <2> SUFFICES ASSUME inSync, NEW c \in Live \ behind'
               PROVE  charts'[c].window = charts'[Prime(siblings)].window
    BY <1>2, <1>11 DEF LockedTogether
  <2>1. c \in ran /\ Prime(siblings) \in ran
    BY <1>2
  <2>2. ran \subseteq DOMAIN charts
    BY <1>3 DEF Live
  <2> QED
    BY <1>9, <2>1, <2>2
<1> QED
  BY <1>2, <1>8, <1>11, <1>12, <1>13 DEF ChartInv, ChartsTyped

LEMMA RefreshedStep == ASSUME ChartInv, NEW c \in DOMAIN charts, Refreshed(c) PROVE ChartInv'
<1> DEFINE p == Prime(siblings)
<1>1. /\ c \in Live /\ inSync /\ p # NoChart /\ charts' = SetWindow({c}, charts[p].window)
      /\ behind' = behind \ {c}
      /\ UNCHANGED <<wrappers, wrapperCounter, component, channelConsumers, siblings, inSync, samples, failures>>
  BY DEF Refreshed
<1>2. p \in Live
  <2>1. siblings \in Seq(Nat)
    BY DEF ChartInv, ChartsTyped
  <2>2. Holds(siblings, p) /\ p \in Nat
    BY <1>1, <2>1, PrimeIs
  <2> QED
    BY <1>1, <2>2 DEF ChartInv, ChartsPlaced, SiblingsLive
<1>3. charts[p].window \in Windows
  <2>1. charts[p] \in PageCharts
    BY <1>2 DEF Live, ChartInv, ChartsTyped
  <2> QED
    BY <2>1 DEF PageCharts
<1> HIDE DEF p
<1>4. behind' \subseteq DOMAIN charts
  BY <1>1 DEF ChartInv, ChartsTyped
<1>5. /\ ChartsTyped' /\ ChartsPlaced' /\ Registered' /\ SinceThen' /\ PointsOnce'
      /\ Live' = Live
      /\ \A x \in DOMAIN charts : charts'[x].window = IF x \in {c} THEN charts[p].window ELSE charts[x].window
  BY <1>1, <1>3, <1>4, WindowsSet
<1>6. LockedTogether'
  <2> SUFFICES ASSUME inSync, NoChart \notin ToSet(siblings), NEW x \in Live \ behind'
               PROVE  charts'[x].window = charts'[p].window
    BY <1>1, <1>5 DEF LockedTogether, p
  <2>1. x = c \/ charts[x].window = charts[p].window
    BY <1>1 DEF ChartInv, LockedTogether, p
  <2> QED
    BY <1>1, <1>2, <1>5, <2>1 DEF Live
<1> QED
  BY <1>5, <1>6 DEF ChartInv
LEMMA GivenTimes ==
  ASSUME ChartInv, NEW c \in Live
  PROVE  TimesGiven(c) \in Nat /\ (charts[c].owner \notin failures => TimesGiven(c) = 1)
<1> DEFINE places == {i \in DOMAIN channelConsumers : channelConsumers[i] = charts[c].owner}
<1>1. IsFiniteSet(places)
  <2>1. places \subseteq 1 .. Len(channelConsumers) /\ Len(channelConsumers) \in Nat
    BY DEF ChartInv, ChartsTyped
  <2>2. IsFiniteSet(1 .. Len(channelConsumers))
    BY <2>1, FS_Interval
  <2> HIDE DEF places
  <2> QED
    BY <2>1, <2>2, FS_Subset
<1>2. ASSUME charts[c].owner \notin failures PROVE Cardinality(places) = 1
  <2>1. charts[c].owner \in Wrappers /\ c \in Nat /\ c # NoChart
    <3>1. c \in 1 .. Len(charts) /\ charts[c] \in PageCharts
      BY DEF ChartInv, ChartsTyped, Live
    <3> QED
      BY <3>1 DEF PageCharts, NoChart
  <2>2. HasChart(charts[c].owner)
    BY <2>1 DEF ChartInv, ChartsPlaced, Owned, HasChart
  <2>3. Once(channelConsumers, charts[c].owner) /\ Holds(channelConsumers, charts[c].owner)
    BY <1>2, <2>1, <2>2 DEF ChartInv, Registered
  <2>4. PICK i \in DOMAIN channelConsumers : places = {i}
    BY <2>3 DEF Once, Holds
  <2> QED
    BY <2>4, FS_Singleton
<1>3. Cardinality(places) \in Nat
  BY <1>1, FS_CardinalityType
<1> QED
  BY <1>2, <1>3 DEF TimesGiven

LEMMA SampleStep == ASSUME ChartInv, NEW channel \in ChartChannels, Sample(channel) PROVE ChartInv'
<1> DEFINE N == Len(samples')
           more(c) == charts[c].points \o [i \in 1 .. TimesGiven(c) |-> N]
           given(c) == c \in Live /\ charts[c].channel = channel
           refit == {c \in Given(channel) : charts[c].auto}
<1>0. PICK f \in AnyWindow(refit) :
        charts' = [c \in DOMAIN charts |->
           IF c \in Given(channel)
           THEN [charts[c] EXCEPT !.points = more(c), !.window = f[c]] ELSE charts[c]]
  <2>1. \A c \in DOMAIN charts :
          [charts[c] EXCEPT !.points = @ \o [i \in 1 .. TimesGiven(c) |-> N]] = [charts[c] EXCEPT !.points = more(c)]
    OBVIOUS
  <2> QED
    BY DEF Sample
<1>1. /\ samples' = Append(samples, channel)
      /\ behind' = Apart(refit)
      /\ UNCHANGED <<wrappers, wrapperCounter, component, channelConsumers, siblings, inSync, failures>>
  BY DEF Sample
<1>2. /\ charts \in Seq(PageCharts) /\ component \in [Wrappers -> ChartComponents] /\ samples \in Seq(ChartChannels)
      /\ \A c \in DOMAIN charts : charts[c] \in PageCharts
  BY DEF ChartInv, ChartsTyped
<1>3. /\ samples' \in Seq(ChartChannels) /\ Len(samples) \in Nat /\ N = Len(samples) + 1 /\ N \in Nat
      /\ samples'[N] = channel /\ \A i \in 1 .. Len(samples) : samples'[i] = samples[i]
  BY <1>1, <1>2
<1>4. \A c \in Live : component[charts[c].owner].chart = c
  BY DEF ChartInv, ChartsPlaced, Owned
<1>5. \A c \in Live : c \in DOMAIN charts /\ charts[c].points \in Seq(Nat) /\ charts[c].since \in Nat
  <2>1. \A c \in Live : c \in DOMAIN charts
    BY DEF Live
  <2> QED
    BY <1>2, <2>1 DEF PageCharts
<1> HIDE DEF N
<1>6. ASSUME NEW c \in Live
      PROVE  /\ more(c) \in Seq(Nat) /\ Len(more(c)) = Len(charts[c].points) + TimesGiven(c)
             /\ \A i \in 1 .. Len(charts[c].points) : more(c)[i] = charts[c].points[i]
             /\ \A i \in 1 .. TimesGiven(c) : more(c)[Len(charts[c].points) + i] = N
  <2> DEFINE a == charts[c].points
             b == [i \in 1 .. TimesGiven(c) |-> N]
  <2>1. TimesGiven(c) \in Nat
    BY GivenTimes
  <2>2. a \in Seq(Nat) /\ Len(a) \in Nat
    BY <1>5
  <2>3. b \in Seq(Nat) /\ Len(b) = TimesGiven(c) /\ \A i \in 1 .. TimesGiven(c) : b[i] = N
    BY <1>3, <2>1
  <2> HIDE DEF a, b
  <2>4. /\ a \o b \in Seq(Nat) /\ Len(a \o b) = Len(a) + Len(b)
        /\ \A i \in 1 .. Len(a) + Len(b) : (a \o b)[i] = IF i <= Len(a) THEN a[i] ELSE b[i - Len(a)]
    BY <2>2, <2>3, ConcatProperties
  <2>5. ASSUME NEW i \in 1 .. TimesGiven(c) PROVE (a \o b)[Len(a) + i] = N
    <3>1. /\ Len(a) + i \in 1 .. Len(a) + Len(b) /\ ~(Len(a) + i <= Len(a)) /\ (Len(a) + i) - Len(a) = i
      BY <2>1, <2>2, <2>3
    <3>2. (a \o b)[Len(a) + i] = b[(Len(a) + i) - Len(a)]
      BY <2>4, <3>1
    <3> QED
      BY <2>3, <3>1, <3>2
  <2>6. ASSUME NEW i \in 1 .. Len(a) PROVE (a \o b)[i] = a[i]
    <3>1. i \in 1 .. Len(a) + Len(b) /\ i <= Len(a)
      BY <2>1, <2>2, <2>3
    <3> QED
      BY <2>4, <3>1
  <2> QED
    BY <2>3, <2>4, <2>5, <2>6 DEF a, b
<1> HIDE DEF more
<1>15. \A c : c \in Given(channel) <=> given(c)
  BY <1>4 DEF Given, Charted
<1>16. f \in [DOMAIN charts -> Windows] /\ refit \subseteq Live
       /\ \A c \in DOMAIN charts \ refit : f[c] = charts[c].window
  BY DEF AnyWindow, Given
<1> HIDE DEF refit
<1>7. \A c \in DOMAIN charts :
        charts'[c] = IF given(c) THEN [charts[c] EXCEPT !.points = more(c), !.window = f[c]] ELSE charts[c]
  BY <1>0, <1>15
<1>8. charts' \in Seq(PageCharts) /\ DOMAIN charts' = DOMAIN charts
  <2>1. DOMAIN charts' = DOMAIN charts /\ charts' = [c \in DOMAIN charts |-> charts'[c]]
    BY <1>0
  <2>2. \A r \in PageCharts : \A p \in Seq(Nat) : \A w \in Windows :
          [r EXCEPT !.points = p, !.window = w] \in PageCharts
    BY DEF PageCharts
  <2>3. ASSUME NEW c \in DOMAIN charts PROVE charts'[c] \in PageCharts
    <3>1. charts[c] \in PageCharts /\ f[c] \in Windows /\ (given(c) => more(c) \in Seq(Nat))
      BY <1>2, <1>6, <1>16
    <3> DEFINE m == more(c)
               v == f[c]
    <3>2. charts'[c] = IF given(c) THEN [charts[c] EXCEPT !.points = m, !.window = v] ELSE charts[c]
      BY <1>7
    <3> HIDE DEF given, m, v
    <3>3. CASE given(c)
      <4>1. m \in Seq(Nat) /\ v \in Windows
        BY <3>1, <3>3 DEF m, v
      <4>2. [charts[c] EXCEPT !.points = m, !.window = v] \in PageCharts
        BY <2>2, <3>1, <4>1, Zenon
      <4> QED
        BY <3>2, <3>3, <4>2, Zenon
    <3>4. CASE ~given(c)
      BY <3>1, <3>2, <3>4
    <3> QED
      BY <3>3, <3>4
  <2> QED
    BY <2>1, <2>3, ChartsChanged
<1>9. \A c \in DOMAIN charts : /\ charts'[c].live = charts[c].live /\ charts'[c].owner = charts[c].owner
                               /\ charts'[c].since = charts[c].since /\ charts'[c].channel = charts[c].channel
                               /\ c \notin refit => charts'[c].window = charts[c].window
                               /\ charts'[c].points = IF given(c) THEN more(c) ELSE charts[c].points
  BY <1>2, <1>7, <1>16 DEF PageCharts
<1>10. SamePlaces
  BY <1>1, <1>2, <1>8, <1>9 DEF SamePlaces
<1>11. Live' = Live /\ ChartsPlaced' /\ Registered' /\ SinceThen'
  BY <1>3, <1>10, StillPlaced DEF N
<1>12. ASSUME NEW c \in Live, charts[c].owner \notin failures
       PROVE  LET dots == charts'[c].points
              IN /\ {dots[k] : k \in DOMAIN dots} =
                       {i \in DOMAIN samples' : i > charts'[c].since /\ samples'[i] = charts'[c].channel}
                 /\ \A k, l \in DOMAIN dots : k < l => dots[k] < dots[l]
  <2> DEFINE a == charts[c].points
             t == charts'[c].points
             of(s) == {i \in DOMAIN s : i > charts[c].since /\ s[i] = charts[c].channel}
  <2>1. /\ {a[k] : k \in DOMAIN a} = of(samples)
        /\ \A k, l \in DOMAIN a : k < l => a[k] < a[l]
    BY <1>12 DEF ChartInv, PointsOnce
  <2>2. c \in DOMAIN charts /\ a \in Seq(Nat) /\ charts[c].since \in Nat /\ charts[c].since <= Len(samples)
    BY <1>5 DEF ChartInv, SinceThen
  <2>3. DOMAIN samples = 1 .. Len(samples) /\ DOMAIN samples' = 1 .. N /\ N = Len(samples) + 1 /\ N > charts[c].since
    BY <1>2, <1>3, <2>2 DEF N
  <2>4. of(samples') = of(samples) \cup (IF charts[c].channel = channel THEN {N} ELSE {})
    BY <1>3, <2>2, <2>3
  <2>5. \A k \in DOMAIN a : a[k] \in Int /\ a[k] < N
    <3> SUFFICES ASSUME NEW k \in DOMAIN a PROVE a[k] \in Int /\ a[k] < N
      OBVIOUS
    <3>1. a[k] \in of(samples)
      BY <2>1
    <3>2. a[k] \in 1 .. Len(samples)
      BY <2>3, <3>1
    <3> HIDE DEF a
    <3> QED
      BY <1>3, <3>2
  <2>6. CASE charts[c].channel = channel
    <3>1. t = more(c) /\ TimesGiven(c) = 1
      BY <1>9, <1>12, <2>2, <2>6, GivenTimes
    <3>2. t \in Seq(Nat) /\ Len(t) = Len(a) + 1 /\ t[Len(a) + 1] = N /\ \A k \in 1 .. Len(a) : t[k] = a[k]
      BY <1>6, <3>1
    <3> HIDE DEF t, a, of
    <3>3. a \in Seq(Nat) /\ DOMAIN a = 1 .. Len(a) /\ Len(a) \in Nat /\ DOMAIN t = 1 .. Len(a) + 1
      BY <2>2, <3>2
    <3>4. {t[k] : k \in DOMAIN t} = {a[k] : k \in DOMAIN a} \cup {N}
      <4>1. \A k \in 1 .. Len(a) : k \in 1 .. Len(a) + 1
        BY <3>3
      <4>2. Len(a) + 1 \in 1 .. Len(a) + 1 /\ \A k \in 1 .. Len(a) + 1 : k \in 1 .. Len(a) \/ k = Len(a) + 1
        BY <3>3
      <4> QED
        BY <3>2, <3>3, <4>1, <4>2
    <3>5. ASSUME NEW k \in DOMAIN t, NEW l \in DOMAIN t, k < l PROVE t[k] < t[l]
      <4>1. k \in 1 .. Len(a)
        BY <3>3, <3>5
      <4>2. CASE l \in 1 .. Len(a)
        BY <2>1, <3>2, <3>3, <3>5, <4>1, <4>2
      <4>3. CASE l = Len(a) + 1
        BY <2>5, <3>2, <3>3, <4>1, <4>3
      <4> QED
        BY <3>3, <4>2, <4>3
    <3>6. {t[k] : k \in DOMAIN t} = of(samples')
      BY <2>1, <2>4, <2>6, <3>4
    <3> QED
      BY <1>9, <2>2, <3>5, <3>6 DEF t, of
  <2>7. CASE charts[c].channel # channel
    <3>1. t = a
      BY <1>9, <2>2, <2>7
    <3> QED
      BY <1>9, <2>1, <2>2, <2>4, <2>7, <3>1
  <2> QED
    BY <2>6, <2>7
<1>13. PointsOnce'
  BY <1>1, <1>9, <1>11, <1>12 DEF PointsOnce, Live
<1>14. LockedTogether' /\ behind' \subseteq DOMAIN charts
  <2>1. \A c \in Live \ refit : charts'[c].window = charts[c].window
    BY <1>5, <1>9
  <2> QED
    BY <1>1, <1>11, <1>16, <2>1, ApartLocked
<1> QED
  BY <1>1, <1>2, <1>3, <1>8, <1>11, <1>13, <1>14 DEF ChartInv, ChartsTyped

LEMMA ChartStep == ChartInv /\ [PageNext \/ DataNext \/ AxisNext]_chartVars => ChartInv'
<1> SUFFICES ASSUME ChartInv, [PageNext \/ DataNext \/ AxisNext]_chartVars PROVE ChartInv'
  OBVIOUS
<1>1. CASE PageNext
  BY <1>1, AddChartStep, ToggleSiblingsStep, LoadChartsStep, DeleteChartStep, UpdateSelectedStep, TimeModeStep
  DEF PageNext, Modes
<1>2. CASE DataNext
  BY <1>2, SampleStep DEF DataNext
<1>3. CASE AxisNext
  <2>1. ASSUME NEW c \in DOMAIN charts, NEW w \in Windows, ZoomChart(c, w) PROVE ChartInv'
    BY <2>1, ZoomedStep DEF ZoomChart, SyncedToAll
  <2> QED
    BY <1>3, <2>1, FrameStep, ResetZoomStep, ToggleStreamStep, RefreshedStep DEF AxisNext
<1>4. CASE UNCHANGED chartVars
  <2>1. SamePlaces
    BY <1>4 DEF SamePlaces, ChartInv, ChartsTyped, chartVars
  <2> QED
    BY <1>4, <2>1, SameCharts DEF chartVars
<1> QED
  BY <1>1, <1>2, <1>3, <1>4

LEMMA ChartSafe == ChartInv => ChartTypeOK /\ ChartsOnPage /\ PointsOnce /\ LockedTogether
<1> SUFFICES ASSUME ChartInv PROVE ChartTypeOK /\ ChartsOnPage
  BY DEF ChartInv
<1>1. \A c \in DOMAIN charts : charts[c].window \in Windows /\ charts[c].owner \in Wrappers /\ c \in Nat
  <2> SUFFICES ASSUME NEW c \in DOMAIN charts PROVE charts[c].window \in Windows /\ charts[c].owner \in Wrappers /\ c \in Nat
    OBVIOUS
  <2>1. charts[c] \in PageCharts /\ c \in Nat
    BY DEF ChartInv, ChartsTyped
  <2> QED
    BY <2>1 DEF PageCharts
<1>2. \A id \in Wrappers : component[id].chart \in {NoChart} \cup Live
  BY DEF ChartInv, ChartsPlaced, Owned, HasChart
<1>3. \A c : c \in ToSet(siblings) <=> Holds(siblings, c)
  BY DEF ToSet, Holds
<1>4. ToSet(siblings) \subseteq Nat
  BY DEF ToSet, ChartInv, ChartsTyped
<1>5. Live \subseteq DOMAIN charts /\ \A c \in Live : c # NoChart
  BY DEF Live, NoChart, ChartInv, ChartsTyped
<1>6. Live = ToSet(siblings) \ {NoChart}
  BY <1>1, <1>3, <1>4, <1>5 DEF ChartInv, ChartsPlaced, SiblingsLive
<1>7. ASSUME NEW c \in Live PROVE charts[c].owner \in OnPage /\ component[charts[c].owner].chart = c
  BY <1>1, <1>5 DEF ChartInv, ChartsPlaced, Owned, HasChart
<1>8. ChartTypeOK
  BY <1>1, <1>2, <1>5, <1>6 DEF ChartTypeOK, ChartInv, ChartsTyped
<1> QED
  BY <1>6, <1>7, <1>8 DEF ChartsOnPage

(* A chart that runs belongs to a component on the page and is a sibling, a  *)
(* chart shows every sample of its channel since it was built once and in    *)
(* order, and charts whose time axes are locked show the window of the prime *)
(* from a refresh or a zoom until an axis moves by itself: an anchored chart *)
(* stands still while a running prime scrolls on (addon.js, sibling.js,      *)
(* datastore.js).  For any number of wrappers, charts, failures, samples and *)
(* channels.                                                                 *)
THEOREM ChartsHold == ChartSpec => []ChartsShown
<1>1. ChartSpec => []ChartInv
  BY ChartStart, ChartStep, PTL DEF ChartSpec
<1>2. ChartInv => ChartsShown
  BY ChartSafe DEF ChartsShown
<1> QED
  BY <1>1, <1>2, PTL
-----------------------------------------------------------------------------
(* The time axis of a realtime chart: its window ends at its delay from the  *)
(* head, whatever is done to it, and its stored options are those it had.    *)
AxisOptions == [duration : Nat, delay : Int, pause : BOOLEAN]
ScaleInv ==
  /\ now \in 0 .. MaxNow /\ axis \in AxisOptions
  /\ head \in Int /\ head <= now /\ top = head - axis.delay
  /\ frames \in BOOLEAN /\ interval \in {0, RefreshEvery} /\ zooms \in Nat
  /\ refreshAt \in Int /\ TimersEnd
  /\ points \in Seq(Int) /\ Len(points) <= MaxPoints
  /\ Stored = [duration |-> InitialDuration, delay |-> 0]

LEMMA ClampIs ==
  ASSUME NEW v \in Int, NEW low \in Int, NEW high \in Int, low <= high
  PROVE  Clamp(v, low, high) = IF v <= low THEN low ELSE IF v >= high THEN high ELSE v
<1>1. Max({v, low}) = IF v >= low THEN v ELSE low
  BY MaxOfTwo
<1> DEFINE m == Max({v, low})
<1>2. m \in Int /\ (v <= low => m = low) /\ (v > low => m = v)
  BY <1>1
<1> HIDE DEF m
<1>3. Min({m, high}) = IF m <= high THEN m ELSE high
  BY <1>2, LessOfTwo
<1>4. Clamp(v, low, high) = Min({m, high})
  BY DEF Clamp, m
<1> QED
  BY <1>2, <1>3, <1>4

LEMMA FirstIs ==
  ASSUME NEW n \in Nat, NEW S \in SUBSET (1 .. n)
  PROVE  LET m == Min(S \cup {n + 1})
         IN m \in S \cup {n + 1} /\ m \in 1 .. n + 1 /\ \A i \in S : m <= i
<1> DEFINE T == S \cup {n + 1}
<1>1. T # {} /\ T \subseteq Nat /\ T \in SUBSET Int
  OBVIOUS
<1>2. PICK m \in T : \A y \in T : m <= y
  BY <1>1, LeastOf
<1>3. Min(T) = m
  BY <1>1, <1>2, MinIs
<1> QED
  BY <1>2, <1>3

(* A refresh keeps what comes before the points it takes out, and what comes *)
(* after them.                                                               *)
LEMMA CleanedIs ==
  ASSUME ScaleInv
  PROVE  /\ FirstBeyond \in 1 .. Len(points) + 1
         /\ \A i \in 1 .. Len(points) : points[i] >= top => FirstBeyond <= i
         /\ FirstBeyond \in 1 .. Len(points) => points[FirstBeyond] >= top
         /\ CleanFrom = IF axis.pause THEN FirstBeyond + 2 ELSE 1
         /\ CleanedPoints \in Seq(Int)
         /\ \/ CleanFrom > Len(points) /\ CleanedPoints = points
            \/ /\ CleanFrom \in 1 .. Len(points) /\ CleanTo \in CleanFrom .. Len(points) + 1
               /\ \A i \in CleanFrom .. CleanTo - 1 : points[i] <= now - Ttl
               /\ CleanTo \in 1 .. Len(points) => points[CleanTo] > now - Ttl
               /\ Len(CleanedPoints) = (CleanFrom - 1) + (Len(points) + 1 - CleanTo)
               /\ \A i \in 1 .. CleanFrom - 1 : CleanedPoints[i] = points[i]
               /\ \A i \in CleanTo .. Len(points) : CleanedPoints[i - (CleanTo - CleanFrom)] = points[i]
               /\ \A k \in CleanFrom .. Len(CleanedPoints) : CleanedPoints[k] = points[k + (CleanTo - CleanFrom)]
<1> DEFINE n == Len(points)
           from == CleanFrom
           to == CleanTo
<1>1. points \in Seq(Int) /\ n \in Nat /\ DOMAIN points = 1 .. n /\ top \in Int /\ now \in Int /\ Ttl \in Int
  BY ScaleAssumption DEF ScaleInv, AxisOptions
<1>2. /\ FirstBeyond \in 1 .. n + 1
      /\ \A i \in 1 .. n : points[i] >= top => FirstBeyond <= i
      /\ FirstBeyond \in 1 .. n => points[FirstBeyond] >= top
  <2> DEFINE S == {i \in 1 .. n : points[i] >= top}
  <2>1. FirstBeyond = Min(S \cup {n + 1}) /\ S \in SUBSET (1 .. n)
    BY <1>1 DEF FirstBeyond
  <2>2. FirstBeyond \in S \cup {n + 1} /\ FirstBeyond \in 1 .. n + 1 /\ \A i \in S : FirstBeyond <= i
    <3> HIDE DEF S
    <3> QED
      BY <1>1, <2>1, FirstIs
  <2> QED
    BY <1>1, <2>2
<1>3. from = IF axis.pause THEN FirstBeyond + 2 ELSE 1
  BY DEF CleanFrom, Beyond
<1>4. from \in Nat /\ from >= 1
  BY <1>1, <1>2, <1>3
<1> HIDE DEF from
<1>5. CASE from > n
  <2>1. CleanedPoints = points
    BY <1>5 DEF CleanedPoints, from
  <2> QED
    BY <1>1, <1>2, <1>3, <1>5, <2>1 DEF from
<1>6. CASE ~(from > n)
  <2>1. from \in 1 .. n
    BY <1>1, <1>4, <1>6
  <2> DEFINE S == {i \in from .. n : points[i] > now - Ttl}
  <2>2. to = Min(S \cup {n + 1}) /\ S \in SUBSET (1 .. n)
    BY <1>1, <2>1 DEF CleanTo, from
  <2>3. to \in S \cup {n + 1} /\ to \in 1 .. n + 1 /\ \A i \in S : to <= i
    <3> HIDE DEF S, to
    <3> QED
      BY <1>1, <2>2, FirstIs
  <2> HIDE DEF to
  <2>4. to \in from .. n + 1 /\ (to \in 1 .. n => points[to] > now - Ttl)
    BY <1>1, <2>1, <2>3
  <2>5. ASSUME NEW i \in from .. to - 1 PROVE points[i] <= now - Ttl
    <3>1. i \in from .. n /\ i \in 1 .. n /\ i < to
      BY <1>1, <2>1, <2>4
    <3>2. i \notin S
      BY <1>1, <2>3, <3>1
    <3>3. points[i] \in Int
      BY <1>1, <3>1
    <3> QED
      BY <1>1, <3>1, <3>2, <3>3
  <2> HIDE DEF S
  <2> DEFINE a == SubSeq(points, 1, from - 1)
             b == SubSeq(points, to, n)
  <2>6. CleanedPoints = a \o b
    BY <1>6 DEF CleanedPoints, from, to
  <2>7. a \in Seq(Int) /\ Len(a) = from - 1 /\ \A i \in 1 .. from - 1 : a[i] = points[i]
    BY <1>1, <2>1, SubSeqProperties
  <2>8. b \in Seq(Int) /\ Len(b) = n + 1 - to /\ \A i \in 1 .. n + 1 - to : b[i] = points[to + i - 1]
    <3>1. CASE to = n + 1
      BY <1>1, <3>1
    <3>2. CASE to \in 1 .. n
      <4>1. n \in 1 .. n /\ to <= n + 1 /\ n - to + 1 = n + 1 - to /\ n \in to - 1 .. Len(points)
        BY <1>1, <3>2
      <4> HIDE DEF n
      <4>2. b \in Seq(Int) /\ Len(b) = n - to + 1 /\ \A i \in 1 .. n - to + 1 : b[i] = points[to + i - 1]
        BY <1>1, <3>2, <4>1, SubSeqProperties DEF n
      <4> QED
        BY <4>1, <4>2
    <3> QED
      BY <1>1, <2>1, <2>4, <3>1, <3>2
  <2> HIDE DEF a, b
  <2>9. /\ CleanedPoints \in Seq(Int) /\ Len(CleanedPoints) = Len(a) + Len(b)
        /\ \A i \in 1 .. Len(a) + Len(b) : CleanedPoints[i] = IF i <= Len(a) THEN a[i] ELSE b[i - Len(a)]
    BY <2>6, <2>7, <2>8, ConcatProperties
  <2>10. Len(CleanedPoints) = (from - 1) + (n + 1 - to)
    BY <2>7, <2>8, <2>9
  <2>11. ASSUME NEW i \in 1 .. from - 1 PROVE CleanedPoints[i] = points[i]
    <3>1. i \in 1 .. Len(a) + Len(b) /\ i <= Len(a)
      BY <1>1, <2>1, <2>4, <2>7, <2>8
    <3> QED
      BY <2>7, <2>9, <3>1
  <2>12. ASSUME NEW k \in from .. Len(CleanedPoints) PROVE CleanedPoints[k] = points[k + (to - from)]
    <3>1. k \in 1 .. Len(a) + Len(b) /\ ~(k <= Len(a)) /\ k - Len(a) \in 1 .. n + 1 - to
      BY <1>1, <2>1, <2>4, <2>7, <2>8, <2>10
    <3>2. CleanedPoints[k] = b[k - Len(a)]
      BY <2>9, <3>1
    <3>3. to + (k - Len(a)) - 1 = k + (to - from)
      BY <1>1, <2>1, <2>4, <2>7
    <3>4. b[k - Len(a)] = points[to + (k - Len(a)) - 1]
      BY <2>8, <3>1
    <3> QED
      BY <3>2, <3>3, <3>4
  <2>13. ASSUME NEW i \in to .. n PROVE CleanedPoints[i - (to - from)] = points[i]
    <3>1. i - (to - from) \in from .. Len(CleanedPoints) /\ (i - (to - from)) + (to - from) = i
      BY <1>1, <2>1, <2>4, <2>10
    <3> QED
      BY <2>12, <3>1
  <2> QED
    BY <1>2, <1>3, <2>1, <2>4, <2>5, <2>9, <2>10, <2>11, <2>12, <2>13 DEF from, to
<1> QED
  BY <1>5, <1>6

LEMMA CleanedShorter == ScaleInv => CleanedPoints \in Seq(Int) /\ Len(CleanedPoints) <= MaxPoints
<1> SUFFICES ASSUME ScaleInv PROVE CleanedPoints \in Seq(Int) /\ Len(CleanedPoints) <= MaxPoints
  OBVIOUS
<1>1. Len(points) \in Nat /\ MaxPoints \in Nat /\ Len(points) <= MaxPoints
  BY ScaleAssumption DEF ScaleInv
<1>2. CleanedPoints \in Seq(Int) /\ CleanFrom \in Int
  BY CleanedIs
<1>3. CASE CleanFrom > Len(points) /\ CleanedPoints = points
  BY <1>1, <1>2, <1>3
<1>4. CASE ~(CleanFrom > Len(points) /\ CleanedPoints = points)
  <2>1. /\ CleanFrom \in 1 .. Len(points) /\ CleanTo \in CleanFrom .. Len(points) + 1
        /\ Len(CleanedPoints) = (CleanFrom - 1) + (Len(points) + 1 - CleanTo)
    BY <1>4, CleanedIs
  <2> QED
    BY <1>1, <1>2, <2>1
<1> QED
  BY <1>3, <1>4
LEMMA ScaleStart == ScaleInit => ScaleInv
<1> SUFFICES ASSUME ScaleInit PROVE ScaleInv
  OBVIOUS
<1>1. /\ now = 0 /\ axis = [duration |-> InitialDuration, delay |-> 0, pause |-> FALSE] /\ head = 0 /\ top = 0
      /\ frames = TRUE /\ refreshAt = 0 /\ interval = 0 /\ points = <<>> /\ original = NotStored /\ zooms = 0
  BY DEF ScaleInit
<1>2. now \in 0 .. MaxNow /\ InitialDuration \in Nat /\ RefreshEvery \in Nat /\ Len(points) <= MaxPoints
  BY <1>1, ScaleAssumption
<1>3. axis \in AxisOptions /\ axis.delay = 0
  BY <1>1, <1>2 DEF AxisOptions
<1>4. TimersEnd
  BY <1>1, <1>2 DEF TimersEnd, Never
<1>5. Stored = [duration |-> InitialDuration, delay |-> 0]
  BY <1>1 DEF Stored
<1> QED
  BY <1>1, <1>2, <1>3, <1>4, <1>5 DEF ScaleInv

(* An update shows what ends at the delay of the options from the head.      *)
LEMMA AxisSet ==
  ASSUME ScaleInv, NEW a \in AxisOptions, SetAxis(a)
  PROVE  /\ axis' = a /\ head' \in Int /\ head' <= now /\ top' = head' - a.delay
         /\ frames' \in BOOLEAN
         /\ head' = IF ~a.pause /\ ~frames THEN now ELSE head
<1>1. axis' = a /\ head' = HeadOf(a) /\ top' = HeadOf(a) - a.delay /\ frames' = ~a.pause
  BY DEF SetAxis
<1>2. HeadOf(a) \in Int /\ HeadOf(a) <= now /\ HeadOf(a) = IF ~a.pause /\ ~frames THEN now ELSE head
  BY DEF HeadOf, ScaleInv
<1>3. a.pause \in BOOLEAN
  BY DEF AxisOptions
<1> QED
  BY <1>1, <1>2, <1>3

LEMMA ThisStored ==
  ASSUME ScaleInv
  PROVE  Stored # NotStored /\ (original = NotStored => axis.duration = InitialDuration /\ axis.delay = 0)
<1>1. Stored = [duration |-> InitialDuration, delay |-> 0]
  BY DEF ScaleInv
<1>2. InitialDuration # Never
  BY ScaleAssumption DEF Never
<1>3. ASSUME original = NotStored PROVE axis.duration = InitialDuration /\ axis.delay = 0
  <2>1. [duration |-> axis.duration, delay |-> axis.delay] = [duration |-> InitialDuration, delay |-> 0]
    BY <1>1, <1>3 DEF Stored
  <2> QED
    BY <2>1
<1> QED
  BY <1>1, <1>2, <1>3 DEF NotStored

(* What the user makes of the axis.                                          *)
LEMMA UserSetsStep ==
  ASSUME ScaleInv, UserSets, NEW a \in AxisOptions, SetAxis(a)
  PROVE  ScaleInv'
<1>1. /\ refreshAt # Never /\ zooms' = zooms + 1 /\ original' = Stored
      /\ UNCHANGED <<now, refreshAt, interval, points>>
  BY DEF UserSets
<1>2. axis' = a /\ head' \in Int /\ head' <= now /\ top' = head' - a.delay /\ frames' \in BOOLEAN
  BY AxisSet
<1>3. Stored' = Stored
  BY <1>1, ThisStored DEF Stored
<1>4. TimersEnd'
  BY <1>1 DEF ScaleInv, TimersEnd
<1>5. zooms' \in Nat
  BY <1>1 DEF ScaleInv
<1> QED
  BY <1>1, <1>2, <1>3, <1>4, <1>5 DEF ScaleInv

LEMMA ZoomedAxis ==
  ASSUME ScaleInv, NEW new \in Nat, NEW k \in 0 .. 2
  PROVE  /\ Clamp(new, 0, MaxSpan) \in Nat
         /\ ZoomDelay(Clamp(new, 0, MaxSpan), k) \in Int
         /\ [axis EXCEPT !.duration = Clamp(new, 0, MaxSpan),
                         !.delay = Clamp(ZoomDelay(Clamp(new, 0, MaxSpan), k), 0, MaxSpan)] \in AxisOptions
<1>1. axis \in AxisOptions /\ axis.delay \in Int /\ axis.duration \in Nat
  BY DEF ScaleInv, AxisOptions
<1> DEFINE d == Clamp(new, 0, MaxSpan)
           z == ZoomDelay(d, k)
<1>2. d \in Nat
  BY ClampIs, ScaleAssumption
<1> HIDE DEF d
<1>3. k * (axis.duration - d) \in Int
  BY <1>1, <1>2
<1>4. z \in Int
  BY <1>1, <1>3 DEF ZoomDelay
<1> HIDE DEF z
<1>5. Clamp(z, 0, MaxSpan) \in Int
  BY <1>4, ClampIs, ScaleAssumption
<1>6. [axis EXCEPT !.duration = d, !.delay = Clamp(z, 0, MaxSpan)] \in AxisOptions
  BY <1>1, <1>2, <1>5 DEF AxisOptions
<1> QED
  BY <1>2, <1>4, <1>6 DEF d, z

LEMMA ZoomAxisStep ==
  ASSUME ScaleInv, NEW new \in Nat, NEW k \in 0 .. 2, ZoomAxis(new, k)
  PROVE  ScaleInv'
BY ZoomedAxis, UserSetsStep DEF ZoomAxis

LEMMA ZoomScaleStep == ASSUME ScaleInv, NEW k \in 0 .. 2, ZoomIn(k) \/ ZoomOut(k) PROVE ScaleInv'
<1>1. axis.duration \in Nat
  BY DEF ScaleInv, AxisOptions
<1>2. axis.duration \div 2 \in Nat /\ 2 * axis.duration \in Nat
  BY <1>1
<1> QED
  BY <1>2, ZoomAxisStep DEF ZoomIn, ZoomOut

LEMMA PanAxisStep == ASSUME ScaleInv, NEW d \in PanSteps, PanAxis(d) PROVE ScaleInv'
<1>1. axis \in AxisOptions /\ axis.delay + d \in Int /\ MaxSpan \in Int /\ 0 <= MaxSpan
  BY ScaleAssumption DEF ScaleInv, AxisOptions
<1>2. Clamp(axis.delay + d, 0, MaxSpan) \in Int
  BY <1>1, ClampIs
<1>3. [axis EXCEPT !.delay = Clamp(axis.delay + d, 0, MaxSpan)] \in AxisOptions
  BY <1>1, <1>2 DEF AxisOptions
<1>4. SetAxis([axis EXCEPT !.delay = Clamp(axis.delay + d, 0, MaxSpan)])
  BY DEF PanAxis
<1> QED
  BY <1>3, <1>4, UserSetsStep DEF PanAxis

LEMMA AlignStep == ASSUME ScaleInv, NEW w \in AlignWindows, Align(w) PROVE ScaleInv'
<1>1. axis \in AxisOptions /\ axis.delay \in Int /\ top \in Int /\ w[1] \in Int /\ w[2] \in Int /\ w[1] <= w[2]
  BY ScaleAssumption DEF ScaleInv, AxisOptions
<1>2. AlignedDelay(w) \in Int /\ w[2] - w[1] \in Nat
  BY <1>1 DEF AlignedDelay
<1>3. [axis EXCEPT !.delay = AlignedDelay(w), !.duration = w[2] - w[1]] \in AxisOptions
  BY <1>1, <1>2 DEF AxisOptions
<1> QED
  BY <1>3, UserSetsStep DEF Align

LEMMA ResetAxisStep ==
  ASSUME ScaleInv, ResetAxis
  PROVE  ScaleInv' /\ axis' = [duration |-> InitialDuration, delay |-> 0, pause |-> axis.pause]
<1> DEFINE a == [axis EXCEPT !.duration = Stored.duration, !.delay = Stored.delay]
<1>1. axis \in AxisOptions /\ Stored = [duration |-> InitialDuration, delay |-> 0] /\ InitialDuration \in Nat
  BY ScaleAssumption DEF ScaleInv
<1>2. a = [duration |-> InitialDuration, delay |-> 0, pause |-> axis.pause] /\ a \in AxisOptions
  <2>1. Stored.duration = InitialDuration /\ Stored.delay = 0
    BY <1>1
  <2>2. a = [axis EXCEPT !.duration = InitialDuration, !.delay = 0]
    BY <2>1
  <2> HIDE DEF a
  <2>3. /\ a \in AxisOptions /\ axis.pause \in BOOLEAN
        /\ a.duration = InitialDuration /\ a.delay = 0 /\ a.pause = axis.pause
    <3> HIDE DEF AxisOptions
    <3>1. axis \in [duration : Nat, delay : Int, pause : BOOLEAN] /\ InitialDuration \in Nat /\ 0 \in Int
      BY <1>1 DEF AxisOptions
    <3>2. a \in [duration : Nat, delay : Int, pause : BOOLEAN]
      BY <2>2, <3>1
    <3>3. a.duration = InitialDuration /\ a.delay = 0
      BY <2>2, <3>1
    <3>4. a.pause = axis.pause
      BY <2>2, <3>1
    <3>5. axis.pause \in BOOLEAN
      BY <3>1
    <3> QED
      BY <3>2, <3>3, <3>4, <3>5 DEF AxisOptions
  <2>4. a = [duration |-> a.duration, delay |-> a.delay, pause |-> a.pause]
    BY <2>3 DEF AxisOptions
  <2> QED
    BY <2>3, <2>4
<1> HIDE DEF a
<1>3. SetAxis(a) /\ UserSets
  BY DEF ResetAxis, a
<1>4. axis' = a
  BY <1>3 DEF SetAxis
<1> QED
  BY <1>2, <1>3, <1>4, UserSetsStep

LEMMA RefreshTickStep == ScaleInv /\ RefreshTick => ScaleInv'
<1> SUFFICES ASSUME ScaleInv, RefreshTick PROVE ScaleInv'
  OBVIOUS
<1>1. /\ points' = CleanedPoints /\ SetAxis(axis) /\ refreshAt' = now + RefreshEvery /\ interval' = RefreshEvery
      /\ UNCHANGED <<now, original, zooms>>
  BY DEF RefreshTick
<1>2. axis \in AxisOptions /\ now \in Nat /\ RefreshEvery \in Nat
  BY ScaleAssumption DEF ScaleInv
<1>3. axis' = axis /\ head' \in Int /\ head' <= now /\ top' = head' - axis.delay /\ frames' \in BOOLEAN
  BY <1>1, <1>2, AxisSet
<1>4. points' \in Seq(Int) /\ Len(points') <= MaxPoints
  BY <1>1, CleanedShorter
<1>5. Stored' = Stored
  BY <1>1, <1>3 DEF Stored
<1>6. TimersEnd' /\ refreshAt' \in Int
  BY <1>1, <1>2 DEF TimersEnd, Never
<1> QED
  BY <1>1, <1>3, <1>4, <1>5, <1>6 DEF ScaleInv

LEMMA PushPointStep == ASSUME ScaleInv, NEW t \in Int, PushPoint(t) PROVE ScaleInv'
<1>1. /\ refreshAt # Never /\ Len(points) < MaxPoints /\ points' = Append(points, t) /\ SetAxis(axis)
      /\ UNCHANGED <<now, refreshAt, interval, original, zooms>>
  BY DEF PushPoint
<1>2. axis \in AxisOptions /\ points \in Seq(Int) /\ MaxPoints \in Nat
  BY ScaleAssumption DEF ScaleInv
<1>3. axis' = axis /\ head' \in Int /\ head' <= now /\ top' = head' - axis.delay /\ frames' \in BOOLEAN
  BY <1>1, <1>2, AxisSet
<1>4. points' \in Seq(Int) /\ Len(points') <= MaxPoints
  BY <1>1, <1>2
<1>5. Stored' = Stored
  BY <1>1, <1>3 DEF Stored
<1>6. TimersEnd'
  BY <1>1 DEF ScaleInv, TimersEnd
<1> QED
  BY <1>1, <1>3, <1>4, <1>5, <1>6 DEF ScaleInv

LEMMA OtherScaleStep ==
  ScaleInv /\ (FrameTick \/ PassTime \/ TogglePause \/ DestroyScale \/ UNCHANGED scaleVars) => ScaleInv'
<1> SUFFICES ASSUME ScaleInv PROVE FrameTick \/ PassTime \/ TogglePause \/ DestroyScale \/ UNCHANGED scaleVars => ScaleInv'
  OBVIOUS
<1>1. axis \in AxisOptions /\ axis.delay \in Int /\ now \in 0 .. MaxNow /\ MaxNow \in Nat /\ RefreshEvery \in Nat
  BY ScaleAssumption DEF ScaleInv, AxisOptions
<1>2. CASE FrameTick
  <2>1. /\ frames /\ head' = now /\ top' = now - axis.delay
        /\ UNCHANGED <<now, axis, frames, refreshAt, interval, points, original, zooms>>
    BY <1>2 DEF FrameTick
  <2> QED
    BY <1>1, <2>1 DEF ScaleInv, TimersEnd, Stored
<1>3. CASE PassTime
  <2>1. now < MaxNow /\ now' = now + 1 /\ UNCHANGED <<axis, head, top, frames, refreshAt, interval, points, original, zooms>>
    BY <1>3 DEF PassTime
  <2>2. TimersEnd'
    BY <1>1, <2>1 DEF ScaleInv, TimersEnd
  <2>3. now' \in 0 .. MaxNow /\ head <= now'
    BY <1>1, <2>1 DEF ScaleInv
  <2> QED
    BY <2>1, <2>2, <2>3 DEF ScaleInv, Stored
<1>4. CASE TogglePause
  <2>1. /\ axis' = [axis EXCEPT !.pause = ~axis.pause]
        /\ UNCHANGED <<now, head, top, frames, refreshAt, interval, points, original, zooms>>
    BY <1>4 DEF TogglePause
  <2>2. axis' \in AxisOptions /\ axis'.delay = axis.delay /\ axis'.duration = axis.duration
    BY <1>1, <2>1 DEF AxisOptions
  <2>3. Stored' = Stored /\ TimersEnd'
    BY <2>1, <2>2 DEF Stored, ScaleInv, TimersEnd
  <2> QED
    BY <2>1, <2>2, <2>3 DEF ScaleInv
<1>5. CASE DestroyScale
  <2>1. /\ frames' = FALSE /\ refreshAt' = Never /\ points' = <<>>
        /\ UNCHANGED <<now, axis, head, top, interval, original, zooms>>
    BY <1>5 DEF DestroyScale, FramesStopped
  <2>2. points' \in Seq(Int) /\ Len(points') <= MaxPoints
    BY <2>1, ScaleAssumption
  <2>3. refreshAt' \in Int /\ TimersEnd' /\ Stored' = Stored
    BY <2>1 DEF Never, TimersEnd, Stored
  <2> QED
    BY <2>1, <2>2, <2>3 DEF ScaleInv
<1>6. CASE UNCHANGED scaleVars
  BY <1>6 DEF scaleVars, ScaleInv, TimersEnd, Stored
<1> QED
  BY <1>2, <1>3, <1>4, <1>5, <1>6

LEMMA ScaleStep == ScaleInv /\ [ScaleNext]_scaleVars => ScaleInv'
<1> SUFFICES ASSUME ScaleInv, [ScaleNext]_scaleVars PROVE ScaleInv'
  OBVIOUS
<1>1. ASSUME NEW t \in Max({now - Lateness, 0}) .. now, PushPoint(t) PROVE ScaleInv'
  <2>1. now \in Int /\ now - Lateness \in Int
    BY ScaleAssumption DEF ScaleInv
  <2>2. Max({now - Lateness, 0}) \in Int
    BY <2>1, MaxOfTwo
  <2>3. t \in Int
    BY <2>1, <2>2
  <2> QED
    BY <1>1, <2>3, PushPointStep
<1>2. CASE ScaleNext
  BY <1>1, <1>2, RefreshTickStep, OtherScaleStep, ResetAxisStep, ZoomScaleStep, PanAxisStep, AlignStep DEF ScaleNext
<1> QED
  BY <1>2, OtherScaleStep
LEMMA FrozenStep ==
  ScaleInv /\ [ScaleNext]_scaleVars
    => [axis.pause /\ axis'.pause /\ ~frames /\ zooms' = zooms => top' = top]_scaleVars
<1> SUFFICES ASSUME ScaleInv, ScaleNext, axis.pause, axis'.pause, ~frames, zooms' = zooms
             PROVE  top' = top
  OBVIOUS
<1>1. zooms' # zooms + 1 /\ axis \in AxisOptions
  BY DEF ScaleInv
<1>2. ~UserSets
  BY <1>1 DEF UserSets
<1>3. CASE SetAxis(axis)
  <2>1. top' = head' - axis.delay /\ head' = head
    BY <1>1, <1>3, AxisSet
  <2> QED
    BY <2>1 DEF ScaleInv
<1> QED
  BY <1>2, <1>3 DEF ScaleNext, RefreshTick, FrameTick, PassTime, TogglePause, DestroyScale, PushPoint, ResetAxis,
                    ZoomIn, ZoomOut, ZoomAxis, PanAxis, Align

(* The zoom keeps what is k halves of the width from the right.              *)
LEMMA CenterKept ==
  ASSUME ScaleInv, NEW k \in 0 .. 2, NEW new \in Nat, ZoomAxis(new, k), head' = head,
         k * (axis.duration - new) = 2 * ((k * (axis.duration - new)) \div 2),
         axis'.delay \in 1 .. MaxSpan - 1, axis'.duration < MaxSpan
  PROVE  2 * top' - k * axis'.duration = 2 * top - k * axis.duration
<1> DEFINE d == Clamp(new, 0, MaxSpan)
           z == ZoomDelay(d, k)
           a == [axis EXCEPT !.duration = d, !.delay = Clamp(z, 0, MaxSpan)]
<1>1. /\ axis \in AxisOptions /\ axis.delay \in Int /\ axis.duration \in Nat /\ MaxSpan \in Nat /\ head \in Int
      /\ top = head - axis.delay
  BY ScaleAssumption DEF ScaleInv, AxisOptions
<1>2. d \in Nat /\ z \in Int /\ a \in AxisOptions
  BY ZoomedAxis
<1>3. axis' = a /\ top' = head - a.delay
  <2>1. SetAxis(a)
    BY DEF ZoomAxis
  <2> HIDE DEF a
  <2> QED
    BY <1>2, <2>1, AxisSet
<1>4. a.duration = d /\ a.delay = Clamp(z, 0, MaxSpan)
  BY <1>1 DEF AxisOptions
<1> HIDE DEF a
<1>5. d = IF new <= 0 THEN 0 ELSE IF new >= MaxSpan THEN MaxSpan ELSE new
  BY <1>1, ClampIs
<1>6. d = new
  BY <1>1, <1>3, <1>4, <1>5
<1>7. z = axis.delay + (k * (axis.duration - new)) \div 2
  BY <1>6 DEF ZoomDelay
<1> HIDE DEF d, z
<1>8. Clamp(z, 0, MaxSpan) = IF z <= 0 THEN 0 ELSE IF z >= MaxSpan THEN MaxSpan ELSE z
  <2>1. z \in Int /\ 0 \in Int /\ MaxSpan \in Int /\ 0 <= MaxSpan
    BY <1>1, <1>2
  <2> QED
    BY <2>1, ClampIs
<1>9. a.delay = z
  BY <1>1, <1>2, <1>3, <1>4, <1>8
<1>10. PICK h \in Int : h = (k * (axis.duration - new)) \div 2
  <2>1. k * (axis.duration - new) \in Int
    BY <1>1
  <2> QED
    BY <2>1
<1>11. 2 * z = 2 * axis.delay + k * (axis.duration - new)
  BY <1>1, <1>2, <1>7, <1>10
<1>12. k * (axis.duration - new) = k * axis.duration - k * new
  BY <1>1
<1>13. k * axis.duration \in Int /\ k * new \in Int
  BY <1>1
<1>14. axis'.duration = new /\ top' = head - z
  BY <1>3, <1>4, <1>6, <1>9
<1> DEFINE was == k * axis.duration
           is == k * new
<1>15. was \in Int /\ is \in Int /\ 2 * z = 2 * axis.delay + (was - is)
  BY <1>11, <1>12, <1>13
<1>16. 2 * top' - k * axis'.duration = 2 * (head - z) - is /\ 2 * top - k * axis.duration = 2 * (head - axis.delay) - was
  BY <1>1, <1>14
<1> HIDE DEF was, is
<1>17. head \in Int /\ axis.delay \in Int /\ z \in Int
  BY <1>1, <1>2
<1>18. 2 * (head - z) - is = 2 * (head - axis.delay) - was
  BY <1>15, <1>17
<1> QED
  BY <1>16, <1>18

LEMMA CenterStep ==
  ScaleInv => [zooms' > zooms /\ head' = head => \A k \in 0 .. 2 :
       (ZoomIn(k) \/ ZoomOut(k)) /\ axis'.delay \in 1 .. MaxSpan - 1 /\ axis'.duration < MaxSpan
         => 2 * top' - k * axis'.duration = 2 * top - k * axis.duration]_scaleVars
<1> SUFFICES ASSUME ScaleInv, head' = head, NEW k \in 0 .. 2, ZoomIn(k) \/ ZoomOut(k),
                    axis'.delay \in 1 .. MaxSpan - 1, axis'.duration < MaxSpan
             PROVE  2 * top' - k * axis'.duration = 2 * top - k * axis.duration
  OBVIOUS
<1>1. axis.duration \in Nat
  BY DEF ScaleInv, AxisOptions
<1>2. CASE ZoomIn(k)
  <2>1. PICK q \in Nat : axis.duration = 4 * q
    BY <1>1, <1>2 DEF ZoomIn
  <2>2. axis.duration \div 2 = 2 * q /\ axis.duration - 2 * q = 2 * q
    BY <2>1
  <2>3. k * (2 * q) = 2 * ((k * (2 * q)) \div 2)
    BY <2>1
  <2>4. ZoomAxis(2 * q, k)
    BY <1>2, <2>2 DEF ZoomIn
  <2> QED
    BY <2>2, <2>3, <2>4, CenterKept
<1>3. CASE ZoomOut(k)
  <2>1. PICK q \in Nat : axis.duration = 2 * q
    BY <1>1, <1>3 DEF ZoomOut
  <2>2. axis.duration - 2 * axis.duration = -(2 * q) /\ 2 * axis.duration \in Nat
    BY <2>1
  <2>3. k * (-(2 * q)) = 2 * ((k * (-(2 * q))) \div 2)
    BY <2>1
  <2> QED
    BY <1>3, <2>2, <2>3, CenterKept DEF ZoomOut
<1> QED
  BY <1>2, <1>3

LEMMA AlignedStep ==
  ScaleInv => [zooms' > zooms /\ head' = head => \A w \in AlignWindows :
       Align(w) => top' = w[2] /\ axis'.duration = w[2] - w[1]]_scaleVars
<1> SUFFICES ASSUME ScaleInv, head' = head, NEW w \in AlignWindows, Align(w)
             PROVE  top' = w[2] /\ axis'.duration = w[2] - w[1]
  OBVIOUS
<1>1. /\ axis \in AxisOptions /\ axis.delay \in Int /\ head \in Int /\ top = head - axis.delay
      /\ w[1] \in Int /\ w[2] \in Int /\ w[1] <= w[2]
  BY ScaleAssumption DEF ScaleInv, AxisOptions
<1> DEFINE a == [axis EXCEPT !.delay = AlignedDelay(w), !.duration = w[2] - w[1]]
<1>2. AlignedDelay(w) = head - w[2] /\ w[2] - w[1] \in Nat
  BY <1>1 DEF AlignedDelay
<1>3. a \in AxisOptions /\ a.delay = head - w[2] /\ a.duration = w[2] - w[1]
  <2>1. PICK v \in Int, u \in Nat : v = AlignedDelay(w) /\ u = w[2] - w[1]
    BY <1>1, <1>2
  <2>2. a = [axis EXCEPT !.delay = v, !.duration = u]
    BY <2>1
  <2> HIDE DEF a
  <2>3. a \in AxisOptions /\ a.delay = v /\ a.duration = u
    BY <1>1, <2>2 DEF AxisOptions
  <2> QED
    BY <1>2, <2>1, <2>3
<1>4. SetAxis(a)
  BY DEF Align
<1> HIDE DEF a
<1>5. axis' = a /\ top' = head - a.delay
  BY <1>3, <1>4, AxisSet
<1> QED
  BY <1>1, <1>3, <1>5

(* No point that may still be shown is taken out.                            *)
LEMMA KeptPoints ==
  ASSUME ScaleInv, InOrder, NEW t \in Int, t > now - Ttl \/ (axis.pause /\ t < top)
  PROVE  TimesOf(points, t) <= TimesOf(CleanedPoints, t)
<1> DEFINE n == Len(points)
           from == CleanFrom
           to == CleanTo
           was == {i \in DOMAIN points : points[i] = t}
           is == {k \in DOMAIN CleanedPoints : CleanedPoints[k] = t}
           f == [i \in was |-> IF i < from THEN i ELSE i - (to - from)]
<1>1. /\ points \in Seq(Int) /\ n \in Nat /\ DOMAIN points = 1 .. n /\ CleanedPoints \in Seq(Int) /\ now \in Int
      /\ Ttl \in Int /\ top \in Int
  BY CleanedIs, ScaleAssumption DEF ScaleInv, AxisOptions
<1>2. CASE from > n /\ CleanedPoints = points
  <2>1. TimesOf(CleanedPoints, t) = TimesOf(points, t) /\ IsFiniteSet(1 .. n)
    BY <1>1, <1>2, FS_Interval
  <2>2. was \subseteq 1 .. n
    BY <1>1
  <2> HIDE DEF was, n
  <2>3. Cardinality(was) \in Nat
    BY <2>1, <2>2, FS_Subset, FS_CardinalityType
  <2>4. TimesOf(points, t) = Cardinality(was)
    BY DEF TimesOf, was
  <2> QED
    BY <2>1, <2>3, <2>4
<1>3. CASE ~(from > n /\ CleanedPoints = points)
  <2>1. /\ from \in 1 .. n /\ to \in from .. n + 1
        /\ \A i \in from .. to - 1 : points[i] <= now - Ttl
        /\ Len(CleanedPoints) = (from - 1) + (n + 1 - to)
        /\ \A i \in 1 .. from - 1 : CleanedPoints[i] = points[i]
        /\ \A i \in to .. n : CleanedPoints[i - (to - from)] = points[i]
    BY <1>3, CleanedIs
  <2>2. axis.pause => FirstBeyond \in 1 .. n /\ FirstBeyond < from /\ points[FirstBeyond] >= top
    <3>1. FirstBeyond \in 1 .. n + 1 /\ (FirstBeyond \in 1 .. n => points[FirstBeyond] >= top)
          /\ (axis.pause => from = FirstBeyond + 2)
      BY CleanedIs
    <3> QED
      BY <1>1, <2>1, <3>1
  <2> HIDE DEF from, to
  <2>3. ASSUME NEW i \in was PROVE i < from \/ i >= to
    <3>1. i \in 1 .. n /\ points[i] = t
      BY <1>1
    <3>2. ASSUME i >= from, i < to PROVE FALSE
      <4>1. i \in from .. to - 1
        BY <1>1, <2>1, <3>1, <3>2
      <4>2. t <= now - Ttl
        BY <2>1, <3>1, <4>1
      <4>3. axis.pause /\ t < top
        BY <1>1, <4>2
      <4>4. points[FirstBeyond] <= points[i]
        BY <1>1, <2>1, <2>2, <3>1, <3>2, <4>3 DEF InOrder
      <4> QED
        BY <1>1, <2>2, <3>1, <4>3, <4>4
    <3> QED
      BY <1>1, <2>1, <3>1, <3>2
  <2>9. \A k \in 1 .. Len(CleanedPoints) : CleanedPoints[k] = t => k \in is
    BY <1>1
  <2>4. ASSUME NEW i \in was PROVE f[i] \in is
    <3>1. i \in 1 .. n /\ points[i] = t
      BY <1>1
    <3>2. CASE i < from
      <4>1. i \in 1 .. from - 1 /\ i \in 1 .. Len(CleanedPoints)
        <5>1. n \in Nat /\ i \in 1 .. n /\ from \in 1 .. n /\ to \in from .. n + 1
              /\ Len(CleanedPoints) = (from - 1) + (n + 1 - to)
          BY <1>1, <2>1, <3>1
        <5> HIDE DEF n, f, is, was
        <5> QED
          BY <3>2, <5>1
      <4>2. f[i] = i
        BY <3>2
      <4> HIDE DEF f, is
      <4> QED
        BY <2>1, <2>9, <3>1, <4>1, <4>2
    <3>3. CASE ~(i < from)
      <4>1. i \in to .. n /\ i - (to - from) \in 1 .. Len(CleanedPoints)
        <5>1. n \in Nat /\ i \in 1 .. n /\ from \in 1 .. n /\ to \in from .. n + 1
              /\ Len(CleanedPoints) = (from - 1) + (n + 1 - to)
          BY <1>1, <2>1, <3>1
        <5>2. i >= to
          BY <2>3, <3>3
        <5> HIDE DEF n, f, is, was
        <5> QED
          BY <5>1, <5>2
      <4>2. f[i] = i - (to - from)
        BY <3>3
      <4> HIDE DEF f, is
      <4> QED
        BY <2>1, <2>9, <3>1, <4>1, <4>2
    <3> QED
      BY <3>2, <3>3
  <2>5. ASSUME NEW i \in was, NEW j \in was, f[i] = f[j] PROVE i = j
    <3>1. i \in 1 .. n /\ j \in 1 .. n
      BY <1>1
    <3>2. (i < from \/ i >= to) /\ (j < from \/ j >= to)
      BY <2>3
    <3>3. /\ f[i] = IF i < from THEN i ELSE i - (to - from)
          /\ f[j] = IF j < from THEN j ELSE j - (to - from)
      OBVIOUS
    <3>4. from \in Int /\ to \in Int /\ from <= to /\ i \in Int /\ j \in Int
      BY <1>1, <2>1, <3>1
    <3>5. f[i] = f[j]
      BY <2>5
    <3> HIDE DEF f, was
    <3>6. CASE i < from /\ j < from
      BY <3>3, <3>4, <3>5, <3>6
    <3>7. CASE i >= to /\ j >= to
      <4>1. ~(i < from) /\ ~(j < from)
        BY <3>4, <3>7
      <4>2. i - (to - from) = j - (to - from)
        BY <3>3, <3>5, <4>1
      <4> QED
        BY <3>4, <4>2
    <3>8. CASE i < from /\ j >= to
      <4>1. ~(j < from)
        BY <3>4, <3>8
      <4>2. i = j - (to - from)
        BY <3>3, <3>5, <3>8, <4>1
      <4> QED
        BY <3>4, <3>8, <4>2
    <3>9. CASE i >= to /\ j < from
      <4>1. ~(i < from)
        BY <3>4, <3>9
      <4>2. j = i - (to - from)
        BY <3>3, <3>5, <3>9, <4>1
      <4> QED
        BY <3>4, <3>9, <4>2
    <3> QED
      BY <3>2, <3>6, <3>7, <3>8, <3>9
  <2>6. IsFiniteSet(is)
    <3>1. is \subseteq 1 .. Len(CleanedPoints) /\ Len(CleanedPoints) \in Nat
      BY <1>1
    <3>2. IsFiniteSet(1 .. Len(CleanedPoints))
      BY <3>1, FS_Interval
    <3> HIDE DEF is
    <3> QED
      BY <3>1, <3>2, FS_Subset
  <2>7. f \in Injection(was, is)
    <3>1. f \in [was -> is]
      BY <2>4
    <3> HIDE DEF f
    <3> QED
      BY <2>5, <3>1 DEF Injection, IsInjective
  <2> HIDE DEF was, is, f
  <2>8. Cardinality(was) <= Cardinality(is)
    BY <2>6, <2>7, FS_Injection
  <2> QED
    BY <2>8 DEF TimesOf, was, is
<1> QED
  BY <1>2, <1>3
LEMMA CleansStep ==
  ScaleInv => [RefreshTick /\ InOrder =>
       /\ \A t \in ToSet(points) :
            TimesOf(points', t) < TimesOf(points, t) => t <= now - Ttl /\ (axis.pause => t >= top)
       /\ axis.pause => Len(points') >= Min({Len(points), FirstBeyond + 1})
       /\ ~axis.pause => \A i \in DOMAIN points' : points'[i] > now - Ttl]_scaleVars
<1> SUFFICES ASSUME ScaleInv, RefreshTick, InOrder
             PROVE  /\ \A t \in ToSet(points) :
                         TimesOf(points', t) < TimesOf(points, t) => t <= now - Ttl /\ (axis.pause => t >= top)
                    /\ axis.pause => Len(points') >= Min({Len(points), FirstBeyond + 1})
                    /\ ~axis.pause => \A i \in DOMAIN points' : points'[i] > now - Ttl
  OBVIOUS
<1> DEFINE n == Len(points)
           from == CleanFrom
           to == CleanTo
<1>1. /\ points \in Seq(Int) /\ n \in Nat /\ DOMAIN points = 1 .. n /\ CleanedPoints \in Seq(Int) /\ now \in Int
      /\ Ttl \in Int /\ top \in Int /\ FirstBeyond \in 1 .. n + 1 /\ points' = CleanedPoints
      /\ from = IF axis.pause THEN FirstBeyond + 2 ELSE 1
  BY CleanedIs, ScaleAssumption DEF ScaleInv, AxisOptions, RefreshTick
<1>2. ASSUME NEW t \in ToSet(points), TimesOf(CleanedPoints, t) < TimesOf(points, t)
      PROVE  t <= now - Ttl /\ (axis.pause => t >= top)
  <2>1. t \in Int
    BY <1>1 DEF ToSet
  <2>2. TimesOf(points, t) \in Nat /\ TimesOf(CleanedPoints, t) \in Nat
    <3>1. ASSUME NEW s \in Seq(Int) PROVE TimesOf(s, t) \in Nat
      <4> DEFINE places == {i \in DOMAIN s : s[i] = t}
      <4>1. Len(s) \in Nat /\ places \subseteq 1 .. Len(s)
        OBVIOUS
      <4> HIDE DEF places
      <4>3. IsFiniteSet(1 .. Len(s))
        BY <4>1, FS_Interval
      <4>2. IsFiniteSet(places)
        BY <4>1, <4>3, FS_Subset
      <4> QED
        BY <4>2, FS_CardinalityType DEF TimesOf, places
    <3> QED
      BY <1>1, <3>1
  <2>3. ~(TimesOf(points, t) <= TimesOf(CleanedPoints, t))
    BY <1>2, <2>2
  <2>4. ~(t > now - Ttl \/ (axis.pause /\ t < top))
    BY <2>1, <2>3, KeptPoints
  <2> QED
    BY <1>1, <2>1, <2>4
<1>3. CASE from > n /\ CleanedPoints = points
  <2>1. ASSUME axis.pause PROVE n >= Min({n, FirstBeyond + 1})
    <3>1. Min({n, FirstBeyond + 1}) = IF n <= FirstBeyond + 1 THEN n ELSE FirstBeyond + 1
      BY <1>1, LessOfTwo
    <3> QED
      BY <1>1, <3>1
  <2>2. ASSUME ~axis.pause PROVE \A i \in DOMAIN points : points[i] > now - Ttl
    BY <1>1, <1>3, <2>2
  <2> QED
    BY <1>1, <1>2, <1>3, <2>1, <2>2
<1>4. CASE ~(from > n /\ CleanedPoints = points)
  <2>1. /\ from \in 1 .. n /\ to \in from .. n + 1
        /\ to \in 1 .. n => points[to] > now - Ttl
        /\ Len(CleanedPoints) = (from - 1) + (n + 1 - to)
        /\ \A k \in from .. Len(CleanedPoints) : CleanedPoints[k] = points[k + (to - from)]
    BY <1>4, CleanedIs
  <2> HIDE DEF from, to
  <2>2. ASSUME axis.pause PROVE Len(CleanedPoints) >= Min({n, FirstBeyond + 1})
    <3>1. Min({n, FirstBeyond + 1}) = IF n <= FirstBeyond + 1 THEN n ELSE FirstBeyond + 1
      BY <1>1, LessOfTwo
    <3>2. Len(CleanedPoints) >= FirstBeyond + 1 /\ FirstBeyond + 1 <= n
      <4>1. /\ n \in Nat /\ FirstBeyond \in Nat /\ from = FirstBeyond + 2 /\ from \in 1 .. n /\ to \in from .. n + 1
            /\ Len(CleanedPoints) = (from - 1) + (n + 1 - to)
        BY <1>1, <2>1, <2>2
      <4> HIDE DEF n
      <4> QED
        BY <4>1
    <3> QED
      BY <1>1, <3>1, <3>2
  <2>3. ASSUME ~axis.pause, NEW k \in DOMAIN CleanedPoints PROVE CleanedPoints[k] > now - Ttl
    <3> DEFINE len == Len(CleanedPoints)
    <3>1. from = 1 /\ len \in Nat /\ DOMAIN CleanedPoints = 1 .. len
      BY <1>1, <2>3
    <3>4. k \in 1 .. len /\ len = (from - 1) + (n + 1 - to) /\ to \in from .. n + 1 /\ n \in Nat
      BY <1>1, <2>1, <2>3, <3>1
    <3>5. CleanedPoints[k] = points[k + (to - from)]
      BY <2>1, <3>1, <3>4
    <3> HIDE DEF len, n
    <3>2. to \in 1 .. n /\ k + (to - from) \in 1 .. n /\ to <= k + (to - from)
      BY <3>1, <3>4
    <3> DEFINE j == k + (to - from)
    <3>6. j \in 1 .. n /\ to <= j /\ CleanedPoints[k] = points[j]
      BY <3>2, <3>5
    <3> HIDE DEF j
    <3>7. points[to] > now - Ttl
      BY <2>1, <3>2 DEF n
    <3>3. points[to] <= points[j]
      BY <1>1, <3>2, <3>6 DEF InOrder, n
    <3>8. points[to] \in Int /\ points[j] \in Int
      BY <1>1, <3>2, <3>6 DEF n
    <3> QED
      BY <1>1, <3>3, <3>6, <3>7, <3>8
  <2> QED
    BY <1>1, <1>2, <2>2, <2>3
<1> QED
  BY <1>3, <1>4
-----------------------------------------------------------------------------
(* The layout of the ticks.                                                  *)
LEMMA UpDivided ==
  ASSUME NEW a \in Nat, NEW b \in Nat \ {0}
  PROVE  CeilDiv(a, b) \in Nat /\ b * CeilDiv(a, b) >= a /\ \A c \in Nat : b * c >= a => CeilDiv(a, b) <= c
<1> DEFINE q == (a + b - 1) \div b
<1>1. q \in Nat /\ b * q <= a + b - 1 /\ a + b - 1 < b * q + b
  OBVIOUS
<1>2. CeilDiv(a, b) = q
  BY DEF CeilDiv
<1> HIDE DEF q
<1>3. b * q \in Int
  BY <1>1
<1>4. ASSUME NEW c \in Nat, b * c >= a, q > c PROVE FALSE
  <2>1. q >= c + 1 /\ b * (c + 1) = b * c + b
    BY <1>1, <1>4
  <2>2. b * q >= b * (c + 1)
    BY <1>1, <2>1
  <2>3. b * c \in Int
    BY <1>4
  <2> QED
    BY <1>1, <1>3, <1>4, <2>1, <2>2, <2>3
<1>5. b * q >= a
  BY <1>1, <1>3
<1> QED
  BY <1>1, <1>2, <1>4, <1>5

LEMMA UnitIs ==
  ASSUME NEW v \in 1 .. LastUnit
  PROVE  TickSizes[v] \in Nat \ {0} /\ TickSteps[v] \in Seq(Nat \ {0}) /\ (TickSteps[v] = <<>> <=> v = LastUnit)
<1>1. /\ TickSizes \in Seq(Nat \ {0}) /\ TickSteps \in Seq(Seq(Nat \ {0})) /\ Len(TickSteps) = Len(TickSizes)
      /\ LastUnit = Len(TickSizes)
      /\ \A u \in 1 .. Len(TickSizes) : TickSteps[u] = <<>> <=> u = Len(TickSizes)
  BY TickAssumption DEF LastUnit
<1>2. v \in 1 .. Len(TickSizes) /\ v \in 1 .. Len(TickSteps)
  BY <1>1
<1>3. TickSizes[v] \in Nat \ {0}
  BY <1>1, <1>2, ElementOfSeq
<1>4. TickSteps[v] \in Seq(Nat \ {0})
  BY <1>1, <1>2, ElementOfSeq
<1> QED
  BY <1>1, <1>2, <1>3, <1>4

LEMMA SomeUnitFits == ASSUME NEW capacity \in Nat \ {0} PROVE \E v \in 1 .. LastUnit - 1 : FitsIn(0, v, capacity)
<1>1. PICK v \in 1 .. LastUnit - 1 : TickCommon[v]
  BY TickAssumption DEF LastUnit
<1> DEFINE steps == TickSteps[v]
           m == LargestStep(v) * TickSizes[v]
<1>2. steps \in Seq(Nat \ {0}) /\ steps # <<>> /\ TickSizes[v] \in Nat \ {0}
  <2>1. LastUnit \in Nat
    BY TickAssumption DEF LastUnit
  <2>2. v \in 1 .. LastUnit /\ v # LastUnit
    BY <2>1
  <2> QED
    BY <2>2, UnitIs
<1>3. LargestStep(v) \in Nat \ {0}
  <2>1. Len(steps) \in DOMAIN steps /\ LargestStep(v) = steps[Len(steps)]
    BY <1>2 DEF LargestStep, Last
  <2> HIDE DEF steps
  <2> QED
    BY <1>2, <2>1
<1>4. m \in Nat \ {0}
  BY <1>2, <1>3
<1> HIDE DEF m
<1>5. m * 0 >= 0 /\ 0 \in Nat
  BY <1>4
<1>6. CeilDiv(0, m) \in Nat /\ CeilDiv(0, m) <= 0
  BY <1>4, <1>5, UpDivided
<1>7. CeilDiv(0, m) <= capacity
  BY <1>6
<1> QED
  BY <1>1, <1>7 DEF FitsIn, m

LEMMA LayoutIs ==
  ASSUME NEW range \in Nat, NEW capacity \in Nat \ {0}
  PROVE  LET u == UnitForTicks(range, capacity)
             step == StepSize(range, u, capacity)
         IN /\ CeilDiv(range, TickSizes[u] * step) <= capacity
            /\ \A smaller \in ToSet(TickSteps[u]) :
                 smaller < step => CeilDiv(range, TickSizes[u] * smaller) > capacity
<1> DEFINE u == UnitForTicks(range, capacity)
           step == StepSize(range, u, capacity)
           units == {v \in 1 .. LastUnit - 1 : FitsIn(range, v, capacity)}
<1>1. LastUnit \in Nat /\ LastUnit >= 2 /\ LastUnit = Len(TickSizes)
  BY TickAssumption DEF LastUnit
<1>2. u \in units \cup {LastUnit} /\ u \in 1 .. LastUnit /\ \A v \in units : u <= v
  <2>1. units \in SUBSET (1 .. LastUnit - 1) /\ LastUnit - 1 \in Nat /\ (LastUnit - 1) + 1 = LastUnit
    BY <1>1
  <2>2. u = Min(units \cup {LastUnit})
    BY DEF UnitForTicks
  <2> HIDE DEF units, u
  <2> QED
    BY <2>1, <2>2, FirstIs
<1> DEFINE size == TickSizes[u]
           steps == TickSteps[u]
<1> HIDE DEF u
<1>3. size \in Nat \ {0} /\ steps \in Seq(Nat \ {0}) /\ (steps = <<>> <=> u = LastUnit)
  BY <1>2, UnitIs
<1>4. CASE u = LastUnit
  <2>1. steps = <<>>
    BY <1>3, <1>4
  <2> DEFINE m == capacity * size
  <2>2. m \in Nat \ {0}
    BY <1>3
  <2>3. step = CeilDiv(range, m)
    BY <2>1 DEF StepSize
  <2>4. step \in Nat /\ m * step >= range
    BY <2>2, <2>3, UpDivided
  <2>5. step # 0
    <3>1. ASSUME step = 0 PROVE FALSE
      <4>1. range = 0
        BY <2>2, <2>4, <3>1
      <4>2. PICK v \in 1 .. LastUnit - 1 : FitsIn(range, v, capacity)
        BY <1>1, <4>1, SomeUnitFits
      <4> QED
        BY <1>1, <1>2, <1>4, <4>2
    <3> QED
      BY <3>1
  <2> HIDE DEF step, m
  <2>6. size * step \in Nat \ {0} /\ (size * step) * capacity >= range
    <3>1. size \in Nat \ {0} /\ step \in Nat \ {0} /\ capacity \in Nat
      BY <1>3, <2>4, <2>5
    <3> HIDE DEF size
    <3>2. size * step \in Nat \ {0}
      BY <3>1
    <3>3. (size * step) * capacity = (capacity * size) * step
      BY <3>1
    <3> QED
      BY <2>4, <3>2, <3>3 DEF m
  <2>7. CeilDiv(range, size * step) <= capacity
    BY <2>6, UpDivided
  <2>8. ToSet(steps) = {}
    BY <2>1 DEF ToSet
  <2> QED
    BY <2>7, <2>8 DEF step, u
<1>5. CASE u # LastUnit
  <2>1. FitsIn(range, u, capacity) /\ steps # <<>>
    BY <1>2, <1>3, <1>5
  <2> DEFINE k == Len(steps)
             fits == {i \in 1 .. k : CeilDiv(range, size * steps[i]) <= capacity}
             first == Min(fits \cup {k})
  <2>2. k \in Nat \ {0} /\ DOMAIN steps = 1 .. k
    BY <1>3, <2>1, EmptySeq
  <2>3. k \in fits
    <3>1. LargestStep(u) = steps[k] /\ steps[k] \in Nat \ {0} /\ k \in 1 .. k
      BY <1>3, <2>2 DEF LargestStep, Last
    <3>2. LargestStep(u) * size = size * steps[k]
      BY <1>3, <3>1
    <3>3. CeilDiv(range, LargestStep(u) * size) <= capacity
      BY <2>1 DEF FitsIn
    <3> QED
      BY <3>1, <3>2, <3>3
  <2>4. fits \cup {k} = fits /\ fits \subseteq Nat /\ fits \in SUBSET Int /\ fits # {}
    BY <2>3
  <2>5. step = steps[first]
    BY <2>1, <2>2 DEF StepSize
  <2>6. first \in fits /\ \A i \in fits : first <= i
    <3> HIDE DEF fits, step
    <3>1. PICK x \in fits : \A y \in fits : x <= y
      BY <2>4, LeastOf
    <3>2. Min(fits) = x
      BY <2>4, <3>1, MinIs
    <3> QED
      BY <2>4, <3>1, <3>2
  <2> HIDE DEF first, step
  <2>7. CeilDiv(range, size * step) <= capacity /\ first \in 1 .. k
    BY <2>5, <2>6
  <2>8. ASSUME NEW i \in 1 .. k, steps[i] < step PROVE CeilDiv(range, size * steps[i]) > capacity
    <3>1. i < first
      <4>1. ASSUME i >= first PROVE FALSE
        <5>1. i = first \/ first < i
          BY <2>2, <2>7, <4>1
        <5>2. steps[i] \in Nat /\ steps[first] \in Nat
          BY <1>3, <2>2, <2>7
        <5>3. first < i => steps[first] < steps[i]
          BY <1>1, <1>2, <2>2, <2>7, TickAssumption
        <5> QED
          BY <2>5, <2>8, <5>1, <5>2, <5>3
      <4> QED
        BY <2>2, <2>7, <4>1
    <3>2. i \notin fits
      BY <2>2, <2>6, <2>7, <3>1
    <3>3. size * steps[i] \in Nat \ {0}
      <4>1. PICK s \in Nat \ {0} : s = steps[i]
        BY <1>3, <2>2
      <4>2. PICK z \in Nat \ {0} : z = size
        BY <1>3
      <4>3. z * s \in Nat \ {0}
        OBVIOUS
      <4> HIDE DEF size, steps
      <4> QED
        BY <4>1, <4>2, <4>3
    <3>4. CeilDiv(range, size * steps[i]) \in Nat
      BY <3>3, UpDivided
    <3> QED
      BY <3>2, <3>4
  <2>9. ASSUME NEW smaller \in ToSet(steps), smaller < step PROVE CeilDiv(range, size * smaller) > capacity
    <3>1. PICK i \in 1 .. k : smaller = steps[i]
      BY <2>2 DEF ToSet
    <3> QED
      BY <2>8, <2>9, <3>1
  <2> QED
    BY <2>7, <2>9 DEF step, u
<1> QED
  BY <1>4, <1>5 DEF u
LEMMA ScaleSafe == ScaleInv => ScaleTypeOK /\ TimersEnd /\ TicksFit
<1> SUFFICES ASSUME ScaleInv PROVE ScaleTypeOK /\ TicksFit
  BY DEF ScaleInv
<1>1. axis.duration \in Nat /\ axis.pause \in BOOLEAN
  BY DEF ScaleInv, AxisOptions
<1>2. \A range \in TickRanges \cup {axis.duration}, capacity \in TickCapacities : range \in Nat /\ capacity \in Nat \ {0}
  BY <1>1, TickAssumption
<1> QED
  BY <1>1, <1>2, LayoutIs DEF ScaleTypeOK, TicksFit, ScaleInv

(* A scale that is destroyed runs no timer and one that lives is refreshed   *)
(* in time, one that is paused stands still, a refresh takes out only what   *)
(* is too old and not shown, zooming keeps the time under the cursor, a      *)
(* sibling shows the window of its leader, a reset restores the options, and *)
(* the ticks fit (chartjs-plugin-streaming.js): for any lengths of the axis, *)
(* samples, pans, windows and table of ticks.                                *)
THEOREM AxisHolds == ScaleSpec => AxisFollows
<1>1. ScaleSpec => []ScaleInv
  BY ScaleStart, ScaleStep, PTL DEF ScaleSpec
<1>2. ScaleSpec => [](ScaleTypeOK /\ TimersEnd /\ TicksFit)
  BY <1>1, ScaleSafe, PTL
<1>3. ScaleSpec => FrozenWhilePaused
  BY <1>1, FrozenStep, PTL DEF ScaleSpec, FrozenWhilePaused
<1>4. ScaleSpec => CleansOld
  BY <1>1, CleansStep, PTL DEF ScaleSpec, CleansOld
<1>5. ScaleSpec => ZoomKeepsCenter
  BY <1>1, CenterStep, PTL DEF ScaleSpec, ZoomKeepsCenter
<1>6. ScaleSpec => AlignsExactly
  BY <1>1, AlignedStep, PTL DEF ScaleSpec, AlignsExactly
<1>7. ScaleSpec => ResetRestores
  <2>1. ScaleInv => [ResetAxis => axis' = [duration |-> InitialDuration, delay |-> 0, pause |-> axis.pause]]_scaleVars
    BY ResetAxisStep
  <2> QED
    BY <1>1, <2>1, PTL DEF ScaleSpec, ResetRestores
<1> QED
  BY <1>2, <1>3, <1>4, <1>5, <1>6, <1>7 DEF AxisFollows
=============================================================================
