----------------------------- MODULE ZoomGestures -----------------------------
(* Zooming and panning a chart with the mouse (chart-display/modified-vendor/ *)
(* chartjs-plugin-zoom.js), for one linear axis: the listeners and timers of  *)
(* the gestures, the range the axis is given, and what a reset goes back to.  *)
(* Pixels and values have the same size here.                                 *)
EXTENDS Integers, FiniteSets, FiniteSetsExt

CONSTANTS Wide,             \* an axis from -Wide to Wide, or
          Narrow, MinRange, \* from 0 to Narrow, at least MinRange long
          DataStarts, DataSpan, \* ranges that the data gives an axis without options
          MaxGestures, Far

ASSUME ZoomAssumption ==
  /\ Wide \in Nat /\ Narrow \in Nat /\ MinRange \in 0 .. Narrow /\ 4 <= Wide /\ 4 <= Narrow
  /\ DataStarts \subseteq Int /\ DataSpan \in Nat /\ MaxGestures \in Nat /\ Far \notin -1 .. 1

AxisLimits == {[min |-> -Wide, max |-> Wide, minRange |-> 0],
               [min |-> 0, max |-> Narrow, minRange |-> MinRange]}
DataRanges == {[min |-> start, max |-> start + DataSpan] : start \in DataStarts}
None == [min |-> 1, max |-> 0]          \* no range set
NoOriginal == [scale |-> None, options |-> None]
Types == {"wheel", "mousedown", "mouseup", "mousemove"}

VARIABLES limits, dataRange,
          options,          \* the range set on the axis, or None
          initialRange, updated,    \* originalScaleLimits, updatedScaleLimits
          panDelta,         \* the delta kept for the next pan
          listeners,        \* how many listeners of each type
          dragStart, dragMoved, dragging, dragTimers,
          panAt,            \* the last position of a pan, or Far
          panning, panTimer,
          gestures, running
zoomVars == <<limits, dataRange, options, initialRange, updated, panDelta, listeners, dragStart,
              dragMoved, dragging, dragTimers, panAt, panning, panTimer, gestures, running>>
drag == <<dragStart, dragMoved, dragging, dragTimers>>
pan == <<panAt, panning, panTimer, panDelta>>
axisOf == <<options, initialRange, updated>>

(* start, and the first update.                                               *)
ZoomInit ==
  /\ limits \in AxisLimits /\ dataRange \in DataRanges
  /\ options = None /\ initialRange = NoOriginal /\ updated = None /\ panDelta = 0
  /\ listeners = [t \in Types |-> IF t = "mousemove" THEN 0 ELSE 1]
  /\ dragStart = FALSE /\ dragMoved = FALSE /\ dragging = FALSE /\ dragTimers = 0
  /\ panAt = Far /\ panning = FALSE /\ panTimer = FALSE
  /\ gestures = 0 /\ running = TRUE

Scale == IF options = None THEN dataRange ELSE options
Span(r) == r.max - r.min
----------------------------------------------------------------------------
(* addHandler replaces the listener of its type; addListeners does so with    *)
(* every update of the chart.                                                 *)
BugAddOnly(l, t) == [l EXCEPT ![t] = @ + 1]
Listening(l, t) == [l EXCEPT ![t] = 1]
Dropped(l, t) == [l EXCEPT ![t] = 0]
Relisten(l) == Listening(Listening(Listening(l, "wheel"), "mousedown"), "mouseup")

(* updateRange.                                                               *)
UpdatedRange(r, zoomed) ==
  LET cmin == Max({r.min, limits.min})
      cmax == Min({r.max, limits.max})
      range == IF zoomed THEN Max({cmax - cmin, limits.minRange}) ELSE Span(Scale)
      offset == (range - cmax + cmin) \div 2
  IN CASE cmax - cmin = range -> [min |-> cmin, max |-> cmax]
       [] cmax - cmin # range /\ limits.min > cmax - range -> [min |-> cmin, max |-> cmin + range]
       [] cmax - cmin # range /\ limits.min <= cmax - range /\ limits.max < cmin + range ->
            [min |-> cmax - range, max |-> cmax]
       [] OTHER -> [min |-> cmin - offset, max |-> cmax + offset]

(* storeOriginalScaleLimits: anew when the options are not those of the last  *)
(* update, that is when someone else set them.                                *)
ShouldUpdate == initialRange = NoOriginal \/ updated = None \/ updated # options
StoredOriginal == IF ShouldUpdate THEN [scale |-> Scale, options |-> options] ELSE initialRange
Give(r, zoomed) ==
  /\ initialRange' = StoredOriginal
  /\ options' = UpdatedRange(r, zoomed) /\ updated' = options'

(* A wheel turn, zoomNumericalScale: half the range at k/2 of it, or double.  *)
ZoomedBy(new, k) ==
  [min |-> Scale.min + (new * k) \div 2, max |-> Scale.max - (new * (2 - k)) \div 2]
Gesture == running /\ gestures < MaxGestures /\ gestures' = gestures + 1
Wheel(new, k) ==
  /\ Gesture
  /\ Give(ZoomedBy(new, k), TRUE)
  /\ listeners' = Relisten(listeners)
  /\ UNCHANGED <<limits, dataRange, drag, pan, running>>
WheelIn(k) == Span(Scale) % 4 = 0 /\ Span(Scale) > 4 /\ Wheel(Span(Scale) \div 2, k)
WheelOut(k) == Span(Scale) % 2 = 0 /\ Wheel(-Span(Scale), k)

(* mouseDown (with the zoom key and without the pan key), mouseMove, mouseUp. *)
MouseDown ==
  /\ Gesture
  /\ dragStart' = TRUE
  /\ listeners' = Listening(listeners, "mousemove")
  /\ UNCHANGED <<limits, dataRange, axisOf, pan, dragMoved, dragging, dragTimers, running>>
MouseMove ==
  /\ listeners["mousemove"] > 0 /\ dragStart
  /\ dragMoved' = TRUE /\ dragging' = TRUE
  /\ listeners' = Relisten(listeners)
  /\ UNCHANGED <<limits, dataRange, axisOf, pan, dragStart, dragTimers, gestures, running>>
Released(l) == Dropped(l, "mousemove")
MouseUp(r) ==
  /\ listeners["mouseup"] > 0 /\ dragStart
  /\ dragStart' = FALSE /\ dragMoved' = FALSE
  /\ listeners' = Relisten(Released(listeners))
  /\ IF r = None \* no distance
     THEN dragging' = FALSE /\ UNCHANGED <<dragTimers, axisOf>>
     ELSE dragTimers' = dragTimers + 1 /\ Give(r, TRUE) /\ UNCHANGED dragging
  /\ UNCHANGED <<limits, dataRange, pan, gestures, running>>
DragTimeout ==
  /\ dragTimers > 0
  /\ dragTimers' = dragTimers - 1 /\ dragging' = FALSE
  /\ UNCHANGED <<limits, dataRange, axisOf, pan, listeners, dragStart, dragMoved, gestures, running>>

(* panScale: a delta that did not change the scale is kept and added to the   *)
(* next one.  doUpdateRange returns nothing, so every delta counts as that.   *)
SameSign(a, b) == (a > 0) = (b > 0) /\ (a < 0) = (b < 0)
PanSum(d) == IF SameSign(panDelta, d) THEN d + panDelta ELSE d
PanBy(d) ==
  IF d = 0 THEN UNCHANGED <<panDelta, axisOf>>
  ELSE /\ panDelta' = PanSum(d)
       /\ Give([min |-> Scale.min - PanSum(d), max |-> Scale.max - PanSum(d)], FALSE)

(* startPan, handlePan, endPan.                                               *)
TimerCleared == FALSE
StartPan(e) ==
  /\ Gesture /\ panAt = Far
  /\ panAt' = e /\ panning' = TRUE /\ panTimer' = TimerCleared
  /\ PanBy(e)
  /\ listeners' = Relisten(listeners)
  /\ UNCHANGED <<limits, dataRange, drag, running>>
MovePan(e) ==
  /\ Gesture /\ panAt # Far /\ e # panAt
  /\ panAt' = e /\ panning' = TRUE
  /\ PanBy(e - panAt)
  /\ listeners' = Relisten(listeners)
  /\ UNCHANGED <<limits, dataRange, drag, panTimer, running>>
EndPan ==
  /\ panAt # Far
  /\ panAt' = Far /\ panTimer' = TRUE
  /\ UNCHANGED <<limits, dataRange, axisOf, drag, listeners, panning, panDelta, gestures, running>>
PanTimeout ==
  /\ panTimer /\ panTimer' = FALSE /\ panning' = FALSE
  /\ UNCHANGED <<limits, dataRange, axisOf, drag, listeners, panAt, panDelta, gestures, running>>

(* resetZoom goes back to the options found at first.                         *)
ResetRange ==
  /\ Gesture
  /\ initialRange' = StoredOriginal /\ options' = StoredOriginal.options
  /\ listeners' = Relisten(listeners)
  /\ UNCHANGED <<limits, dataRange, updated, drag, pan, running>>
NewData(r) ==
  /\ running /\ r # dataRange /\ dataRange' = r /\ listeners' = Relisten(listeners)
  /\ UNCHANGED <<limits, axisOf, drag, pan, gestures, running>>
(* stop: the state is forgotten, timers still run.                            *)
AllDropped == [t \in Types |-> 0]
StopZoom ==
  /\ running /\ running' = FALSE /\ listeners' = AllDropped
  /\ initialRange' = NoOriginal /\ updated' = None /\ panDelta' = 0
  /\ dragStart' = FALSE /\ dragMoved' = FALSE /\ panAt' = Far
  /\ UNCHANGED <<limits, dataRange, options, dragging, dragTimers, panning, panTimer, gestures>>

Rects == {None, [min |-> 2, max |-> 4]}
ZoomNext ==
  \/ \E k \in 0 .. 2 : WheelIn(k) \/ WheelOut(k)
  \/ MouseDown \/ MouseMove \/ DragTimeout \/ \E r \in Rects : MouseUp(r)
  \/ \E e \in {-1, 0, 1} : StartPan(e) \/ MovePan(e)
  \/ EndPan \/ PanTimeout \/ ResetRange \/ StopZoom
  \/ \E r \in DataRanges : NewData(r)
ZoomSpec == ZoomInit /\ [][ZoomNext]_zoomVars
----------------------------------------------------------------------------
ZoomTypeOK ==
  /\ options = None \/ options.min <= options.max
  /\ dragTimers \in 0 .. MaxGestures
  /\ {dragStart, dragMoved, dragging, panning, panTimer, running} \subseteq BOOLEAN

(* However often the chart is updated there is one listener of each type, one *)
(* for moves exactly during a drag, and none once the chart is stopped        *)
(* (addHandler, removeHandler, addListeners, removeListeners).                *)
HandlersOnce ==
  IF ~running THEN \A t \in Types : listeners[t] = 0
  ELSE /\ \A t \in Types \ {"mousemove"} : listeners[t] = 1
       /\ listeners["mousemove"] = IF dragStart THEN 1 ELSE 0

(* The timeout of one pan never ends the next one: while the pointer pans,    *)
(* the chart handles no other event (startPan, endPan, beforeEvent).          *)
PanningHeld == panAt # Far => panning

(* A reset brings the axis back to the range of its data, whatever zooms,     *)
(* pans and new data came before it (storeOriginalScaleLimits, resetZoom).    *)
ResetFitsData == [][ResetRange => options' = None]_zoomVars

(* The value under the pointer stays where it is while the wheel turns, where *)
(* no limit is met (zoomDelta, zoomNumericalScale).                           *)
WheelKeepsPoint ==
  [][gestures' # gestures => \A k \in 0 .. 2 :
       (WheelIn(k) \/ WheelOut(k)) /\ options'.min > limits.min /\ options'.max < limits.max
         /\ Span(options') > limits.minRange
       => 2 * options'.min + k * Span(options') = 2 * Scale.min + k * Span(Scale)]_zoomVars

(* An axis that has limits and starts within them stays within, and a pan     *)
(* never changes how much it shows (updateRange).                             *)
Within(r) == limits.min <= r.min /\ r.max <= limits.max
StaysWithin ==
  [][options' # options /\ options' # None /\ Within(Scale) /\ Span(Scale) >= limits.minRange =>
       Within(options') /\ (panAt' # Far /\ gestures' # gestures /\ panDelta' # panDelta
                              => Span(options') = Span(Scale))]_zoomVars

(* However its gestures follow each other, a chart hears each of them once    *)
(* and by itself, and zooms, pans and resets the axis as it should (the zoom  *)
(* plugin).                                                                   *)
GesturesSafe ==
  /\ [](ZoomTypeOK /\ HandlersOnce /\ PanningHeld)
  /\ ResetFitsData /\ WheelKeepsPoint /\ StaysWithin

(* A pan moves the axis by what the pointer moved.  The comment at the delta   *)
(* that panScale keeps says it is that "where scale did not change".          *)
PanFollowsPointer ==
  [][panAt # Far /\ panAt' \notin {Far, panAt} /\ Within(UpdatedRange(Scale, FALSE))
       => options'.min = Scale.min - (panAt' - panAt) \/ ~Within([min |-> options'.min - 1, max |-> options'.max + 1])]_zoomVars
=============================================================================
