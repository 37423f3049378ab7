---------------------------- MODULE StreamingScale ----------------------------
(* The time axis of a realtime chart (chart-display/modified-vendor/          *)
(* chartjs-plugin-streaming.js): its two timers, the removal of old points,   *)
(* its window and what zooming, panning, aligning and resetting do to it, and *)
(* the choice of the ticks.  Times are small numbers; the options are those   *)
(* of config.js.                                                              *)
EXTENDS Integers, Sequences, SequencesExt, FiniteSets, FiniteSetsExt

CONSTANTS MaxNow, MaxPoints, MaxZooms,    \* bounds of a run
          Ttl,                            \* age at which points go (timespan)
          MaxSpan,                        \* largest delay and duration
          InitialDuration, RefreshEvery,
          PanSteps, AlignWindows, Lateness, \* pans, windows of a leader, how late a sample is
          TickSizes, TickSteps, TickCommon, \* INTERVALS, per unit in order
          TickRanges, TickCapacities      \* what the tick layout is tried on

ASSUME ScaleAssumption ==
    /\ Ttl \in Nat \ {0} /\ MaxSpan \in Nat /\ InitialDuration \in 1 .. MaxSpan /\ RefreshEvery \in Nat \ {0}
    /\ MaxNow \in Nat /\ MaxPoints \in Nat /\ MaxZooms \in Nat
    /\ PanSteps \subseteq Int /\ Lateness \in Nat
    /\ AlignWindows \subseteq Int \X Int /\ \A w \in AlignWindows : w[1] <= w[2]

(* INTERVALS: steps in ascending order, none for the last unit only.          *)
ASSUME TickAssumption ==
    /\ TickSizes \in Seq(Nat \ {0}) /\ Len(TickSizes) >= 2
    /\ TickSteps \in Seq(Seq(Nat \ {0})) /\ Len(TickSteps) = Len(TickSizes)
    /\ TickCommon \in Seq(BOOLEAN) /\ Len(TickCommon) = Len(TickSizes)
    /\ \E u \in 1 .. Len(TickSizes) - 1 : TickCommon[u]
    /\ \A u \in 1 .. Len(TickSizes) : TickSteps[u] = <<>> <=> u = Len(TickSizes)
    /\ \A u \in 1 .. Len(TickSizes) : \A i, j \in DOMAIN TickSteps[u] :
         i < j => TickSteps[u][i] < TickSteps[u][j]
    /\ TickRanges \subseteq Nat /\ TickCapacities \subseteq Nat \ {0}

VARIABLES now,
          axis,       \* the options: duration, delay, pause
          head, top,  \* $realtime.head, scale.max
          frames,     \* a frame is requested
          refreshAt,  \* when the data timer ticks next, or Never
          interval,   \* its interval
          points,     \* times of the points of the data set
          original,   \* the options that a reset restores, once stored
          zooms
scaleVars == <<now, axis, head, top, frames, refreshAt, interval, points, original, zooms>>

Never == -1
NotStored == [duration |-> Never, delay |-> Never]
Clamp(v, low, high) == Min({Max({v, low}), high})

(* init and the first update.                                                 *)
ScaleInit ==
  /\ now = 0 /\ axis = [duration |-> InitialDuration, delay |-> 0, pause |-> FALSE]
  /\ head = 0 /\ top = 0 /\ frames = TRUE
  /\ refreshAt = 0 /\ interval = 0
  /\ points = <<>> /\ original = NotStored /\ zooms = 0
----------------------------------------------------------------------------
(* RealTimeScale.update and buildTicks, which every chart.update runs: the    *)
(* frames stop or start, and a start finds the present anew.                  *)
HeadOf(a) == IF ~a.pause /\ ~frames THEN now ELSE head
SetAxis(a) == /\ axis' = a
             /\ head' = HeadOf(a) /\ top' = HeadOf(a) - a.delay
             /\ frames' = ~a.pause

(* clean: the points before start stay; those from there on go, up to the     *)
(* first that is not too old.                                                 *)
Beyond == 2
FirstBeyond == Min({i \in DOMAIN points : points[i] >= top} \cup {Len(points) + 1})
CleanFrom == IF axis.pause THEN FirstBeyond + Beyond ELSE 1
CleanTo == Min({i \in CleanFrom .. Len(points) : points[i] > now - Ttl} \cup {Len(points) + 1})
CleanedPoints ==    \* splice, which takes nothing out beyond the end
  IF CleanFrom > Len(points) THEN points
  ELSE SubSeq(points, 1, CleanFrom - 1) \o SubSeq(points, CleanTo, Len(points))

(* The data timer: its interval is 0 until the first tick.                    *)
RefreshTick ==
  /\ refreshAt # Never /\ refreshAt <= now
  /\ points' = CleanedPoints
  /\ SetAxis(axis)
  /\ refreshAt' = now + RefreshEvery /\ interval' = RefreshEvery
  /\ UNCHANGED <<now, original, zooms>>

(* scroll, of each frame.                                                     *)
FrameTick ==
  /\ frames /\ head # now
  /\ head' = now /\ top' = now - axis.delay
  /\ UNCHANGED <<now, axis, frames, refreshAt, interval, points, original, zooms>>

PassTime ==
  /\ now < MaxNow /\ ~(refreshAt # Never /\ refreshAt <= now)
  /\ now' = now + 1
  /\ UNCHANGED <<axis, head, top, frames, refreshAt, interval, points, original, zooms>>

(* send of the chart: the sample may be late.                                 *)
PushPoint(t) ==
  /\ refreshAt # Never /\ Len(points) < MaxPoints /\ t <= now
  /\ points' = Append(points, t)
  /\ SetAxis(axis)
  /\ UNCHANGED <<now, refreshAt, interval, original, zooms>>

(* toggleStreamFlow sets the option; the next update acts on it.              *)
TogglePause ==
  /\ refreshAt # Never
  /\ axis' = [axis EXCEPT !.pause = ~@]
  /\ UNCHANGED <<now, head, top, frames, refreshAt, interval, points, original, zooms>>

(* destroy.                                                                   *)
FramesStopped == FALSE
DestroyScale ==
  /\ refreshAt # Never
  /\ frames' = FramesStopped /\ refreshAt' = Never /\ points' = <<>>
  /\ UNCHANGED <<now, axis, head, top, interval, original, zooms>>
----------------------------------------------------------------------------
(* storeOriginalScaleOptions: once, before the first change.                  *)
Stored == IF original = NotStored THEN [duration |-> axis.duration, delay |-> axis.delay] ELSE original

UserSets == refreshAt # Never /\ zooms < MaxZooms /\ zooms' = zooms + 1 /\ original' = Stored
        /\ UNCHANGED <<now, refreshAt, interval, points>>

(* zoomRealTimeScale at a point k/2 of the width from the right.              *)
ZoomDelay(new, k) == axis.delay + (k * (axis.duration - new)) \div 2
ZoomAxis(new, k) ==
  /\ UserSets
  /\ SetAxis([axis EXCEPT !.duration = Clamp(new, 0, MaxSpan),
                         !.delay = Clamp(ZoomDelay(Clamp(new, 0, MaxSpan), k), 0, MaxSpan)])
ZoomIn(k) == axis.duration % 4 = 0 /\ ZoomAxis(axis.duration \div 2, k)
ZoomOut(k) == axis.duration % 2 = 0 /\ ZoomAxis(2 * axis.duration, k)
(* panRealTimeScale.                                                          *)
PanAxis(d) == UserSets /\ SetAxis([axis EXCEPT !.delay = Clamp(@ + d, 0, MaxSpan)])
(* setRealtimeScale, without limits when a sibling aligns the scale.          *)
BugFromHead(w) == head - w[2] + axis.delay
AlignedDelay(w) == (top - w[2]) + axis.delay
Align(w) ==
  /\ UserSets
  /\ SetAxis([axis EXCEPT !.delay = AlignedDelay(w), !.duration = w[2] - w[1]])
(* resetRealTimeScaleOptions.                                                 *)
ResetAxis ==
  /\ UserSets
  /\ SetAxis([axis EXCEPT !.duration = Stored.duration, !.delay = Stored.delay])

ScaleNext ==
  \/ RefreshTick \/ FrameTick \/ PassTime \/ TogglePause \/ DestroyScale \/ ResetAxis
  \/ \E t \in Max({now - Lateness, 0}) .. now : PushPoint(t)
  \/ \E k \in 0 .. 2 : ZoomIn(k) \/ ZoomOut(k)
  \/ \E d \in PanSteps : PanAxis(d)
  \/ \E w \in AlignWindows : Align(w)
ScaleSpec == ScaleInit /\ [][ScaleNext]_scaleVars
----------------------------------------------------------------------------
(* determineUnitForAutoTicks and determineStepSize.                           *)
CeilDiv(a, b) == (a + b - 1) \div b
LastUnit == Len(TickSizes)
LargestStep(u) == Last(TickSteps[u])
FitsIn(range, u, capacity) == TickCommon[u] /\ CeilDiv(range, LargestStep(u) * TickSizes[u]) <= capacity
UnitForTicks(range, capacity) ==
  Min({u \in 1 .. LastUnit - 1 : FitsIn(range, u, capacity)} \cup {LastUnit})
StepSize(range, u, capacity) ==
  IF TickSteps[u] = <<>> THEN CeilDiv(range, capacity * TickSizes[u])
  ELSE LET fits == {k \in DOMAIN TickSteps[u] :
                      CeilDiv(range, TickSizes[u] * TickSteps[u][k]) <= capacity}
       IN TickSteps[u][Min(fits \cup {Len(TickSteps[u])})]
----------------------------------------------------------------------------
ScaleTypeOK ==
  /\ now \in 0 .. MaxNow /\ Len(points) <= MaxPoints
  /\ axis.duration \in Nat /\ axis.pause \in BOOLEAN
  /\ head <= now /\ interval \in {0, RefreshEvery}

(* A destroyed scale runs no timer, and one that lives is refreshed at least  *)
(* every RefreshEvery (destroy, startDataRefreshTimer): points cannot pile up *)
(* unseen.                                                                    *)
TimersEnd == IF refreshAt = Never THEN ~frames ELSE refreshAt <= now + RefreshEvery

(* What is paused stands still: neither samples nor refreshes move the window *)
(* once the frames have stopped (update, buildTicks).                         *)
FrozenWhilePaused ==
  [][axis.pause /\ axis'.pause /\ ~frames /\ zooms' = zooms => top' = top]_scaleVars

(* A refresh removes no point that may still be shown: only points older than *)
(* Ttl, and while the chart is paused none that lies in the window nor the    *)
(* two after it, which the line is drawn to; and nothing too old stays in a   *)
(* chart that runs.  For samples that came in order (clean).                  *)
InOrder == \A i, j \in DOMAIN points : i <= j => points[i] <= points[j]
TimesOf(s, t) == Cardinality({i \in DOMAIN s : s[i] = t})
CleansOld ==
  [][RefreshTick /\ InOrder =>
       /\ \A t \in ToSet(points) :
            TimesOf(points', t) < TimesOf(points, t) => t <= now - Ttl /\ (axis.pause => t >= top)
       /\ axis.pause => Len(points') >= Min({Len(points), FirstBeyond + 1})
       /\ ~axis.pause => \A i \in DOMAIN points' : points'[i] > now - Ttl]_scaleVars

(* The time under the cursor stays there while the user zooms, unless the     *)
(* delay or the duration meets its limit (zoomRealTimeScale), or the frames   *)
(* start again with this very update.                                         *)
ZoomKeepsCenter ==
  [][zooms' > zooms /\ head' = head => \A k \in 0 .. 2 :
       (ZoomIn(k) \/ ZoomOut(k)) /\ axis'.delay \in 1 .. MaxSpan - 1 /\ axis'.duration < MaxSpan
         => 2 * top' - k * axis'.duration = 2 * top - k * axis.duration]_scaleVars

(* A sibling that is aligned shows the very window of its leader, until its   *)
(* next frame (syncSibling, setRealtimeScale).                                *)
AlignsExactly ==
  [][zooms' > zooms /\ head' = head => \A w \in AlignWindows :
       Align(w) => top' = w[2] /\ axis'.duration = w[2] - w[1]]_scaleVars

(* A reset restores the options of config.js whatever was done to the axis    *)
(* before (storeOriginalScaleOptions).                                        *)
ResetRestores ==
  [][ResetAxis => axis' = [duration |-> InitialDuration, delay |-> 0, pause |-> axis.pause]]_scaleVars

(* The unit and the step that are chosen leave at most as many ticks as there *)
(* is room for, and no smaller step of that unit would (determineStepSize).   *)
(* They depend on the range only, and are tried once in a behaviour.          *)
TicksFit ==
  now = MaxNow /\ points = <<>> =>
    \A range \in TickRanges \cup {axis.duration}, capacity \in TickCapacities :
      LET u == UnitForTicks(range, capacity)
          step == StepSize(range, u, capacity)
      IN /\ CeilDiv(range, TickSizes[u] * step) <= capacity
         /\ \A smaller \in ToSet(TickSteps[u]) :
              smaller < step => CeilDiv(range, TickSizes[u] * smaller) > capacity

(* The axis of a chart that runs follows the time, the samples, the user and  *)
(* its siblings, and ends its timers with it (the streaming plugin).          *)
AxisFollows ==
  /\ [](ScaleTypeOK /\ TimersEnd /\ TicksFit)
  /\ FrozenWhilePaused /\ CleansOld /\ ZoomKeepsCenter /\ AlignsExactly /\ ResetRestores
=============================================================================
