------------------------------ MODULE ChartPanel ------------------------------
(* The charts page (addons/chart-display): wrappers, each with a component    *)
(* that builds and destroys a Chart.js chart, the charts' registration with   *)
(* the channels' data store, and the set of siblings whose time axes are      *)
(* locked together.  A window stands for what a time axis shows, relative to  *)
(* the moment: the axis of a realtime chart keeps it and scrolls, that of an  *)
(* anchored or a paused one stands still and falls behind by a frame at a     *)
(* time.  An anchored axis that was not zoomed fits its data, whose extent is *)
(* any window.  Charts are numbered in the order they are built.              *)
EXTENDS Integers, Sequences, SequencesExt, FiniteSets

CONSTANTS ChartChannels, NoChannel,
          Windows, DefaultWindow,
          Older(_),               \* a window that stood still for a frame
          MaxWrappers, MaxBuilt, MaxSamples, MaxFailures    \* bounds of a run

ASSUME ChartAssumption ==
  /\ NoChannel \notin ChartChannels /\ DefaultWindow \in Windows
  /\ \A w \in Windows : Older(w) \in Windows
  /\ MaxWrappers \in Nat \ {0} /\ MaxBuilt \in Nat /\ MaxSamples \in Nat /\ MaxFailures \in Nat

Wrappers == 0 .. MaxWrappers - 1
NoChart == 0                           \* a chart whose construction failed
Idle == [mode |-> "realtime", pause |-> FALSE, old |-> NoChannel, chart |-> NoChart]

VARIABLES wrappers,                 \* <<id, selected>>, as on the page
          wrapperCounter,
          component,                \* of each wrapper
          charts,                   \* the charts built, live or not
          channelConsumers,         \* the data store's list
          siblings, inSync,
          samples                   \* the channel of each sample that came
VARIABLES failures,                 \* ghost: components whose chart failed to build
          behind                    \* ghost: charts yet to be aligned since they
                                    \* joined, the lock was set, the prime changed or
                                    \* an axis moved by itself
chartVars == <<wrappers, wrapperCounter, component, charts, channelConsumers, siblings, inSync,
               samples, failures, behind>>

ChartInit ==
  /\ wrappers = <<[id |-> 0, selected |-> NoChannel]>> /\ wrapperCounter = 1
  /\ component = [id \in Wrappers |-> Idle]
  /\ charts = <<>> /\ channelConsumers = <<>> /\ siblings = <<>> /\ inSync = FALSE
  /\ samples = <<>> /\ failures = {} /\ behind = {}

Live == {c \in DOMAIN charts : charts[c].live}
Selected(id) == (CHOOSE w \in ToSet(wrappers) : w.id = id).selected
OnPage == {w.id : w \in ToSet(wrappers)}
Prime(s) == IF s = <<>> THEN NoChart ELSE s[1]
----------------------------------------------------------------------------
(* destroy and registerChart.  A build that throws leaves the component       *)
(* registered without a chart, and null among the siblings.                   *)
Spliced(s, places) ==     \* splice, at the first of some places
  IF places = {} THEN s ELSE RemoveAt(s, CHOOSE i \in places : \A j \in places : i <= j)
Without(id) == Spliced(siblings, {i \in DOMAIN siblings : siblings[i] = component[id].chart})
BugKeepConsumer(id) == channelConsumers
Deregistered(id) == Spliced(channelConsumers, {i \in DOMAIN channelConsumers : channelConsumers[i] = id})
HasChart(id) == component[id].chart # NoChart
ConsumersWithout(id) == IF HasChart(id) THEN Deregistered(id) ELSE channelConsumers
SiblingsWithout(id) == IF HasChart(id) THEN Without(id) ELSE siblings
Gone == [owner |-> 0, live |-> FALSE, channel |-> NoChannel, pause |-> FALSE, points |-> <<>>,
         since |-> 0, window |-> DefaultWindow, auto |-> FALSE, scale |-> "realtime"]
ChartsWithout(id) == [c \in DOMAIN charts |->
   IF HasChart(id) /\ c = component[id].chart THEN Gone ELSE charts[c]]

Added(s, c) == IF c \in ToSet(s) THEN s ELSE Append(s, c)
NewChart(id, channel, mode, w) ==
  [owner |-> id, live |-> TRUE, channel |-> channel, pause |-> FALSE, points |-> <<>>,
   since |-> Len(samples), window |-> w, auto |-> mode = "anchored",
   scale |-> IF mode = "anchored" THEN "time" ELSE "realtime"]
FirstWindows(mode) == IF mode = "anchored" THEN Windows ELSE {DefaultWindow}
Destroyed(id) == <<ChartsWithout(id), ConsumersWithout(id), SiblingsWithout(id)>>

(* A change of the prime leaves everyone to be aligned anew.                  *)
BehindAfter(s, joined) == IF Prime(s) = Prime(siblings) THEN behind \cup joined ELSE Live \cup joined

RegisterChart(id, channel, mode, old) ==
  LET left == Destroyed(id)
      c == Len(charts) + 1
  IN /\ Len(charts) < MaxBuilt
     /\ channelConsumers' = Append(left[2], id)
     /\ \/ /\ \E w \in FirstWindows(mode) : charts' = Append(left[1], NewChart(id, channel, mode, w))
           /\ siblings' = Added(left[3], c)
           /\ component' = [component EXCEPT ![id].chart = c, ![id].mode = mode, ![id].old = old]
           /\ behind' = BehindAfter(siblings', {c})
           /\ UNCHANGED failures
        \/ /\ Cardinality(failures) < MaxFailures
           /\ charts' = left[1]
           /\ siblings' = Added(left[3], NoChart)
           /\ component' = [component EXCEPT ![id].chart = NoChart, ![id].mode = mode, ![id].old = old]
           /\ behind' = BehindAfter(siblings', {})
           /\ failures' = failures \cup {id}

(* updateSelected: the component remembers what was chosen in it.             *)
UpdateSelected(id, channel) ==
  /\ id \in OnPage /\ channel # component[id].old
  /\ wrappers' = [i \in DOMAIN wrappers |->
                    IF wrappers[i].id = id THEN [wrappers[i] EXCEPT !.selected = channel] ELSE wrappers[i]]
  /\ RegisterChart(id, channel, component[id].mode, channel)
  /\ UNCHANGED <<wrapperCounter, inSync, samples>>
TimeModeChange(id, mode) ==
  /\ id \in OnPage /\ mode # component[id].mode
  /\ IF HasChart(id) /\ Selected(id) # NoChannel
     THEN RegisterChart(id, Selected(id), mode, component[id].old)
     ELSE /\ component' = [component EXCEPT ![id].mode = mode]
          /\ UNCHANGED <<charts, channelConsumers, siblings, failures, behind>>
  /\ UNCHANGED <<wrappers, wrapperCounter, inSync, samples>>

(* addChart, and loadCharts of a file that names one channel: a trailing      *)
(* wrapper without a channel gives way to it, and the new one has a chart as  *)
(* soon as it is mounted.                                                     *)
AddChart ==
  /\ wrapperCounter < MaxWrappers
  /\ wrappers' = Append(wrappers, [id |-> wrapperCounter, selected |-> NoChannel])
  /\ wrapperCounter' = wrapperCounter + 1
  /\ UNCHANGED <<component, charts, channelConsumers, siblings, inSync, samples, failures, behind>>
WithoutBlank == IF wrappers # <<>> /\ Last(wrappers).selected = NoChannel THEN Front(wrappers)
                ELSE wrappers
LoadCharts(channel) ==
  /\ wrapperCounter < MaxWrappers
  /\ wrappers' = Append(WithoutBlank, [id |-> wrapperCounter, selected |-> channel])
  /\ wrapperCounter' = wrapperCounter + 1
  /\ RegisterChart(wrapperCounter, channel, "realtime", NoChannel)
  /\ UNCHANGED <<inSync, samples>>

(* emitDeleteChart, then deleteChart of the wrapper.                          *)
DeleteChart(id) ==
  /\ id \in OnPage
  /\ charts' = Destroyed(id)[1] /\ channelConsumers' = Destroyed(id)[2] /\ siblings' = Destroyed(id)[3]
  /\ component' = [component EXCEPT ![id] = Idle]
  /\ wrappers' = Spliced(wrappers, {i \in DOMAIN wrappers : wrappers[i].id = id})
  /\ behind' = BehindAfter(siblings', {})
  /\ UNCHANGED <<wrapperCounter, inSync, samples, failures>>
----------------------------------------------------------------------------
(* Axes that move by themselves.                                              *)
Anchored(c) == charts[c].scale = "time"
Still == {c \in Live : Anchored(c) \/ charts[c].pause}
AnyWindow(loose) ==     \* the windows, when some charts may come to show any other
  {f \in [DOMAIN charts -> Windows] : \A c \in DOMAIN charts \ loose : f[c] = charts[c].window}
Apart(moved) == behind \cup (IF Prime(siblings) \in moved THEN Live ELSE moved)

(* A frame: the window of a chart that stands still is further back.          *)
Scroll ==
  /\ charts' = [c \in DOMAIN charts |->
       IF c \in Still THEN [charts[c] EXCEPT !.window = Older(charts[c].window)] ELSE charts[c]]
  /\ behind' = behind \cup (IF Prime(siblings) \in Still THEN Live \ Still ELSE Still)
  /\ UNCHANGED <<wrappers, wrapperCounter, component, channelConsumers, siblings, inSync, samples, failures>>

(* HistoryHelper.update and send: every registration gets the sample, and an  *)
(* axis that fits its data follows it.                                        *)
Charted(c, channel) == charts[c].channel = channel
TimesGiven(c) == Cardinality({i \in DOMAIN channelConsumers : channelConsumers[i] = charts[c].owner})
Given(channel) == {c \in Live : component[charts[c].owner].chart = c /\ Charted(c, channel)}
Sample(channel) ==
  LET refit == {c \in Given(channel) : charts[c].auto}
  IN /\ Len(samples) < MaxSamples
     /\ samples' = Append(samples, channel)
     /\ \E f \in AnyWindow(refit) : charts' = [c \in DOMAIN charts |->
          IF c \in Given(channel)
          THEN [charts[c] EXCEPT !.points = @ \o [i \in 1 .. TimesGiven(c) |-> Len(samples')], !.window = f[c]]
          ELSE charts[c]]
     /\ behind' = Apart(refit)
     /\ UNCHANGED <<wrappers, wrapperCounter, component, channelConsumers, siblings, inSync, failures>>
----------------------------------------------------------------------------
(* The siblings.  A walk over them ends at the first one it throws on: null,  *)
(* or for a pause one whose axis has no realtime options.                     *)
Walk(throwing) ==
  LET bad == {i \in DOMAIN siblings : siblings[i] = NoChart \/ siblings[i] \in throwing}
  IN {siblings[i] : i \in {k \in DOMAIN siblings : \A b \in bad : k < b}}
(* zoomScale of each chart; an axis that fits its data no longer does.        *)
SetWindow(cs, w) == [c \in DOMAIN charts |->
  IF c \in cs THEN [charts[c] EXCEPT !.window = w, !.auto = FALSE] ELSE charts[c]]

ToggleSiblings ==
  /\ inSync' = ~inSync
  /\ behind' = IF inSync' THEN Live ELSE behind
  /\ UNCHANGED <<wrappers, wrapperCounter, component, charts, channelConsumers, siblings, samples, failures>>

(* The user zooms or pans one chart: onZoom and onPan are syncToAll.          *)
SyncedToAll == Walk({})
ZoomChart(c, w) ==
  /\ c \in Live
  /\ charts' = SetWindow({c} \cup (IF inSync THEN SyncedToAll ELSE {}), w)
  /\ behind' = IF inSync THEN (behind \cup Live) \ ({c} \cup Walk({})) ELSE behind
  /\ UNCHANGED <<wrappers, wrapperCounter, component, channelConsumers, siblings, inSync, samples, failures>>

(* The refresh timer of a realtime chart: onRefresh is sync.                  *)
Refreshed(c) ==
  /\ c \in Live /\ ~Anchored(c) /\ inSync /\ Prime(siblings) # NoChart
  /\ charts' = SetWindow({c}, charts[Prime(siblings)].window)
  /\ behind' = behind \ {c}
  /\ UNCHANGED <<wrappers, wrapperCounter, component, channelConsumers, siblings, inSync, samples, failures>>

(* A running chart goes back to its first window, an anchored one to its      *)
(* data, a paused one to the first window at the moment it was paused.        *)
ResetZoom(id) ==
  LET reset == {component[id].chart} \cup (IF inSync THEN Walk({}) ELSE {})
      running == reset \ Still
      aligned == IF Prime(siblings) \in running THEN running ELSE {}
  IN /\ id \in OnPage /\ HasChart(id)
     /\ \E f \in AnyWindow(reset) :
          /\ \A c \in running : f[c] = DefaultWindow
          /\ charts' = [c \in DOMAIN charts |->
               IF c \in reset THEN [charts[c] EXCEPT !.window = f[c], !.auto = Anchored(c)] ELSE charts[c]]
     /\ behind' = IF inSync THEN (behind \cup Live) \ aligned ELSE behind
     /\ UNCHANGED <<wrappers, wrapperCounter, component, channelConsumers, siblings, inSync, samples, failures>>

(* toggleStreamFlow: on an anchored chart it throws at once.  A chart that    *)
(* runs again catches up with the moment.                                     *)
ToggleStream(id) ==
  LET own == component[id].chart
      flag == ~charts[own].pause
      toggled == {own} \cup (IF inSync THEN Walk({c \in DOMAIN charts : Anchored(c)}) ELSE {})
      resumed == {c \in toggled : charts[c].pause /\ ~flag}
  IN /\ id \in OnPage /\ HasChart(id) /\ ~Anchored(own)
     /\ \E f \in AnyWindow(resumed) : charts' = [c \in DOMAIN charts |->
          IF c \in toggled THEN [charts[c] EXCEPT !.pause = flag, !.window = f[c]] ELSE charts[c]]
     /\ component' = [component EXCEPT ![id].pause = flag]
     /\ behind' = Apart(resumed)
     /\ UNCHANGED <<wrappers, wrapperCounter, channelConsumers, siblings, inSync, samples, failures>>

PageNext ==
  \/ AddChart \/ ToggleSiblings
  \/ \E channel \in ChartChannels : LoadCharts(channel)
  \/ \E id \in Wrappers :
       \/ DeleteChart(id)
       \/ \E channel \in ChartChannels : UpdateSelected(id, channel)
       \/ \E mode \in {"realtime", "anchored"} : TimeModeChange(id, mode)
DataNext == \E channel \in ChartChannels : Sample(channel)
AxisNext == \/ Scroll
            \/ \E id \in Wrappers : ResetZoom(id) \/ ToggleStream(id)
            \/ \E c \in DOMAIN charts : Refreshed(c) \/ \E w \in Windows : ZoomChart(c, w)
ChartSpec == ChartInit /\ [][PageNext \/ DataNext \/ AxisNext]_chartVars
----------------------------------------------------------------------------
ChartTypeOK ==
  /\ \A id \in Wrappers : component[id].chart \in {NoChart} \cup Live
  /\ \A c \in DOMAIN charts : charts[c].window \in Windows /\ charts[c].owner \in Wrappers
  /\ ToSet(siblings) \subseteq {NoChart} \cup DOMAIN charts
  /\ behind \subseteq DOMAIN charts

(* A chart that runs belongs to a component on the page, and the siblings are *)
(* exactly the charts that run (destroy, deleteChart, loadCharts): no chart   *)
(* is left behind with its timers, and no destroyed one is still aligned.     *)
ChartsOnPage ==
  /\ \A c \in Live : charts[c].owner \in OnPage /\ component[charts[c].owner].chart = c
  /\ Live = ToSet(siblings) \ {NoChart}

(* A chart shows every sample of its channel since it was built, once and in  *)
(* order, unless an earlier chart of its component failed to build.           *)
PointsOnce ==
  \A c \in Live : charts[c].owner \notin failures =>
    LET shown == charts[c].points
    IN /\ {shown[k] : k \in DOMAIN shown} =
             {i \in DOMAIN samples : i > charts[c].since /\ samples[i] = charts[c].channel}
       /\ \A k, l \in DOMAIN shown : k < l => shown[k] < shown[l]

(* While the time axes are locked every chart that had a refresh or a zoom    *)
(* since it joined, since the lock or since the prime changed shows the       *)
(* window of the prime (syncToAll, sync), as long as neither moves by itself: *)
(* an anchored chart stands still while a running prime scrolls on, and fits  *)
(* its data again when it is reset.  A chart that failed to build keeps the   *)
(* others from being aligned, and is excepted.                                *)
LockedTogether ==
  inSync /\ NoChart \notin ToSet(siblings) =>
    \A c \in Live \ behind : charts[c].window = charts[Prime(siblings)].window

(* The charts that run are those of the page, each with the samples of its    *)
(* channel, and those that are locked show the same window (registerChart,    *)
(* destroy, HistoryHelper.send, syncToAll).                                   *)
ChartsShown == ChartTypeOK /\ ChartsOnPage /\ PointsOnce /\ LockedTogether
=============================================================================
