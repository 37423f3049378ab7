------------------------------ MODULE ChannelRows ------------------------------
(* The rows of the channel table (vue-support/channel.js): the colour of a    *)
(* value against its bounds, the rows that are hidden, and clearing.  Reports *)
(* come with each poll; performance.js keeps the delays it saw in a window.   *)
EXTENDS Integers, Sequences, SequencesExt, FiniteSets, FiniteSetsExt

CONSTANTS RowChannels,      \* the channels, numbers, in the order of the dictionary
          RowValues, RowBounds,     \* values; the bounds to try, or NoBound
          NoBound, NoValue,         \* null
          WindowSize, MaxDelay, MaxReadings

ASSUME RowsAssumption == WindowSize \in Nat \ {0} /\ MaxDelay \in Nat /\ MaxReadings \in Nat

Levels == <<"fatal", "warn-hi", "warn-lo">>     \* red, orange, yellow

VARIABLES bounds,       \* level -> <<low, high>>, of every channel
          channelValue, \* the datastore's map
          readings,     \* ResponsiveChecker.last
          seenReadings  \* ghost
rowVars == <<bounds, channelValue, readings, seenReadings>>
----------------------------------------------------------------------------
(* calculateRowStyle.                                                         *)
Outside(v, b) == \/ b[1] # NoBound /\ ~(b[1] <= v)
                 \/ b[2] # NoBound /\ ~(v <= b[2])
RowStyle(v) ==
  IF v = NoValue \/ (\A l \in DOMAIN bounds : bounds[l] = <<NoBound, NoBound>>) THEN "plain"
  ELSE LET from[k \in 1 .. Len(Levels) + 1] ==
             IF k > Len(Levels) THEN "success"
             ELSE IF Outside(v, bounds[Levels[k]]) THEN Levels[k] ELSE from[k + 1]
       IN from[1]

(* channelHider: reduce starts from the first channel itself, whose value is  *)
(* therefore not looked at.                                                   *)
First == Min(RowChannels)
AllNull == \A c \in RowChannels \ {First} : channelValue[c] = NoValue
Hider(c) == ~AllNull /\ channelValue[c] = NoValue

(* clearChannels, and a poll that brings a value.                             *)
RowsInit ==
  /\ bounds \in [ToSet(Levels) -> RowBounds \X RowBounds]
  /\ channelValue = [c \in RowChannels |-> NoValue]
  /\ readings = <<>> /\ seenReadings = <<>>
Report(c, v) ==
  /\ channelValue' = [channelValue EXCEPT ![c] = v] /\ channelValue' # channelValue
  /\ UNCHANGED <<bounds, readings, seenReadings>>
ClearChannels ==
  /\ channelValue' = [c \in RowChannels |-> NoValue] /\ channelValue' # channelValue
  /\ UNCHANGED <<bounds, readings, seenReadings>>

(* ResponsiveChecker.checker: the first reading is the resolution too small;  *)
(* a negative count removes nothing.                                          *)
BugKeepOldest(s) == IF Len(s) > WindowSize THEN SubSeq(s, 1, WindowSize) ELSE s
Windowed(s) == IF Len(s) > WindowSize THEN SubSeq(s, Len(s) - WindowSize + 1, Len(s)) ELSE s
Checker(delay) ==
  /\ Len(seenReadings) < MaxReadings
  /\ readings' = Windowed(Append(readings, delay))
  /\ seenReadings' = Append(seenReadings, delay)
  /\ UNCHANGED <<bounds, channelValue>>
Responsiveness == Max(ToSet(readings))

RowsNext ==
  \/ readings = <<>> /\ \/ \E c \in RowChannels, v \in RowValues : Report(c, v)
                        \/ ClearChannels
  \/ (\A c \in RowChannels : channelValue[c] = NoValue) /\ \E d \in 0 .. MaxDelay : Checker(d)
RowsSpec == RowsInit /\ [][RowsNext]_rowVars
----------------------------------------------------------------------------
(* A row has the colour of the worst bound its value crosses, whatever the    *)
(* bounds of the levels are to each other, and is never green beyond one      *)
(* (calculateRowStyle).                                                       *)
WorstShown ==
  \A c \in RowChannels :
    LET v == channelValue[c]
        worst == {k \in DOMAIN Levels : v # NoValue /\ Outside(v, bounds[Levels[k]])}
    IN IF worst = {} THEN RowStyle(v) \in {"plain", "success"} ELSE RowStyle(v) = Levels[Min(worst)]

(* A channel with a value is never hidden, and none while all are without one *)
(* (channelHider).                                                            *)
ShownWithValue ==
  /\ \A c \in RowChannels : channelValue[c] # NoValue => ~Hider(c)
  /\ (\A c \in RowChannels : channelValue[c] = NoValue) => \A c \in RowChannels : ~Hider(c)

(* The metric is the largest of the last readings (responsiveness).           *)
WorstDelayKept ==
  readings # <<>> =>
    \A k \in DOMAIN seenReadings :
      k > Len(seenReadings) - WindowSize => seenReadings[k] <= Responsiveness

(* What the rows and the metric show is what was reported and measured.       *)
RowsShown == WorstShown /\ ShownWithValue /\ WorstDelayKept
=============================================================================
