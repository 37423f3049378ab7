----------------------------- MODULE EditorCycle -----------------------------
(* How the editor view takes updates and measures its layout (EditorView,     *)
(* PluginInstance, DOMObserver): an update runs to its end and tells every    *)
(* plugin; a measurement is a loop of rounds in an animation frame, which     *)
(* plugins and widgets ask for.  What the user types reaches the DOM first.   *)
EXTENDS Integers, Sequences, FiniteSets

CONSTANTS Specs,           \* plugin specifications
          Keys,            \* keys of measure requests
          MaxRounds,       \* the rounds after which the loop gives up (5)
          MaxVersion, MaxFrames, MaxInstances   \* bounds

ASSUME CycleAssumption ==
  /\ Specs \subseteq Int /\ IsFiniteSet(Specs)   \* numbered in the order they are made
  /\ MaxRounds \in Nat /\ MaxFrames \in Nat \ {0}

VARIABLES updateState,     \* "Idle", "Measuring" or "Updating"
          round,           \* round of the measure loop
          scheduled,       \* measureScheduled holds a frame
          frames,          \* animation frames asked of the browser and not run
          requests,        \* measureRequests
          version,         \* version of the editor state
          config,          \* plugin specifications of that state
          plugins,         \* instance of each of them, or Dummy
          seen,            \* version the instances made were last told
          destroyed,       \* how often each was destroyed
          written, records     \* the DOM holds typed text; the observer has seen it
cycleVars == <<updateState, round, scheduled, frames, requests, version, config, plugins,
               seen, destroyed, written, records>>

Dummy == 0
Made == DOMAIN seen
IsIdle == updateState = "Idle"
----------------------------------------------------------------------------
(* requestMeasure: one request of a key, one frame unless one is known.       *)
AsksFrame == ~scheduled
WithFrame(asks) == IF asks THEN frames + 1 ELSE frames
RequestMeasure(key) ==
  /\ IsIdle /\ (AsksFrame => frames < MaxFrames)
  /\ requests' = requests \cup {key}
  /\ frames' = WithFrame(AsksFrame) /\ scheduled' = TRUE
  /\ UNCHANGED <<updateState, round, version, config, plugins, seen, destroyed, written, records>>

(* PluginInstance.update and destroy.  A plugin that throws is destroyed and  *)
(* its place taken by a dummy; a plugin that cannot be made leaves a dummy.   *)
Count(f, ids) == [id \in DOMAIN f |-> IF id \in ids THEN f[id] + 1 ELSE f[id]]
NewSpecs(specs) == {s \in specs : s \notin config}
Dropped(specs) == {plugins[s] : s \in config \ specs} \ {Dummy}
Crashed(specs, crash) == {plugins[s] : s \in specs \cap config \cap crash} \ {Dummy}
BugKeptUntold(specs) == IF specs = config THEN specs ELSE {}
MustUpdate(specs) == specs \cap config
(* updatePlugins: what the state's specifications make of the instances.      *)
UpdatePlugins(specs, crash) ==
  LET fresh == NewSpecs(specs) \ crash
      ids == [s \in fresh |-> Cardinality(Made) + Cardinality({t \in fresh : t <= s})]
      all == Made \cup {ids[s] : s \in fresh}
      told == {plugins[s] : s \in MustUpdate(specs) \ crash}
  IN /\ Cardinality(all) <= MaxInstances
     /\ config' = specs
     /\ plugins' = [s \in specs |-> IF s \in fresh THEN ids[s]
                                    ELSE IF s \in crash THEN Dummy ELSE plugins[s]]
     /\ seen' = [id \in all |-> IF id \in told \/ id \notin Made THEN version' ELSE seen[id]]
     /\ destroyed' = Count([id \in all |-> IF id \in Made THEN destroyed[id] ELSE 0],
                           Dropped(specs) \cup Crashed(specs, crash))

(* update: the transaction's new state; drawing it asks for a measurement.    *)
(* Redrawing stops the observer, then clears what it had queued.              *)
Updated(specs, crash, redrawn) ==
  /\ version < MaxVersion /\ version' = version + 1
  /\ UpdatePlugins(specs, crash)
  /\ (redrawn /\ AsksFrame) => frames < MaxFrames
  /\ frames' = WithFrame(redrawn /\ AsksFrame)
  /\ scheduled' = (scheduled \/ redrawn)
Dispatch ==
  /\ IsIdle /\ ~records
  /\ \E specs \in SUBSET Specs, crash \in SUBSET Specs, redrawn \in BOOLEAN : Updated(specs, crash, redrawn)
  /\ UNCHANGED <<updateState, round, requests, written, records>>

(* The user types: the browser changes the DOM and runs the observer before   *)
(* anything else.                                                             *)
TypeInDom ==
  /\ IsIdle /\ ~records /\ records' = TRUE /\ written' = TRUE
  /\ UNCHANGED <<updateState, round, scheduled, frames, requests, version, config, plugins, seen, destroyed>>
(* flush: the text read becomes a transaction; when none comes of it (a       *)
(* handler took it, or nothing changed) the DOM is drawn from the state.      *)
Redrawn == FALSE
Flush ==
  /\ IsIdle /\ records /\ records' = FALSE /\ written' = Redrawn
  /\ \/ \E crash \in SUBSET Specs : Updated(config, crash, TRUE)
     \/ UNCHANGED <<version, config, plugins, seen, destroyed, frames, scheduled>>
  /\ UNCHANGED <<updateState, round, requests>>
----------------------------------------------------------------------------
(* measure: the known frame is cancelled, so that a call between frames (a    *)
(* scroll, readMeasured) stands for it; a frame that is forgotten still runs. *)
StartMeasure == round' = 1 /\ updateState' = "Measuring" /\ scheduled' = FALSE
OthersSame == UNCHANGED <<requests, version, config, plugins, seen, destroyed, written, records>>
Frame ==
  /\ IsIdle /\ ~records /\ frames > 0 /\ StartMeasure
  /\ \/ scheduled /\ frames' = frames - 1
     \/ frames > (IF scheduled THEN 1 ELSE 0) /\ frames' = frames - (IF scheduled THEN 2 ELSE 1)
  /\ OthersSame
MeasureNow ==
  /\ IsIdle /\ ~records /\ StartMeasure
  /\ frames' = IF scheduled THEN frames - 1 ELSE frames
  /\ OthersSame

(* One round: what was asked is read and written, and may ask again.  While   *)
(* it runs, measureScheduled is empty: a request there asks for a frame.      *)
EndMeasure == round' = 0 /\ updateState' = "Idle" /\ scheduled' = FALSE
Settled ==
  /\ updateState = "Measuring" /\ requests = {}
  /\ EndMeasure
  /\ UNCHANGED <<frames, requests, version, config, plugins, seen, destroyed, written, records>>
GiveUp ==
  /\ updateState = "Measuring" /\ round > MaxRounds + 1
  /\ requests' = {} /\ EndMeasure
  /\ UNCHANGED <<frames, version, config, plugins, seen, destroyed, written, records>>
LastRound(changed, again) == changed # "viewport" /\ again = {}
Round ==
  /\ updateState = "Measuring" /\ round <= MaxRounds + 1
  /\ \E changed \in {"none", "height", "viewport"}, again \in SUBSET Keys, crash \in SUBSET Specs :
       LET asks == again # {} /\ ~scheduled
       IN /\ requests # {} \/ changed # "none"
          /\ asks => frames < MaxFrames
          /\ requests' = again /\ frames' = WithFrame(asks)
          /\ UNCHANGED version
          /\ IF changed # "none" THEN UpdatePlugins(config, crash)
             ELSE UNCHANGED <<config, plugins, seen, destroyed>>
          /\ IF LastRound(changed, again) THEN EndMeasure
             ELSE /\ round' = round + 1 /\ scheduled' = (scheduled \/ asks)
                  /\ UNCHANGED updateState
  /\ UNCHANGED <<written, records>>
----------------------------------------------------------------------------
CycleInit ==
  /\ updateState = "Idle" /\ round = 0 /\ scheduled = TRUE /\ frames = 1 /\ requests = {}
  /\ version = 0 /\ config = {} /\ plugins = <<>> /\ seen = <<>> /\ destroyed = <<>>
  /\ written = FALSE /\ records = FALSE
CycleNext ==
  \/ \E key \in Keys : RequestMeasure(key)
  \/ Dispatch \/ TypeInDom \/ Flush \/ Frame \/ MeasureNow \/ Settled \/ GiveUp \/ Round
CycleSpec == CycleInit /\ [][CycleNext]_cycleVars
----------------------------------------------------------------------------
(* The view is idle or measuring between steps, and a frame it knows is one   *)
(* the browser still owes it.                                                 *)
CycleTypeOK ==
  /\ updateState \in {"Idle", "Measuring"} /\ round \in 0 .. MaxRounds + 2
  /\ frames \in 0 .. MaxFrames /\ (scheduled => frames > 0) /\ requests \subseteq Keys

(* A measurement asked for is never forgotten: a frame that will run it is    *)
(* due, also when it was asked for while measuring and when the loop gave up. *)
RequestsHaveFrame == IsIdle /\ requests # {} => frames > 0

(* Between updates every plugin that did not fail knows the editor's state,   *)
(* those that a reconfiguration kept included.                                *)
PluginsTold == IsIdle => \A s \in config : plugins[s] # Dummy => seen[plugins[s]] = version

(* An instance is destroyed once, when its specification is dropped or it     *)
(* fails, and never while the editor still uses it.                           *)
DestroyedOnce ==
  \A id \in Made :
    destroyed[id] = IF \E s \in config : plugins[s] = id THEN 0 ELSE 1

(* What the user typed into the DOM is still to be read, or was read and the  *)
(* DOM drawn anew: the page never shows text that the state does not hold.    *)
DomReadOrDrawn == written => records

(* Updates, measurements and the DOM: what is asked for is done, whoever is   *)
(* to be told is told, whatever fails or asks again (EditorView.update,       *)
(* EditorView.measure, PluginInstance, DOMObserver.flush).                    *)
ViewFollows == CycleTypeOK /\ RequestsHaveFrame /\ PluginsTold /\ DestroyedOnce /\ DomReadOrDrawn
=============================================================================
