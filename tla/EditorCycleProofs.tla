-------------------------- MODULE EditorCycleProofs --------------------------
(* Theorems about EditorCycle for any plugins, measure requests and bounds.   *)
EXTENDS EditorCycle, TLAPS, FiniteSetTheorems

(* Instances are numbered as they are made, so that a new one is no old one;  *)
(* no two plugins share an instance.                                          *)
Numbering ==
  /\ IsFiniteSet(Made) /\ \A id \in Made : id \in Nat /\ 0 < id /\ id <= Cardinality(Made)
  /\ DOMAIN destroyed = Made
Placing ==
  /\ config \subseteq Specs /\ DOMAIN plugins = config
  /\ \A s \in config : plugins[s] # Dummy => plugins[s] \in Made
  /\ \A s, t \in config : plugins[s] = plugins[t] /\ plugins[s] # Dummy => s = t
Telling == version \in Nat /\ \A s \in config : plugins[s] # Dummy => seen[plugins[s]] = version
Instances == Numbering /\ Placing /\ Telling /\ DestroyedOnce

CycleInv == CycleTypeOK /\ RequestsHaveFrame /\ DomReadOrDrawn /\ Instances

(* Numbers are told apart by how many of a finite set do not exceed them.     *)
LEMMA Ranks ==
  ASSUME NEW F \in SUBSET Int, IsFiniteSet(F)
  PROVE  /\ Cardinality(F) \in Nat
         /\ \A s \in F : /\ Cardinality({t \in F : t <= s}) \in Nat
                         /\ 0 < Cardinality({t \in F : t <= s})
                         /\ Cardinality({t \in F : t <= s}) <= Cardinality(F)
         /\ \A s, u \in F :
              Cardinality({t \in F : t <= s}) = Cardinality({t \in F : t <= u}) => s = u
<1> DEFINE below(s) == {t \in F : t <= s}
<1>1. \A s \in F : below(s) \in SUBSET F /\ s \in below(s)
  OBVIOUS
<1>2. \A s \in F : IsFiniteSet(below(s))
  BY <1>1, FS_Subset
<1>3. Cardinality(F) \in Nat /\ \A s \in F : Cardinality(below(s)) \in Nat
  BY <1>2, FS_CardinalityType
<1>4. \A s \in F : Cardinality(below(s)) <= Cardinality(F)
  BY <1>1, FS_Subset
<1>5. \A s \in F : Cardinality(below(s)) # 0
  BY <1>1, <1>2, FS_EmptySet
<1>6. ASSUME NEW s \in F, NEW u \in F, s < u, Cardinality(below(s)) = Cardinality(below(u))
      PROVE  FALSE
  <2>1. below(s) \in SUBSET below(u)
    <3>1. \A t \in Int : t <= s => t <= u
      BY <1>6
    <3> QED
      BY <3>1
  <2>2. below(u) = below(s)
    <3>1. IsFiniteSet(below(u))
      BY <1>2
    <3> HIDE DEF below
    <3> QED
      BY <1>6, <2>1, <3>1, FS_Subset
  <2>3. u \in below(s)
    BY <1>1, <2>2
  <2>4. u <= s
    BY <2>3
  <2> QED
    BY <1>6, <2>4
<1>7. \A s \in F : 0 < Cardinality(below(s))
  <2> HIDE DEF below
  <2> QED
    BY <1>3, <1>5
<1>8. ASSUME NEW s \in F, NEW u \in F, Cardinality(below(s)) = Cardinality(below(u))
      PROVE  s = u
  <2>1. s \in Int /\ u \in Int
    OBVIOUS
  <2>2. ~(s < u)
    BY <1>6, <1>8
  <2>3. ~(u < s)
    BY <1>6, <1>8
  <2> QED
    BY <2>1, <2>2, <2>3
<1> QED
  BY <1>3, <1>4, <1>7, <1>8

(* A set is as large as one whose elements it stands for one by one.          *)
LEMMA AsManyNumbers ==
  ASSUME NEW F, IsFiniteSet(F), NEW T, NEW f \in [F -> T],
         \A s, u \in F : f[s] = f[u] => s = u,
         \A n \in T : \E s \in F : f[s] = n
  PROVE  IsFiniteSet(T) /\ Cardinality(T) = Cardinality(F)
<1>1. f \in [F -> T]
  OBVIOUS
<1>2. f \in Surjection(F, T)
  BY <1>1 DEF Surjection
<1>3. f \in Injection(F, T)
  BY <1>1, Zenon DEF Injection, IsInjective
<1> QED
  BY <1>2, <1>3, FS_Surjection

(* The instances made for the plugins that are new: numbers not used before,  *)
(* one for each, and the numbering goes on without a gap at its end.          *)
LEMMA NewInstances ==
  ASSUME Numbering, NEW fresh \in SUBSET Specs, NEW ids,
         ids = [s \in fresh |-> Cardinality(Made) + Cardinality({t \in fresh : t <= s})],
         NEW all, all = Made \cup {ids[s] : s \in fresh}
  PROVE  /\ \A s \in fresh : ids[s] \in Nat /\ 0 < ids[s] /\ ids[s] \notin Made
         /\ \A s, u \in fresh : ids[s] = ids[u] => s = u
         /\ IsFiniteSet(all) /\ \A id \in all : id \in Nat /\ 0 < id /\ id <= Cardinality(all)
<1> DEFINE rank(s) == Cardinality({t \in fresh : t <= s})
           N == Cardinality(Made)
<1>1. fresh \in SUBSET Int /\ IsFiniteSet(fresh)
  BY CycleAssumption, FS_Subset
<1>2. /\ Cardinality(fresh) \in Nat
      /\ \A s \in fresh : rank(s) \in Nat /\ 0 < rank(s) /\ rank(s) <= Cardinality(fresh)
      /\ \A s, u \in fresh : rank(s) = rank(u) => s = u
  BY <1>1, Ranks
<1>3. IsFiniteSet(Made) /\ N \in Nat /\ \A id \in Made : id \in Nat /\ 0 < id /\ id <= N
  BY FS_CardinalityType DEF Numbering
<1>4. DOMAIN ids = fresh /\ \A s \in fresh : ids[s] = N + rank(s)
  OBVIOUS
<1> HIDE DEF rank, N
<1>5. \A s \in fresh : ids[s] \in Nat /\ 0 < ids[s] /\ N < ids[s] /\ ids[s] <= N + Cardinality(fresh)
  BY <1>2, <1>3, <1>4
<1>6. \A s \in fresh : ids[s] \notin Made
  BY <1>3, <1>5
<1>7. \A s, u \in fresh : ids[s] = ids[u] => s = u
  <2> SUFFICES ASSUME NEW s \in fresh, NEW u \in fresh, ids[s] = ids[u] PROVE s = u
    OBVIOUS
  <2>1. rank(s) = rank(u)
    BY <1>2, <1>3, <1>4
  <2> QED
    BY <1>2, <2>1
<1> DEFINE made == {ids[s] : s \in fresh}
<1>8. IsFiniteSet(made) /\ Cardinality(made) = Cardinality(fresh)
  <2>1. ids \in [fresh -> made] /\ \A n \in made : \E s \in fresh : ids[s] = n
    OBVIOUS
  <2> HIDE DEF made
  <2> QED
    BY <1>1, <1>7, <2>1, AsManyNumbers
<1>9. Made \cap made = {} /\ all = Made \cup made
  BY <1>6
<1>10. /\ IsFiniteSet(all) /\ Cardinality(all) = N + Cardinality(fresh)
  <2>1. /\ IsFiniteSet(all)
        /\ Cardinality(all) = Cardinality(Made) + Cardinality(fresh) - Cardinality({})
    <3> HIDE DEF made
    <3>1. /\ IsFiniteSet(Made \cup made)
          /\ Cardinality(Made \cup made) =
               Cardinality(Made) + Cardinality(made) - Cardinality(Made \cap made)
      BY <1>3, <1>8, FS_Union
    <3> QED
      BY <1>8, <1>9, <3>1
  <2>2. Cardinality({}) = 0
    BY FS_EmptySet
  <2> QED
    BY <1>2, <1>3, <2>1, <2>2 DEF N
<1>11. \A id \in all : id \in Nat /\ 0 < id /\ id <= Cardinality(all)
  <2>1. ASSUME NEW id \in Made PROVE id \in Nat /\ 0 < id /\ id <= Cardinality(all)
    BY <1>2, <1>3, <1>10
  <2>2. ASSUME NEW s \in fresh PROVE ids[s] \in Nat /\ 0 < ids[s] /\ ids[s] <= Cardinality(all)
    BY <1>5, <1>10
  <2> QED
    BY <2>1, <2>2
<1> QED
  BY <1>5, <1>6, <1>7, <1>10, <1>11

(* An update, whatever specifications it brings and whichever plugins throw.  *)
LEMMA UpdateKeeps ==
  ASSUME Instances, NEW specs \in SUBSET Specs, NEW crash \in SUBSET Specs,
         UpdatePlugins(specs, crash), version' \in Nat
  PROVE  Instances'
<1> DEFINE fresh == NewSpecs(specs) \ crash
           ids == [s \in fresh |-> Cardinality(Made) + Cardinality({t \in fresh : t <= s})]
           all == Made \cup {ids[s] : s \in fresh}
           told == {plugins[s] : s \in MustUpdate(specs) \ crash}
           over == Dropped(specs) \cup Crashed(specs, crash)
<1>1. /\ config' = specs
      /\ plugins' = [s \in specs |-> IF s \in fresh THEN ids[s]
                                     ELSE IF s \in crash THEN Dummy ELSE plugins[s]]
      /\ seen' = [id \in all |-> IF id \in told \/ id \notin Made THEN version' ELSE seen[id]]
      /\ destroyed' = Count([id \in all |-> IF id \in Made THEN destroyed[id] ELSE 0], over)
  BY DEF UpdatePlugins
<1>2. fresh \in SUBSET Specs /\ fresh = {s \in specs : s \notin config /\ s \notin crash}
  BY DEF NewSpecs
<1>3. /\ \A s \in fresh : ids[s] \in Nat /\ 0 < ids[s] /\ ids[s] \notin Made
      /\ \A s, u \in fresh : ids[s] = ids[u] => s = u
      /\ IsFiniteSet(all) /\ \A id \in all : id \in Nat /\ 0 < id /\ id <= Cardinality(all)
  <2>1. Numbering
    BY DEF Instances
  <2> HIDE DEF fresh
  <2> QED
    BY <1>2, <2>1, NewInstances
<1>4. \A id : id \in all <=> id \in Made \/ \E s \in fresh : id = ids[s]
  OBVIOUS
<1>5. \A id : id \in told <=> \E s \in specs : s \in config /\ s \notin crash /\ id = plugins[s]
  BY DEF MustUpdate
<1>6. \A id : id \in over <=>
        /\ id # Dummy
        /\ \/ \E s \in config : s \notin specs /\ id = plugins[s]
           \/ \E s \in specs : s \in config /\ s \in crash /\ id = plugins[s]
  BY DEF Dropped, Crashed
<1>7. Made' = all /\ DOMAIN destroyed' = all
  BY <1>1 DEF Made, Count
<1>8. \A id \in all :
        destroyed'[id] = IF id \in over THEN (IF id \in Made THEN destroyed[id] ELSE 0) + 1
                         ELSE IF id \in Made THEN destroyed[id] ELSE 0
  BY <1>1 DEF Count
<1>9. /\ \A s \in specs : s \in fresh => plugins'[s] = ids[s]
      /\ \A s \in specs : s \notin fresh /\ s \in crash => plugins'[s] = Dummy
      /\ \A s \in specs : s \notin fresh /\ s \notin crash => plugins'[s] = plugins[s]
      /\ DOMAIN plugins' = specs
  BY <1>1
<1>10. \A id \in all : id \in told \/ id \notin Made => seen'[id] = version'
  BY <1>1
<1>11. \A s \in specs : s \in fresh <=> s \notin config /\ s \notin crash
  BY <1>2
<1> HIDE DEF fresh, ids, all, told, over
<1>12. Dummy = 0 /\ Dummy \notin all
  BY <1>3 DEF Dummy
(* A plugin's instance is new or was the plugin's before.                     *)
<1>13. ASSUME NEW s \in specs, plugins'[s] # Dummy
       PROVE  \/ s \in fresh /\ plugins'[s] = ids[s] /\ plugins'[s] \notin Made
              \/ s \in config /\ s \notin crash /\ plugins'[s] = plugins[s] /\ plugins'[s] \in Made
  <2>1. CASE s \in fresh
    BY <1>3, <1>9, <2>1
  <2>2. CASE s \notin fresh
    <3>1. s \notin crash /\ s \in config /\ plugins'[s] = plugins[s]
      BY <1>9, <1>11, <1>13, <2>2
    <3> QED
      BY <1>13, <3>1 DEF Instances, Placing
  <2> QED
    BY <2>1, <2>2
<1>14. Numbering'
  BY <1>3, <1>7 DEF Numbering
<1>15. Placing'
  <2>1. \A s \in specs : plugins'[s] # Dummy => plugins'[s] \in all
    BY <1>4, <1>13
  <2>2. ASSUME NEW s \in specs, NEW t \in specs, plugins'[s] = plugins'[t], plugins'[s] # Dummy
        PROVE  s = t
    BY <1>3, <1>13, <2>2 DEF Instances, Placing
  <2> QED
    BY <1>1, <1>7, <1>9, <2>1, <2>2 DEF Placing
<1>16. Telling'
  <2>1. ASSUME NEW s \in specs, plugins'[s] # Dummy PROVE seen'[plugins'[s]] = version'
    <3>1. plugins'[s] \in all
      BY <1>4, <1>13, <2>1
    <3>2. plugins'[s] \in told \/ plugins'[s] \notin Made
      BY <1>5, <1>13, <2>1
    <3> QED
      BY <1>10, <3>1, <3>2
  <2> QED
    BY <1>1, <2>1 DEF Telling
<1>17. DestroyedOnce'
  <2> SUFFICES ASSUME NEW id \in all
               PROVE  destroyed'[id] = IF \E s \in specs : plugins'[s] = id THEN 0 ELSE 1
    BY <1>1, <1>7 DEF DestroyedOnce
  <2>1. id # Dummy
    BY <1>12
  <2>2. CASE id \notin Made
    <3>1. PICK s \in fresh : id = ids[s]
      BY <1>4, <2>2
    <3>2. s \in specs /\ plugins'[s] = id
      BY <1>2, <1>9, <3>1
    <3>3. id \notin over
      BY <1>6, <2>2 DEF Instances, Placing
    <3>4. destroyed'[id] = 0
      BY <1>8, <2>2, <3>3
    <3> QED
      BY <3>2, <3>4
  <2>3. CASE id \in Made
    <3>1. destroyed[id] = IF \E s \in config : plugins[s] = id THEN 0 ELSE 1
      BY <2>3 DEF Instances, DestroyedOnce
    <3>2. CASE \E s \in config : plugins[s] = id
      <4>1. PICK s \in config : plugins[s] = id
        BY <3>2
      <4>2. destroyed[id] = 0 /\ \A t \in config : plugins[t] = id => t = s
        BY <2>1, <3>1, <4>1 DEF Instances, Placing
      <4>3. CASE s \in specs /\ s \notin crash
        <5>1. plugins'[s] = id
          BY <1>9, <1>11, <4>1, <4>3
        <5>2. id \notin over
          BY <1>6, <4>2, <4>3
        <5>3. destroyed'[id] = 0
          BY <1>8, <2>3, <4>2, <5>2
        <5> QED
          BY <4>3, <5>1, <5>3
      <4>4. CASE ~(s \in specs /\ s \notin crash)
        <5>1. id \in over
          BY <1>6, <2>1, <4>1, <4>4
        <5>2. destroyed'[id] = 1
          <6>1. destroyed'[id] = 0 + 1
            BY <1>8, <2>3, <4>2, <5>1
          <6> QED
            BY <6>1
        <5>3. \A t \in specs : plugins'[t] # id
          BY <1>13, <2>1, <2>3, <4>2, <4>4
        <5> QED
          BY <5>2, <5>3
      <4> QED
        BY <4>3, <4>4
    <3>3. CASE ~(\E s \in config : plugins[s] = id)
      <4>1. id \notin over
        BY <1>6, <3>3
      <4>2. destroyed'[id] = 1
        BY <1>8, <2>3, <3>1, <3>3, <4>1
      <4>3. \A t \in specs : plugins'[t] # id
        BY <1>13, <2>1, <2>3, <3>3
      <4> QED
        BY <4>2, <4>3
    <3> QED
      BY <3>2, <3>3
  <2> QED
    BY <2>2, <2>3
<1> QED
  BY <1>14, <1>15, <1>16, <1>17 DEF Instances

LEMMA InstancesSame ==
  ASSUME Instances, UNCHANGED <<version, config, plugins, seen, destroyed>>
  PROVE  Instances'
  BY DEF Instances, Numbering, Placing, Telling, DestroyedOnce, Made

LEMMA CycleInvInit == CycleInit => CycleInv
<1> SUFFICES ASSUME CycleInit PROVE CycleInv
  OBVIOUS
<1>1. DOMAIN <<>> = {}
  OBVIOUS
<1>2. Instances
  BY <1>1, FS_EmptySet
     DEF CycleInit, Instances, Numbering, Placing, Telling, DestroyedOnce, Made
<1>3. CycleTypeOK
  BY CycleAssumption DEF CycleInit, CycleTypeOK
<1> QED
  BY <1>2, <1>3 DEF CycleInv, CycleInit, RequestsHaveFrame, DomReadOrDrawn

(* An update counts on and tells every plugin; it asks for a frame unless one *)
(* is known.                                                                  *)
LEMMA UpdatedKeeps ==
  ASSUME CycleInv, NEW specs \in SUBSET Specs, NEW crash \in SUBSET Specs, NEW redrawn \in BOOLEAN,
         Updated(specs, crash, redrawn)
  PROVE  /\ Instances' /\ frames \in Nat /\ frames' \in 0 .. MaxFrames /\ frames <= frames'
         /\ scheduled' => frames' > 0
<1>1. version' = version + 1 /\ version \in Nat /\ UpdatePlugins(specs, crash)
  BY DEF Updated, CycleInv, Instances, Telling
<1>2. Instances'
  BY <1>1, UpdateKeeps DEF CycleInv
<1>3. frames \in 0 .. MaxFrames /\ (scheduled => frames > 0) /\ MaxFrames \in Nat
  BY CycleAssumption DEF CycleInv, CycleTypeOK
<1>4. /\ (redrawn /\ ~scheduled) => frames < MaxFrames
      /\ frames' = IF redrawn /\ ~scheduled THEN frames + 1 ELSE frames
      /\ scheduled' = (scheduled \/ redrawn)
  BY DEF Updated, WithFrame, AsksFrame
<1>5. CASE redrawn /\ ~scheduled
  BY <1>2, <1>3, <1>4, <1>5
<1>6. CASE ~(redrawn /\ ~scheduled)
  <2>1. frames' = frames
    BY <1>4, <1>6
  <2>2. scheduled' => scheduled
    BY <1>4, <1>6
  <2> QED
    BY <1>2, <1>3, <2>1, <2>2
<1> QED
  BY <1>5, <1>6

LEMMA CycleInvStep == CycleInv /\ [CycleNext]_cycleVars => CycleInv'
<1> SUFFICES ASSUME CycleInv, [CycleNext]_cycleVars PROVE CycleInv'
  OBVIOUS
<1> USE CycleAssumption
<1>1. /\ updateState \in {"Idle", "Measuring"} /\ round \in 0 .. MaxRounds + 2
      /\ frames \in 0 .. MaxFrames /\ (scheduled => frames > 0) /\ requests \subseteq Keys
      /\ MaxFrames \in Nat /\ MaxRounds \in Nat
  BY DEF CycleInv, CycleTypeOK
<1>2. ASSUME NEW key \in Keys, RequestMeasure(key) PROVE CycleInv'
  <2>1. /\ ~scheduled => frames < MaxFrames /\ frames' = frames + 1
        /\ scheduled => frames' = frames
        /\ scheduled' = TRUE /\ requests' = requests \cup {key}
        /\ UNCHANGED <<updateState, round, version, config, plugins, seen, destroyed, written, records>>
    BY <1>2 DEF RequestMeasure, AsksFrame, WithFrame
  <2>2. frames' \in 0 .. MaxFrames /\ frames' > 0
    BY <1>1, <2>1
  <2>3. Instances'
    BY <2>1, InstancesSame DEF CycleInv
  <2> QED
    BY <1>1, <2>1, <2>2, <2>3 DEF CycleInv, CycleTypeOK, RequestsHaveFrame, DomReadOrDrawn
<1>3. CASE Dispatch
  <2>1. PICK specs \in SUBSET Specs, crash \in SUBSET Specs, redrawn \in BOOLEAN :
           Updated(specs, crash, redrawn)
    BY <1>3 DEF Dispatch
  <2>2. /\ Instances' /\ frames \in Nat /\ frames' \in 0 .. MaxFrames /\ frames <= frames'
        /\ scheduled' => frames' > 0
    BY <2>1, UpdatedKeeps
  <2>3. UNCHANGED <<updateState, round, requests, written, records>>
    BY <1>3 DEF Dispatch
  <2>4. frames > 0 => frames' > 0
    BY <2>2
  <2> QED
    BY <1>1, <2>2, <2>3, <2>4 DEF CycleInv, CycleTypeOK, RequestsHaveFrame, DomReadOrDrawn, IsIdle
<1>4. CASE TypeInDom
  <2>1. Instances'
    BY <1>4, InstancesSame DEF CycleInv, TypeInDom
  <2> QED
    BY <1>4, <2>1 DEF CycleInv, TypeInDom, CycleTypeOK, RequestsHaveFrame, DomReadOrDrawn, IsIdle
<1>5. CASE Flush
  <2>1. /\ records' = FALSE /\ written' = FALSE /\ UNCHANGED <<updateState, round, requests>>
    BY <1>5 DEF Flush, Redrawn
  <2>2. /\ Instances' /\ frames' \in 0 .. MaxFrames /\ (scheduled' => frames' > 0)
        /\ frames > 0 => frames' > 0
    <3>1. CASE \E crash \in SUBSET Specs : Updated(config, crash, TRUE)
      <4>1. PICK crash \in SUBSET Specs : Updated(config, crash, TRUE)
        BY <3>1
      <4>2. config \in SUBSET Specs
        BY DEF CycleInv, Instances, Placing
      <4>3. /\ Instances' /\ frames \in Nat /\ frames' \in 0 .. MaxFrames /\ frames <= frames'
            /\ scheduled' => frames' > 0
        BY <4>1, <4>2, UpdatedKeeps
      <4> QED
        BY <1>1, <4>3
    <3>2. CASE UNCHANGED <<version, config, plugins, seen, destroyed, frames, scheduled>>
      <4>1. Instances'
        BY <3>2, InstancesSame DEF CycleInv
      <4> QED
        BY <1>1, <3>2, <4>1
    <3> QED
      BY <1>5, <3>1, <3>2 DEF Flush
  <2> QED
    BY <1>1, <2>1, <2>2 DEF CycleInv, CycleTypeOK, RequestsHaveFrame, DomReadOrDrawn, IsIdle
<1>6. CASE Frame \/ MeasureNow
  <2>1. /\ round' = 1 /\ updateState' = "Measuring" /\ scheduled' = FALSE
        /\ UNCHANGED <<requests, version, config, plugins, seen, destroyed, written, records>>
    BY <1>6 DEF Frame, MeasureNow, StartMeasure, OthersSame
  <2>2. frames' \in 0 .. MaxFrames
    <3>1. CASE Frame
      <4>1. CASE scheduled /\ frames' = frames - 1
        BY <1>1, <4>1
      <4>2. CASE frames > (IF scheduled THEN 1 ELSE 0) /\ frames' = frames - (IF scheduled THEN 2 ELSE 1)
        BY <1>1, <4>2
      <4> QED
        BY <3>1, <4>1, <4>2 DEF Frame
    <3>2. CASE MeasureNow
      BY <1>1, <3>2 DEF MeasureNow
    <3> QED
      BY <1>6, <3>1, <3>2
  <2>3. Instances'
    BY <2>1, InstancesSame DEF CycleInv
  <2>4. 1 \in 0 .. MaxRounds + 2
    BY <1>1
  <2> QED
    BY <1>1, <2>1, <2>2, <2>3, <2>4
       DEF CycleInv, CycleTypeOK, RequestsHaveFrame, DomReadOrDrawn, IsIdle
<1>7. CASE Settled \/ GiveUp
  <2>1. /\ round' = 0 /\ updateState' = "Idle" /\ scheduled' = FALSE /\ requests' = {}
        /\ UNCHANGED <<frames, version, config, plugins, seen, destroyed, written, records>>
    BY <1>7 DEF Settled, GiveUp, EndMeasure
  <2>2. Instances'
    BY <2>1, InstancesSame DEF CycleInv
  <2>3. 0 \in 0 .. MaxRounds + 2
    BY <1>1
  <2> QED
    BY <1>1, <2>1, <2>2, <2>3 DEF CycleInv, CycleTypeOK, RequestsHaveFrame, DomReadOrDrawn
<1>8. CASE Round
  <2>1. PICK changed \in {"none", "height", "viewport"}, again \in SUBSET Keys, crash \in SUBSET Specs :
           LET asks == again # {} /\ ~scheduled
           IN /\ requests # {} \/ changed # "none"
              /\ asks => frames < MaxFrames
              /\ requests' = again /\ frames' = WithFrame(asks)
              /\ UNCHANGED version
              /\ IF changed # "none" THEN UpdatePlugins(config, crash)
                 ELSE UNCHANGED <<config, plugins, seen, destroyed>>
              /\ IF LastRound(changed, again) THEN EndMeasure
                 ELSE /\ round' = round + 1 /\ scheduled' = (scheduled \/ asks)
                      /\ UNCHANGED updateState
    BY <1>8 DEF Round
  <2>2. updateState = "Measuring" /\ round <= MaxRounds + 1 /\ UNCHANGED <<written, records>>
    BY <1>8 DEF Round
  <2>3. Instances'
    <3>1. CASE changed # "none"
      <4>1. UpdatePlugins(config, crash) /\ version' \in Nat /\ config \in SUBSET Specs
        BY <2>1, <3>1 DEF CycleInv, Instances, Placing, Telling
      <4> QED
        BY <4>1, UpdateKeeps DEF CycleInv
    <3>2. CASE changed = "none"
      BY <2>1, <3>2, InstancesSame DEF CycleInv
    <3> QED
      BY <3>1, <3>2
  <2>4. /\ requests' = again
        /\ again # {} /\ ~scheduled => frames < MaxFrames /\ frames' = frames + 1
        /\ ~(again # {} /\ ~scheduled) => frames' = frames
    BY <2>1 DEF WithFrame
  <2>5. frames' \in 0 .. MaxFrames /\ frames <= frames' /\ (again # {} /\ ~scheduled => frames' > 0)
    BY <1>1, <2>4
  <2>6. CASE LastRound(changed, again)
    <3>1. round' = 0 /\ updateState' = "Idle" /\ scheduled' = FALSE /\ requests' = {}
      BY <2>1, <2>6 DEF EndMeasure, LastRound
    <3>2. 0 \in 0 .. MaxRounds + 2
      BY <1>1
    <3> QED
      BY <2>2, <2>3, <2>5, <3>1, <3>2 DEF CycleInv, CycleTypeOK, RequestsHaveFrame, DomReadOrDrawn
  <2>7. CASE ~LastRound(changed, again)
    <3>1. /\ round' = round + 1 /\ scheduled' = (scheduled \/ (again # {} /\ ~scheduled))
          /\ updateState' = "Measuring"
      BY <2>1, <2>2, <2>7
    <3>2. round' \in 0 .. MaxRounds + 2
      BY <1>1, <2>2, <3>1
    <3>3. scheduled' => frames' > 0
      BY <1>1, <2>4, <2>5, <3>1
    <3> QED
      BY <2>2, <2>3, <2>4, <2>5, <3>1, <3>2, <3>3
         DEF CycleInv, CycleTypeOK, RequestsHaveFrame, DomReadOrDrawn, IsIdle
  <2> QED
    BY <2>6, <2>7
<1>9. CASE UNCHANGED cycleVars
  <2>1. Instances'
    BY <1>9, InstancesSame DEF CycleInv, cycleVars
  <2> QED
    BY <1>9, <2>1 DEF CycleInv, cycleVars, CycleTypeOK, RequestsHaveFrame, DomReadOrDrawn, IsIdle
<1> QED
  BY <1>2, <1>3, <1>4, <1>5, <1>6, <1>7, <1>8, <1>9 DEF CycleNext

(* Whatever updates, typing, frames, rounds and failing plugins follow each   *)
(* other: a measurement asked for has a frame that will run it, every plugin  *)
(* that did not fail knows the state, an instance is destroyed once and only  *)
(* when nothing uses it, and typed text is read or drawn over (EditorView.    *)
(* update, EditorView.measure, PluginInstance, DOMObserver.flush).            *)
THEOREM ViewKeepsUp == CycleSpec => []ViewFollows
<1>1. CycleInv => ViewFollows
  BY DEF CycleInv, ViewFollows, Instances, Telling, PluginsTold
<1> QED
  BY <1>1, CycleInvInit, CycleInvStep, PTL DEF CycleSpec
=============================================================================
