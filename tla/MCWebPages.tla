----------------------------- MODULE MCWebPages ------------------------------
(* The panels of the web pages, one instance each.  They share no state: the  *)
(* panel of a behaviour is chosen at its start, and the others stay at rest.  *)
EXTENDS MCFpTable, CommandForm, PageStore, UploadPanel, SequencerPanel, LogPanel,
        ChannelRows, SequenceCompletion, SaferParser, Matching,
        ChartPanel, StreamingScale, ZoomGestures

VARIABLES panel,    \* the panel of this behaviour
          side      \* which of two separate uses the panel is put to: the linter or the
                    \* buttons of a sequence, data or axes of a chart

others == <<rowVars, completionVars, text, matchVars>>
chartParts == <<chartVars, scaleVars, zoomVars>>
panelsButCharts == <<tableVars, storeVars, formVars, uploadVars, sequencerVars, logVars, others>>
pageVars == <<chartParts, panelsButCharts, panel, side>>

(* Of the rows one is hidden, unless the view names the item.                 *)
MCOneName == [i \in 1 .. MaxItems |-> "a"]
Dictionary1 == "SET" :> <<Scalar("U8"), Scalar("Enum")>> @@ "NO_OP" :> <<>>
Dictionary2 == "TEXT" :> <<Scalar("String"), Scalar("Enum"), Scalar("String")>>
Dictionary3 == "ARRAY" :> <<ArrayOf(2, Scalar("I8")), Scalar("Bool")>>
Dictionary4 == "STRUCT" :> <<Struct(<<"n", "s">>, <<Scalar("U8"), Scalar("String")>>)>>
Dictionary5 == "WIDE" :> <<Scalar("U64")>>
AllDictionaries == {Dictionary1, Dictionary2, Dictionary3, Dictionary4, Dictionary5}
MCCommands == "SET" :> <<"U8", "Enum", "U8">> @@ "NO_OP" :> <<>>
MCStoreTime == [e \in Endpoints |-> IF e = "upfiles" THEN 5 ELSE 0]
MCErrorLine == [t \in Texts |-> IF t = "bad" THEN 2 ELSE 0]
MCLineCount == [t \in Texts |-> IF t = "bad" THEN 2 ELSE 1]

(* The streaming plugin's INTERVALS, in seconds, and what a ticks' size may   *)
(* divide.                                                                    *)
MCSizes  == <<1, 60, 3600, 86400, 604800, 2628000, 7884000, 31540000>>
MCSteps  == <<<<1, 2, 5, 10, 15, 30>>, <<1, 2, 5, 10, 15, 30>>, <<1, 2, 3, 6, 12>>, <<1, 2, 5>>,
              <<1, 2, 3, 4>>, <<1, 2, 3>>, <<1, 2, 3, 4>>, <<>>>>
MCCommon == <<TRUE, TRUE, TRUE, TRUE, FALSE, TRUE, FALSE, TRUE>>
MCRanges == {1, 30, 31, 59, 100, 1000, 3600, 3601, 20000, 86400, 90000, 1000000, 10000000,
             100000000, 1000000000}
MCPanSteps == {-1, 2}
MCOlder(w) == IF w = "w0" THEN "w1" ELSE "w0"

(* Of the axes of the charts one channel and one sample is enough, and of     *)
(* their data two samples with the axes free.                                 *)
OneChannel == \A w \in ToSet(wrappers) : w.selected # "q"
AxesNext == AxisNext \/ (samples = <<>> /\ Sample("p"))
MCAlignWindows == {<<-1, 1>>, <<0, 3>>}

PanelsInit ==
  /\ TableInit /\ StoreInit /\ FormInit /\ UploadInit /\ SequencerInit /\ LogInit
  /\ RowsInit /\ CompletionInit /\ ParserInit /\ MatchInit
  /\ ChartInit /\ ScaleInit /\ ZoomInit
  /\ panel \in {"table", "store", "form", "upload", "sequencer", "log", "rows", "completion",
                "parser", "matching", "charts", "scale", "zoom"}
  /\ side \in BOOLEAN
  /\ panel \notin {"sequencer", "charts"} => side
  /\ panel # "zoom" => /\ limits = CHOOSE l \in AxisLimits : TRUE
                       /\ dataRange = CHOOSE r \in DataRanges : TRUE
  /\ panel # "store" => endpoint = CHOOSE e \in Endpoints : TRUE
  /\ panel # "form" => /\ dictionary = CHOOSE d \in Dictionaries : TRUE
                       /\ selected = CHOOSE n \in DOMAIN dictionary : TRUE
  /\ panel # "upload" => /\ serverFolder = CHOOSE d \in Folders : TRUE
                         /\ \A p \in UploadPages : folder[p] = serverFolder
  /\ panel # "rows" => \A l \in DOMAIN bounds : bounds[l] = <<NoBound, NoBound>>
  /\ panel # "sequencer" => /\ code.text = CHOOSE t \in Texts : TRUE
                            /\ seqBox.name = CHOOSE n \in SeqNames : TRUE

PanelsNext ==
  /\ UNCHANGED <<panel, side>>
  /\ \/ panel = "table" /\ TableNext
        /\ UNCHANGED <<chartParts, storeVars, formVars, uploadVars, sequencerVars, logVars, others>>
     \/ panel = "store" /\ StoreNext
        /\ UNCHANGED <<chartParts, tableVars, formVars, uploadVars, sequencerVars, logVars, others>>
     \/ panel = "form" /\ FormNext
        /\ UNCHANGED <<chartParts, tableVars, storeVars, uploadVars, sequencerVars, logVars, others>>
     \/ panel = "upload" /\ UploadNext
        /\ UNCHANGED <<chartParts, tableVars, storeVars, formVars, sequencerVars, logVars, others>>
     \/ panel = "sequencer" /\ (Edits \/ (side /\ LintNext) \/ (~side /\ PanelNext))
        /\ UNCHANGED <<chartParts, tableVars, storeVars, formVars, uploadVars, logVars, others>>
     \/ panel = "log" /\ LogNext
        /\ UNCHANGED <<chartParts, tableVars, storeVars, formVars, uploadVars, sequencerVars, others>>
     \/ panel = "rows" /\ RowsNext
        /\ UNCHANGED <<chartParts, tableVars, storeVars, formVars, uploadVars, sequencerVars, logVars,
                       completionVars, text, matchVars>>
     \/ panel = "completion" /\ CompletionNext
        /\ UNCHANGED <<chartParts, tableVars, storeVars, formVars, uploadVars, sequencerVars, logVars,
                       rowVars, text, matchVars>>
     \/ panel = "parser" /\ ParserNext
        /\ UNCHANGED <<chartParts, tableVars, storeVars, formVars, uploadVars, sequencerVars, logVars,
                       rowVars, completionVars, matchVars>>
     \/ panel = "matching" /\ MatchNext
        /\ UNCHANGED <<chartParts, tableVars, storeVars, formVars, uploadVars, sequencerVars, logVars,
                       rowVars, completionVars, text>>
     \/ panel = "charts" /\ (PageNext \/ (side /\ DataNext) \/ (~side /\ AxesNext))
        /\ (IF side THEN ~inSync' ELSE OneChannel')
        /\ UNCHANGED <<scaleVars, zoomVars, panelsButCharts>>
     \/ panel = "scale" /\ ScaleNext /\ UNCHANGED <<chartVars, zoomVars, panelsButCharts>>
     \/ panel = "zoom" /\ ZoomNext /\ UNCHANGED <<chartVars, scaleVars, panelsButCharts>>

PanelsSpec == PanelsInit /\ [][PanelsNext]_pageVars
----------------------------------------------------------------------------
(* Each panel's properties are asked of that panel's own behaviours.          *)

(* What the user types means what it should: a command is sent as its boxes   *)
(* show it, but for the prefixes squashify_argument misreads, it fits the     *)
(* dictionary and none is sent while one is under way, what a sequence is     *)
(* offered fits too, and a filter or an attribute reads as its words          *)
(* (arguments.js, command-input.js, autocomplete.js, utils.js).               *)
TypedAsMeant ==
  /\ [](/\ panel = "form" => FormTypeOK /\ SentFits /\ SentAsShown /\ OneAtATime /\ TextBoxAgrees
        /\ panel = "completion" => OffersExpected
        /\ panel = "matching" => FilterMeans /\ AttrLists)
  /\ FilterMonotone
=============================================================================
