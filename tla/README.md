# A TLA+ model of the F´ Ground Data System

The F´ GDS (`src/src/fprime_gds`) is the ground side of a flight software: it
moves bytes over an adapter, cuts them into packets, decodes and keeps them,
serves them to a browser, and transfers files in both directions. The ground
side is Python with threads and almost no locks; the browser side is JavaScript
in which timers, answers and the user's actions interleave, down to a bundled
text editor. This directory models the parts where the order of steps decides
whether the program is right, checks them with TLC on small instances and proves
the central properties with TLAPS for all instances.

Paths below are relative to `src/src/fprime_gds` unless they start with `src/`;
`js/`, `vue-support/` and `addons/` are under `flask/static` (`vue-support` in
`flask/static/js`), and `code-mirror.es.js` is
`flask/static/addons/sequencer/third/code-mirror.es.js`.

Contents: 1 Inventory, 2 Modules, 3 Runs, 4 Proofs, 5 Where the code and its words
disagree, 6 Not modelled, 7 Plan.

## 1. Inventory

Two processes run at least: the **communication process**
(`executables/comm.py`: adapter, framing, ground transport) and the **web
server** (`flask`, with a pipeline of distributor, decoders, histories and file
transfer). They talk through ZeroMQ (or the older TCP server). Any number of
**web pages** poll the server and post to it.

    flight software -- adapter -- framer -- ground transport == transport -- distributor
                                                                   |            |
        server: flask requests -- histories <-- decoders ----------+------------+
           |                  `- FileUplinker --> encoder --> transport
           |                     FileDownlinker <-- file decoder
        page: Loader -- data store -- tables, channel rows, charts
              panels: commands, uplink, sequences (text editor), logs

| component | state it keeps | operations | what is hard | what makes it correct |
|---|---|---|---|---|
| File uplink `common/files/uplinker.py`, `helpers.py` | transfer state, active file, sequence, expected handshake, timer, queue, busy semaphore, open files | enqueue, run, start, data_callback, timeout, cancel, pause, unpause, cancel_remove, send_cancel_packet, exit | four kinds of threads, one semaphore; lost packets; a timer that races answers; a queue taken apart while it is in use | one transfer at a time, complete and in order; none started twice; the queue moves on; exit returns |
| File downlink `common/files/downlinker.py` | state, active file, sequence, timer | data_callback (START, DATA, END, CANCEL), timeout, finish | finish run by two threads; lost packets; files that cannot be opened | no mixing of two files; an incomplete file leaves a warning; a silent transfer is closed |
| TM reassembly `communication/ccsds/space_data_link.py` | pending octets, last frame count | deframe, reassemble, split_complete_packets | packets across frames, lost frames, idle frames, counter wrap, bad pointers | only whole packets, in order; bounded memory; recovery after a loss |
| Web histories `common/history/ram.py`, `flask/components.py`, `flask/resource.py` | objects, a cursor, a time and a count per session | data_callback, retrieve, get_seen_count, clear | three lock regions per request, many sessions, expiry, deletion under cursors | each session is served each object once; counts agree; memory drains |
| The page that polls `js/loader.js` | session, a state per endpoint | setup, timer, answer, failure, follow-up | a poll asked for during a poll, lost answers, expiry | one request at a time, nothing shown twice, polling goes on |
| tcp-fast adapter `communication/adapters/tcp_fast.py` | running, connection, listener or pending, next attempt | open, read (connects as well), write, close | a reader, a writer and a closer; reconnection; close in the middle of a connect | nothing leaked; close is final; a working link is kept; the link comes back |
| Page data store `js/datastore.js`, `js/validate.js` | histories, counters, activity flag and timers, error log | update, clear, errors, timing, settings | limits that change, late answers, consumers that throw, one timer per flag | the newest are kept, errors are counted, stalls are reported |
| Tables `vue-support/fptable.js`, `utils.js` | view, filter, sorting, window, item editor | send, filter, scroll, timers | timers that recompute later; a window into a list that has changed | what is shown is what matches, fresh, and where the user left it |
| Channel rows `vue-support/channel.js`, `addons/performance.js` | colours, hidden rows, a window of delays | render, hide, clear | values against bounds, a bounded window | the worst state and the worst delay are shown |
| Commanding panel `addons/commanding` | argument trees, the text box, requests | edit, choose, validate, send, recall | an edit while an answer is under way; two views of one command | what is sent is what was checked and shown |
| Uplink panel `vue-support/uploader.js`, `uplink.js`, `packet-selection.js` | files chosen, packets, destination | choose, remove, select, upload | two requests per upload, one destination for all pages | each file once, as it was chosen |
| Sequence panel `addons/sequencer/addon.js`, `lint.js`, `autocomplete.js`, `flask/sequence.py` | text, name, active flag, last uplinked | edit, lint, uplink, run, load | late lint answers, one temporary file on the server, edits during a job | what runs was uplinked; marks are of this text |
| Log panel `vue-support/log.js`, `flask/logs.py` | logs, selection, text | poll, select, answer | answers out of order | the text is that of the log selected |
| JSON `js/json.js` | none | parse, stringify | integers beyond 2^53 | no number is rounded silently |
| Charts `addons/chart-display/addon.js`, `sibling.js`, and two plugins | charts, consumers, siblings, windows, timers, gestures | build, register, destroy, lock, zoom, pan, pause, reset, refresh | constructions that fail, mutual alignment, timers of two gestures | points once, one window for locked charts, a zoom keeps its centre |
| Text editor `code-mirror.es.js` | document, selection, configuration, view, undo history, completion, parse | transactions, measuring, commands, completion, parsing | changes mapped over each other; state carried over if nothing seems to have changed; error recovery | see the editor's rows of section 3 |
| Space packets and frames `communication/ccsds` | a sequence count per APID | frame, deframe | one instance used by two threads; counts modulo 16384 | numbered without gaps; resynchronises after a loss |
| F´ framing `communication/framing.py` | none (a buffer in the caller) | frame, deframe, deframe_all | false start tokens, a stream cut anywhere | what comes out does not depend on how the stream is cut |
| Communication threads `communication/updown.py` | downlink queue, running | read, deframe, enqueue, send; receive, frame, retry, loop back | full queue, retries, shutdown, exceptions that end a thread | order kept; a handshake only for what was written |
| Other adapters, packet bridge `communication/adapters`, `communication/bridge` | sockets, threads, heartbeat | open, read, write, close; two pumps | reconnection of three threads; stop against blocked reads | as tcp-fast |
| TCP server, ZeroMQ transport | registered clients, queues | register, list, forward | registration and removal while forwarding | each client registered gets each packet |
| Chronological history `common/history/chrono.py` | objects in time order, cursor, new objects | data_callback, retrieve, retrieve_new, clear | objects out of order, equal times | each object is new once |
| Test framework `common/testing_fw` | cursors into histories | await, search, assert | searches with a timeout | finds a sequence exactly if it is there |
| Distributor, codecs, dictionaries, data types, pipeline, plugins, command line, launch of processes, sequences, data products, loggers, page shell | tables read at start | parse, format, dispatch | byte layout or presentation rather than order | |

`PROJECT.json` lists every component with its status, and every hazard at its
line with the properties that cover it.

## 2. Modules

| module | models | run | proofs |
|---|---|---|---|
| `FileUplinker` | file uplink with its queue, timer, clients and link | `uplink_link`, `uplink_pause`, `uplink_races`, `uplink_lost_end` | `FileUplinkerProofs` |
| `FileDownlinker` | file downlink with its timer and a lossy sender | `downlink_link` | `FileDownlinkerProofs` |
| `TmReassembly` | packets out of frames | `tm_loss` | `TmReassemblyProofs` |
| `WebHistory`, `WebClient`, `ObjectFeed` | a history and its sessions' requests; the page that polls it; what the page promises | `web_history` | `WebHistoryProofs` |
| `TcpFast` | server and client adapter with three threads | `tcp_fast` | `TcpFastProofs` |
| `PageStore`, `UploadPanel`, `SequencerPanel`, `LogPanel`, `FpTable`, `ChannelRows` | data store; uplink, sequence and log panels; tables; rows of the channels | `web_pages`; `window_empty` | `WebPagesProofs` |
| `ChartPanel`, `StreamingScale`, `ZoomGestures` | charts, their time axis, the gestures on it | `web_pages`; `pan_follows` | `ChartProofs` |
| `Matching`, `CommandForm`, `SequenceCompletion`, `SaferParser` | filters, commands, completion of statements, JSON | `web_pages` | none (section 4) |
| `EditorCycle` | the editor view's updates and measure loop | `sequence_editor` | `EditorCycleProofs` |
| `ChangeSets`, `EditorStates`, `EditorTransactions`, `EditorHistory`, `EditorText`, `EditorConfig`, `RangeSets`, `EditorHeights`, `EditorCommands`, `EditorCompletion`, `LrParser` | the rest of the editor | `sequence_editor` | none (section 4) |

`MCFileUplinker`, `MCFileDownlinker`, `MCTmReassembly` and `MCFpTable` hold the
values of constants that a `.cfg` cannot write. `MCWebPages` composes the modules
of the web pages, `MCSequenceEditor` those of the editor (with `EditorHistory`
and `LrParser` as instances): the panels of a page share no state but the data
store's items, and the parts of the editor are functions of the state handed to
them, so a behaviour takes one of them through its steps (`panel`, `part`) while the
others rest. The properties of a panel are asked of that panel's own behaviours.

A definition whose name starts with `Bug` is a plausible slip in the definition
after it; it is used by no behaviour and is there to confirm that a property
notices it. "External" in the map of `PROJECT.json` means code outside of `src/`:
the operating system's sockets, a flight software, a browser's events. A
definition of the map covers the lines it stands for; small helpers of the code
lie within the lines of the definitions that use them.

### Transfers, reassembly, adapter

* **FileUplinker.** `upc` is the UplinkerThread (`UplinkQueue.run` calling
  `FileUplinker.start`), `rpc` the receiving thread in `data_callback`, `tpc` the
  thread of `threading.Timer` in `timeout`, `cpc[c]` the request thread of client
  `c`. A thread is split where it gives up or takes something another can see:
  between `queue.get`, `busy.acquire` and `start`; in `send` between pushing the
  packet and storing the handshake it expects; in `data_callback` around the
  cooldown and the read; in `finish` between `os.remove` and `busy.release`; in
  `cancel` between test and set; in `remove` between each get and put. One element
  of `Files` per `TransmitFile`; `Source` maps it to its path, so that a name may
  be uploaded twice. `Plan` is the list of packets to read (all, or a selection),
  `summed` the chunks the checksum covers; a packet numbered 0 in a plan ends the
  transfer there. `link` holds what the encoder has sent, `hands` the handshakes on
  their way back, `fsw` what the far end received. `Lose` stands for the retries
  of `updown.py` running out. `Preempt` = TRUE allows any interleaving; FALSE lets
  a thread that is a few instructions from its next access to the state
  (`Windows`) go on first, and the timer, which waits seconds, expire only when
  nothing else is in progress. Section 5 says what happens in the windows.
* **FileDownlinker.** `pc.r` is the receiving thread, `pc.t` the timer's, preempted
  anywhere. Both run `finish` (`Clear`, `Close`, `Drop`), and each use of `active`
  that raises when it is `None` is an action or a disjunct of its own, since the
  exception drops the packet and leaves the rest undone. `disk[p]` says which
  transfer wrote each chunk of a path, `seek` stands for the offset of the open
  file, `warned` and `ended` for what the log says. `Outcomes` are the ways of
  opening a file: success, `PermissionError` (which sets ERROR) or any other
  `OSError` (which does not). Two ghosts say which promises still hold:
  `disturbed`, set when the timer's `finish` has met a packet or a file was opened
  half-way, and `stale`, set when DATA outside of a transfer moved the counter.
* **TmReassembly.** An octet is the packet it belongs to, its place and the packet's
  size: enough to say where a header is, what length it tells and whether octets
  that come out belong together. `Misread` is the length that an octet tells when
  it is no length. `Cut` is the loop of `split_complete_packets`, a recursive
  function. The sender cuts a stream from `Streams` into fields, may insert idle
  frames between packets and frames with an invalid pointer; `Lose` drops frames.
* **WebHistory.** One action per critical section of a request: `Retrieve`,
  `SeenCount`, `Clear`. A request `r` of `Requests` is the session that asks, `Asker(r)`,
  and one of its threads: every request has a thread of its own, and a page that gave
  one up may have the next served while the first still runs (`Overlapping`,
  `MaxThreads`). Objects are numbered in the order of arrival. `live` and
  `cursor` are the keys and values of `retrieved_cursors`, `known` and `age` of
  `last_request`. `served` and `left` record what a session was given. `kind` is the
  class of the history, chosen in `Init`.
* **WebClient** composes it with the Loader of one page: loading session and
  dictionaries, the timer, the request it awaits (`current`), the answer, the follow-up.
  `wire` says where each request of the page is. A connection may drop at any time:
  before the server has the request, while its thread runs, or with the answer under
  way. The page then goes on, and the request stays on its way or in its thread
  (`abandoned`) while the next one is asked; what it takes is lost.
  **ObjectFeed** is the abstract specification: objects are shown in order, or given up for good. The poller hands the
  store a bare list, so that what was lost is never shown.
* **TcpFast.** `r` calls `read`, `w` calls `write`, `c` calls `close`; `at[a]` is the
  socket in the hands of thread `a`. Reads of `connection` and `running` without
  the lock are separate from the steps that use them. Sockets are descriptors,
  reused as soon as nothing refers to them (the smallest free one, as the operating
  system does). `due` says that `next_attempt` has passed. The peer and faults are
  external: refusal, loss of a connection, a broken listener.

### Web pages

Each answer, timer or user's action is one callback, hence one action. Requests
under way are in a set, so that their answers come in any order.

* **PageStore**: one endpoint of the store; `received`, `wanted`, `arrivedAt`,
  `lastGood` and `reports` are ghosts for what the properties compare with. As long
  as there was no good answer at all no stall is reported (`goodAt` = -1).
* **FpTable**: `full` and `shown` lists, timers of filter and sort, the window, and
  the scroll events; what a cell says is a constant. `Matching` has the words of a
  filter as operators. **ChannelRows**: colours, hidden rows and the delay window.
* **CommandForm**: argument trees with arrays, serializables and enumerations; the
  text box; requests. Modelled as written: an error answer that is no JSON throws
  before `active` is reset, so that the button stays locked; `validate()` of an
  unknown command ignores its result; too few words assign some arguments; a bare
  word between two quoted ones cannot be read; and some prefixes of the pattern are
  misread (`Misread`). For U8, U16 and U32 `0x`, `0b` and `0o` are read right and `0X`,
  `0B` and `0O` send 0. For U64 `BigInt` takes no base, so that `0b10` sends 10 and `0o17`
  sends 17, while `0x`, which is not cut off, and the upper-case prefixes are right.
* **UploadPanel**, **SequencerPanel**, **LogPanel**: the pages' requests and the
  server's side of them (one destination; one temporary file for all checks). With
  no log selected the page polls `/logdata/null`.
* **SequenceCompletion**: the completion source gets `base` rather than `node`, so a
  cursor on a blank inside a statement is offered time tags.
* **ChartPanel**: a constructor that throws leaves its consumer registered and a
  null sibling; a rebuilt chart ignores the pause flag; siblings' buttons are not
  updated. A window is what an axis shows relative to the moment. The axis of a
  running realtime chart keeps it; that of an anchored chart, which has no realtime
  options, or of a paused one stands still and falls behind frame by frame (`Scroll`,
  `Older`). An anchored axis that was not zoomed fits its data, whose extent may be any
  window, and `resetZoom` brings it back to that; `behind` has the charts that are yet to
  be aligned since they joined, the lock was set or an axis moved by itself.
  **StreamingScale**: refresh and frame timers, ticks, zoom, pan, reset; a
  vertical drag leaves the x duration 0 until a reset. **ZoomGestures**: listeners
  and timers of wheel, drag and pan on one axis.
* **SaferParser**: characters by class; `stringify` with an array replacer raises
  `TypeError` as in the code.

### Text editor

* **ChangeSets**: sections, `compose`, `map` and `mapPos`; **EditorTransactions**:
  selections and how specs merge; **EditorStates**: transactions of several specs and
  of a change per range, over documents whose characters are all different;
  **EditorHistory**: done and undone branches among the changes of others;
  **EditorText**: the tree of lines.
* **EditorConfig**: flattening by precedence, compartments, slots computed on
  demand. `applyTransaction` copies the compartment map only when a compartment's
  effect comes first, so a `reconfigure` or `appendConfig` effect before it makes the
  old state's map change (`SharesOld`).
* **EditorCycle**: `update`, `measure` with its rounds, requests for frames, plugins
  that fail, and the DOM read before an update. **RangeSets**, **EditorHeights**:
  layers of ranges and their cursors; the height map, measuring and the viewport.
* **EditorCommands**: the default key map's commands on documents of different
  letters. **EditorCompletion**: sources, delays, late answers and what was typed meanwhile. As
  written: a source answering `null` after more typing stays pending unasked, a
  failed query stays among `running`, `query.time - Date.now() > MinAbortTime` is never
  true, `sameResults` tests `hasResult` without calling it.
* **LrParser**: `Parser`, `Parse`, `Stack` and `readToken` with recovery, on the
  tables of the sequence language (`code-mirror.es.js:20646`). The grammar skips
  no blanks, so that each is an error node which recovery deletes, and each comment
  ends by a forced reduction.

## 3. Runs

One run per question; the composed runs ask it of every panel and every part.

| run | instance | states | what it asks |
|---|---|---|---|
| `uplink_link` | 3 files (two share a name, one selects a packet beyond its end), 2 clients with an upload and a removal each, 2 lost START or DATA packets | 55,717 | `TypeOK`, `QueueKept`, `WireProtocol`, `OutcomesTrue`, `UplinksEnd` |
| `uplink_pause` | 2 files, 1 client, 3 calls out of upload, remove, pause, unpause, exit, manual cancel | 93,683 | `PauseHolds`, `ExitReturns` |
| `uplink_races` | 2 files of one name, 2 clients, any preemption, a lost END | 845,232 | `OpenedOnce` |
| `uplink_lost_end` | 2 files, 1 lost END | violated | `TimeoutFinishes` |
| `downlink_link` | 2 transfers of 2 and 1 packets, 3 lost packets, every failure of open, the timer at any step | 68,520 | `TypeOK`, `OneOpenFile`, `HolesNoticed`, `NoMixing`, `TimedCloses` |
| `tm_loss` | all streams of up to 4 packets of 3, 5 or 7 octets in fields of 3, counter modulo 3, gaps up to 3 | 169,311 | `TypeOK`, `Reassembled` |
| `web_history` | 2 sessions of which one is the page, with 2 request threads, 2 objects, limit 1, clear time 1, 1 fault, both classes of history | 431,278 | `TypeOK`, `ServedRight`, `ObjectsDrain`, `PollerSound`, `PageFeed` |
| `tcp_fast` | server and client, 5 descriptors, 4 faults | 23,663 | `TypeOK`, `SocketsKept`, `HealthyKept`, `LinkReturns` |
| `web_pages` | each panel to its bounds in `MCWebPages.cfg` | 356,756 | `StoresCurrent`, `TableShown`, `RowsShown`, `TypedAsMeant`, `UploadedAsChosen`, `SequenceAsShown`, `OwnLogShown`, `NumbersKept`, `ChartsShown`, `AxisFollows`, `GesturesSafe` |
| `window_empty` | a table of up to 4 rows | violated | `WindowNotEmpty` |
| `pan_follows` | one axis, up to 4 gestures | violated | `PanFollowsPointer` |
| `sequence_editor` | each part to its bounds in `MCSequenceEditor.cfg` | 80,366 | `DocumentsAgree`, `StatesCurrent`, `ViewFollows`, `LayoutHolds`, `LanguageFits` |

**What the properties say.** Most are conjunctions of named parts, each stated in
full above its definition.

* Uplink. `QueueKept`: the UplinkerThread never finds the uplinker busy or a source
  missing, which would end it; finishing a file never removes the source of one
  that waits; first in, first out. `WireProtocol`: one packet outstanding, and what
  arrives is a sequence of transfers numbered without gaps. `OutcomesTrue`: an END
  closes a transfer that delivered the planned chunks once and in order, and
  covers just them; FINISHED files are such; a file times out only if a packet was
  lost. `UplinksEnd`: transfers end, the queue drains. `PauseHolds`: the semaphore is
  one token, held by the semaphore, the transfer or the pause, and nothing is sent
  while paused. `ExitReturns`: `exit` returns, unless the queue is paused.
  `OpenedOnce`: no file is opened or queued a second time.
* Downlink. `OneOpenFile`: a file is active exactly while a transfer is received or
  discarded, and no other is open. `HolesNoticed`: a transfer closed by END
  without a warning is complete. Both stop being promised when the timer's `finish`
  meets a packet (`disturbed`). `NoMixing`: no file holds data of another (START is
  not lost in the run, nor two files written to one destination: `OwnFiles`, section 4).
  `TimedCloses`: a transfer whose timer runs ends.
* Reassembly. `Reassembled` = `OnlyWhole` (whole packets in order, once, unless a
  whole period of frames was lost), `PendingBounded`, `Recovered` (a packet received
  in full comes out whatever was lost around it).
* Histories. `ServedRight` = `ServedOnce`, `CountMatches`. `ObjectsDrain`: as long as
  one page polls, every object is deleted in the end. `PollerSound`: the page
  awaits one request at a time, which carries its session, and of its other requests
  under way each is one that it gave up; what is shown, on its way and missed is the
  history. `PageFeed`: the page implements `ObjectFeed`, its liveness included.
* Adapter. `SocketsKept` = `Accounted` (an open socket is reachable), `ReleasedForGood`
  (after `close` nothing is owned again). `HealthyKept`: only `close` gives up a working
  connection. `LinkReturns` = `Reconnects`, `WriterReleased`.
* Pages. `StoresCurrent`: `NewestKept`, `WholeList`, `MapForward`, `ActiveWhileFed`,
  `ErrorsCounted`, `StallReported`, `StallRepeats`. `TableShown`: `Fresh`, `FollowsEnd`,
  `Undisturbed`. `RowsShown`: `WorstShown`, `ShownWithValue`, `WorstDelayKept`.
  `TypedAsMeant`: what is typed into a form, a statement or a filter means what it
  says: `SentFits`, `SentAsShown` (but for what `Misread` names), `OneAtATime`,
  `TextBoxAgrees`, `OffersExpected`, `FilterMeans`,
  `AttrLists`, `FilterMonotone`. `UploadedAsChosen`: `OnePlace`, `AsChosen`,
  `FailureShown`. `SequenceAsShown`: `LockHeld`, `RunsUplinked`, and of the linter
  `MarksSettle`. `OwnLogShown`: `OwnText`, `TextFromLog`. `NumbersKept`: `GateCovers`,
  `ParsesWide`, `RoundTrip`. `ChartsShown`: `ChartsOnPage`, `PointsOnce`,
  `LockedTogether` (locked charts show the window of the first from the moment they are
  aligned until an axis moves by itself). `AxisFollows`, of the
  time axis: `TimersEnd`, `TicksFit`,
  `FrozenWhilePaused`, `CleansOld`, `ZoomKeepsCenter`, `AlignsExactly`,
  `ResetRestores`. `GesturesSafe`: `HandlersOnce`, `PanningHeld`, `ResetFitsData`,
  `WheelKeepsPoint`, `StaysWithin`.
* Editor. `DocumentsAgree`: changes of one document, mapped over each other, converge
  (`Converge`), an inverse undoes (`Undoes`), positions map in order (`MapsInOrder`),
  filtering splits a change (`FilterSplits`); the tree of lines holds the text that
  its replacements make (`TreeHoldsText`, `LinesFound`, `SlicesMatch`), in small leaves
  (`LeavesSmall`); a command that moves keeps the text, one that copies, swaps or
  indents keeps the lines. `StatesCurrent`: selections fit, both of two specs take
  effect, effects stay; undo takes back own changes only (`OwnOnly`) and its branches
  fit the document (`BranchesFit`); no slot is stale (`NeverStale`), extensions are
  taken once, fields and compartments carry over. `ViewFollows`: a measurement asked
  for has a frame that will run it, every plugin that did not fail knows the state, an
  instance is destroyed once, typed text is read or drawn over. `LanguageFits`: the
  nodes of a tree nest and statements are found, and the completions offered belong to
  the text. `LayoutHolds`: layers stay ordered and hold their ranges, spans cover the
  text, heights fit it and are as drawn, the viewport is whole.

**Why the bounds are enough.** Three files are the least with a file active, one
waiting and a name used twice; two clients are the least that can both hold an
element of the queue. A handshake protocol with one packet outstanding has no
behaviour that needs more than one loss at a time; two allow a loss after a
recovery. Two transfers on the downlink give every pair "unfinished transfer,
next transfer"; three losses allow all of one and a part of the other. Packets of
3, 5 and 7 octets in fields of 3 give a packet within a frame, across two and
across three, with the header cut in two; a gap of 3 is a whole period. Two
sessions are the least where one deletes under the other, and a limit of 1 cuts
every response. Five descriptors are more than an adapter can hold at once (a
listener or a pending socket, a connection, one in the hands of each thread), so
that `Sockets` never limits a step; the four faults allow an outage during the
recovery from an outage. On the pages, two pages, logs, files, charts or requests
are the least that can be confused; windows, buffers and error logs are shorter
than the lists that pass through them, so each overflows; the window of a table is
2 rows of up to 4, so that it can be partly filled and can stand clear of both ends
of a list that loses rows at its beginning; the axis is
panned and aligned by `PanSteps` and `AlignWindows` to both sides of the present, and
a refresh may be `Lateness` = 1 late. In the editor, two
ranges, two specs and documents of three or four different characters let every
pair of changes touch, overlap, contain or miss each other; the parser takes
every text of up to four of five lexemes, of which a statement needs three.
Two threads of the page's session let its next request overlap the one it gave up.
What the bounds leave out: `EditorHistory` never trims a branch; a text of four
characters ends before a long run of digits can follow a short one that was skipped; an
axis of at most two points never has one cleaned while it is paused (`AxisHolds` covers
the other sizes); of the charts, a behaviour
either brings two samples with the axes free or uses the axes with one sample.

**Deadlock.** Transfers, reassembly, the adapter, pages and editor terminate when
the files are sent, the stream is used up, the adapter is closed or a bound is
reached, so their runs say `CHECK_DEADLOCK FALSE`. `WebClient` never stops, and
deadlock is checked there and in the table of `window_empty`.

**Fairness.** *FileUplinker*: the three threads, the timer and the link are
strongly fair, a client that has begun a call goes on, and nothing makes a client
call. The code justifies it thus: threads are scheduled by the operating system, a
timer that is not stopped expires, and what disables a thread here lasts a few
instructions (a window of another thread, or `remove` holding the only element of
the queue) though it may recur. *FileDownlinker*: the receiving thread finishes the
packet it has, the timer expires and its thread finishes; the sender may stop for
ever. *WebClient*: time passes, the request the page awaits is served or fails,
a thread that runs goes on to its end, the page's timer fires and its answers are
handled (`loader.js`, `registerPoller`); a request that was given up need never arrive,
and other pages need not go on. *TcpFast*: `read` is called again and again (`updown.py`),
`close` goes on once begun, the writer's error path goes on, the peer keeps trying
to connect and answers; a `sendall` returns by itself only if its socket has
failed, since the peer need not drain. The pages' and the editor's properties are
safety properties of states and steps and assume no fairness.

## 4. Proofs

TLAPS proves the following for every value of the constants that satisfies the
named assumption of the module. The assumptions say what the constants are:
`ConstantsAssumption`, `DownlinkAssumption`, `ReassemblyAssumption`,
`HistoryAssumption`, `ClientAssumption`, `AdapterAssumption`, `StoreAssumption`,
`UploadAssumption`, `TextAssumption`, `LogAssumption`, `TableAssumption`,
`RowsAssumption`, `ChartAssumption`, `ScaleAssumption`, `TickAssumption`,
`ZoomAssumption`, `CycleAssumption`. None bounds a size from above; TLC evaluates each of them in a run. The bounds that end TLC's runs
(`MaxOps`, `MaxLosses`, `MaxStored`, ...) are constants as well, and the theorems hold
for any value of theirs, hence for runs of any length.

| theorem | states | of |
|---|---|---|
| `FileUplinkerProofs!TypeCorrect` | `TypeOK` | any interleaving |
| `FileUplinkerProofs!OnePlace`, `FileOpenedOnce` | where a file that waits can be; `OpenedOnce` | any interleaving |
| `FileUplinkerProofs!PauseIsHeld` | `PauseHolds` | under `Gentle` |
| `FileUplinkerProofs!QueueIsKept`, `WireProtocolKept`, `OutcomesAreTrue` | `QueueKept`, `WireProtocol`, `OutcomesTrue` | under `Calm` |
| `FileDownlinkerProofs!TypeCorrect`, `OneFileAtATime` | `TypeOK`, `OneOpenFile` | any interleaving |
| `FileDownlinkerProofs!FilesHoldTheirOwn` | `NoMixing` | under `OwnFiles`, any interleaving |
| `FileDownlinkerProofs!HolesAreNoticed` | `HolesNoticed` | START not lost |
| `TmReassemblyProofs!TypeCorrect`, `EmitsWhatWasSent` | `TypeOK`, `Reassembled` | any streams and losses |
| `WebHistoryProofs!TypeCorrect`, `EverySessionServedRight` | `TypeOK`, `ServedRight` | any number of sessions |
| `WebHistoryProofs!PollerIsSound` | `PollerSound` | page and other pages |
| `WebHistoryProofs!PageShowsTheFeed` | `ClientSpec` implements the safety part of `ObjectFeed` | page and other pages |
| `TcpFastProofs!TypeCorrect`, `SocketsStayOwned`, `WorkingConnectionKept` | `TypeOK`, `SocketsKept`, `HealthyKept` | any faults |
| `WebPagesProofs!PanelShowsItsSequence` | `SequenceAsShown` | `SequencerSpec` |
| `WebPagesProofs!ViewerShowsItsLog` | `OwnLogShown` | `LogSpec` |
| `WebPagesProofs!FilesUploadedAsChosen` | `UploadedAsChosen` | `UploadSpec` |
| `WebPagesProofs!PageFollowsServer` | `StoresCurrent` | `StoreSpec` |
| `WebPagesProofs!TableFollowsItems` | `TableShown` | `TableSpec` |
| `WebPagesProofs!RowsHold` | `RowsShown` | `RowsSpec` |
| `ChartProofs!ChartsHold` | `ChartsShown` | `ChartSpec` |
| `ChartProofs!AxisHolds` | `AxisFollows` | `ScaleSpec` |
| `ChartProofs!GesturesHold` | `HandlersOnce`, `PanningHeld`, `ResetFitsData`, `WheelKeepsPoint` | `ZoomSpec` |
| `ChartProofs!GesturesBehave` | `GesturesSafe` | `ZoomSpec`, `2 * MinRange <= Narrow` |
| `EditorCycleProofs!ViewKeepsUp` | `ViewFollows` | `CycleSpec` |

The theorems about panels are of each panel's own specification; in the composed
run the other panels rest.

* **Uplink, any interleaving.** "Opened only when queued" is not inductive: one has
  to know *where* a queued file can be. `PlaceInv` says it: what is in the queue is
  queued and there once; the element in the hands of the UplinkerThread is queued
  and not in the queue (`ThreadAlone`); so is an element a client holds in `remove`
  (`ClientAlone`), and no two clients hold the same (`ClientsApart`); the active file is
  started (`ActiveStarted`), which keeps the marks that `timeout` and `cancel` set on
  whatever is active from making a started file look new.
* **Uplink, the token.** `Gentle` asks that a thread a few instructions from its next
  access to the state goes on first (`~Preempt`) and that if anybody pauses there is
  one client: a second client's `unpause` gives back the token that the first waits
  for, after which the UplinkerThread finds the uplinker busy and ends. The link may
  lose anything, and `exit` and the manual CANCEL may be called. `PauseInv` needs more
  than the count of the token (`Token`): that a transfer is under way whenever the timer is
  armed, and silent when it expires (`Flow`); and that behind a handshake that is
  expected nothing is on the wire but CANCEL packets sent by hand (`Handshakes`), since
  its arrival may end the transfer and leave the queue to a client that pauses. With
  CANCEL by hand that is subtle: an echo of one may equal the CANCEL that is expected,
  or be taken for it when the uplinker is idle, which then reads on.
* **Uplink, the protocol.** `Calm` is the regime in which the code keeps its protocol:
  `Gentle`, END and CANCEL are not lost, and `exit` and the manual CANCEL are not
  called. `uplink_lost_end` shows that the second is needed. The invariant `CalmInv`
  adds to `PlaceInv`: at most one thread is in a window (`OneWindow`); what the
  uplinker's state says of the phase of the transfer and of each thread (`Phase`); who
  has the token (`Token`) and who excludes whom (`Excluded`); the sources on disk
  (`Sources`); what is on the wire and what the far end has got, against the sequence
  number (`Wire`, `Progress`); the outcomes told so far (`Outcomes`) and the order of
  starts (`InOrder`). That no gap arises rests on `Phase` and `Wire` together: an answer
  that is on its way is the one expected.
* **Downlink.** `OneInv` describes the state at every step of `handle_start` and `finish`
  until `disturbed`. `Own` says that the active file is the one of the packet in hand
  but while a START waits for the file before it to be closed. `OwnFiles` (START is
  not lost and no two transfers have one destination) is needed: without their
  START, the packets of the next transfer are written into the file of the one
  before it, which the code cannot tell. For holes, `Numbered` and `Watched` relate
  `sequence`, what has been written and whether a warning was logged. The attempt to
  prove it showed the gap that `stale` stands for: DATA outside of a transfer moves
  `sequence` (`downlinker.py:154`), so an *empty* file may close without a warning
  after a loss that the moved counter hides.
* **Reassembly.** `IInv`: the frames kept are a part of the frames sent (`FramesKept`); what is
  pending is the open packet's beginning (`PendingOpen`, `OpenKept`); what came out lies before
  it (`OutBefore`). That `Cut` splits a field into the packets it holds is proved by
  induction over the length (`CutsWell`), with the least-number principle: from
  `NatLessThanWellFounded` and `WFMin` of the library one gets a least
  counterexample, which needs no operator parameter.
* **Histories.** `Numbered` (the objects held are the last ones that arrived, in order),
  `Placed` (a live session has been served up to its cursor since its offset) and
  `Least` (every non-empty set of live sessions has one with the least cursor),
  which makes `Earliest` a choice that exists without assuming `Sessions` finite. For
  the page, `Polling` says which request is awaited in which state of the Loader and
  that any other under way was given up, whatever thread serves it; `GivenInOrder` and
  `Accounted` that what the page was given, what is on its way and what it missed make
  up the history. The refinement maps what is shown and what is given
  up; each step of page and server is a step of `ObjectFeed` or a stutter.
* **tcp-fast.** `Owned`: an open socket is the adapter's or in the hands of a thread *at
  a point where the thread will store or close it*; `Final` what close has taken
  away at each of its steps; `Alone` that while the reader is connecting there is no
  connection to lose (without it, a second connection stored over the first would
  leak it). `DropsFailed`: a thread about to drop a socket has seen it fail, and a
  failed descriptor does not work again while a thread holds it; hence a thread
  that fails on an older connection does not touch the one that replaced it.
* **Web pages.** Sequence panel: `OkEnqueued` (a job answered well put its file into the
  uplinker's queue) with `LockHeld` and `RunsUplinked`; for the linter, `LintInv` says which
  text each check, and the temporary file, belong to. Log viewer: `LogInv` ties each
  answer to the log it was asked for. Uplink panel: `UploadInv` has the stages a file
  passes (curated, in flight, enqueued, lost) pairwise apart (`StagesApart`), each
  without repetition, and what an upload asked for as it was when it was curated
  (`Faithful`). Data store: `StoreInv` says that the list is the end of what was received and
  which limit justifies what is missing (`EventsKept`, `WholeKept`), that the flag is up
  exactly while its timeout is to come (`FlagTimed`), what the error window holds
  (`ErrorsKept`), and that reports are `BehindTime` apart (`StallKept`).
* **Tables.** `TableInv`: the items are in the order of arrival, the window is the slice
  of the list at its offset and reaches the end while it follows it (`WindowOK`), and
  the list is `Shown` unless one of the timers or a late view file is to come. Filter and
  sort are algorithms over the whole list. The loop of the filter is a recursive
  function, and a least counterexample (`LeastOf`) stands for the induction: it keeps
  just the picked rows (`KeptWhole`) in their order (`KeptInOrder`), and from a list that
  grows at its end and loses rows at its beginning it makes one that does the same
  (`ListShifts`). Sorting gives each row a rank of its own (`RanksAre`), so that the
  sorted list is a list of rows. `WindowMoves` then says where the rows of a window go.
  The proof of `Undisturbed` failed at first: as stated then, for every window, it
  holds only for windows of one row. A window that the list left short is moved back
  when rows arrive, because `updateData` bounds the offset by the length of the list
  *before* (`vue-support/utils.js:248`, as in section 5). It is now stated for a full
  window, and the run has windows of two rows.
* **Channel rows.** `RowsInv`: the delays that `performance.js` keeps are the end of
  those it saw. That the loop of `calculateRowStyle` over the levels comes to the
  worst is `RowStyleIs`.
* **Charts.** `ChartInv`: a chart that runs is the one of its owner, whose owner is on
  the page (`Owned`), identifiers are not given twice (`IdsGiven`), each running chart is
  among the siblings once (`SiblingsLive`), and a component that met no failure is
  registered as a consumer once, exactly while it has a chart (`Registered`), from which
  it follows that it gets each sample once. A construction that fails leaves a consumer
  and a null sibling behind; `PointsOnce` and `LockedTogether` say what they promise then.
  `LockedTogether` holds for running, paused and anchored charts in any mixture because a
  step that moves some axes without the others puts the charts among those `behind`.
* **Time axis.** `ScaleInv` ties the end of the window to the head and the delay in
  force, the timers to what still runs, and the stored options to the initial ones.
  The ticks are the result of a search for a step, which `LayoutIs` bounds for any
  table of steps in ascending order.
* **Gestures.** `ZoomInv` says that only the plugin sets a range, so that what it stores for a reset
  is an axis without options (`AxisOK`), that a pan under way has no timer left
  (`PansOK`), and that every timer of a drag has a gesture of its own (`TimersOK`);
  `UpdatedIs` splits `updateRange` into its four cases. The proof of `StaysWithin` failed
  at first, for a good reason: `updateRange` widens a range that is shorter than
  `minRange` from its lower end when the limits leave no room below it, whether or not
  they leave room above. An axis from 0 to 12 with a `minRange` of 12 goes to 3..15 at
  the first turn of the wheel (TLC shows it at once for `MinRange = 12`). Hence the
  hypothesis that the least range is at most half of what the limits leave; the charts
  of the GDS set no `minRange` (`config.js:89`).
* **Editor view.** `CycleInv`: which requests have a frame in each state of the measure
  loop, which plugins know which version, which instances are in use.

**Only model-checked**, and why:

* All liveness, which needs `ENABLED` and fairness: `UplinksEnd`, `ExitReturns`,
  `TimedCloses`, `ObjectsDrain`, `LinkReturns`, and the liveness of `PageFeed`.
* What recursive definitions compute for every input: `TypedAsMeant`, `NumbersKept`,
  `DocumentsAgree`, `StatesCurrent`, `LayoutHolds` and `LanguageFits` are about trees,
  texts and changes, with operators declared RECURSIVE or operators handed over as
  parameters, which the provers cannot instantiate. A recursion over numbers written as
  a recursive function can be reasoned about (`Cut`, the filter of `FpTable`, the loop of
  `RowStyle`).

## 5. Where the code and its words disagree

Three runs show it; each quotes the line in `PROJECT.json`.

1. `uplink_lost_end`: after END or CANCEL is sent, `finish` has already removed the
   source. If that handshake is lost, `timeout` raises at `os.remove`
   (`uplinker.py:332`): the state stays END_WAIT, `busy` is never released, no later
   file is sent. The docstring promises that the upload is finished.
2. `window_empty`: `updateData` bounds the offset by the length of the list before
   (`vue-support/utils.js:248`): a filter, a view or a clear that shortens the list
   leaves the table empty although rows match.
3. `pan_follows`: `doUpdateRange` drops what `updateRange` returns
   (`chartjs-plugin-zoom.js:330`), so each step of a drag moves a plain axis by all
   the steps before it as well.

**Uplink and downlink**, seen while modelling, mostly in windows of a few
statements and therefore outside of the properties with `Preempt = FALSE`:

* `cancel()` tests RUNNING and sets CANCELED later (`uplinker.py:312`); if the
  transfer ends in between, the idle uplinker stays CANCELED and the next
  `start()` raises, which ends the UplinkerThread.
* Two requests that pause and unpause at once release `busy` once too often
  (`uplinker.py:75` and `:114`).
* A handshake that returns before `send` has stored what it expects (`:262`) is
  dropped; the transfer then times out (see also `:219`).
* `timeout` marks whichever file is active after it has released `busy` (`:320`).
* `cancel_remove` of a path that is not queued (a finished one, say) drops the head
  of the queue and of the list (`:92`): another file, which then is never sent though
  its source stays on disk. `remove` may also take the `None` that `exit` puts in the
  queue.
* `exit()` of a paused uplinker joins a thread that waits for `busy` for ever
  (`:119`, `:141`); `ExitReturns` excepts exactly this state.
* Downlink: a START over an unfinished transfer restarts the timer and then stops it
  in `finish` (`downlinker.py:89`), so the new transfer has no timeout until its next
  packet, although line 63 says the timer is restarted; DATA outside of a transfer
  counts (`:154`), so that after a lost START a later hole may go unnoticed; an
  `OSError` other than `PermissionError` leaves a file active, and every later START
  fails an assertion until a timeout; an existing destination is never truncated; a
  timer that fires inside `handle_start` may leave a file open for ever, and one that
  fires inside a packet leaves the receiving thread with `active` None (`:205`).

**Elsewhere on the ground**: a packet that ends with its frame is kept pending
until the next frame, and an idle frame drops it as "stale"
(`space_data_link.py:237`); with `--no-clear-history` a new session gets every earlier
object with a validation count that leaves them out (`flask/components.py:89`);
`space_packet.py:88` sets the expected count to the received one plus 1 without
reducing it modulo 16384, and `comm.py:80` says that uplink and downlink get "a
separate instantiation" of the framer while both get the same; `updown.py:90` drops
the remaining frames of a read when its queue is full; `drop()` of tcp-fast warns
after the lock, so that an outage right after a reconnection may be silent;
`tcpserver.py:305` takes the lock for each destination, not for the list of them.

**Pages**: objects lost on the way to a page are counted (`js/validate.js:250`) from
a `history` that the poller's bare lists do not have, so no loss is shown; the
sequence panel takes the name in its box when the answer comes for the one that was
uplinked (`addons/sequencer/addon.js:119`); `channelHider` leaves the first
channel's value out of its `reduce`, and with a list of items to be shown throws on a row
without a `template` (`vue-support/channel.js:139`, `utils.js:192`); the pattern of an
unsigned argument, "Supports binary, hex, octal, and digital" (`arguments.js:326`), accepts
prefixes that `squashify_argument` (`:125`) misreads: for U8, U16 and U32 the upper-case
`0X`, `0B` and `0O` send 0, and for U64, where `BigInt` takes no base, `0b10` sends 10 and
`0o17` sends 17, so that a long binary number may not even fit its type.

**Text editor** (the bundled CodeMirror), none reached by this program's use unless
said:

* `filterTransaction` maps the selection with the unmapped description;
  `extendTransaction` merges `tr` rather than `spec`; the sequential branch of
  `mergeTransaction` takes the new length for the empty change set, so that an effect
  beyond it throws; an insertion strictly inside another spec's deletion is lost.
* `transposeChars` with adjacent cursors duplicates a character; `moveLine` keeps
  `mainIndex` though it drops ranges that cannot move; `copyLineDown` keeps a cursor at
  the block's first position in the top copy; `insertNewlineAndIndent` cuts a line at
  a position of the document; `changeBlockComment` reads after its increment; toggling
  line comments twice with two ranges may not give the text back.
* `viewState.scrollTo` is not mapped through later changes (`code-mirror.es.js:8184`); a
  target beyond a shortened document makes the next measurement throw.
* `storeNode` (`:19308`) merges an error into nodes shared with a split-off stack, though
  `:19392` says "shared buffers should be immutable": errors need not nest.
* `RangeSet.update` sorts a copy and drops it (`:3145`); mapping may put ranges of different
  `startSide` out of order (`:3273`).
* The measure loop's comment "Prevent requestMeasure calls from scheduling another
  animation frame" (near `:9419`) does not hold for `measureScheduled` = -1.

## 6. Not modelled, and why

Byte layout (encoders, decoders, serialization, checksums of single fields),
dictionaries and loaders (read once), argument parsing, plugin discovery, static
presentation, loggers: no order of steps matters there, or no state outlives a
call. Yamcs is an external service. Wording of log lines is left out; that a
warning is logged at all is modelled where a property needs it
(`FileDownlinker`).

Within the modelled components: arguments, socket options and name resolution of
`tcp_fast.py`; the search for the start of a frame in `deframe` (planned with the
framing); a second expiry of a timer while the callback of the first still runs;
`retrieve` without a session and `retrieve_new`, which have no caller here;
annotations, pinch and drawing of charts; vertical axes but for the gestures that
touch them.

Of the editor: drawing and observing the DOM, pointer input, panels, tooltips,
search, folding, brackets and their closing, snippets, lint marks; block widgets,
line wrapping, line gaps and very large documents in `EditorHeights`; open points and
`between` in `RangeSets`, whose cursor heap is an ordered merge; movements by syntax
or page, goal columns, bidirectional text, clusters, tabs, block comments and
rectangular selections in `EditorCommands`; in `LrParser` depth limits of inserts,
nested parsers, dialects, specializers, context trackers and the reuse of fragments;
identity of equal static values and combine functions other than the list in
`EditorConfig`.

## 7. Plan

Proofs, in this order:

1. `OneAtATime` and `SentFits` of the command form, with its trees of arguments as
   functions from paths, so that no operator is declared RECURSIVE.
2. Lemmas on `ChangeSets` for a bounded number of sections, as a step towards `Converge`.
3. What of `QueueKept` and `WireProtocol` is left under `Gentle` alone, before the first
   END or CANCEL is lost or sent by hand.

Models, each a module with its runs and what can be proved of it:

4. **SpacePackets**: the counts of one framer used by the uplink and the downlink
   thread, modulo the period; a run for `comm.py:80`.
5. **CommPipeline**: `updown.py` with its queue, retries, loopback of handshakes and
   shutdown, composed with SpacePackets and the distributor; then `FileUplinker`'s
   link refined by it.
6. **FileTransfer**, an abstract specification (each file is delivered whole, at
   most once, or given up) that `FileUplinker` implements under
   `INSTANCE ... WITH`; `OutcomesTrue` is its safety part.
7. **Framing**: `FpFramerDeframer.deframe_all` and the frame search of
   `space_data_link.py` as operators on symbols, against a reference that sees the
   whole stream; runs over every way of cutting it.
8. **ChronoHistory** and the searches of the test framework that read it.
9. **PacketBridge**, **UdpFast**, **IpAdapter** (three threads, heartbeat),
    **TcpServer** (registration and forwarding) and the ZeroMQ transport.
