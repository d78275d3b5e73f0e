# Verification of netra-browser

netra-browser is an MCP bridge: AI agents call tools over stdio or HTTP, and the
bridge drives one Chrome over a CDP websocket.  This directory holds TLA+ models of
the bridge's own logic, TLC configurations that check them on small instances, and
TLAPS proofs that hold for every instance.  `PROJECT.json` maps every definition to
the lines it models and lists the hazards each property is for.

## The system

| part | source | state | operations | talks to |
|---|---|---|---|---|
| CDP client | `internal/cdp/client.go`, `session.go` | id counter, pending map, write lock, close-once, stored error, subscriber lists | Send, SendOnTarget, readPump, Close, Subscribe, SubscribeOnTarget, WatchTargets | Chrome; channels to callers and subscribers |
| event ring | `internal/cdp/event_buffer.go` | slots, head, size | Add, Recent | one per page |
| page | `internal/browser/page.go`, `events.go` | CDP session, ring, page subscribers, cleanups, closed flag | NewPage, Close, collectors, WaitFor, RecentEvents | client's subscriptions |
| page actions | `internal/browser/*.go` | last snapshot; per-call recorders | Navigate, WaitNetworkIdle, Snapshot, locators, click/type/drag, drop files, HAR, trace, download, captures | page's send and events |
| session | `internal/mcp/session.go` | client, active target, page cache, short tab ids, project, watcher stop | SetClient, Clear, Page, DropPage, TabIDFor, ResolveTabID | client, pages; one `RWMutex` |
| tab groups | `internal/mcp/group.go` | groups (owned set, active tab), target -> group, id sequence | CreateGroup, AdoptToGroup, SetGroupActive, CloseGroup, ResolveActive | under the session's mutex |
| tools | `internal/mcp/tools/*.go` | none of their own | one handler per tool: a sequence of session calls and CDP commands | session, page, project |
| transports | `internal/mcp/httpsse.go`, `stdio.go` | HTTP: a goroutine per request; stdio: one at a time | /rpc, /events, Serve | registry |
| profile | `internal/profile/*.go` | lock file, project sidecars, recipe and session files, Chrome process | Acquire/Release, OpenProject/Adopt/Release/Sweep, save/load, Launch/Stop | other processes through files |
| bridge | `cmd/netra-browser/main.go` | start-up and shutdown order | lock, project, launch, auto-attach, serve | everything |
| python fan-out | `python/netra_fanout` | a pool of bridges | start, request, close | bridge processes |

What is hard, and hard to test:

* **Goroutines on one connection**: callers, the read pump and Close meet in a map,
  a lock, a once and one channel per call.
* **Lossy pipelines**: each event crosses three non-blocking sends while pages open
  and close.
* **Gestures of several commands**: a click reads where an element is and then presses
  and releases there; no lock spans the commands, and the page may move in between.
* **A lock over round trips**: `Session.Page` keeps the session's mutex while it waits for
  Chrome, and the target watcher needs that mutex to drop pages.
* **Handlers that interleave**: a tool reads the session, waits for Chrome, and then
  writes the session.  Over stdio requests are handled one by one (`stdio.go:19-49`),
  over HTTP each runs in its own goroutine (`httpsse.go:27-57`), so the state a
  handler decided on may be gone when it acts.
* **State kept twice**: tab ownership in the group and in the target map; the active
  tab per group and per session; the page cache and Chrome's own tabs.
* **Files shared by processes**: locks and sidecars that outlive a crash.

## Modules

| module | models | kind |
|---|---|---|
| `BoundedLog` | a log of the last Cap events | abstract |
| `RingBuffer` | `event_buffer.go`: slots, head, size, and Recent | detailed, implements `BoundedLog` |
| `RpcService` | what a CDP connection promises a caller | abstract |
| `CdpClient` | `client.go`, `session.go` (SendOnTarget): every goroutine step | detailed, implements `RpcService` |
| `EventWay` | what one subscriber may take the way of a method's events for: a queue that hands on in order and loses an event only while more than a channel holds are on it | abstract |
| `EventPipeline` | `client.go` fan-out, `SubscribeOnTarget`, `events.go`, `Page.Close`, and the `/events` streams of `httpsse.go` | component, implements `EventWay` for each line and subscriber |
| `PageWaits` | Navigate, the history steps, WaitNetworkIdle and the HAR, trace and download recorders with their tools, each method's events on a queue as `EventWay` has it | component |
| `SessionLifecycle` | `session.go` from attach to detach: the client, the page cache, `NewPage`, `WatchTargets`, auto-attach; the tools that meet there | component |
| `Interaction` | `snapshot.go`, `locator.go`, `interact.go`, `drop.go` and the tools that call them, command by command, for agents that share a tab | component |
| `ActionDiff` | `task_action_diff.go`: two captures around another tool; EXTENDS `RingBuffer` and `Interaction` | composition |
| `TabLanes` | each tab in at most one live lane | abstract |
| `GroupTable` | `group.go` and the group part of `Session.Clear` | detailed, implements `TabLanes` |
| `AgentTools` | the tool handlers, as sequences of session steps and CDP commands; EXTENDS `GroupTable` | composition |
| `Files` | files as processes share them: `os.WriteFile` in its two steps, removal by path | part of `Bridge` and `Stores` |
| `Bridge` | `main.go` from start to exit with `lock.go`, `project.go` and a launched Chrome's life, for several processes; EXTENDS `Files` | composition |
| `Stores` | recipe and session files (`profile/recipes.go`, `sessions.go`) and the tools that record, replay, save and load; EXTENDS `Files` | component |
| `CdpClient_proofs`, `EventPipeline_proofs`, `PageWaits_proofs`, `SessionLifecycle_proofs`, `Bridge_proofs`, `Stores_proofs` | theorems about the module of that name | proofs |
| `ActionDiff_proofs` | theorems about `RingBuffer`, `Interaction` and their composition | proofs |
| `AgentTools_proofs` | theorems about `GroupTable`, `TabLanes` and the handlers | proofs |
| `MC_*` | instances for TLC | model checking |

How state and actions correspond:

* **RingBuffer** keeps the code's `items`, `head` and `size` with its modulo
  arithmetic; slots are numbered from 0.  `Add` has one disjunct for each branch of
  the code's, `Contents` is the order `Recent` walks in, and `Keep` its filter.
* **CdpClient** gives each call a program counter through `Send`: take the id, store
  the channel, lock, write, select, deferred delete.  A call stands for `Send` or
  `SendOnTarget`, which take the same steps.  The response channel is `slot` (capacity
  1).  `once` makes the goroutine that enters second wait until the first is done, as
  `sync.Once` does.  The pump and Close share the closing steps; the pump stores its
  error *before* the once, Close stores its own inside it.
* **EventPipeline** has one line per tab and method, each with the filter goroutine
  of `SubscribeOnTarget` and the collector goroutine of the page.  `fanout` and
  `delivering` are the copies of subscriber lists made under a mutex and used outside
  it.  `ring` is the sequence of all Adds; `RingBuffer` says what is kept of it.  A stream
  subscribes to its page once for each entry of its list of types (`types`, a sequence of
  methods: one that the list has twice is subscribed to twice); each of these feeds has a
  `mover` goroutine that takes its events to the stream's `merged` channel, from where the
  handler writes.  What is in `merged` and `written` carries the feed it came by, for the
  properties alone.
  `peer` is the connection to the stream's client: it breaks, and later net/http ends the
  request's context, which is what stops movers.  Between the two a write fails and the
  handler leaves on its own.  A waiter's and a stream's page is there already; making it is
  in `SessionLifecycle`.  The heartbeat, which only writes, is left out.  `Way(l, x)` is line
  `l` as subscriber `x` sees it: the event in the collector's hand, as long as `x` may still
  get it, the two channels, and the event in the pump's hand, as one queue.
* **PageWaits** takes the queue of `EventWay` for the whole of an `EventPipeline` line:
  `Emit` is its Enter, `Lose` its Lose, `Deliver` its Hand, and `AddSub`, `Hear` and `Leave` are
  Join, Take and Leave.  It does not model the events of other tabs, which take up room in the
  same channels, so it lets an event be lost at any moment.  It gives each call a label `pc`
  and its subscriptions.  The recorders differ in the methods
  they need and in what they note of an event (`Noted`), so one `Hear` is a turn of any of
  their selects.  `book` is what a recorder knows; `past` is history: what it took, and the
  ends of requests that passed it by.  WaitNetworkIdle's timer is a state of its own, armed
  again whenever nothing is in flight.  Chrome's documents, history, requests (with
  redirects, which reuse an id), downloads and trace are the environment.
* **SessionLifecycle** names a page by the call that made it.  `mu` is the call that holds
  the session's mutex across round trips; a critical section without one is a single step
  that needs `mu` free.  `watch`, `mail` and `reaping` are the goroutine of WatchTargets, its
  channel and the tab in its hand; `doomed` are pages that somebody has taken out of the map
  and still has to close.  `tangled` is history: an attach found another client installed,
  or met a detach.  `unheard` is history: tabs whose end no watcher was told of, because
  none listened or its channel was full.
* **Interaction** takes a step for each CDP command with the local work after it, or for
  each section of `p.mu`; the two or three commands that look up an element are one step.  A
  gesture is the list `todo` of its commands, of which any may fail.  The page is the
  environment: a document in document order, one element per line, scrolled to `top`.
  `held` is what Chrome takes to be down.  History: `seen` is the snapshot each agent was
  shown last, `upset` says that page or focus moved since a call looked, `broken` what failed
  gestures left down, `missed` that a poll overlooked its marker.
* **ActionDiff** adds the two captures and the ring that the tab's collectors add to all the
  while.  Its DOM capture is a snapshot like any other, and is cached like one.  URL, cookies
  and hash only go into the reply, so no more is modelled than that they are read.  `since`
  is history: what was recorded while the call listened.  A diff of a diff is excluded.
* **GroupTable** has one action per method of `group.go`, each one critical section.
* **AgentTools** gives each agent one call at a time with a label `pc` and local
  variables `call`.  A step is one critical section of the session's mutex or one CDP
  command.  `disturbed` is a history variable: it is reset when the call looks at the
  state it decides on and set when another step changes that state.  Chrome's tabs
  (`alive`, `used`), the user and the network are the environment.  The page-level
  tools differ in what they do with the page, which is one step here; what they share
  - resolve the target, check that it is there, get the page, act - is modelled in
  full.
* **Files** gives a path one of the contents absent, empty, full or garbled.
  `os.WriteFile` is `Truncate` and then `Fill`, because it opens with `O_TRUNC` and
  nothing locks the file: a reader between the two finds it empty, two writers may
  leave a mixture, and a writer whose file was removed fills a file without a name.
* **Bridge** is the whole life of a process, with `pc` for the place main is at.
  Acquire's look and its write are separate steps, and so are each sidecar the sweep
  reads, each it removes, OpenProject's look and its write, and persist's two halves.
  A process has one file open at a time (`fd`): main's before it serves, and the one
  request inside `Project.mu` after that.  `Gone` is every end of a process; when it is
  an exit on an error or a kill, no deferred call runs.  A pid may go to another bridge
  or to another program (`pc = "other"`), which `pidAlive` cannot tell from the owner.
  `raced` is a history variable: the paths for which two processes stood between look
  and write at once.  The properties that hold only while that has not happened say so.
* **Stores** has a process of `Files` for each tool call, because calls of one bridge and
  of several meet at a file in the same way.  A recipe file holds who recorded it, its
  actions and whether it was used; a session file, which call's cookies and which call's
  localStorage it has.  A recipe's step may name a tool the registry has not and may need
  a variable.  `hurt` is a history variable: the files that a call began to write, or to
  read for writing, while another was at them, and those a crash cut.

Left out: JSON and its errors, wording, the short tab ids, disk errors, the check that files
to drop exist, what the agents'
tools do with the project (`AgentTools` runs without one, `Bridge` has its adopt and
release only), a recipe whose steps replay or record recipes, and any time span.  A deadline is an expiry that may happen at any
moment.

## Runs

All bounds are in the `.cfg` files.

| run | question | instance | states |
|---|---|---|---|
| `cdp` | do answers reach their call, does the client close once, does every call return? | 2 calls, 1 closer, 1 repeated response | 271 k |
| `events` | do events stay with their tab, in order, lost only to a full channel; is a line one lossy queue to its subscriber; do teardown and a stream whose client has gone finish? | 2 tabs of which one has a guest and one may close, 1 method, a waiter or a stream that lists it once or twice, channels of 1, 2 events | 620 k |
| `lifecycle` | is every page in the cache or on its way out, does none survive its client, is a reported tab reaped, does every call return? | 2 tabs, 2 connections, 3 calls of any kind, with or without auto-attach, watcher channel of 1 | 546 k |
| `agents_groups` | is the group table sound and do calls stay in their lane? | 2 agents, 2 tabs, 2 groups: attach, create, page tools, close group | 880 k |
| `agents_session` | do the default tabs stay private, is a live one forgotten only in a race? | 2 agents, 2 tabs, 1 group: attach, detach, create, page tools, new, select and close tab | 1.7 M |
| `actions` | does a gesture land on its element, is nothing left down, do ids keep their meaning, does a diff report what happened, does the ring keep the last events? | 2 agents, 2 calls of which one is under a diff, 1 change of the page, 3 events, ring of 2 | 2.2 M |
| `bridges` | is a lock held by one bridge, a project open in one, its sidecar true to memory; does a signal end an HTTP bridge? | 2 processes, 3 starts, 2 command lines with a lock each and one project, 1 tab | 475 k |
| `stores` | does a replay run one recording, does a recording outlive the replays around it, is a session one save's? | 3 calls of any kind, 1 recipe file, 1 session file, 2 bodies, 1 variable | 83 k |
| `waits` | is what a recorder believes in flight in flight, does a navigation hear its load, does a quiet network end the wait, does a download's path name it? | 1 call of any kind, 2 requests, 2 downloads, 1 commit beyond the history of 3, 5 events, channels of 1, one event of a method on its way | 578 k |
| `waits_trace` | comment: the trace recorder misses nothing (`trace.go:28`) | 1 call, 2 events | violated |
| `lifecycle_auto` | doc and comment: tabs the user closes are reaped (`browser_targets.go:161-163`, `README.md:335`) | 1 tab, 1 connection, 2 calls, auto-attach | violated |
| `actions_verify` | doc and comment: a verify sees the element it waits for (`tools.md:128`, `browser_drop.go:75`) | 1 call, 1 change of the page, 2 polls | violated |

Why these bounds are enough to be interesting:

* Three events make a ring of 2 wrap.  They come before the first call, so that a diff finds
  a ring that has something in it (`Early`), or while a diff listens and the other agent has
  returned (`Heard`), because no gesture looks at ring or clock.  The theorems about ring and
  diff cover every capacity, any number of events and every moment.
* Two calls are enough for an answer to be misrouted, an id to be shared, or a lock to
  be held by somebody else; the pump and one closer already race for the once.
* Channels of one slot instead of sixteen are full after one event, so drops happen
  at each hop; two tabs on one method is what the session filter is for.  Waiters and
  streams do not look at each other, so one of either at a time (`MaxGuests`) meets all that
  can disturb it.  The stream's list has the method once or twice (`Queries`), so two feeds
  bring one stream the same events.  Tabs are alike, so the guest comes to a fixed one
  (`Visited`), and one close (`MaxCloses`) may be that of its tab or of the other.
* Three calls are an attach, a detach and a look-up that spans both, or two look-ups and the
  end of a tab; with a watcher channel of one, the end of the second tab is dropped.
* In `actions` the page changes once (`MaxChanges`): a file input appears in front of
  the button or another button of its name behind it, and the scroll position may be lost.
  One visible line (`View`) makes an element leave the viewport; one mouse move
  (`DragSteps`) separates press from release.  Two agents can break each other's gestures, focus and snapshot; a verify polls once, and twice
  in `actions_verify`.
* A tab can only be stolen, and a lane only be confused with another, with two groups
  and two calls; the second tab shows that the others stay.  One `MaxConns` means no
  re-attach after a detach in these runs; the theorems cover any number, and `lifecycle` has
  the re-attach.  In `agents_session` one group plus legacy calls is what it takes for the two kinds of
  default tab to be mixed up.
* Two bridges race for a file and a third start inherits what the first left behind,
  under a pid that may have been used before.  The command lines have different locks
  and one project, so both files are contended: the sidecar between bridges that both
  hold a lock, the lock between two starts of one command line.  One serves HTTP and
  one stdio.  One tab is enough for memory and file to differ.
* Three calls at one file are a replay with a recording before it and one in the middle of
  it, or a load with two saves.  Two bodies that share no prefix tell one recording from
  another after every step, and one of them fails at its second step.
* One call at a time loses nothing in `waits`: calls on one page share no state but the
  subscriber list.  What disturbs a call is Chrome, which commits, loads, fetches and
  downloads on its own before and during it; Chrome rests when no call is left.  Five events
  are a load and a request that is redirected and answered, or two requests that cross.
  One event of a method on its way (`MaxOnWay`) makes Chrome wait before it says the next of
  that method, so events cross between methods only, which is where the code reorders them; a
  channel of one holds another.  `RecordersBooksAreTrue` covers every bound.

The agent runs use symmetry over agents and tabs (no liveness is checked there).
`CHECK_DEADLOCK FALSE` is stated where the system may rest: no call in flight and no
bound left to use up.

### Fairness

`CdpClient` assumes weak fairness of each goroutine that can run: a caller inside Send, the
pump, a goroutine inside the closing sequence.  Go's scheduler is preemptive and fair in this
sense.  Nothing is assumed of the outside: a caller need not call, a context need not
expire, Chrome need not answer or stay.  Fairness of a caller includes its socket write: the
model's write succeeds or fails, so a socket that accepts nothing for ever without an error
is outside the liveness results (it is listed as a hazard, because `client.go:58-60` writes
with the lock held and no deadline).

`EventPipeline` assumes less: as long as some goroutine can run, one of them does.  No step is
ever undone, so each goroutine gets its turn.  The browser need not send, a page need not
close, a guest need not come.  A write to a stream's client that is there but does not read
may block for ever, so only a stream whose connection broke has to go on; that net/http
notices the break and ends the request's context is the one thing assumed of the outside.
A stream on a tab that was closed ends no earlier than that.

`SessionLifecycle` assumes that calls that have begun and watchers go on, and with that that
a round trip ends one way or another: an answer, an error, or the loss of the connection.
`CallsReturn` is about the mutex, not about a Chrome that is silent.  Nobody need call, close
a tab or lose a connection.

`PageWaits` assumes the same of collectors and of a call's own steps, that a select with an
event to take takes one although its timer may be ready too (Go's select chooses at
random), and that a timer that was set fires.  Chrome need not load, answer or finish
anything, and no context need end.

`Bridge` assumes that a started process gets on with main: `WF_vars(MainStep(p))`.
Nobody has to start a process, call a tool, send a signal, kill it or end its input,
and a request that is at work need not finish: main does not wait for it.  A bridge on
stdio has no such property, because after a signal it blocks in its read until a line
comes (`stdio.go:19-27`).

### What the violated runs show

* `waits_trace`: the recorder subscribes to `Tracing.dataCollected` and
  `Tracing.tracingComplete` on the page, but a page's subscribers are only served by its
  collectors, and no collector has these methods (`events.go:11-21`).  Nothing of what
  Chrome sends reaches the recorder: it waits out its safety timeout of 10 s and writes a
  trace without events.
* `lifecycle_auto`: with `--auto-attach` or `--launch`, main installs the client with
  SetClient only (`main.go:173-181`); `WatchTargets` is started by meta_attach alone
  (`meta.go:76-80`).  So the page of a tab that the user closes stays cached, with its
  collectors and its ring, as long as the connection is up.
* `actions_verify`: `resolveRoleName` takes a snapshot only if none is cached
  (`locator.go:52-62`), and `waitForUploadMarker` polls without taking one
  (`browser_drop.go:81-86`).  A verify by role and name polls the snapshot from before the
  upload until it times out, although the element is on the page.

### Behaviours met, without a run of their own

These are the code's, are in the models, and a property says what does hold:

* `ResolveActive` reads the owner and adopts in two critical sections (`group.go:207-211`):
  two agents that both name a free tab pass the check, both adopt it and both drive it,
  against `groups.go:24-25`.  `StolenOnlyInWindow`: that window, and that of a tab created and
  not yet registered, are the only ways a tab changes lanes.
* Acquire reads the file and then writes it with no exclusive open (`lock.go:26-43`): two
  bridges that start together both go on, against `docs/integrations/v1-field-learnings.md:74`.
  `LockHeldByOne`: this window is the only way.
* Variables are substituted inside the loop that invokes (`recipes.go:78-92`): a replay
  without the variable of its second step has run the first, against `recipes.go:136-137`.
  `ReplayRunsOneRecording`: what was run is a beginning of one recording.
* meta_attach while attached leaves the old client, its pages and its watcher behind, and one
  that races a detach installs its watcher after it: the state `tangled`, which
  `PagesAreOfTheClient` and `NothingOutlivesDetach` except.
* task_action_diff's captures and the role locator take snapshots that replace the cached
  one, so an id that an agent holds may name another element, although `README.md:30` calls
  ids stable.  `IdsMeanWhatWasShown` says when an id does mean what was shown.
* Two agents' gestures on one tab interleave, with no lock against it; `LandsOnItsElement`
  holds for a call whose page and focus nobody moved since it looked (`upset`), and
  `NothingStaysDown` unless a command of a gesture failed (`broken`).
* The pump fans a method's events out to every tab's line before the session is compared
  (`client.go:160-176`, `session.go:110-122`), so a busy tab fills the channels of another and
  costs it events.  A Navigate whose load event is lost that way waits for its deadline
  although the page has loaded.  `ImplementsWay` says when an event may be lost;
  `NavigateHearsLoad` and `QuietEndsIdle` except one that was lost on its way.
* Events of different methods may be added to the ring in another order than they were
  stamped in, because each method has a chain of goroutines of its own (`events.go:65-91`);
  within one method order does hold (`RingIsOwnAndOrdered`).
* A stream that lists a type twice, as in `?types=load,load`, has two subscriptions to one
  method, for nothing removes the second entry (`httpsse.go:115-118, 148-170`), and each event
  is written once for each of them.  `HeardIsRecorded`: each feed brings an event once and in
  order, so a stream writes it at most once for each entry.
* OpenProject reuses a stale record under the name it was asked for, with its tabs
  (`project.go:57-66`), although its comment says that such a file is treated as if it did not
  exist (`project.go:46-48`); the comment at line 61 says what the code does, and so does
  `OpenRead` of `Bridge`.  `ProjectHasOneBridge` and `SidecarFollowsMemory` would hold either way: they ask
  who has the project and that the file says what memory does, not what it began with.

These follow from the code and are in the models, and no property is about them: Clear
restarts the group ids (`session.go:161`), so an agent that still holds "g1" after a re-attach
works in a group of another, although `group.go:27` says that ids are never reused.
meta_detach waits for a Page that waits for Chrome.  A NewPage that fails half-way leaves
Chrome's side attached.  browser_close_tab on a tab that is already gone returns its error
before DropPage.  A `{text}` locator without `exact` matches every ancestor of the element too
and so is always ambiguous (`locator.go:164-170`, against `docs/tools.md:93`).  The snapshot
walk drops what is below an ignored node.  Hover does not scroll.  A capture that failed
looks like a change in the diff.

One was met in code that is not modelled: the Python fan-out opens its tabs first and catches
only `RPCError` and `BridgeError` (`fanout.py:60-70`), while a tool that fails reports it as a
result without a `target_id`, on which `Bridge.new_tab` raises `KeyError`; that ends the whole
fan-out with the tabs opened so far left open, although `fanout.py:66-68` means to go on.

## Proofs

All are for any values of the constants that satisfy the named assumptions, which TLC
evaluates on every run.  They say what the constants are, and no more:

* the "none" values are not ids (`GroupTableAssumption`, `SessionLifecycleAssumption`,
  `FilesAssumption`, and parts of the others);
* bounds and capacities are numbers, channels have room for one event
  (`EventPipelineAssumption`, `PageWaitsAssumption`: `make(chan, 16)` in the code), the
  ring's capacity is any integer (`RingBufferAssumption`), `AgentToolsAssumption`,
  `CdpClientAssumption`;
* `PageWaitsAssumption` also has `MaxCommits >= 3`: the bound on documents is not below the
  three that the tab's history begins with;
* `InteractionAssumption`: a document is a sequence of elements under one root, an element is
  in its own subtree, and agents call what tools exist (`ActionDiffAssumption` for diffs);
* lock, sidecar, recipe and session paths differ (`BridgeAssumption`, `StoresAssumption`), and a
  recipe has a step (`mcp/tools/recipes.go:35`).

* **Ring** (`ActionDiff_proofs`).  `RingInv` strengthens the types with "head moves only
  once the ring is full" and "valid slots hold real events".  Both are needed: without
  the first, Add to a free slot could land on a valid one.  `RingImplementsLog`: an Add
  to a free slot is an Append under the refinement mapping, an Add over the oldest drops
  the head of the log and appends.  Any capacity, also one that is not positive.
  `DiffImplementsLog` carries it over to the ring that a diff reads.
* **Events** (`EventPipeline_proofs`).  That a buffer is in order is not inductive: what may be
  added next is what the stage before it holds.  `Inv` therefore orders the whole line.  It has
  five parts: `Types`; `LineInv` (on each stage events are in the order the pump read them,
  every stage is older than those behind it, and the event in the pump's hand is the youngest);
  `ConserveInv` (an offered event is held somewhere or was dropped, and what was dropped is
  nowhere else and behind everything offered later); `CollectorInv` (what a collector hands
  out is in the buffer already); `GuestInv` (what a waiter or a feed of a stream was told is
  in the buffer and older than what the collector of its line has in hand, which carries the
  buffer's order over to every waiter and every feed).  `BufferIsOwnAndOrdered`, `NoEventLostOrTwice` and `ToldIsRecorded` follow,
  for any number of tabs, methods, waiters and streams, any lists of types and channels of any
  capacity.  Of a stream the order is that of each feed: nothing orders one feed's events
  against another's.
  `PipelineImplementsWay` shows that a line is the queue of `EventWay` for each of its
  subscribers.  The steps that pass an event from hand to hand change nothing of the queue; the
  pump's copy of its list is an Enter; a full channel, and the filter that drops another tab's
  event, are a Lose; what is delivered is a Hand.  The collector's copy of the page's
  subscribers is a Hand too, for whoever is not in it: he is as one who came after the event
  was handed on, which is why the two steps of the fan-out need not be seen.  Besides `Inv` it
  needs `Begun`: a line that is not opened has no collector at work, and a feed without a mover
  no subscription, so that a guest who comes finds its channel empty.
* **Waits and recorders** (`PageWaits_proofs`).  `BooksAreTrue` speaks of what a recorder has
  noted; what it notes next is in its channels, so `Inv` says what the queues hold
  (`QueueTypes`) and that an event in them tells of something Chrome did (`WayIsTrue`,
  `MailIsTrue`, `GuidIsTrue`).  `Follows` is the heart of it: every end of a request that Chrome
  told is still to come to the recorder, was taken by it, or passed it by; and `Crossed`: an end
  taken before its start, which the methods' separate queues allow, counts as passed by.
  `Stands` and `Rests` say what a call has subscribed, noted and armed at each label.
  `RecordersBooksAreTrue` and `PageWaitsTypeOK` follow, for any number of calls, requests and
  downloads and any capacity.  They hold although any event on its way may be lost at any
  moment.  The queue used to lose an event only when this tab's own events filled it, which
  `PipelineImplementsWay` showed to be less than what the pipeline does; the model is mended.
* **Gestures** (`ActionDiff_proofs`).  `GestureInv`, for the gestures of `Interaction` with
  diffs around them: `StandingInv` (what is known of a call at each label; the commands it
  still has to send let go of all that they press, and come in an order in which each finds
  set up what it needs); `PlacedInv` (that premise, as long as nobody moved page or focus: the
  box is of an element in view, the pointer is over the element, the keys go to it);
  `CacheInv` (an agent's ids are those of the cached snapshot until another is cached).  With
  these `NothingStaysDown` is inductive, because a command takes from what the rest of its
  gesture owes only what it lets go of itself (`HeldIsAccountedFor`).  `GesturesLand` and
  `IdsKeepTheirMeaning` follow, for any document, viewport, number of agents and length of a
  drag.  This proof found an error in the model: the snapshot after a fill whose field had been
  looked up by role was taken for another look-up, after which the call filled again.  No
  use in the run was of that kind; now one is, and the model is mended.
* **Diffs** (`ActionDiff_proofs`).  `HearInv` relates the ring to `since`, what was recorded while
  a diff listened: the ring ends with the youngest of it, and nothing in front of that was
  stamped after the diff began (`Follows`); no stamp is ahead of the clock.  `DiffsReport` is
  about the filter of the reply, which walks a sequence of any length (`Keep`).  Its lemmas -
  the filter of a concatenation is the concatenation of the filters, and what it keeps - are
  inductions over data; each is proved by taking the shortest prefix at which it would fail
  (`Smallest`), since the library's induction rules are out of reach.  The proof
  found that half of the property had been empty: in the model no event could come before a
  diff, so nothing old could be reported.  Now events come before it too (`Early`), and the
  property says what may stand in front of the new ones: events stamped in the very instant
  the call began.
* **Group table** (`AgentTools_proofs`).  `TableInv` is the conjunction of types,
  agreement of the two ownership records, live owners only, active tab owned, live ids
  at most the sequence, and dead groups empty.  It is inductive as it stands, and each
  part is needed by another: agreement after CreateGroup needs the new id to be dead
  (live ids) and dead groups to be empty.  `TableImplementsLanes` shows each method to be
  an action of `TabLanes` or a stutter.
* **Agents** (`AgentTools_proofs`).  `ToolsUseTable`: every step of the composition is a
  step of the table or leaves it alone, so the table's theorems carry over
  (`TableSoundUnderTools`).  `GroupedCallsActInOwnLane` rests on `LaneInv`, an invariant
  of each call: at the labels where it drives a tab, an undisturbed call's group is live
  and owns the tab, and at "claim" the tab is free or already its own.
  `TabsAreStolenOnlyInWindow`: only Register and Claim move a tab between live groups
  (a lemma on the table), and the invariant at "claim" makes such a Claim a disturbed
  one.  `DetachedMeansNoPages`: only OpenPage adds to the cache, and only with a client.
  The active tabs need one more invariant, `ActiveInv`: a call that carries a group id never
  stands where the session's own active tab is changed; a tab made active is one that Chrome
  has had; and a call about to clear the active tab, undisturbed, knows it to be the tab that
  it saw go - which stays gone, because Chrome does not use an id again.  With it
  `ActiveTabsStayPrivate` and `LiveActiveIsLostOnlyInRace` hold step by step.

* **CDP client** (`CdpClient_proofs`).  `IInv` is a chain, each part resting on the ones
  before: types; `IdsInv` (ids come from a counter that only grows, so they are
  distinct); `PendingIsExact` (a deferred Delete removes one entry and not another's,
  since ids are distinct); `RoutingInv` (a frame in the inbox, the pump's hand or a slot
  is genuine: it has the id of the call it answers and the answer given to it - the
  pump's lookup by id then finds that very call); `OutcomeInv`; `ClosingInv` (at most one
  goroutine inside the Once, a reason stored before the channel is closed).
  `ClientImplementsRpc` maps each branch of Send's select to an End with a cause and
  every other step of a goroutine to a stutter.  Any number of calls, closers and
  repeated frames; only `CdpClientAssumption` is used.

* **Bridge** (`Bridge_proofs`).  `BridgeInv` adds three parts to the types.
  `DescriptorInv`: a process writes only the file its step is about.  `LockInv`: unless
  the path was raced for, no two processes are between look and release of one lock, the
  file is empty while its one writer has it open, and full with the holder's pid after
  that - so a second look finds a live owner and refuses (`HolderRefuses`).
  `ProjectInv` says the same of sidecars, with the sweep as a third party: one that is
  doomed is nobody's, or the path was raced for (`FreeSidecar`).  Two frame lemmas deal
  with the steps that touch neither; `LockIsHeldByOne`, `ProjectIsOneBridges` and
  `SidecarIsMemory` follow.  Any number of processes, paths, tabs and restarts; the
  assumptions are that lock paths are not sidecar paths and that a command line names
  one of each (`BridgeAssumption`, `FilesAssumption`).

* **Stores** (`Stores_proofs`).  `StepsAreLocal`: a step is one call's and touches that
  call's file only, so every invariant is one of a file or of a call, and has a frame
  lemma for the steps elsewhere.  `RecipeFileInv` says who may be at an unhurt recipe
  file (one call), what the file is then (empty while it is filled), and that a call
  marking it as used holds the latest recording - without that part the write back could
  restore an old one.  `SessionFileInv` adds that a load between its two reads has the
  cookies that are still in the file.  `ReplayBy` compares what ran with the loaded
  actions step by step.  Any number of calls, files, variables and bodies of any length;
  the assumptions are that recipe and session paths differ and that a body has a step
  (`StoresAssumption`, from `mcp/tools/recipes.go:35`).

* **Session** (`SessionLifecycle_proofs`).  `IInv` is the types and, resting on them:
  `CallInv` (what a call is at, and that one inside NewPage holds the mutex, so that client
  and the hole in the map stay as it saw them); `PageInv` and `OpenPagesAreCached` (the map
  and the pages that are open or doomed agree); `PagesAreOfTheClient`; `AttachInv` and
  `WatchInv` (an attach still on its way accounts for a watcher that no closer stops yet);
  `ReapInv` (a watcher with a tab in hand has no page to close); `DeadInv`, which
  `DeadPagesAreOnTheirWayOut` needs strengthened by the call that is about to store a page of
  a tab that died meanwhile.  `NoPageIsLost`, `PagesFollowTheClient`, `DetachReleases` and
  `DeadPagesAreOwed` follow.  Any number of calls, tabs and connections, and any channel.

Only model-checked is all liveness: `LossReleasesCalls`, `AnsweredCallReturns`,
`CloseStopsCollectors`, `EventsReachRing`, `StreamsEnd`, `CallsReturn`, `ReportedTabsAreReaped`,
`NavigateHearsLoad`, `QuietEndsIdle` and `SignalEndsHttpBridge`.  Liveness under fairness and
ENABLED are outside this prover's reach.  Every safety invariant, action property and refinement
that a passing run checks is also proved.

## Not modelled yet, and the plan

In the order of their weight:

1. **Python fan-out**: a pool of bridges, each with a process and a request loop.
2. **The project in the tools**: adopt and release as the handlers call them, with the
   filter of the tab list, composed from `AgentTools` and `Bridge`.
3. **Short tab ids**: the table of `TabIDFor` and `ResolveTabID`, which only grows.

Runs will stay few: one per module, and violated runs only for disagreements met on the
way.  Proofs worth having next: that `PageWaits` assumes no more of its queues than
`EventWay` promises, which is an argument in words so far (see PageWaits above).

Not planned: screenshots, PDF, eval, cookies, emulation and vitals (one command and the
decoding of its answer each), `js/netra-actions.js` (straight-line DOM code), and
argument decoding.
