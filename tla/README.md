# Verification of understudy-client

understudy-client is a headless Minecraft client: a Go library (`understudy/`,
with the wire protocol in `protocol/`) and a program
(`cmd/understudy-client`) that joins a server and lets an operator drive the
bot over a small HTTP API (`internal/control`). This directory holds TLA+
models of it, the TLC configurations that check them, and theorems about them
checked by TLAPS.

## The system

| Component | State | Operations | Talks to |
|---|---|---|---|
| Session lifecycle (`client.go`, `heartbeat.go`, `main.go`) | the socket, `c.wg`, `c.dead`, `c.positionLoop`, `c.falling`, three contexts | `Run`, `Close`, `background`, the deferred calls of `run` | everything: all goroutines end through it |
| Login and configuration (`login.go`, `detect.go`) | `c.state`, compression threshold, registries | `Connect`, `login`, `configure`, `finish` | the framing layer, resource packs |
| Resource packs (`resource_packs.go`) | `packs.mu`, `jobs`, `active`, `closed`, `wg` | `handleResourcePack`, `downloadResourcePack`, `stopResourcePacks` | the read loop, the socket, an HTTP server |
| Movement (`move.go`, `settle.go`, `heartbeat.go`, `client.go`) | `c.pos`, `lastMove`, `lastTeleport`, `lastEcho`, `corrections` | `MoveTo`, `WalkTo`, `SprintTo`, `handleTeleport`, `handleEntityMotion`, idle reports | every verb writes positions, the reader corrects them |
| Falling (`fall.go`) | `c.falling`, the bot's position | `Fall`, `FallTo`, `descend`, `surface`, `autoFall` | movement, world |
| Held inputs and uses (`verbs.go`, `place.go`, `bow.go`) | `c.inputBits`, the server's idea of them | `SetInput`, `Sneak`, `Consume`, `UseItemFor`, `DrawBow` | the socket |
| Digging and placing (`dig.go`, `place.go`) | `c.sequence`, `lastHeldBreak`, the world | `StartDig`, `DigBlock`, `DigBlocks`, `DropHeld`, `PlaceBlock` | settle, world, inventory |
| Open windows (`internal/inventory`, `understudy/{inventory,container,trades,windows}.go`) | the inventory, the open window, `stateID`, the offers | packet handlers, `OpenContainer`, `TakeFromContainer`, `HoldItem`, `CloseContainer` | the reader fills what the verbs read |
| Transfers (`understudy/{slots,storage}.go`) | the server's cursor, which the client never learns | `Deposit`, `Withdraw`, `DepositAll`, `PutIntoSlot`, `PutOneIntoSlot` | the open window |
| Crafting, workstations and trading (`understudy/{workstation,craft,trades,container}.go`) | the grid and result slots of the open window | `Craft`, `Furnace`, `Trade` | transfers, the open window |
| World (`internal/world`, `understudy/world.go`, `protocol/chunk.go`) | chunks, shapes | chunk, block-update and unload handlers, `waitForChunk` | digging, falling |
| Entities and player state (`internal/entity`, `understudy/entities.go`, `playerstate.go`) | tracked entities, health, effects | spawn, move, remove handlers | verbs |
| Framing (`protocol/conn.go`, `varint.go`) | `writeMu`, threshold, the socket | `ReadPacket`, `WritePacket`, `SetCompressionThreshold` | every goroutine writes through it |
| Packet fields (`protocol/reader.go`, `writer.go`, `packets_*.go`) | none | functions | the handlers |
| Control API (`internal/control`) | one bot, a listener | routes, `ServeListener` | the client |
| Pure code (`raytrace.go`, `reach.go`, `internal/geom`, `internal/ballistics`, `internal/nbt`, `components.go`) | none | functions | |
| Generated tables (`protocol/versions`, `internal/gen`) | none | data | |

Goroutines: the caller's, which runs `Connect` and then `Run` (the *reader*); one
per HTTP request of the control API; the idle position loop; one auto-fall; one
worker per accepted resource pack. They share the `Client`, each part of it
under a mutex of its own, and one socket whose writes have no deadline.

### What is hard, and what makes each part correct

- **Resource packs.** The reader, up to four workers, the caller of `Close` and a
  server that may stop reading share one mutex, which is held across socket
  writes. Correct means: no more downloads than slots however offers replace one
  another; one legal conversation per offer; nothing said about an offer that was
  withdrawn; the right packet id on either side of configuration -> play; `Close`
  and `Run` return; nothing runs after them.
- **Session lifecycle.** Five kinds of goroutine end through contexts, the socket
  and `c.wg`, in an order that is spread over six deferred calls. Correct means:
  every way a session can end leads to the end of `run`; nothing of the client
  outlives it; two automatic falls never drive the bot at once; `c.falling` does
  not stick.
- **Movement.** Four goroutines read and write `c.pos` and write it to the wire,
  never under one lock. Correct means: the server and the client agree about the
  position, or come to agree; waits and walks end whatever the server sends, as long
  as what they write goes through.
- **Falling.** A loop simulates gravity on values it read before, while the reader
  corrects, kills and respawns the bot and loads and drops terrain. Correct means:
  a fall ends, ends on a floor, and does not survive its bot.
- **Held inputs and uses.** Read-modify-write of input bits by concurrent verbs;
  an item in use has to be released when a hold is cancelled or ends in death.
- **Digging and placing.** Sequence numbers against the order on the wire, the
  break cooldown, a block that changes while the verb waits for it.
- **Open windows and transfers.** Clicks carry the state id of a window that the
  server or another caller may have changed or closed since; contents that arrive
  in pieces; a multi-step transfer one step of which fails.
- **Framing.** Length and threshold boundaries; writes of concurrent goroutines
  must not interleave; `VarInt` at its width.
- **World, entities, player state.** Locked maps; resets on respawn; palettes and
  packed longs at their boundaries.
- **Login and configuration.** A fixed conversation on one goroutine with branches
  by version; compression switches between two frames.
- **Control API.** Requests that are still running while the bot is being closed.

## Plan

Done: `ResourcePacks`, `Lifecycle`, `Movement`, `Falling`, each the goroutines of
one part of the client against a server that sends anything, stalls and hangs up;
`Verbs`, the concurrent
verbs; `Windows`, the copies of a window and of the inventory; `Transfers`, clicks
over one window; `Wire`, the bytes under the conversation of `Connect`, with
`PacketChannel` as its abstract specification; and a proof module for each of the
eight, with the refinement of `PacketChannel` in both directions.

Left, in this order:

1. Crafting, workstations and trading over `Transfers`: longer sequences of the same
   clicks, with result slots that the server fills.
2. `World` and the tracked entities: palettes at their boundaries, block updates for
   columns that are not loaded, resets on respawn.
3. A composition of `Lifecycle` and `Falling`, in which the automatic fall of the
   one is an abstraction of the goroutine of the other.

No module declares a recursive operator. What is recursive (`AppendVarInt` and
`ReadVarInt` of `Wire`; `Count`, `News` and `PourInto` of `Transfers`) is a recursive
function, so that every module can have theorems.

## Modules

### `ResourcePacks`

`understudy/resource_packs.go`, with the configuration -> play switch of
`login.go` and the exits of `Connect`, `Run` and `Close` that share its mutex.

| Model | Code |
|---|---|
| `mu`, `closed`, `jobs`, `active` | the fields of `resourcePacks`; `jobs` maps a pack to the number of the offer whose job is registered |
| `rpc`, `pending` | the reader: `Connect`'s configuration loop, then `Run` |
| `wpc`, `ctxOf`, `result` | one `downloadResourcePack` per accepted offer, the context it was started under and the outcome of `validateResourcePack` |
| `cpc` | a caller of `Close` |
| `conn`, `peer`, `wire` | the socket, the server's end of it, and what the server was sent |
| `TakeOffer`, `TakePop`, `TakeFinish` | a packet comes off the socket |
| `HandleOffer`, `HandlePop`, `HandlerFails`, `WriteReply` | `handleResourcePack`; between `HandleOffer` and `WriteReply` the mutex is held and the write may block |
| `LockFinish`, `WriteFinish`, `EnterPlay` | the acknowledgement of the end of configuration |
| `Validate`, `Abort`, `CompleteSilently`, `Complete`, `WriteDownloaded`, `WriteFinal`, `WorkerWriteFails`, `WorkerCloses` | `downloadResourcePack` |
| `ReaderCloses`, `ReaderStops`, `ReaderWaits`; `CallClose`, `CloserStops`, `CloserWaits` | the socket is closed, then `stopResourcePacks`: by the deferred exits, and by `Close` |

Two ghosts: `withdrawn`, the offers removed or replaced since, and `packOf`, the
server's choices, which never change. `Close` is called only after `Connect` has
returned, as `main.go` does. What a URL or an archive must look like is a choice of
outcome.

### `Lifecycle`

`run` of `cmd/understudy-client/main.go` around `Run` and `Close` of
`understudy/client.go`, the idle loop of `heartbeat.go` and `autoFall` of
`fall.go`.

| Model | Code |
|---|---|
| `main` | the main goroutine: the read loop and its handlers, then the deferred calls of `Run` and of `run`, in order |
| `ctl` | the goroutine of the control server; it calls `Close` when it fails |
| `loop` | `idlePositionLoop`, started once by the first teleport |
| `fall[k]` | the goroutine of the automatic fall after the k-th move |
| `interrupted`, `expired`, `stopped` | which of the contexts are done |
| `falling` | the flag of that name |

Every handler is a write, or a compare-and-swap followed by a goroutine; those that
do neither are no steps of this model.

### `Movement`

`writePosition` of `move.go` is three steps of whichever thread runs it: the
position is recorded under `c.mu` (`RecordPosition`), sent (`SendPosition`), and
stamped (`MarkPositionSent`). The threads are the reader (`handleTeleport`,
`handleEntityMotion`), the idle loop, `WalkTo`, and a verb that waits for a
teleport to settle (`awaitTeleportSettle`, as `UseItem` does). Positions are points
on a line and the time stamps are kept as the answers to the three questions the
code asks of them (`answered`, `spoke`, `expired`). `told` is a ghost, the last
position on the wire.

### `Falling`

`Fall`, `FallTo`, `descend` and `surface` as one goroutine with a control point
`at` and its variables in the record `fall`; the reader's handlers come between any
two of its locked reads. `FindGround` is two steps, because `HasChunk` and `Scan`
take the lock separately. Two columns of terrain of four kinds (ground, water,
lava, nothing), integer heights, and a tick that falls 1 or 2. The counters of
corrections and deaths are kept as whether they have grown since `descend` looked.
`late` is a ghost: positions sent after a death, counted by `descend` for deaths since
it read `Deaths` and by `surface` for those since it last looked at `Dead`.

### `Verbs`

The threads are requests of the control API, each with one verb: `Sneak`, the sprint
of `SprintTo`, `UseItemFor` and `Consume`, `UseItem`, `DrawBow`, `DigBlock`,
`DigLookingAt` and `PlaceBlockVerified`. They share `c.input`, the settle state and one
block.

| Model | Code |
|---|---|
| `Settled`, `Unsettled`, `AnswerTeleport`, `PauseEnds` | `awaitTeleportSettle`, which comes before every use, release, start, finish and placement |
| `ReadInput`, `StoreInput`, `SendInput` | `setInputBit` and `SetInput`: three steps, of which another thread can come between any two |
| `SendUse`, `HoldEnds`, `CancelEndsHold`, `CancelEndsVerb`, `SendRelease` | `UseItem`, `releaseUse` and the waits between them |
| `AimAtBlock` to `SendFinish` | `DigBlock` and `awaitBreak`, with the cooldown of `waitForBreakCooldown` |
| `LookAtBlock`, `SendStart` | `DigLookingAt`: whatever the crosshair is on, without a wait for terrain or for the cooldown |
| `AimToPlace` to `PlaceAgain` | `PlaceBlockVerified` and `confirmBlockBecame` |
| `Server...`, `BlockReturns` | the server: what it drops while it waits for a position or the bot is dead, and what it does to the block |

The two ghosts say what a property excepts: `slips`, the ways in which something can
stay held, each an event at one line of the code; `claim`, what the last verb to end
well says of the block, until the client is told of the block again.

### `Windows`

A window is its own slots and then the player's rows. The reader handles a packet in
the steps between which `Container` and `Inventory` are unlocked (`TakeContents`,
`FillWindow`, `MirrorToInventory`); OPENER polls the same objects call by call, as
`awaitContainer` does; CLOSER is a second request. An item that cannot be decoded
ends the contents of a packet there, which is what `declared`, `Padded` and
`truncated` are about.

| Model | Code |
|---|---|
| `view`, `inv`, `offers` | `c.window`, `c.inv`, `c.trades` |
| `TakeOpenWindow`, `ClearOffers`, `TakeTradeList`, `TakeCloseWindow`, `TakeContents`, `FillWindow`, `MirrorToInventory`, `FillInventory` | the handlers of `container.go`, `inventory.go` and `trades.go` |
| `ReadSequence` to `DeadlinePasses` | `OpenContainer` and `awaitContainer` |
| `SeeItem`, `ReadWindowID`, `WriteClick` | `TakeFromContainer` |
| `FindItem`, `WriteSwap`, `GuessSwap` | `HoldItem` |
| `ReadIDToClose`, `MarkClosed`, `WriteClose` | `CloseContainer` |

The ghost `races` records which of four races have happened; each property names
those it excepts, and the section on disagreements says what they do.

### `Transfers`

One goroutine performs `transfer` (deposits and withdrawals, with `placeOneByOne` for
a stack that is wanted in part), `moveIntoSlot` (`PutIntoSlot`, `PutOneIntoSlot`) and
`DepositAll`. Between two of its steps the server takes clicks, another player moves
items and news arrive. `calm` is what the verb under way has met: `prompt`, when all
its clicks have been answered within the pause; `late`, when one has not, or an
earlier verb has left a stack on the cursor; `disturbed`, when somebody else moved
items or an earlier verb's clicks were still on their way. `gained` is what its
clicks have added to the destination, by the server's count, and `start` the window
as it was. `Pour` is how a server spreads a shift-clicked stack: over the stacks of
the same item first, in the order of the slots, then over the empty slots.

### `Wire` and `PacketChannel`

`PacketChannel` is what the rest of the client takes a `protocol.Conn` for: packets
arrive whole, in order, once. `Wire` implements it with bytes, in each direction:
`VarInt` lengths, which are read into a word and taken as signed, the marker of the compressed framing, `writeMu` and two
writers, and a threshold that changes in the middle of both streams. `AppendVarInt`
and `ReadVarInt` are the arithmetic of `varint.go` with `Base` for 128 (`Shifted` is
`v >> 7 * i`, `Weight` is `1 << 7 * i`, `Signed` is `int32(value)`); a zlib stream is one byte that knows what
it holds. Over it runs the conversation of
`login` and `configure`: `Handle` has one disjunct per case of their switches. The
server compresses from the packet after its announcement on and expects it of the
client from then on. The ghosts are `said` and `got`, and who wrote each byte.

## Runs

| Run | Checks | Shows |
|---|---|---|
| `packs` | `TypeOK`, `ConversationsAreWellFormed`, `DownloadsBounded`, `StatusUsesWirePhase`, `QuietAfterStop`, `NoStaleReply`, `StopReturns`, `ReaderNotDelayed`, `AcceptedIsAnswered` | two offers against one slot, around the switch to play, with a removal, a cancelled context, a server that stalls or goes away, and `Close` |
| `life_safety` | `TypeOK`, `FallsDoNotOverlap`, `ExitedIsQuiet`, `EveryDeferRuns`, `FallingClears` | with `-hold`, two moves, a death, stalls, hangups and a control server that fails |
| `life_interrupt` | `ExitsOnInterrupt` | with `-hold 0` and a server that reads, a signal ends the program |
| `life_dead_kick` | `EveryDeferRuns`, violated | with `-hold 0`, a dead bot that is kicked |
| `move_walk` | `TypeOK`, `WalkEnds` | a walk of three steps against teleports and velocities without end, and writes that may block |
| `move_settle` | `SettleEnds`, `DriftHeals` | the idle loop and a waiting verb against the same |
| `fall_ends` | `TypeOK`, `DeathEndsFall`, `FallEnds` | water and void, a server that corrects, knocks, kills and revives at any time and may stop reading |
| `fall_lands` | `LandsOnFloor` | ground and lava, terrain that comes and goes, corrections up and down the column |
| `verbs` | `TypeOK`, `UseIsLetGo`, `InputIsLetGo`, `ReportIsTrue` | any two verbs, at once or one after the other, with two upsets of the server's and contexts that end |
| `windows_steps` | `ShapeSurvives`, `WindowInStep`, `InventoryInStep`, `OpensOnFresh` | two windows one after another, one of a merchant, with a click or a swap, a change of the server's own and a second request that closes |
| `transfers` | `NeverMoreThanAsked`, `ReportIsTrue`, `ShortOnlyWhenFull`, `VerbsReturn` | any two verbs over four windows, with late answers, cancelled contexts and somebody who takes out and puts back for ever |
| `wire` | `NoSplice`, `UpIsChannel`, `DownIsChannel`, `ConnectEnds` | a whole `Connect` with and without compression, a pack downloaded meanwhile, and every way in which the server can fail |

**Bounds.** They are constants whose comments begin with "bound".

- *Packs.* One slot is taken by a worker, whatever its pack, so that a second pack
  adds no contention that a replacement does not; two offers are the least with which
  one is withdrawn while the other waits. The proofs of `DownloadsBounded` and of the
  other safety properties are for any number of packs, offers and slots.
- *Lifecycle.* Two moves give two automatic falls, of which one may be ending when
  the other begins; one death covers the idle loop of a dead bot, with and without
  respawn.
- *Movement.* `Endless` leaves the server unbounded. Three points to walk and two
  ticks of stall let a walk make progress, lose it and make it again; two points
  are enough for the server and the client to disagree.
- *Falling.* The server corrects, knocks, kills, revives and changes the terrain
  without bound; a fall is bounded by the code's own limits, `MaxFallBlocks`,
  `maxFallResumes` and `maxSurfaceTicks`, which are 2 to 5, 1 and 1 to 2 here (two strokes in `fall_ends`, one of which
  may follow a death). One
  resume is one more than the first descent, and the height of `Top` is two ticks
  of gravity at least.
- *Verbs.* Two verbs, since each property is about one verb that another, or the
  server, comes between. Two upsets give a teleport and a death, or a death of which
  the respawn is a second teleport. One packet in flight when the server sends
  another leaves a respawn's two on the way together.
- *Windows.* Two interactions are the least with which a window can be another than
  the one a verb waited for. One change of the server's own and one click cross each
  other in either order.
- *Transfers.* Stacks of three leave room for one that is wanted whole, one in part
  and one that fills up. Two slots on either side give one that is full or in the way
  and another that is not. Two verbs let one find what another left on the cursor.
  Others move only under the first, and nothing follows a disturbed verb: what they
  would do before it is another layout.
- *Wire.* Bytes of one bit, six of them, and a word of five bits, so that a `VarInt`
  has room for more than the word keeps, as five bytes of seven bits have for 32; a
  frame is at most 8 long, below the sign. A packet of two bytes has a length of one
  `VarInt` byte uncompressed and of two compressed, and payloads lie on both sides of
  a threshold of 2 and all over one of 0. Two requests, one of which has the second
  writer answer.

**Fairness.** A goroutine that can run does (weak fairness of each thread), since Go
schedules every runnable goroutine. Writes are not fair, since `conn.go:182` sets no
deadline: a server that stops reading blocks one for good, and neither a context nor
a bound on attempts ends it. `ResourcePacks` and `Lifecycle` have the server's
reading as state and enable a write only while it reads. `Movement`, `Falling` and
`Transfers` state no fairness for the steps that write, and their properties name
the alternative: a walk, a wait, a fall or a verb ends, or from some point on it is
in one write for ever (`Blocks`, `[]Writing`, `[]Clicking`). Only `Wire` assumes that
writes go through. Nothing else is assumed of the server, the operator, contexts, or
an HTTP server that serves a pack.

- `Lifecycle` has strong fairness for two choices. `LoopStops` is one case of a
  `select` that is ready again and again; Go chooses among ready cases at random.
  `FallEnds` stands for the end of a descent, which the limits of `descend`
  guarantee: run `fall_ends` is the evidence. A read that gets nothing ends with the
  read timeout, and the `-hold` timer fires.
- `AcceptedIsAnswered` assumes, in the property itself, that the 60 s timers fire.
  The other properties of its run do not need them.
- `Movement` has weak fairness for its two clocks.
- `Transfers` has weak fairness of the verb's own steps; the pauses of `clickDelay`
  end whether or not the server has answered.
- `Wire` has weak fairness of the two goroutines and of a server that serves taken
  together. A write to a server that has not closed goes through: the few hundred
  bytes of a login fit in the buffers of a socket, and `ConnectEnds` is about nothing
  longer. No step of a conversation can be undone and each moves it on, so that the
  whole being fair makes each part fair. A server that has failed owes nothing, and
  the read deadline then passes.

`Verbs` and `Windows` state no fairness: their waits end with a deadline or a
context, and what can go wrong in them is what is true afterwards.

## Theorems

For every value of the constants that satisfies the module's assumption.

**`ResourcePacksProofs`** proves `TypeCorrect`, `StatusPhase`, `DownloadBound`,
`QuietStop` and `NoStale` from `PacksAssumption`. The inductive invariant `IInv` is
the type invariant and seven facts. `LockInv` says which control points hold
`packs.mu`, and so that they exclude one another; without it none of the others is
kept by a step of another thread. `RegisteredInv` says that a registered job
belongs to a worker that is still to take the mutex; `FreshInv` that offers not yet
taken have no worker; `ResultInv` that a worker which has something to report has a
result; `ReportInv` that a worker between its look at the job and its last write
is not that of a withdrawn offer, which is why a stale reply is impossible rather
than just unlikely; `PhaseInv` ties the phase of the connection to what is on the
wire; `SlotInv` counts: `active` is the number of workers that download; `StopInv`
says that after the stop nobody starts a worker. `NoStale` is an action property and
follows from `ReportInv` and `FreshInv` at each write. `WellFormedConversations` is
about the statuses of one offer among those of all others: `TalkInv` says that for
every offer they are one of the `Histories`, the beginnings of the conversations
allowed, and which one, by where the reader and the offer's worker are (`Agrees`). A
status is the k-th of its offer when k of that offer are on the wire up to it, so that
a packet about another offer moves no position and one about this adds a last one.

**`LifecycleProofs`** proves `TypeCorrect`, `OneFall` and `QuietExit` from
`LifecycleAssumption`. `FlagInv` says that `c.falling` is set exactly while one fall
drives the bot, `FreshInv` that a fall about to be started is new, `ClosedInv`,
`ServerInv` and `QuietInv` what has ended by each of the deferred calls.

**`FallingProofs`** proves `LateDeath`: neither a descent nor the swim that may follow
it sends more than one position after a death. For `descend` that is a death since
it read `Deaths`, whether or not the bot has respawned; for `surface`, which asks
`Dead` after each stroke and nothing else, a position it read in the former life or
while dead. `late` counts the two apart, so that a fall that ends in water may send
one of each. `LateInv` says where nothing has been sent late, and that where
something may have been, the death is still to be seen; `GoingInv` that the deaths
are being counted all that time. It also proves `TypeCorrect`. That a fall goes no
deeper than its bound, and resumes no oftener than it may, is not inductive:
`RangeInv` adds that its start is a height the server uses, that the count of
resumptions is still below its limit between the look at it and the resumption, and
that a stroke has a surface to end at. `FallLandsOnFloor` has hypotheses, `PlainFall`:
the server leaves the bot in its column, and `FallTo` is given the floor's height;
the run has them too. `ColumnInv` says that the variables of the descent, the scan
and the bot are then about one column, and that the height it falls to is at most
its floor's; that terrain stays loaded is not needed.

**`MovementProofs`** proves `TypeCorrect` from `MovementAssumption`. `TypeOK` is
inductive as it stands; its bounds say that `WalkTo` never aims past its target and
gives up at the tick it is to.

**`VerbsProofs`** proves `InputLetGo` and `UseLetGo` from
`VerbsAssumption`, for any number of threads, verbs and upsets, where the run has two
of each. What a verb presses it lets go of: `PressInv` has, for every bit that the
client or the server has set, a thread that is yet to clear it, and `UseInv`, while an
item is in use, a thread that is yet to release it; neither can name it, as two
threads may press the same bit and the first to let go clears it for both. Every step
that would leave a bit or an item behind with nobody to let go of it adds one of the
slips that the property excepts, or needs the socket closed, and so the proof is
complete about the ways there are: `MovesQuietly` is where they meet.
`ThreadInv` says what a thread's control point says of its variables.

`TypeCorrect` needs `BoundInv`: the breaks recorded and the threads under way are
together no more than the verbs begun. `ReportTrue` says that a verb's report about
the block agrees with the server once nothing is on its way. `ReportInv` follows the
last word on its way that is about the block (`LastWordIsRight`), or what the client
knows when there is none, and has what was reported agree with what the client
knows. The one exception, `forgotten`, is needed: without it TLC finds a dig that took
terrain which was only dropped for a block that is gone.

**`WindowsProofs`** proves all four properties of its run from `WindowsAssumption`, for
windows and inventories of any size and any number of interactions, clicks and
changes. What both ends have can differ as long as something is on its way, so that
the invariant is about the last word: for each slot of the open window (`SlotInv`), for
each row of the player's (`RowInv`) and for the state id (`StampInv`), the last packet
still to be handled that sets it says what the server has, or there is none and the
copy is right; a packet whose handling has begun counts for what is left of it, and a
swap on its way to the server promises the answer that will set its two rows. For that
the window has to be the same one at both ends: `IdInv` says by which order of opened,
closed and filled windows it is, and where it is not. `CoreInv` has the types, that
packets about a window come after its opening (`SetsComeAfter`, `OpenIsFilled`), and that
what the client shows has the length it was opened with, which is `ShapeSurvivesAlways`;
`ThreadInv` has the variables of the two verbs. `OpensOnFreshAlways` needs all of it: a
window that `awaitContainer` accepts is later than the one it looked at and has been
filled, because nothing sets a slot of a window before its contents. The invariants
were checked by TLC with two and with three rows before they were proved.

**`TransfersProofs`** proves the three safety properties of its run from
`TransfersAssumption`: for windows of any size, stacks of any height and any verbs one
after another. The server spreads a shift-clicked stack over as many slots as it takes,
so that the proof begins with what a sum over a range is: `CountUpdate` says what one
slot changes of it, and `PourFacts` and `NormalClickFacts` that no click makes or loses
an item, that a shift-click leaves something behind only where nothing more goes in,
and that a right click puts down at most one. These are facts about functions that
recur on the slots, proved from the least slot at which they would fail (`Upwards`,
`RecursionExists`).

The inductive invariant `IInv` has a part for each value of `calm`. Whatever a verb
meets, `Typed` and `PointInv` hold: what it has chosen by the point it is at. Unless it
is disturbed, `CalmInv` holds too. `NewsInv` is what its copy is worth: every word on its
way is true, a slot that is wrong in the copy is about to be said, and a click that the
server will act on was sent with nothing on its way, since a click overtaken by news is
refused. So a whole stack goes across only if it was counted as it is (`QuickInv`), and of
the clicks that place single items at most one is still to be acted on: `PartInv` bounds
the sum of what has been gained, is left to place, is on its way and is `Hidden`. This
gives `NeverMoreThanAskedAlways`. The last term is needed because an earlier verb may
have left another item on the cursor: a click on the destination then exchanges it for
the stack there, and the next click puts that whole stack back.

While the server keeps up, `PromptInv` follows every item: a pause begins with one fresh
click and ends with none (`CleanInv`); the picked-up stack is in its slot, on the
cursor or put back, and source, cursor and destination add up to what was counted first
(`HandInv`); and a shift-click has moved something or the far side is full (`MovedInv`).
From these a verb that returns without an error has kept to `Done`, which holds until
the next begins: `ReportIsTrueAlways` and `ShortOnlyWhenFullAlways`. TLC checked `IInv`
over the states of run `transfers` before it was proved.

`StepsRunOutAlways` is what can be proved of `VerbsReturn`: `StepsLeft` is a natural
number that each step of a verb lowers, that neither the server nor news nor others
change, and that is at most 4 * `MaxStackMoves` + 2 * `MaxStack` + 9 when a verb begins.
What is left to TLC is that the goroutine of a verb can go on until it has returned,
and does.

**`WireProofs`** proves `OneWriter`, that the two goroutines are never both between
the lock and the unlock of `writeMu`, and `NeverSpliced`, that every byte on the wire
is followed by the next of its own frame or by the first of another, from
`WireAssumption`: for every base and width of a `VarInt`, every threshold, every
conversation and every fault. `NoSplice` alone says nothing of a frame half written.
The invariant adds that a writer's remainder is the end of one frame (`Remainders`),
and that a wire which still takes bytes ends where the remainder of the holder of
`writeMu` begins (`Continues`), or at the end of a frame (`Complete`). A write that
fails leaves half a frame behind; it is the last thing on that wire, because the
socket is closed at the other end, which is why both are stated of a live one.

It also proves that `Wire` implements `PacketChannel` in both
directions, `UpChannel` and `DownChannel`, from `WireAssumption`, which has every
length of a frame below the sign of an int32, and `WidthAssumption`, that the bytes
of a `VarInt` have room for more than the word (in the code 35 bits against 32).
`VarIntsAreRead` comes first: what `AppendVarInt` writes for `uint32(v)` is read as `v`,
negative or not, and whatever else the bytes have room for is read as what the word
keeps of it. The value read and what is left of the number make it up at every
digit. What `DownChannel` says of a stream that is no longer one of frames is said of
`Garbage`: a length the code refuses (`conn.go:114`) is never taken for a packet, nor
is one past 32 bits, such as `81 80 80 80 10`, which is read as 1, while no body
follows. The functions of it are recursive, and
what induction would give is got from the least number at which a claim fails
(`LeastOne`, `RecursionExists`). Then a frame is the front of the bytes it begins, and
of no other, and is decoded under its own threshold to its own packet.

The inductive invariant `CInv` is that of `NeverSpliced` and what a reader needs. The
bytes of either direction are the frames that have not been read, one after another
(`Stream`); in `UpInv` half a frame may follow, and while the wire takes bytes it is
the front of the frame of whoever is writing, as `RestInv` has the rest of it; in
`DownInv` bytes that are no frame may. `LevelInv` says that each end's threshold is the
one its next packet calls for. That is not inductive: were the client to have
something on the way when the server announces compression, the server would read it
under a threshold it was not encoded under. `EarlyInv` says what keeps that from
happening: until the login is accepted the client writes two packets and waits, the
other goroutine has not started, and the server, by `OrderInv`, announces compression
once, in between.

**Only model-checked.** All liveness properties (`StopReturns`,
`ReaderNotDelayed`, `AcceptedIsAnswered`, `EveryDeferRuns`, `FallingClears`,
`ExitsOnInterrupt`, `WalkEnds`, `SettleEnds`, `DriftHeals`, `FallEnds`,
`VerbsReturn`, `ConnectEnds`): fairness is out of the prover's reach. Every other
property that holds in a run, and so every safety property, is a theorem.

## Where the code and its comments disagree

A run shows one:

- `life_dead_kick`: with `-hold 0` a dead bot that is kicked never exits. The idle
  loop of a dead bot does not touch the socket (`heartbeat.go:71`), its context is
  ended only by a deferred call that comes after the one that waits for it.

The models have the following behaviours too, which the properties state as their
exceptions or which the text of a property allows.

*Movement and falling*

- `writePosition` is said to be where "the local state and what the server is told
  can never drift apart" (`move.go:63`). It records under `c.mu` and sends after it, so
  that of two writers the one who recorded last may send first; `told # pos`, which
  `DriftHeals` starts from, is that state. It is put right a tick later, not never.
- The settle wait is called a ceiling, not a cost (`settle.go:29`). The position is
  written before the wait, without a deadline: while that write blocks there is no
  ceiling, which is `Blocks` in `SettleEnds`.
- `surface` asks only `Dead` (`fall.go:287`): a bot that dies and respawns between two
  ticks of it is not noticed, and swims on from the position it then reads.
- A teleport into the air that arrives after a fall's last look and before its flag
  is reset starts no fall and is seen by none (`fall.go:308`).
- The idle loop decides, reads and writes in three steps, so that it can undo a
  teleport (`heartbeat.go:78`). `DriftHeals` is the other side of it: what the idle
  loop or another writer gets wrong, the idle loop puts right a tick later, as long as
  the bot lives.
- The floor of a descent is that of the column it began over (`fall.go:233`), which
  is why `LandsOnFloor` is checked for a server that does not move the bot sideways.

*Verbs*, where the ghost `slips` has a name for each

- `unsettled`: `UseItemFor` says that it lets go whatever ends its wait
  (`place.go:98`), but the release waits for a teleport to settle under the same
  context and is given up when that has ended (`place.go:108`).
- `cancelled`: `DrawBow` and `Consume` return from a wait whose context ended without
  a release (`bow.go:61`, `verbs.go:152`).
- `tap`: with no time to hold, nothing is ever released (`place.go:105`).
- `refused`: a bot that died while it sneaked or sprinted is refused the release
  (`verbs.go:57`, `move.go:113`).
- `crossed`: `setInputBit` reads, changes and writes back, so of two at once one may
  undo the other (`verbs.go:30`).
- `dropped`: a release that reaches a server which has just teleported the bot is
  dropped by it.
- `forgotten`: `awaitBreak` takes terrain that has been unloaded for a block that is
  gone (`dig.go:202`).
- A start can follow a break that had to be held for within its cooldown. `dig.go:39`
  says that vanilla "gates the next start on it" and that reproducing this keeps a
  bot's cadence inside what a player could produce; `DigBlock` sends `StartDig`
  (`dig.go:128`) before it waits (`dig.go:131`), so that what it gates is the finish,
  and `DigLookingAt` (`raytrace.go:165`) waits nowhere. No property says otherwise.
- `awaitBreak` is said to
  send `FinishDig` again (`place.go:17`); it sends it once.

*Windows*, where the ghost `races` has a name for each

- `lost`: an update through a window that the client has closed itself is dropped,
  with the player's rows in it.
- `overtaken`: the guess of `HoldItem` may be made after the answer it anticipates,
  and then overwrites it (`inventory.go:107`).
- `undecoded`: when an item of a window does not decode, the rows after it are not
  mirrored to the inventory.
- `crossed`: `CloseContainer` tells the server of the window it read the id of and
  marks whichever is open by then closed (`container.go:270`).
- A merchant's offers are cleared when the next window opens; they are said to be
  discarded when the window closes (`trades.go:67`). `RetryFires` looks whether a
  window has opened and then asks again: one that opens in between is replaced.

*Transfers*

- A stack that is wanted in part goes to the first slot that holds the item, even a
  full one, so that a transfer can be short with an empty slot beside it
  (`storage.go:20` says that it is when the container fills up).
- A placement cancelled in the middle leaves a stack on the cursor, and the next verb
  puts down where it means to pick up.
- An answer later than the pause makes the next click stale, which the server then
  does not act on: what is reported is what the copy shows.
- `PutOneIntoSlot` onto another item exchanges the whole stack; `DepositAll` ends at
  the first stack that does not leave whole.

## Hazards no property covers

- `background` adds to the wait group on behalf of a handler that may run while
  `Close` is already waiting (`client.go:259`), and requests still running two seconds
  after the shutdown of the control server use a client that is being closed
  (`control.go:71`). `Lifecycle` has both; what the verbs do then is not composed
  with it.
- A position is stamped after it was written (`settle.go:68`), so that one sent before
  an echo can settle the teleport. `Movement` has the three steps.
- In `descend`, a correction between the look and the next packet is overwritten
  (`fall.go:184`), a second one is counted as seen (`fall.go:214`), and a column
  unloaded between `HasChunk` and `Scan` reads as a void (`world.go:76`). `Falling` has
  all three; where the fall then ends is checked, the height that is lost is not.
- A walk has no check of deaths as `descend` has and goes on from the spawn point
  (`move.go:160`); nothing in the repository says whether it should.
- The base of a relative teleport may be replaced before the result is stored
  (`client.go:624`), and sequence numbers are drawn before the packets are written
  (`dig.go:20`). The models have neither.
- A hopper that adds to the source of a transfer makes it move too much
  (`storage.go:83`): the count cannot tell. `NeverMoreThanAsked` is of verbs nobody
  else disturbs.
- `Trade` waits for a result that differs from the one before, which an identical one
  offered at once never does (`container.go:599`).

## Not modelled

- *Generated protocol tables* (`protocol/versions`, `internal/gen`), some 95,000 of
  the repository's 109,000 lines: packet numbers, block shapes and registries per
  version. They are data without control. `Wire` takes packets by name.
- *Crafting, workstations and trading.* Sequences of the clicks of `Transfers` over
  result slots; planned.
- *World and entities*, beyond the column under the bot and one block: locked maps,
  written by the reader and read by copies.
- *Login and configuration*: the choice of a version (`detect.go`) and the dialing;
  encryption, which the client refuses.
- *Digging and placing*: `DigBlocks`, which is one `DigBlock` after another, and
  sequence numbers, which the modelled server does not look at.
- *Transfers*: a window that closes under a transfer and a click whose write fails,
  both of which end the verb with an error. A click whose write blocks is modelled.
- *Movement*: rotations, and the base of a relative teleport.
- *Control API*: its routes each translate one request to one call of the client.
- Left out for good: geometry and ballistics, which are floating-point functions;
  decoding of NBT, item components and text, which have no state; wording and
  logging.
