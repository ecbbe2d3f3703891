# Verification of paintball-demo

paintball-demo lets two teams play paintball with their positions on a phone's
map. Fixed UWB **anchors** send messages in a common schedule; a **tag** on each
player measures when they arrive and passes the differences over BLE to his
**phone**, which computes a position and shares it over MQTT; a REST **server**
keeps the game and its teams. This directory models the firmware, the server and
the app wherever their correctness depends on interleavings, failures and order,
checks the models with TLC and proves part of the result with TLAPS.

Paths below are relative to `src/`; FW is `tag-firmware/firmware`, SRV is
`paintball-demo-server/src/main/kotlin/demo/server/paintball`, APP is
`paintball-demo-app/app/src/main/java/demo/app/paintball`.

## 1. Inventory

| component | state it keeps | operations | hard behaviour | what makes it correct |
|---|---|---|---|---|
| Anchor schedule (FW/impl_anchor.c, timing.h, data_format.h) | frame timer with two compare registers, state, superframe id, two records of time stamps | superframe and slot interrupts, radio callbacks, start | two interrupt priorities, losses, collisions, clock correction, late joins and restarts | each anchor in its own slots, one superframe id, superframes that never fail to begin, time stamps under the right name |
| Tag (FW/impl_tag.c, dwm_utils.c) | mode, radio, timer, receiver, synchronisation counters | mode callback, message and superframe interrupts | the switch is interrupted by what it switches; counters shared by two interrupts | hardware in step with the mode; synchronisation gained by messages and kept through a few losses |
| Radio driver (FW/decadriver, dwm1000_driver.c) | the chip's events, its transceiver, one edge of its interrupt line | `dwt_isr`, receive, transmit | an edge-triggered interrupt, preempted by the one that transmits, over one chip | no event stays unserved, no receiver stays off, an accepted message is sent |
| BLE services (FW/ble/*.c) | connection, mode | writes, connection, disconnection | a bounded queue whose overflow is ignored | the tag ends in the mode that the client asked for last |
| BLE connection (FW/ble/ble_func.c) | handle, negotiation, advertising | events of the SoftDevice, negotiation | events handled after the link they speak of is gone | a tag is found again after every connection |
| Accelerometer and tick timer (FW/accel.c, utils.c) | sampling state, reference count | control writes, use and release | a count shared by two components | the timer runs exactly while used |
| Main loop (FW/main.c) | job queue | dispatch | events, messages and mode changes in one queue | order; no overflow |
| Observer, UART, CRC (FW/impl_observer.c, uart.c, crc.c) | receive buffer | copy each reception to the UART | FIFO full in an interrupt | frames complete, checksums right |
| Game server (SRV/service/GameServiceImpl.kt, controller/GameController.kt, data) | one game, two `ArrayList`s | get, create, delete, join | Tomcat's threads without a lock | players stay in the team they joined, once |
| Position feed (SRV/service/test/TestServiceImpl.kt) | a `Timer` field | start, stop, test messages | the field is replaced and cancelled by concurrent requests | every feed can be stopped; no feed for a game that is gone |
| MQTT publisher (SRV/service/MqttServiceImpl.kt) | one client | publish | an exception ends the caller's timer | one failure does not end the feed |
| REST client and lobby (APP/data/rest, APP/activities/DashboardActivity.kt, JoinGameActivity.kt) | one listener, the player, buttons, a refresh timer | create, join, delete, start | answers that come after an activity is replaced, fire-and-forget delete | phones, server and START agree on who plays |
| Map activity, MQTT client, spying (APP/activities/MapActivity.kt, APP/data/mqtt, APP/fragments/buttons/MainButtonsFragmentImpl.kt) | subscriptions, listeners | messages, leave, spying | reconnection, messages before the game is read | the right positions for the right time |
| BLE client (APP/data/ble, ConnectTagFragment.kt) | listeners, network info | connect, write mode, notifications | list changed while iterated, info read late | a notification is parsed with the tag's own layout |
| Positioning (APP/util/positioning) | last position, window, the pending measurement | calculate | field overwritten before the posted task runs, divergent iteration, data of the tag's format | the newest measurement counts, data fits, an iteration that did not converge is not taken for a position |
| Chat (APP/fragments/buttons/ChatButtonsFragmentImpl.kt, RecordService.kt) | recorder, thread, timer | record, stop | time limit against tap in three threads, stop before start | each recording ends, is stopped once, and alone has the microphone |
| Rendering (APP/map) | drawing threads, lists | draw, add, remove, surface callbacks | lists shared by threads, surface changes | one drawing thread, all players on it |

The parts talk through messages (anchor to anchor and tag, UWB), GATT writes and
notifications (tag to phone), REST calls (phone to server) and MQTT topics (server
and phones). Inside the firmware the contexts share static variables; on the
server the threads share one field and two lists; in the app singletons call
back whichever activity registered last.

`PROJECT.json` lists every component with its status and every hazard with its
line and the properties that are about it.

## 2. Modules

| module | models | source |
|---|---|---|
| `AnchorTdma` | N anchors, the air between them, the two interrupts | FW/impl_anchor.c, timing.h, data_format.h |
| `TdmaSchedule` | the abstract schedule the anchors implement | (specification) |
| `AnchorTdma_proofs` | safety under any faults; the orderly network's schedule and time stamps | |
| `TagNode` | one tag: BLE stack, queue, mode switch, interrupts, tick timer | FW/impl_tag.c, ble/*.c, utils.c, accel.c, main.c |
| `TagNode_proofs` | invariants and theorems | |
| `RadioDriver` | the chip's events, `dwt_isr` and the transmission that preempts it | FW/decadriver/deca_device.c, dwm1000_driver.c, impl_anchor.c |
| `BleGap` | a tag's connection between SoftDevice and main loop | FW/ble/ble_func.c |
| `Observer`, `Crc` | frames through a full UART buffer; their checksum | FW/impl_observer.c, uart.c, crc.c |
| `Firmware` | the promises of driver, connection and observer, side by side | |
| `Firmware_proofs` | invariants and theorems of these three | |
| `GameServer`, `MCGameServer` | request threads over the game and its lists | SRV/service, controller, data |
| `GameServer_proofs` | types, who may be in which list, who an unraced list holds at each step, phones that wait | |
| `PositionFeed` | test positions: the `Timer` field, its threads, the publisher | SRV/service/test/TestServiceImpl.kt, MqttServiceImpl.kt |
| `PositionFeed_proofs` | the feed, for any threads, games and players | |
| `Server_proofs` | the server's two composed properties | |
| `Lobby` | phones from the dashboard to START, and the calls under way | APP/activities, APP/data/rest, APP/data/mqtt |
| `MapSession` | a phone on the map: subscriptions, spying, leaving, players | APP/activities/MapActivity.kt, APP/fragments/buttons, APP/data/mqtt |
| `PositionCalc` | from a measurement to the position that is shown | APP/util/positioning |
| `RenderLoop` | drawing threads over the main thread's lists | APP/map |
| `ChatRecorder` | taps, the time limit and the recording threads | ChatButtonsFragmentImpl.kt, RecordService.kt |
| `TagLink`, `TagScan` | the phone's requests to a tag; the dialog that finds one | APP/data/ble, ConnectTagFragment.kt |
| `TagPosition` | `TagLink` and `PositionCalc` together, as the map connects them | MapActivity.kt, BleServiceImpl.kt |
| `AppParts_proofs` | invariants of the app's seven parts, for any bounds | |
| `MCFirmware`, `MCServer`, `MCPhone` | the instances that TLC checks | |
| `Phone_proofs` | the app's properties on these instances | |

`MCFirmware` (over `Firmware`), `MCServer` and `MCPhone` put the parts of the
firmware, the server and the app side by side; `MCFirmware` also a network of four
anchors, the real number.
There a part shares no variable with another: where one hands something over (the
lobby opens the map, the link delivers a measurement), the receiving module has
every such hand-over among its own inputs. So the behaviours of a part in the
product are its behaviours alone, and an interleaving of two parts has no state
that decides a property of either. The product is therefore explored one part at
a time: `part` is chosen at the start, that part runs on one of its instances, and
the others keep their initial state. Each property of an MC module names the
instances it is for and joins the named parts, defined and explained in the part's own
module, of one promise (`LobbyKept` is `TeamAgrees` and `NobodyLeftBehind`, say); each
part has a variant that breaks it.

Each module's variants (an operator marked "Variant") are faulty forms of the
definition that follows; they belong to no specification, and each breaks the
property that the definition is there for.

### 2.1 AnchorTdma

State follows impl_anchor.c's statics: `counter`, `cc0` (slot register) and `cc1`
(end of the superframe) are the TIMER1 counter and compare channels,
`compensation` is `m_frame_timer_compensation_us`, `infos`, `src_parity`,
`old_src_id` are the statics of the receive branch. `due` holds compare events
whose interrupt has not run. The environment is `Tick`, `Land` (a frame arrives,
with collisions and losses), `Boot` and `PowerOff`. The timer's handler is one
action per branch of `event_handler` and one step each, because nothing preempts
it (priority 2); the radio's (priority 6) is cut into the steps between which the
timer's may run: `RxCapture` reads the counter, `RxCompensate` derives the
correction, `RxProgram` writes the register, `RxAdopt`, `RxRecord` and `RxStamp` do
the rest.

Abstractions: time in ticks with `SLOT` of them to a slot; a handler is done
within a tick; clocks do not drift against each other; a receive time stamp is
the anchor whose message it stamps (that is what `StampsAttributed` is about, not
its value); `SYNC` is the constant 150 us of the correction.

`Orderly` is a scenario: anchors join between the two messages of an anchor and
leave between superframes. It is a restriction and is named in every property
that needs it; `anchor_faults` and `anchor_join` run without it.

What the modelling showed:

- `impl_anchor.c:180` takes every message for a parity 1 message. An anchor that
  hears a parity 0 message first ends its superframes one slot early
  (`anchor_join`, a finding). After the start only DISCOVERY and line 250 correct a
  clock, with the same formula: the parity 1 message of a lower anchor mends it,
  so losing those leaves a follower early, and with its parity 1 messages lost
  it stays so. For the same reason a network that is switched on in a staggered
  way without traffic meets the case.
- `set_frame_timer` subtracts a correction that may exceed the slot's time; the
  unsigned register then wraps, the slot's interrupt does not come and the anchor
  stays in WAITING_SECOND. `TypeOK` bounds `cc0` by the register's width for
  this; in the orderly network `EveryAnchorHeard` shows that it does not happen.
- A failed `dwt_starttx` follows `dwt_forcetrxoff`: the receiver stays off until the
  next successful transmission. This is why `DiscoveryListens` speaks of DISCOVERY
  only.
- Time stamps are misattributed with four anchors if parity 0 messages may get
  lost (two records for three senders): `StampsAttributed` is checked in the
  lossless network (`StampsOfFour`).
- An anchor 0 that joins a running network may change its superframe id between
  its two messages, when its own superframe begins inside the radio's handler;
  `PairedSuperframeId` is stated for the followers.

### 2.2 TagNode

Contexts: the main loop takes jobs from the queue of app_scheduler; the radio's
interrupt preempts it, the frame timer's preempts both. The mode callback
(`ble_rs_mode_callback`) is therefore cut where hardware changes: `StartUwb`,
`EnableReceiver`, `FinishStart`, and `StopReceiver`, `StopTimer`, `FinishStop`; the
radio's handler is cut around the count (`RxLoad`, `RxStore`). The SoftDevice's
events come as poll jobs in the same queue (sdk_config.h:11895, dispatch model
APPSH), and a full queue is a fault there, but an ignored result in `set_rs_mode`
and the message handler. A running job stays at the head of the queue, as in
app_sched_execute.

Left out: GATT tables, register values and SPI transfers, LEDs, and the frame
timer's correction, which is the anchors'.

Notes: after 1, 2, 0, 1 the radio is initialised twice (`tag_modes`, a finding;
the phone app writes only 0 and 1, BleServiceImpl.kt:29-30). The message that
ends DISCOVERY is not counted. An increment that was cut by the superframe's end
brings the old count back, so the 8-bit count can run on and wrap to zero; this
costs one superframe of tolerance and `SyncKept` says so. Debug mode outlives a
disconnection on purpose. Each write of an accelerometer rate takes a reference
on the tick timer and one power-down returns one, so after several rate changes
the timer is never stopped, and after power-downs without use the ranging's
reference is released under it; `TickForRanging` is therefore
checked and proved for the phone of the game, which never writes to the accelerometer. Their
truth depends on the ranging service's observer being called before the
accelerometer's, which is the link order of CMakeLists.txt:71-72.

### 2.3 GameServer

A handler is taken apart into its reads of the field `game` and, inside a list,
into ArrayList's own loads and stores (`Search`, `Shift`, `LoadLast`, `Clear`;
`LoadSize`, `StoreSize`, `Store`; `Grow` for addAll), because the source has no lock
and Tomcat runs handlers in parallel. `Show` serialises red before blue and ends
early if the list shrank. What phones do is `Receive*`: in orderly use a phone
waits for the answer, disables the joined team's button and reads the game after
its join (JoinGameActivity.kt:118-140).

`raced`, `last`, `owed`, `asked`, `button` are histories for the properties; no
action of the code reads `raced`, `last` or `owed`.

Left out: name, type, time, admin (set once), the array's growth (a race in it
only leaves nulls, which `Stored` also does), and JMM reorderings. The find loop
of `remove` is one step, but a handler counts as inside the list from its
dereference, so that any overlap is recorded in `raced`. A response of any status
is a success to the phone (RestServiceImpl.kt:57-79), so a join without a game is
answered like any other.

What the modelling showed: races can lose or double a player, remove a player
who does nothing, and make a size negative, after which requests fail until the
game is replaced; `add` never looks whether the player is there, so a double tap
(Red, Red, Blue) leaves him in both teams; `initPlayers` reads the field again, so
two overlapping creations fill one game twice. None of the repository's texts
says otherwise, so these are hazards here and not findings, and the
properties state what holds outside the races: this is the weakest condition we
found under which the lists are right. What a list looks like inside, its size
against its places, is the JDK's business and no property's; who is in it is.

### 2.4 RadioDriver

One step is one SPI transfer of `dwt_isr`, because the slot's interrupt (priority 2)
preempts the pin's (6) between any two: `IsrRead` copies the status register, a
`Clear` step writes the event back, a `Callback` step ends with `dwt_rxenable`, and
`Transmit` (`dwt_forcetrxoff` to `dwt_starttx`) may come between them. GPIOTE sees
rising edges only and the line stays high as long as any event is set, so an event
that comes while another is set raises nothing: `EventsServed` says that the copy
and the clearing never leave one behind.

Assumptions, each a comment at its action: a slot is longer than a transmission
with its interrupt; what is left of an interrupted `dwt_isr` takes less than the
1451 us that a transmission is delayed. Whether the chip gives up a delayed
transmission when it is told to receive is open (its interface does not say); both are allowed
(`RxCancels`). Left out: wait-for-response, timeouts, double buffering (all of them
off in this firmware, and with them the overrun event), registers and timing.

What the modelling showed: the error branch of `dwt_isr` turns the transceiver off
(deca_device.c:2298), which kills an accepted message that waits for its time, if
the slot began between the branch's test and that call; nobody is told.
`OnlyErrorsAbort` says that this and the open question are the only ways. A
message refused by `dwt_starttx` as too late leaves the receiver off until the
next one (`NotDeaf`, `ListensAgain`).

### 2.5 BleGap

The SoftDevice's events reach ble_func.c through the main loop, when the link may
be gone; `events` holds those that are not handled. Every refused call ends in
APP_ERROR_CHECK, and the build has DEBUG (CMakeLists.txt:32), so `fault` stops the
tag. A failed negotiation of connection parameters disconnects from a timer
(ble_func.c:332) and meets a link that is already gone or going: the tag then
stands still until its power is cycled. `StopsOnlyLate` says that only such late
calls do that, `FoundAgain` that every other end of a connection is followed by
advertising. Pairing, MTU and the GATT tables are left out.

### 2.6 Observer and Crc

`Put` is app_fifo's put and the UART driver's immediate start; the fields of a
frame are one unit each, since only their order and completeness matter. A frame
that does not fit loses its end, the longest reception the firmware accepts (512
bytes and 12 around them) among them, as it never fits the 512 bytes of the
buffer; an empty good frame begins like an error frame. The repository has no
program that reads the line; what such a reader may rely on is `CrcMeansWhole`.
`Crc` runs the table of crc.c beside the division it stands for and beside itself
on a damaged copy.

### 2.7 PositionFeed

A start is cut where it reads shared state: the new `Timer` into the field, the red
list, the blue list, then the field again for every player. A `Timer` that was
cancelled, or whose thread ended by an exception, refuses tasks. The game may
change at any time (`ChangeGame`; `GameServer` models how).

What the modelling showed: a second start replaces the field, and the first feed is
then out of every stop's reach for the life of the server; tasks keep the players
of the game they were started for, whatever becomes of it; a publish without a
connection throws and ends its whole `Timer`, and the client never connects again.
Line 52 gives the red players the start of the blue ones, which only concerns what
is published. `StopReachesFeed` is the weakest condition for stopping that we
found. That tasks go on is a promise too: `PlayersFed` says that each player whose
start has read the lists is published again and again for good, whatever becomes of
the game, unless the feed is over some day. `beat` flips with each publish, so that
a publish is a step that fairness and the property can speak of.

### 2.8 Lobby

`listener` and `hears` are the single listener of RestServiceImpl and the game
listener of MqttServiceImpl, which a closed lobby keeps ("left") because the
dashboard registers itself in `onCreate` only. `calls` are requests on their way
there or back, served and answered in any order. The server is atomic here and
answers with any status (its failures to answer a GET, status 500, are left out);
`team` is the player's, `off` the disabled button of the open lobby. A START is
taken where `player.team` is set, even by a lobby that was closed.

What the modelling showed: after one lobby was left, a second creation never opens
the lobby, so its game has no admin; neither has a game whose creator joined by
hand before the answer came; a closed lobby pulls its phone into the map; an
answer to a join that comes after START leaves the phone in its old team while
the server has the new one; the admin's delete names no game and may reach a newer
one. `CreatorEnters` is therefore stated for the first dashboard and `TeamAgrees`
names the overtaken answer (`unsure`). The resources ship with `mapOnlyMode`
set to true (res/values), with which the app never comes here: `Lobby` is the
other configuration.

### 2.9 MapSession

`session` is what the broker keeps for the phone over cuts (clean session is off),
`orders` the subscriptions on their way; without a connection nothing is sent and
nothing kept. `rounds` are the timers of spying, which outlive the activity.

`movables` counts how often the renderer has each player, because `addPlayer` appends
without looking. `gets` is 1 or 2 when the map opens: the answer to the lobby's last
poll (JoinGameActivity.kt) may still be under way beside the map's own, and the one
listener is the map by then.

What the modelling showed: the end of a spying round that falls into a cut is lost,
and the enemies stay visible until another round ends (`SpyingEnds` says only
then); a timer of an activity that was destroyed does not find its button and ends
the app (MainButtonsFragmentImpl.kt:77), and its earlier task cuts a new
activity's round short; a second answer to the GET, in ordinary use the one to the
lobby's last poll, doubles the players and shows again who had left, and a doubled
player who leaves stays on the map once; a LEAVE before the first answer is dropped;
players are gone after a change of the surface; a server that lost the game answers
with no body, which ends the app; after a broker's restart the game topic is never
subscribed again. `ShownAsAnswered` therefore counts: everybody who has not left since
the last answer is shown, and nobody more often than answers found the loop. It holds
with faults and without; `SpyingExact` is stated for the instance in which none of
the faults occurs. What the chat and position messages carry is left out, and so is
the leave button, which has no handler in the app.

### 2.10 PositionCalc

The damped least squares are abstracted to the size of each step ("small" ends the
loop, "huge" is meant to) and to where the position is, near or far from the
field; the loop's counter, the fallback, the window and the field the posted task
reads are as in the code.

`Anchors` is the number that the map's configuration lists, eight in all three of
them, and `Pairs` what line 53 makes of it, 28; a measurement has as many readings as
arrived, which is another number.

What the modelling showed: a step of more than 100 m sets `iter` to MAXITER
(line 199), the increment passes it (line 202), and the test at line 210 then does
not fall back, so a position that has diverged is kept, next round's start
included. `MiddleDropped` is what is left of the intention: of the positions that the
last step moved by more than the error limit only those are kept that it moved by more
than 100 m. The window averages WINDOW_SIZE - 1 results, which is 5, where lines 37
to 40 speak of 6; `WindowForgets` states the 5, and that they are the last ones.
Data with fewer fields than pairs is an exception that ends the app. A burst of
notifications computes the newest measurement several times and the ones before it
never.

That exception is no corner case: `TagPosition` puts the link before the calculator,
with the four anchors of timing.h:8 on one side and the eight of the configuration on
the other, and the first measurement ends the app (`tag_position`, a finding). Only in
`PositionCalc`'s own instance, which is also given full measurements, does anything
of the algorithm run.

### 2.11 RenderLoop

One loop per change of the surface, each with its own lists, drawn element by
element between `lockCanvas` and its release. `torn` is ArrayList's modification
check. What the modelling showed: a loop whose surface changed twice is forgotten,
draws on without a canvas and ends the app; anchors are added while the thread
iterates already, which may end it with a ConcurrentModificationException; the
players are not carried over. When the system changes each surface once there is
one loop and none survives (`OneLoop`). Visibility of `running` between threads
is taken for granted, though the field is not volatile.

### 2.12 ChatRecorder

The timer's thread takes its task (`TimeOver`) and then runs it, which posts to the
main thread (`PostLimit`); Timer.cancel has an effect before the first of these only.
The recorder is prepared on a thread of its own (`Stages`). What the modelling showed:
a tap handled after the timer's thread took the task, posted or not, lets that limit
stop the recorder twice or, after another tap, end the next recording; a stop before
the recorder has run throws. `late` remembers such a tap, and `LimitsAreCurrent` and
`StoppedTwiceOnlyIfLate` say that it takes one. The end of the voice is not waited
for, and the reading thread ends when the pipe is closed by a garbage collection;
neither is modelled.

### 2.13 TagLink and TagScan

`TagLink` is the queue of requests, which a lost connection fails, the
cached mode by which a notification is parsed, and the number of anchors, read
once; `TagNode` is its other side. What the modelling showed: `disconnect` is
never enqueued, so the tag stays connected and ranging when the map is closed; a
failed write is not repeated; when the first read was lost, the start is queued
before the number of anchors is known, and the data is too short, which
PositionCalc does not survive. `CutToAnchors` says no more than how many fields
are cut out, those of the tag's own anchors; the map needs those of its eight
(`TagPosition`). Nor does it say what they are: the tag's message begins with its
group and source (data_format.h, `tag_to_ble_msg_t`), and time stamps follow, while the
phone takes the first field for the "timestamp of the beginning of the superframe" and
the others for ranges (BlePositionData.kt:10-18). Nothing reads that time stamp; the
ranges are what the positions are computed from, so the two sides of this link do not
speak the same format, whatever the number of anchors. The models carry the fields'
names along and leave it at that.

`TagScan` has the list of names and the set of tags that is looked up again by
position: with scan results queued behind the check, the tag that is connected
need not be the one that was tapped (ConnectTagFragment.kt:75), a second check
doubles the list, and a check after the dialog was closed ends the app.


## 3. Runs

| run | instance | question | result |
|---|---|---|---|
| `anchor_faults` | 2 anchors, any losses, crashes, joins at any time | is a superframe ever missed, is a slot interrupt ever stray, is a discovering anchor ever deaf, is a pair ever split between superframe ids | no |
| `anchor_orderly` | 3 anchors, parity 0 unreliable, orderly joins and leaves, fairness | does the network implement `TdmaSchedule`, agree on ids, align joiners, and keep hearing everybody | yes |
| `anchor_join` | 2 anchors, join at any time, fairness | does a joining anchor align with the sender | **no** (finding) |
| `tag_client` | modes 0, 1, 3, accelerometer rates, queue of 3 | is the hardware in step with the mode, do modes arrive in order | yes |
| `tag_phone` | modes 0, 1, queue of 4, counters, fairness | does the tag synchronise, keep it, go to sleep | yes |
| `tag_modes` | modes 0, 1, 2 | can the radio be initialised twice | **yes** (finding) |
| `server_games` | 1 phone, 2 threads, 2 games, with test players and without; the feed for 1 thread in order and for 2 at once, 2 timers, fairness | do members and lists survive creations and deletions, are answered joins shown; does a stop reach the feed, are players fed again and again until one, does it end with the broker | yes |
| `server_crowd` | 2 phones, test players, overlapping requests of any kind | where may a player be, and does anybody fall out of a list that no two requests met in | only where he asked to be; no |
| `firmware` | one anchor's driver, one tag's connection, one observer, the checksum; 4 anchors (the real number) without losses | is every event served and the receiver on again, is an accepted message sent; is the tag found again; does a checksum end a whole frame; are table and division the same; do the four's time stamps belong to the anchors they are sent with | yes |
| `phone` | 14 instances of the app's parts | do phone and server agree on teams, does START reach everybody, is the tapped tag connected, is data cut to its anchors, which position is kept, who hears and spies and is shown, who draws, who holds the microphone | yes, within the limits the properties name |
| `phone_fair` | 6 of them, fairness | does a creator enter, is a tag listed and told to range, does spying end, do recordings end, does surfaceDestroyed return | yes |
| `tag_position` | a tag of 4 anchors, a map of 8 | can the calculator take what the tag sends | **no** (finding) |

Bounds. Anchors: `SLOT` = 2, `PREFIX` = 1, `SYNC` = 0 keep the one order that the
code's microseconds have (prefix plus correction less than a slot: 1451 + 150 <
5000); `IDS` = 3 lets the id wrap and still differ between neighbours (the code:
256); `DISCOVERY` = 1 superframe of silence (5); `WIDTH` = 64 leaves more than two
superframes (2^32). Two anchors are enough for the timer's properties, each of
which speaks of one anchor and the message it corrects on, and the proofs cover
every N; the schedule needs three (a follower of a follower); two records for
three senders need four. Three anchors with all faults exceed 15 million states.
Tag: `Capacity` is 3 or 4 (10): overflow needs the queue full, which happens at
any size; `LossLimit`, `Byte` and `MaxMessages` (5, 256, 8) are reduced with
`LossLimit` + 1 < `Byte` kept; in `tag_client` they are minimal because nothing
there depends on them. `MaxRefs` ends the accelerometer's writes: the leak above would
make the count unbounded. `MaxSdEvents` bounds the SoftDevice's own buffer.
Server: two threads make every race between two handlers; a third adds none that
the properties tell apart. Two games make the field change under a handler,
including from one game to another. `MaxSize` ends joins that would make a list
longer. `AfterRaces` = FALSE ends joins and creations (not reads) once a race has
happened: what follows is only more of the same and takes over 5 million states.
The proofs need neither of the last two. Feed: two timers are a feed and the one
that replaces it; the roster has teams of different size and a player in two games.
Firmware: two refused transmissions (one may follow on another) for the driver;
up to 3 requests behind, of three kinds, for the connection (a request for the PHY
is answered like one for attributes); a buffer of 5 units, payloads of up to 3 and
3 receptions, so that frames fit, do not fit and meet a half-empty buffer; every
byte after every byte, and every burst of up to 8 bits, for the checksum.
Phone (values in `MCPhone`): two phones and one game for START and membership, one
phone with two games where calls fail or taps overlap; three tags when tasks run
at once, two with a queue of three; four anchors for the tag, the real number, two lost
connections and two maps; eight for the calculator, the configured number; MAXITER
and WINDOW_SIZE as in the code (20 and 6), measurements with enough, too few, cut and
missing readings, and too short ones, two tasks posted; two
cuts and one recreated activity (the second cut meets what the first one
left), two answers and two LEAVE messages of the other player where they meet;
three loops, so that a forgotten one is not the first or the last; three
recordings, of which the last may be ended by the first one's timer.

Deadlock is checked for the anchors and the server. The tag stops for good in a
fault. In `firmware` a stopped tag, a full count of receptions and the end of a
message are final; in `phone` and `phone_fair` an exception that ends the app,
everybody on the map, and the end of what the bounds allow are. `tag_position` is
about an end of the app.

Fairness. Anchors: the hardware goes on counting and transmitting and serves its
interrupts (WF on `Tick`, `Land` and the two handlers); nothing about booting,
losses or crashes. Tag: interrupts run to their end and the timer fires (WF on
`RxSteps` and `SfBegin`); the main loop returns between interrupts again and again
(SF on `MainLoop`, which interrupts disable); anchors are heard whenever the
receiver is on often enough (SF on `Receive`: the property is about tags in
range). Neither client nor phone is fair. Driver: the chip ends what it began, the
interrupt is served and the frame timer comes (WF on each). Connection: the main
loop handles events (WF on `Handler`), and a disconnection that was asked for
completes. Feed: a handler's thread runs on; a `Timer` runs the task whose time is
earliest, so every task has its turn, again and again (WF on `Publish` for each; each
publish is a step, as `beat` flips). Lobby: calls of a
kind that do not fail are served and answered, a START on an open connection
arrives. Map: timers go off and the broker takes what it is sent (WF); nobody has to
tap, connect or leave. Link: the library connects and works its queue (WF on
`Library`). Scan: the main thread runs its tasks (WF); the timer posts again and again
(SF on `Period`, which the bound of the queue disables now and then). Drawing:
threads run and callbacks return (WF); a thread gets the canvas between the frames
of another, which sleeps there (SF on `Lock`). Chat: timers go off, their threads post, and tasks
run (WF). In the composing modules each of these is asked only of the part that runs.

## 4. Proofs

`AnchorTdma_proofs`: `TypeCorrect`, `SuperframeNeverMissed`,
`SuperframeLengthBounded` (together `SuperframeAlwaysEnds`), `SlotInterruptExpected`,
`DiscoveryNeverDeaf` (together `StateAlwaysFits`) and `PairShareSuperframeId`, for every
N, slot length and width that `SizesAssumption` allows, with every fault. The register's type alone is not
inductive: a bound on `cc0` needs a bound on the correction, which needs the
counter read by the radio's handler to be no later than the end of a nominal
superframe. `AnchorInv` says per anchor what is pending without power
(`OffIdle`), that the end of the superframe is ahead (`ClockArmed`), that DISCOVERY
has not touched its clock (`DiscoveryClock`), where the slot register is in each
state (`SlotClock`), that a reading in progress is not behind the counter even if
a superframe began since (`Correction`), and how a join goes on (`Joining`). One
lemma per action, one step per conjunct that it can disturb.

The rest of `AnchorTdma_proofs` is about `OrderlyNetwork`, for any number of anchors:
anchor 0 founds the network and keeps its power (its counter is the clock that
the schedule maps to), joiners boot within an anchor's pair and the others leave
between superframes (`Orderly`), only first messages may be lost (a joiner takes its
clock from a second one, and every anchor its last correction), and `SYNC`, which
compensates for processing time that the model's handlers do not take, is 0. The
runs `anchor_orderly` (N = 3) and `firmware` (its network of N = 4) satisfy these. An anchor's clock
is not its counter: a first message is taken for a second one, which puts the
register wrong by a slot until the second one puts it right, and at the end of a
superframe the interrupts come one by one. `NetInv`
therefore says of each anchor how many ticks it is into the superframe as it sees it
(`View`), that this is anchor 0's value or a superframe ahead or behind at the seam
(`InStep`), that the ids differ by the seam's increment only (`SameStage`), for how long
a correction may be half done (`Half`), when the frames on the air began (`OnAir`), what
is true while a message is handled (`Receives`), and where founders and joiners are in
DISCOVERY (`Founds`, `Joins`). From it follow `SuperframeIdShared`
(`SuperframeIdAgreed`), `JoinerAligned` (`JoinAligns`), and `NetworkKeepsSchedule`
(`KeepsSchedule`): the initial states map to initial states of `TdmaSchedule`, a tick of
anchor 0 to a tick, a transmission to its owner's slot, the last of a frame to its end,
and everything else to a stutter. `StampsBelong` (`StampsAttributed`) assumes `AllHeard`,
in which first messages arrive too: a lost one leaves the time stamp of somebody else in
a record that its owner has not begun anew. `StampsInv` says which of the two records
is whose while a second message is awaited (`Chosen`, `HalfDone`) and that all the
others are `Clean`.

`TagNode_proofs`: `TypeCorrect`; under `ClientsKnown` (no client writes mode 2, the
case `tag_modes` refutes) `HardwareIsFree`, `UwbSwitched` and `TimerFound` (together
`SwitchIsKept`) from
`SwitchInv`, a table of what is on at each step of the switch, together with the
fact that the job being run stays at the head of the queue; `TickCounted` from
itself; `SessionFresh` from `FreshInv` (a tag about to listen is in DISCOVERY);
`SyncHeld` from `QuietInv` (as long as it matters, silent superframes counted are
at most those since a counted message), for every `LossLimit` + 1 < `Byte`.
`ClientFollowed` (`ModeFollowsClient`) is inductive with the types: the last change of
mode in the queue decides what the tag will be in, and a job put behind the others or
taken from the head leaves that where it is (lemmas on `LeadsTo`). `TickIsForRanging`
(`TickForRanging`) assumes `PhoneClient`, a client that writes modes 0 and 1 only and
no accelerometer rate, which is what BleServiceImpl.kt:29-30 sends. Its `TickInv` says
that whoever waits in the queue to release the timer comes when the tag is powered
down (`Released`), how many users there are at each step of the switch (`Users`), and
that the stack's events of a connection end with its disconnection (`Session`):
without the last, a release could overtake the mode change that goes with it.

`Firmware_proofs`, on `RadioDriver`: `EventsAreServed` (`EventsServed`), `NeverDeaf` (`NotDeaf`; with
the type, `DriverAlwaysServes`) and
`AcceptedIsSent` (`OnlyErrorsAbort`), for any number of refused transmissions and
both answers to `RxCancels`. `IInv` is the type, that the copy decides the branch
(`CopyTellsBranch`), that the copy never holds more than one event
(`OneEvent`: the transceiver is off when the next could come), that whatever is set
has an edge or a reader (`ServedBy`), and that an idle transceiver has somebody who
turns it on (`IdleWaits`). `AcceptedIsSent` needs of it that a transmission and its
event exclude the other branches.

On `BleGap`: `HandleFollows` (`LinkKept`), for any number of events that the main loop
is behind and any requests. In `GapInv` the two ends of a link are the first and the
last of the events it leaves (`EndsInOrder`), so the handle is right when the queue
is empty; a link that nobody has handled has left events (`NotCaughtUp`); and the queue
is at most one longer than its bound, by the disconnection. On `Observer`:
`OnlyWholeChecked` (`LineKept`), for any capacity, length and number of receptions and
any timing of the UART. What has been sent and what is in the buffer are one line
(`Line`); `uart_put` extends it by a prefix of what it is given (`PutExtends`),
reception by reception (`LineBelongs`).

`GameServer_proofs`: `TypeCorrect` (no null dereferenced, for any number of
threads, players and games) and `NobodyMoved` (`OnlyWhereAsked`). `IInv` is the type, `Placed` (each
list is a sequence over the players who asked for its team, its seeds and null)
and `StepsKnown` (a thread inside a join is at one of its steps, for a request that was
made). Lemmas state what each array operation does to such a sequence. No
assumption but that no player is called like the null. A size that a race made
negative is covered by the proof; TLC does not reach it within `AfterRaces`.

Its second part: `JoinsDoNotDisturb`
(`MembersKept`) and `GetShowsAnswered` (`AnsweredJoinsShown`). Neither is inductive:
in the middle of `remove` the list holds one element twice or a null within its size.
`ListInv` adds to `IInv`, for each list in which no two handlers met, that a writer is
alone in it (`Exclusive`), that the part that counts (`Counted`: one less than the size
between the two halves of size++ or --size) has no null and holds everyone who has to
be in it (`Due`: his last answered join was to this team, or a GET under way owes him),
and that the index and the size that a handler has read are still those of the list
(`LocalsFit`); `ViewsOK` carries it over to what a GET has serialised. With a race all
this is dropped, as the properties drop it, so nothing is claimed of lists that the
findings break.

Its third part: `NobodyTwice` (`NoDoubles`), which is about `Orderly` phones
and one creation at a time. `OrderInv` adds that the creator is one handler and works on
the game that the field holds (`CreateOK`), that a phone has one join under way
(`JoinOnce`), where its player is absent at each step of it (`JoinOK`: from the removal
on in no team of the handler's game nor of the one that the field holds by then, because
`addPlayer` reads the field again after `removePlayer`), that between
joins the disabled button names the only team he can be in, and which test players the
creator has yet to add. `DistinctSeeds` assumes that the test players' names differ, as
TestServiceImpl.kt:31-35 gives them, and that no phone's user has one of them: equals
compares names, so in the test environment a user called Dani would be doubled. That remove(Object)
found nobody must mean that he was nowhere: a least place exists because sets of
initial segments are well-founded (`LeastOf`).

`PositionFeed_proofs`: `FeedTypes` (no start schedules before the feed's first timer) and
`StopReaches`, for any threads, starts, games and players. `FeedInv` adds to the
types that timers are made one after the other and the field holds the newest
(`Newest`), that a timer which is over has no task (`TasksAreLive`), and that only a start
that overlaps another feed leaves a timer behind that the field does not hold
(`NoneLeftBehind`).

`Server_proofs` carries this and `GameServer_proofs` over to `MCServer`:
`ServerTypes` (`TypesOK`, with and without test players) and `StopReachesServer`
(`StopReachesFeed`).

`AppParts_proofs`: the parts of the app, each for any values of its bounds.

- `RecordingSafe` (`ChatRecorder`): `ChatInv` says that a time limit that was fired or is in
  the main thread's queue is the only one and of the recording that goes on, whose timer
  is then no longer set, until a tap has stopped one whose timer had fired (`LimitsDue`).
- `MapSafe` (`MapSession`): the button's round is the only one of this activity
  (`RoundsInv`); the orders that are on their way, applied to the broker's session, keep
  team and chat subscribed (`TeamInv`, `Gets`); each start of spying on its way has its
  end behind it, unless its round lasts (`SpyInv`, `Ended`); and each player is shown as
  often as answers and LEAVE messages allow (`ShownInv`, `Placed`). `Resubscribing` excludes the map opened alone and made
  anew, in which nobody subscribes a second time. `Lasting` (no cuts, nothing made anew)
  is a hypothesis of `SpyingExact` only, which is false without it: that is what a cut
  costs.
- `DrawingSafe` (`RenderLoop`): `RenderInv` says that a surface is gone only when the last
  loop is over, and that an iterator that nothing has torn is within its list.
- `LobbySafe` (`Lobby`): in `LobbyInv`, what a phone shows and hears follows from its REST
  client's listener; a join under way keeps the lobby registered, or START has
  overtaken it (`JoinsInv`); an answered join says what the server has, which
  for phones that wait is one at a time (`AnswersInv`).
- `ScanSafe` (`TagScan`): nobody adds to the dialog's list again, and where the main
  thread runs each task before the next is posted, it is the list of all the tags that
  were found, in their order, each once; so a tap's index names the tag that is
  connected.
- `LinkSafe` (`TagLink`): unless a read was lost, the number of anchors is known, or its
  read is the first request and the tag has been asked for nothing yet (`CountKnown`).
  It assumes that the message has fields for all the pairs of the tag's own anchors
  (`MessageLong`), and says nothing of the map's.
- `PositionSafe` (`PositionCalc`): in `CalcInv` the loop leaves a position that still moves,
  but by no huge step, only in the round in which `iter` is MAXITER, which is where
  `Finish` drops it (after a huge one `iter` is past it, and nothing is dropped); a
  measurement is the newest unless a task is posted that will take a newer one. How
  many readings the cut leaves bounds the equations (`CutLeaves`, `RowsBounded`).

`Phone_proofs` carries these over to `MCPhone`, whose properties the runs check:
`RecordingStaysInStep`, `DrawingStaysInStep`, `LobbyStaysInStep`,
`SpyingStaysInStep`, `TeamStaysShown`, `TagStaysUnderstood`, and `PositionStaysKept`,
which has an action property too. Its instances are those of `AppParts_proofs` with
values for the bounds (the `...Same` lemmas), the part that runs keeps its invariant,
and the others keep their state.

Only model-checked: all liveness, because fairness and ENABLED are out of the
installed provers' reach; and `ChecksumMeans`, because `Crc` uses Bitwise and a
recursion over a frame's bytes, which the proof system cannot take (its other half,
`LineKept`, is proved). Every other invariant, action property and refinement that a
passing run checks is stated by a theorem. Those of `BleGap`, `Observer` and the
four anchors are about the part's own specification, which `MCFirmware` runs beside
the driver.

## 5. Plan

Done: the anchors, the tag, the radio driver, the tag's connection, the observer
and its checksum; the server with its feed; the phone's lobby, map, positioning,
drawing, recording and BLE client. Proved: every safety property that a
passing run checks but the checksum's, the anchors' schedule as a refinement,
and most of them for any values of the constants. Left:
two abstract specifications, a mode register that `TagNode` implements as long as no
change is lost, and a membership table that `GameServer` implements as long as nobody
races. Their content is proved as invariants (`ModeFollowsClient`, `MembersKept`);
what is left is to state them as machines.

## 6. Not modelled

- Presentation and sensors: layouts, panels, gestures, gyroscope, the drawing
  itself, configuration values and small utilities.
- The firmware's address handler (it reads four pins once), its logs and build, the
  server's Spring configuration.
- The numerical part of positioning (doubles and matrices are out of TLC's reach),
  the radio's physics, registers and SPI framing.
- Vendored or generated code. Of decadriver, `RadioDriver` models the calls
  and the interrupt that this firmware uses; the rest is register access for
  features it does not (calibration, OTP, power, double buffering).

The map covers a small share of the repository's lines for this reason: of about
23 000 lines, 12 097 are sdk_config.h, a vendored configuration, 6 800 decadriver,
and some 1 300 files that CMake wrote to identify the compiler. Of the project's own
C and Kotlin code most of what changes state is mapped.

Of the SDKs, the JDK, the SoftDevice, the UWB channel and the phones' network only
the part that the code relies on is modelled, marked external in the map.
