# Ham Radio Remote: TLA+ models, model checking and proofs

Ham Radio Remote lets several operators use amateur radio transceivers over a
network. A Python server (asyncio, one event loop) owns the radios: serial
ports for CAT and keying, sound cards, amplifiers, mains plugs, antenna
switches. Each operator runs a Python client (Qt on an asyncio loop) that logs
in, presses PTT, exchanges audio, keys CW, and offers virtual COM ports to
third-party programs.

What can really go wrong here is a transmitter that is on when it should not
be, a radio that nobody can reach any more, and a display that shows what is
not so. The models are about those three.

Line numbers are those of the repository's source files. `PROJECT.json` lists
the components with their state of modelling, the lines that each definition
stands for, the hazards with the properties that cover them, the runs, the
findings and the theorems.

## Inventory

### Server

| Component | State | Operations | Interacts with |
|---|---|---|---|
| PTT arbiter (`server/ptt_arbiter.py`) | `holder` | `acquire`, `release` | radio bridge |
| Radio bridge, control channel (`server/radio_bridge.py`) | arbiter, keying lines, `control_clients`, `tx_ids`, `_ptt_release_handle`, `_cw_release_handle` | log-in, PTT on/off, CW key events, timers, status broadcasts, keepalive, clean-up | arbiter, database, serial port, control clients, amplifier's fault check |
| Radio bridge, external PTT | `_external_ptt_release_handle` | `_handle_external_ptt`, `_on_external_cat_write` and their timers | COM relay by way of control or CAT connection, serial port; *not* the arbiter |
| CAT bridge (`server/cat_bridge.py`) | serial transport, `tcp_writer` | bytes in both directions, loss of the port | CAT clients, radio |
| Radio manager (`server/radio_manager.py`, `bridge_manager.py`) | `bridges`, `tasks` | load, create, reload, remove | admin API, bridges, database |
| Device managers (amplifiers, plugs, antenna switches) | `bridges`, `tasks` | the same, over bridges that connect after they are registered | admin API, radio bridge, devices |
| Amplifier bridge and parser (`amplifier_bridge.py`, `common/acom_protocol.py`, `ebox_transport.py`) | `latest`, `fault`, parser's buffer | telemetry, switching on, poll | amplifier, radio's PTT |
| Tapo bridge (`tapo_bridge.py`) | `is_on`, `online` | poll loop, manual switch | plug, radio manager |
| Antenna switch bridge (`antenna_switch_bridge.py`) | `port`, parser's buffer | select, query, replies | switch |
| Admin API (`admin_api.py`, `port_ranges.py`, `web_auth.py`) | web sessions | requests about radios, devices, accounts, ports, the sniffer | managers, database |
| Database (`db.py`) | users, grants, radios, transmissions | queries, one transaction each | all |
| Serial sniffer (`serial_sniffer.py`) | session, framer, ring | start, stop, mirror of lines | admin API, serial ports |

### Client

| Component | State | Operations | Interacts with |
|---|---|---|---|
| Control client (`client/control.py`) | connection, status | run and reconnect, PTT, external PTT | radio bridge, session |
| COM relay (`client/com_relay.py`) | serial port, connection, `last_lines` | pump both ways, poll lines, idle timeout | third-party program, CAT bridge, session |
| Client session (`client/session.py`) | tasks, relays, watchers, selected radio, device lists | `switch_to`, `_teardown`, `refresh_radios`, dial and panel on/off, poll loops | everything on the client |
| Audio link (`common/audio_io.py`) | peer, announce timer, settings | announce, learn the peer, stop | UDP, session, radio manager |
| CW sources (`client/cw/*`, `common/cw_link.py`) | keyer and text task | key events over UDP | radio bridge |
| RC-28 and panel controller (`client/rc28.py`, `radio_panel_ctl.py`) | optimistic values | poll, tune, set | CAT connection |
| User interface (`client/ui.py`, `radio_panel.py`, `antenna_switch_panel.py`) | what is drawn | timers, clicks, text fields | session, controller |

### What is hard

* **Stale timers.** Four delayed releases exist: the audio tail of a control
  client's PTT, the tail of a line report, the held-back CI-V off frame and the
  CW idle timer. Each is named by a handle that some path overwrites or forgets.
* **State that is kept twice.** The lock is kept by user, transmission rows by
  connection; a bridge has an entry and a task; a panel shows what it asked
  for before the radio took it; audio settings live at both ends.
* **Awaits.** Handlers await the database between taking the lock and storing a
  row; a stop sleeps between popping a bridge and popping its task; checks for
  busy radios, free ports and existing admins are some awaits old when used.
* **Peers that die.** Silently, with an end of file, or with a reset first
  noticed by a *broadcast* to them.
* **Two ways around the arbiter.** External PTT and a separate CW line.
* **Partial failure.** A bridge that opens some ports and fails; a relay whose
  connection is refused; an exception that ends a poll loop; a delete that has
  cleared one table of four.
* **Streams.** Frames found in a byte stream, replies that do not say whose
  request they answer, lost and reordered CW datagrams.

### What makes each part correct

* Arbiter and bridge: the radio changes hands only through a free lock; the
  transmitter is on only while somebody holds it; who holds it is on the air;
  who vanished loses it; the tail keeps the channel; every end is logged.
* External PTT: the radio ends up doing what the programs asked for last; an
  off is held back for the tail and never lost; nothing is left keyed.
* Managers: what is registered is served; what is open is known; no port is
  lost; the radio heeds the amplifier that the admin sees.
* Devices: what is shown and what is blocked come to agree with the device.
* CAT, audio: each station is fed again after whatever broke; both ends of a
  link use the same settings.
* Session: what runs belongs to the selected radio and can be ended.
* Accounts and ports: no account is half deleted, no two radios share a port.
* CW: what is sent is Morse, and nothing is left down.

## Modules

Every module states at its head what it models; each definition is commented
with the code it stands for.

| Module | Models |
|---|---|
| `PttArbiter` | the arbiter; also the abstract specification of the lock |
| `RadioBridge` | control channel, PTT, CW keying and clean-up of one radio |
| `ExternalPtt` | third-party PTT from COM port to radio |
| `OnAir` | operators' PTT and external PTT composed on one line, with loss of the port |
| `StatusView` | who is on the air, as broadcasts tell the clients |
| `RadioManager` | the bridges of one radio under overlapping requests |
| `DeviceManager` | the bridges of an amplifier, plug or antenna switch |
| `AmpTelemetry` | frames from amplifier to PTT block |
| `TapoPlug` | a plug that follows a radio |
| `AntennaSwitch` | the port shown against the port selected |
| `CatPath` | relays, CAT connections and reloads of a radio under them |
| `AudioPath` | the audio link's two ends across changes of settings |
| `ClientSession` | `switch_to`, tear-down, dial and panel as coroutines of one loop |
| `RadioList` | `refresh_radios`: relays, watchers, COM pairs |
| `RadioPanel` | panel window, controller and RC-28 against the radio |
| `DevicePanel` | the windows of amplifiers and antenna switches |
| `CwSources` | straight key, text, iambic keyer, WinKeyer |
| `Accounts` | first admin, log-ins, saving and deleting accounts |
| `PortPlan` | suggested, checked and written ports of radios |
| `Sniffer` | sessions, records and mirrored lines of the serial sniffer |
| `MCRadioBridge`, `MCChannels`, `MCLifecycles` | instances for TLC |
| `RadioBridgeProofs` | theorems about `RadioBridge` |
| `ServerProofs` | theorems about `RadioManager`, `DeviceManager`, `OnAir`, `StatusView` |
| `ChannelsProofs` | theorems about the components of `MCChannels`, and about that specification |
| `AdminProofs` | theorems about `Accounts`, `PortPlan`, `Sniffer` |
| `ClientProofs` | theorems about `RadioList`, `CwSources` |
| `ClientSessionProofs` | theorems about `ClientSession` |
| `LifecyclesProofs` | the specification of `MCLifecycles` implements its components' |
| `SequenceLemmas` | what the proofs need of sequences |

**Composition.** `OnAir` composes operators, programs, tails and the serial
port on one keying line; `CatPath` relays, server connections and reloads;
`AudioPath` client, server link and `reload_radio`; `StatusView` handlers,
broadcasts and database; `DevicePanel` device, bridge, route, poll loop and
window. `RadioBridge` instantiates `PttArbiter` (`Lock`, the refinement mapping
is the identity on `holder`), and `ServerProofs` does (`Arbiter`, `holder` is
`lockedBy`).

`MCChannels` and `MCLifecycles` are not compositions in that sense: they put
components that share no state into one run. `part` says which component a
behaviour is of; the others rest in a state where their properties hold. The
reachable states are the union of those of the components, not the product.

In each module the definitions named `X_Something`, commented as mutants, are
altered forms of the definition `X`. Nothing uses them. They record which
plausible error each property is able to find: with `X` replaced, the property
fails. A property with several parts has a mutant for each.

Variables named `mode`, `device`, `pace`, `weather`, `haste`, `cwHabits`,
`adminHabits`, `statusHabits`, `brisk` and `hurried` are chosen at the start and
never change. They say which awkward circumstances a behaviour may meet, so that
a property can hold under some and name its exception under others; all are
reached in every run.

### RadioBridge

One action is one uninterrupted stretch of a handler on the event loop, from
one await to the next. `pc[c]` names the await:

| `pc` | handler of the connection is |
|---|---|
| `new` | awaiting the first message |
| `start_session` | in `hello`, awaiting the database |
| `read` | awaiting a message in the loop (`_handle_control_client`) |
| `start_tx` | in `_handle_ptt`, awaiting `start_transmission`; lock taken and radio keyed |
| `broadcast` | awaiting `_broadcast_status` at the end of a message |
| `ending` | past the synchronous part of the `finally` block |
| `closed` | finished |

`holder` is `arbiter.holder`; `line["ptt"]` and `line["cw"]` are what
`ptt_method.set` and a separate `cw_method.set` were last told; `registered` is
the key set of `control_clients`; `tx` says whether `tx_ids` has an id for the
connection; `stray` collects open rows whose id was overwritten; `tails` is the
queue of armed `_release_ptt` timers (equal delay, so they fire in order) and
`handle` says that `_ptt_release_handle` is set, in which case it names the
newest; `cwTimer` is the armed `_cw_release`.

Abstractions, all on purpose:

* A send to one client is no parking place: `drain()` suspends only above the
  transport's 64 KiB high-water mark. A send to a connection the transport knows
  to be dead raises.
* A broadcast is one step here; `StatusView` takes it apart.
* The database answers and does not fail. Rows of sessions are left out.
* A connection says `hello` once. A client has one PTT button, so what one
  connection reports alternates; it may start with a button that is down, since
  the client logs in again after a reconnect (`Unpress`).
* End of file and silence until the 35 s read timeout have the same effect:
  `Vanish`, then `Leave` at any later time. `Reset` is different, sends fail.
* A fault of a linked amplifier may refuse any press.
* Serial loss and external PTT are in `OnAir`, shutdown in `RadioManager`.

### ExternalPtt, OnAir, StatusView

`ExternalPtt` has both PTT methods, with and without tail; a behaviour chooses
(`method`, `hasTail`) at the start. `chan[s]` is what is under way from a
station: line reports on the control connection, or PTT frames on the CAT
connection. `seen[s]` is the keying line in `last_lines` of the running
`_pump_serial_to_tcp`. The relay reports both lines whenever one has changed, so
a move of the other line and a restart of the relay both repeat a report
(`LookAgain`). `timers` counts armed timers, `handle` says that
`_external_ptt_release_handle` is set. A read of the CAT socket may return a
frame alone (`CatFrame`) or with other bytes (`CatChunk`); other commands matter
only where they clear the handle (`CatOther`). When a connection breaks (`Drop`)
a prefix of what was under way still arrives; `intact` is a history variable that
says that none has.

`OnAir` puts operators and programs on one line. A message is handled in one
step: rows and broadcasts only delay later messages of the same connection.
`wiring` distinguishes how a lost port behaves: a shared port drops what it is
told, a port of its own raises on POSIX, CI-V frames are not sent and the radio
stays as it is. A clean-up that raises leaves a handler `crashed`: neither closed
nor read.

`StatusView` numbers connections as they come. `parked` holds broadcasts that
wait for the row of a dead holder; `shown[v]` is `busy_by` at a client. A release
and the broadcast scheduled with it are one step.

### RadioManager, DeviceManager

Every request is a task and no lock is taken, so requests interleave at their
awaits: the shutdown's broadcast, the 50 ms sleep, the database, opening ports.
A bridge carries the name of the request that constructs it; `Boot` and `DevBoot`
are those that `load_all` started. The last step of `BridgeManager.stop` takes
whatever task is registered *by then*. A radio's bridge is registered after its
start; a device's before it, its start runs in the tracked task. Every request
carries the ports of its own configuration (`portsOf`); a start succeeds only if
no bridge has them (`Taken`). `PortSets` are whole sets without a port in common:
two requests that share some ports and not others exclude each other by those they
share. For a radio PTT is reduced to "somebody holds it at this bridge" and "the
transmitter at this serial port is on"; closing a port drops RTS and DTR. For an amplifier `wired` is the bridge whose
fault the radio checks, `session` and `logouts` are the eBox's sessions.

### Devices

`AmpTelemetry`: a byte is a number below `Base`, a frame has one byte of status
and one error code between its two marks and its sum; bytes are lost or garbled
up to `MaxUpsets` times; the parser's search, length check and sum are kept as in
the code. `TapoPlug`: the poll loop is parked in one of its awaits while radios
come and go, the mains are switched by hand and commands fail. `AntennaSwitch`:
two queues of commands and replies between server and switch, and the prompt that
may arrive in a chunk of its own (`chunks`).

### Client

`CatPath`: `relay` is where a station's relay is; `conn` what a connection has
become; `tcpWriter` the one that gets replies. `AudioPath`: `reload_radio` in two
steps around its save, the notice, the re-fetch, the announce timer.
`ClientSession` models the loop's queue: first in first out, each job up to its
next await; tasks that wait for network or device are parked outside.
`RadioList`: refreshes parked at their threads, the row a watcher was made for,
the refresh that made a relay or a pair. `RadioPanel`: user interface's thread
(`field`, `editing`, `drawn`) and event loop (`view`, `base`) with frames under
way between them and the radio. The radio has values up to `MaxValue`; window and
dial have no upper limit. The window keeps above 0; the dial does not, and a frame
for a number below 0 raises, which ends its driver (`dialOn`). Of a number that
ten digits do not hold (`MaxCode`) the frame has the first ten (`Encodings`).
`DevicePanel`: poll, route, row, window, clicks in a thread of their own. An
amplifier on a cable streams its state; an eBox tells no mode; a switch answers
queries and commands and nobody polls it (`answerDue`), so once it is turned by
hand or an answer is lost its bridge no longer knows the port (`drifted`). `CwSources` counts time in dits; `segments` is the rest of
a text, `keyer` the iambic keyer's state.

### Accounts, PortPlan, Sniffer

`Accounts`: `upsert_user` is one transaction, `delete_user` a statement per table
(`Clear`, `Revoke`); the cookie, not the row, says who is admin. `PortPlan`: a
form is filled from the suggestion, checked, and written some awaits later; a
port is its slot in the range of its channel. `Sniffer`: a start opens one port
after the other and closes what it opened when one fails; `record` is what the
framer holds, the ring and the file; `mirrored` the keying line as seen and set.

## Runs

### Passing

| Run | Asks | Instance |
|---|---|---|
| `Voice` | the holder of the lock is on the air and connected; `LockSpec` | 2 users, 3 connections, accounts logged in twice, resets, amplifier faults, no tail |
| `VoiceTail` | the tail keeps the channel; the handle names the only timer; an open row belongs to who is on the air; keyed only while held | 2 voice operators, a CW operator, 3 connections, one login per account, resets, tail |
| `VoiceLive` | a vanished holder loses the lock; a released button frees it | 2 users, 2 connections, accounts logged in twice, resets, tail, fairness |
| `Channels` | what follows a device or keeps up a connection comes to agree with it | below, fairness |
| `Lifecycles` | what comes and goes under requests is not lost, leaked, left keyed or left behind | below, safety and an action property |

`Channels`, component by component:

| Component | Properties | Bounds |
|---|---|---|
| `ExternalPtt` | `NotLeftKeyed`: once settled, a radio that no program keys is off. `FollowedWithoutTail`. `ReleaseUnderWayUnkeys` (live) | 2 stations, 2 messages under way each, 2 timers, both methods, with and without tail |
| `CatPath` | `CatInOrder`: the connection accepted last gets the replies; a COM port is held only by a relay at work. `EveryStationFed` (live) | 2 stations, 3 upsets |
| `TapoPlug` | `PlugFollowsRadio` (live) | 4 upsets |
| `AntennaSwitch` | `ShownIsSelected`: when the line is quiet, the port shown is the one selected | 3 ports, 3 commands, 2 turns by hand |
| `AudioPath` | `LinksAgree`: both ends have the same settings once a change is dealt with. `LinkHeals` (live) | 2 settings, 4 upsets |
| `RadioPanel` | `PanelSettles` (live): values, frequency field and a dial that runs become the radio's | 2 controls, radio's values to 1, frames to 2, typed numbers beyond, 2 frames in flight, 3 upsets |
| `DevicePanel` | `RowSettles` (live): row and pressed buttons become the device's, as far as it tells | amplifier, eBox, switch; 3 changes |
| `AmpTelemetry` | `NothingInvented`: what is read was sent. `FaultSettles` (live) | 2 statuses and 3 error codes, the marks among them; 2 upsets |

`Lifecycles`:

| Component | Properties | Bounds |
|---|---|---|
| `RadioManager` | `PortsAccounted`, `ServedInTurns`, `OnAirIsHeld` | 3 requests of any kind, for either of 2 sets of ports, overlapping or not |
| `DeviceManager` | `BridgesAreKnown`: listed is alive, open is known. `NoneLeftBehind`: the radio heeds the listed amplifier; a log-out ends no later session | 2 requests, all transports |
| `ClientSession` | `SessionInOrder`: dial and panel work on the selected radio, nothing outlives its tear-down, what is enabled runs | 3 clicks, 2 radios |
| `RadioList` | `ListInOrder`: relays, pairs and watchers are those of the listed radios | 2 refreshes, 2 radios |
| `Accounts` | `AccountsInOrder` | 2 accounts, 2 browsers, 5 requests |
| `CwSources` | `CwInOrder`: key up when nothing is at work, gaps of 1, 3 or 7 dits, alternation in a squeeze | texts of 3 characters, 3 strokes |
| `Sniffer` | `SnifferInOrder`: open ports are stoppable, the ring is the file, keying passes through | 2 starts, 2 ports, 2 lines |
| `PortPlan` | `PlanInOrder`: ports are distinct, suggestions are not refused | 2 radios, 2 channels, 2 slots, 2 forms |
| `OnAir` | `QuietIsOff`: nobody presses, keys or waits, so it is off and free. `HolderIsServed` | 2 operators, 2 timers of each kind, all wirings |
| `StatusView` | `ViewsAgree`: when nothing is under way every client shows the holder | 3 connections |

Many of these properties name the circumstances they except, because the code
does not keep them there:

* *Requests that overlap* (`overlap`, `hurried`, `brisk`): `ServedInTurns`,
  `BridgesAreKnown`, `SessionInOrder`, `ListInOrder`, `LastWishHolds`,
  `PortsAreDistinct`, `OpenIsStoppable`. No request takes a lock.
  `PortsAccounted` excepts only requests that overlap and ask for different ports:
  both start, and the second `_track` forgets the first one's bridge, whose ports
  stay open. Requests for the same ports exclude each other by those.
* Two set-ups at once both find no administrator and each makes one. In turns
  there is nothing to show beyond `setup`'s own check, so no property does.
* `race`: a device that answers within the 50 ms of a stop leaves a bridge that
  nobody knows. `audioless`: `_start_radio` catches only `OSError`.
* `refusable` (`CatPath`): a refused relay keeps its COM port. `haste`
  (`AudioPath`): a notice read before the save, or a list that is old.
* `stale` (`Accounts`): a page opened before a delete saves the account again,
  without password.
* `slow`, `cw` (`StatusView`): broadcasts that overtake each other, and CW that
  takes the lock unannounced.
* `switch`, `mix` (`CwSources`): a radio left while its key is down, and sources
  used at once; `odd`, a character without a code.
* `loop # "dead"`, `fetch # "dead"`: an exception ends the plug's poll loop; an
  incomplete answer ends the client's.
* A frame that can be mistaken for another (`Unmistakable`), a prompt in a chunk
  of its own, a switch turned by hand since the last reply. Its window (`Truth` of
  `DevicePanel`) shows what was told last until somebody asks or selects again.
* `~dialOn`: an RC-28 driver that was switched off, or ended below 0, follows
  nothing.

### Disagreements

Each of these runs checks one property that a comment, a docstring or a document
states, and TLC finds it violated by what the code does.

| Run | What happens |
|---|---|
| `TailGhost` | A holder dies during the tail; the clean-up un-keys but leaves `_ptt_release_handle` set. Back within the tail, the user presses, gets the lock, and the radio is not keyed. |
| `CwSteal` | `_cw_release` frees the lock of a CW operator who has since pressed PTT. The radio stays keyed and the next user is granted it. |
| `CwStuck` | With a CW line of its own, the clean-up after the holder's connection un-keys the PTT line only; a later key-up is dropped. |
| `ReloadRace` | Of two overlapping requests, one cancels the other's new task; the bridge stays registered and refuses connections. |
| `RelayStuck` | A relay that is refused while the server restarts leaves its COM port open; every later attempt fails on it. |
| `SwitchTwice` | A second `switch_to` comes in while the first one's tear-down waits; a dial or panel is left on the old radio's relay. |
| `ConfigStale` | The notice of a change goes out before the row is saved; a client that fetches at once gets the old settings and keeps them. |

A property's passing and violated runs differ in what the instance allows, which
shows where its border lies: `HolderKeyed` without and with a tail,
`KeyedOnlyWhileHeld` with `CwLine = "ptt"` and `"cw"`, `RegisteredIsServed`
without and with overlap, `EveryStationFed` without refused relays and
`RelayRecovers` with them, `DriversFollowRadio` and `TeardownLeavesNoDriver`,
`LinksAgree` and `ChangePickedUp`.

Two borders have no run of their own. With `SharedLogin = TRUE`,
`HandleNamesEveryTail` fails: two logins of one account arm two timers, and the
one the handle has forgotten survives a re-key. With `Method = "civ"`,
`OnAirIsHeld` fails: a shutdown never sends PTT off.

### Bounds and why they are enough

* Two users are needed for any conflict, and the code compares user names only
  for equality. Three connections give one account two logins next to another
  user, or one user a dead connection, a new one and a rival. `VoiceLive` has two
  connections because liveness cannot be checked under symmetry.
* `MaxTails`, `MaxTimers`, `MaxArmed` bound the timers armed at once: two are
  what it takes for a handle to forget one. They guard the arming only.
* `MaxQueue` bounds messages under way from one station; two are the end of a
  transmission and the start of the next, which is what the tail can confuse.
* Three requests (`RadioManager`, `ClientSession`) are one that waits, one that
  has replaced what it waits for, and one that finds the result; for a device two
  are enough, since a bridge is known or not to the very next request. Two sets of
  ports are the old and the new ones of a radio that moves.
* `MCLifecycles` gives the radio manager's requests their kinds and ports in one
  order (`RadioBound`): requests are alike but for what they ask, so every other
  order is a renaming of one that is checked. It fixes Boot's ports likewise.
  `MCChannels` starts the panel with the dial on and the radio at one setting
  (`PanelBound`); `DialSwitched` and `Turn` reach the others. `MaxCode = 2` leaves
  one number that a frame holds and the radio refuses.
* `MaxCatEvents`, `MaxPlugEvents`, `MaxAudioEvents`, `MaxPanelEvents`,
  `MaxPanelChanges`, `MaxUpsets`, `MaxTurns`, `MaxStrokes`, `MaxAsked` count what
  comes from outside: operators, networks, admins. What the components do by
  themselves is not bounded. Each is large enough that something goes wrong, is
  dealt with, and goes wrong again in the middle of it; `MaxAsked = 5` is a
  set-up, a log-in, a save, a delete, and another save in the middle of that.
* Frames of `AmpTelemetry` are short and their sums small, so that false starts,
  marks inside a frame and equal sums all happen.
* Two slots per channel let a plan be full; two forms let one overtake the other.
* `CHECK_DEADLOCK FALSE` everywhere: connections, requests, clicks and upsets get
  used up, after which a component may rest for ever.

### Fairness

Weak fairness throughout, of what the event loop, a timer or an endless loop does
by itself; none of operators, admins, programs, the network or devices switched by
hand.

* `RadioBridge`: handlers (the loop runs what is ready, the database answers, the
  read timeout ends the wait for a peer that is gone), tail timer, CW timer.
* `ExternalPtt`: the relay polls, the server reads, timers fire, and the
  reconnect loop, which retries for ever, succeeds in the end.
* `CatPath`: a relay's next step, be it an attempt or a time-out, the end of a handler whose client
  left, the bridge coming up again after a reload.
* `TapoPlug`: the poll loop. `DevicePanel`: poll, redrawing, and what the device
  reports by itself: an amplifier's stream, and a switch's answer to what it was
  asked. None that the switch is asked again: only the admin's button does that.
* `AudioPath`: the save and start that a reload has begun, packets being heard,
  notices and fetches. `RadioPanel`: window timer, jobs, polls, answers. Answers
  may be lost, but only up to the bound.
* `AmpTelemetry`: bytes arrive while the stream lasts, the keep-alive switches
  telemetry on again, the eBox is polled.

`MCChannels` states each component's own fairness for the component that runs.
`Lifecycles` is checked for safety only.

## Proofs

The theorems hold for any sets of users, connections, stations, requests, ports,
radios, clients and accounts, and any bounds. They need the assumptions on
constants of the modules and those named below. Every state invariant of a
passing run is stated by a theorem.

| Theorem | States | Assumes | Argument |
|---|---|---|---|
| `TypeCorrect` | `TypeOK` of `RadioBridge` | nothing | one step per action |
| `LockRefined` | `LockSpec` | nothing | a step that changes `holder` frees it or gives a free lock to a user |
| `KeyedIsHeld` | `KeyedOnlyWhileHeld` | `CwLine = "ptt"`, CW operators do not press PTT | `KeyInv` |
| `HeldIsKeyed` | `HolderKeyed` | no tail, no CW | no handle is ever set, so every grant keys |
| `HolderIsConnected` | `HolderConnected` | nothing | each grant is by a live handler; each way a handler ends passes through `ReleaseIfHolder` |
| `TailsHoldChannel`, `HandleNamesTails`, `OpenRowsCorrect` | the tail and row properties | `OneLogin` | `LoginsInv` |
| `ManagerTypeCorrect` | `TypeOK` of `RadioManager` | nothing | one step per action |
| `PortsAreAccounted` | `PortsAccounted` | nothing | `BridgesInv`, `ServedInv`, `TurnsAreKept` |
| `RegisteredAreServed` | `ServedInTurns` | nothing | at most one request is past its start (`ServedInv`) |
| `OnAirAreHeld` | `OnAirIsHeld` | `Method = "line"` | `OneOwner` of `BridgesInv` |
| `DevTypeCorrect` | `DevTypeOK` | nothing | one step per action |
| `BridgesAreKnownHolds`, `NoneLeftBehindHolds` | `BridgesAreKnown`, `NoneLeftBehind` | nothing | `DevInv` |
| `OnAirTypeCorrect` | `OnAirTypeOK` | nothing | a handle that is set stands for an armed timer (`Timers`) |
| `ArbiterRefined` | `Arbiter!Spec` of `OnAir` | nothing | as `LockRefined`; crashes of handlers come after the release |
| `HoldersAreServed` | `HolderIsServed` | nothing | the lock is given back before the line may raise |
| `QuietIsAlwaysOff` | `QuietIsOff` | nothing | `LockIsAwaited`, `OnAirForSomebody` |
| `ViewTypeCorrect` | `ViewTypeOK` | nothing | one step per action |
| `ViewsAgreeHolds` | `ViewsAgree` | nothing | see below |
| `ExternalTypeCorrect` | `TypeOK` of `ExternalPtt` | nothing | `Stationed`, `Booked` |
| `NeverLeftKeyed` | `NotLeftKeyed` | nothing | `EndsWithLatest`, `OnForSomebody` |
| `AlwaysFollowed` | `FollowedWithoutTail` | there is a station | the same and `OffForSomebody` |
| `SwitchTypeCorrect`, `ShownIsAlwaysSelected` | `SwitchTypeOK`, `ShownIsSelected` | nothing | `LatestWins` |
| `CatTypeCorrect`, `CatInOrderHolds` | `CatTypeOK`, `CatInOrder` | nothing | `NoneRefused` |
| `AudioTypeCorrect`, `LinksAgreeHolds` | `AudioTypeOK`, `LinksAgree` | nothing | `NewsUnderWay` |
| `TelemetryTypeCorrect`, `NothingInventedHolds` | `TelemetryTypeOK`, `NothingInvented` | nothing | `WithStream` |
| `PlugTypeCorrect`, `PanelTypeCorrect`, `DisplayTypeCorrect` | the types of plug, radio panel and device windows | nothing | one step per action |
| `PlanTypeCorrect`, `PlanAlwaysInOrder` | `PlanTypeOK`, `PlanInOrder` | nothing | `Distinct`, `Checked`, `FreshInv` |
| `AccountsTypeCorrect` | `AccountsTypeOK` | nothing | one step per action |
| `AccountsAlwaysInOrder`, from `AdminsCanAlwaysLogIn` and `DeletedAlwaysHasNothing` | `AccountsInOrder` | nothing | `Swept`, `InTurn` |
| `SnifferTypeCorrect`, `SnifferInOrderHolds` | `SnifferTypeOK`, `SnifferInOrder` | nothing | `SnifferInv` |
| `ListTypeCorrect`, `ListInOrderHolds` | `ListTypeOK`, `ListInOrder` | nothing | see below |
| `CwTypeCorrect`, `CwAlwaysInOrder` | `CwTypeOK`, `CwInOrder` | nothing | `CwInv` |
| `SessionTypeCorrect`, `SessionInOrderHolds` | `SessionTypeOK`, `SessionInOrder` | nothing | `SessionInv` |
| `ChannelsTypeCorrect`, `LifecyclesTypeCorrect` | `ChannelsTypeOK`, `LifecyclesTypeOK` | nothing | the theorems above |
| `ChannelsAlwaysSafe`, `LifecyclesAlwaysSafe` | the state invariants of the runs, of the specifications they check | a station | the theorems above |
| `ComponentsImplemented` | `LifecyclesSpec` implements each component | nothing | a step is one of a component, or leaves its variables |

**Radio bridge.** `KeyedOnlyWhileHeld` is not inductive: the CW idle timer frees
the lock without touching the line. `KeyInv` adds that the line is already up
whenever the timer's user holds the lock, that the timer belongs to a CW
operator, and that the separate line is unused. `CwStuck` and `CwSteal` are what
happens without the theorem's assumptions.

The tail and row properties need each other, and rest on `OneLogin`: no account is
logged in twice, no amplifier can refuse a press, CW operators do not press PTT.
Each part is needed. A second login arms a second timer; a press refused during
the tail leads to a second release; a CW timer frees a lock that a tail still
counts on. `LoginsInv` adds to `TypeOK` and `HolderConnected`: who is registered
has a running handler and an account has one connection that is not closed
(`LoginInv`); there is no tail, or one, of a released button whose user holds the
lock, or of a dead connection after which no voice operator has taken it
(`TailInv`); a voice operator who holds the lock outside a tail is pressing
(`PressInv`); rows follow the lock (`RowInv`).

**Radio manager.** `PortsAccounted` is not inductive: `Started` overwrites the
registered bridge. `BridgesInv` holds however requests overlap and whatever ports
they ask for: the same ports have one owner (`OneOwner`), a bridge that starts has
its ports (`StartingHasPorts`), one whose request has not come that far is not
built (`Unbuilt`), one that is registered or being shut down is past its own start
(`KnownAreDone`), and the first request to go ahead pops Boot's (`BootPopped`). If
requests take turns, nothing is registered when a bridge starts (`ServedInv`,
`TurnsAreKept`). If they overlap and ask for the same ports, the bridge that
starts is their one owner and Boot is popped, so nothing that has ports is
overwritten. `OnAirIsHeld` needs `OneOwner` only: whoever closes a port or un-keys
it is the one who had it, also where ports are lost.

**Device manager.** Requests that take turns: from a stop to the save nothing is
listed, and what is listed is the bridge whose start is tracked (`OneStop`), so
the bridge that a request gives up is the one that starts. Where no device
answers within the 50 ms either, the bridge given up stays what it was for as
long as they last, and its log-out ends before they do (`HeldStill`): the new
bridge's session cannot be the one that is logged out.

**On the air.** `QuietIsOff` speaks of quiet states only. `LockIsAwaited`: who
holds the lock has the button down or a tail running. `OnAirForSomebody`: within
the server's reach the radio transmits only for the holder, a program or a
program's tail.

**Status broadcasts.** `ViewsAgree` is kept together with `Registered`: who is
connected and alive is registered, so the next broadcast reaches it, and a
broadcast that is parked waits for the handler of a dead connection, whose own
broadcast is still to come. That the views agree again when several have overtaken
one another follows from the last one (`TellKeeps`), for any number of clients.

**External PTT.** `NotLeftKeyed` speaks of settled states only. `EndsWithLatest`:
what is under way from a station ends with what its program or relay said last.
`OnForSomebody`: a radio that is on is on for a message under way, a station that
says on, or an armed timer; so when everything is handled a program keys.

**CAT path, audio link, antenna switch.** A relay that never meets a closed port
is connecting only while the bridge accepts (`NoneRefused`): no attempt ends with
the COM port left open. While the two ends of the audio link differ, the news of the change
is in the message, in the request for the list, or nowhere because the client has
the new row already (`NewsUnderWay`). Unless the switch was turned since, the last
reply on the line carries the selected port, so replies to older commands do no
harm (`LatestWins`).

**Telemetry.** The parser starts anywhere. It has nothing, the beginning of the
frame under way, or a mark from the middle of a frame that no second mark can
follow (`WithStream`); so the first frame it completes, and each one after, is one
that was sent. The checksum is a recursive function; for the two lengths that
occur its value is written down and shown to satisfy the equation.

**Port plan.** A form that has passed the check is alone between check and row
(`Checked`); a form sent as suggested still shows the suggestion of the moment
(`FreshInv`), which exists because a set of numbers has a least one
(`LeastNumber`).

**Accounts.** `Swept`: whatever an account without password still has is what
some delete under way has left to take. `InTurn`: one request at a time; what a
delete has still to take is all its account has left; every other account is as
it was wished.

**Sniffer.** One start at a time looks at the ports and none while a session is
active (`OneStartAtATime`), so a session's ports are given back before the next
one takes them; a session that has not run has neither data nor timers
(`UnusedIsEmpty`); what was seen of the program's line was set at the device, or
failed to be (`SeenIsSet`).

**Radio list.** One refresh is past its start, and the radio for which it waits
has neither relay nor COM pair (`OneRefresh`): the relay it starts overwrites
none. Where no radio moves, the list a refresh works on is the one the watchers
were made from (`ListIsWatched`).

**CW sources.** `CwInv`: no gap is to come where the key is up already, both paddles
are closed while a squeeze lasts, one source at a time is at work and it alone
holds the key down. That texts of any length consist of elements and gaps of
standard length needs an induction, over the pieces that `FlattenSeq` joins. The
library's induction theorems cannot be instantiated here, but a least
counterexample can be taken (`LeastNumber`, from `WFMin`): `FlattensSome` shows that
the recursive function exists, `JoinPlayable` and `FlattenPlayable` what it
preserves.

**Client session.** The longest proof. `SessionInv`: if clicks do not overlap,
`InOrder` holds; if moreover a click waits until stopped drivers are over and no
task fails, so does `Staying`. `Line`: what
waits to be run is in the loop's queue once, and one request at most is under way.
`Order`: a task has begun before a request is made, so none is cancelled before it has
run, and who cancels waits for it - a switch for the list of the radio it leaves,
the panel's switch for the panel. `Placed`: every task alive is in the list that
the next tear-down cancels, and belongs to the selected radio. `Staying`: except
within a switch of radios what is enabled is there. Each action has a lemma of
its own that it keeps `InOrder`; they rest on what parking, ending and cancelling do to
the queue (`LineParks`, `LineEnds`, `LineFinished`). `SwitchTwice` is what happens
when clicks do overlap.

The specification of `MCLifecycles` implements that of each component, so that
whatever is proved of one holds there; only `OnAirIsHeld` also needs
`Method = "line"`. In `MCChannels` some components rest in states that they reach
but do not start in, and the invariants are shown to hold there.

Model-checked only: the nine liveness properties (`VanishedHolderUnkeyed`,
`ButtonUpFreesRadio`, `ReleaseUnderWayUnkeys`, `EveryStationFed`,
`PlugFollowsRadio`, `LinkHeals`, `PanelSettles`, `RowSettles`, `FaultSettles`),
because fairness and `ENABLED` are beyond the prover.

## Not modelled

* Device registry, start-up, logging, firewall, process priority, the updater:
  sequential code and operating-system calls. A device that is not found is a
  start that fails in the managers.
* Audio samples, jitter buffer contents, codecs; frequencies as BCD; per-model
  CI-V tables; energy readings: data that no property tells apart.
* The WinKeyer's serial protocol and USB reports of the RC-28: external devices,
  modelled by the events they cause.
* SQL, password hashing, request plumbing, static pages, widgets' layout, stored
  settings and dialogs.
* `test_cat`'s probe of a radio, the antenna switch's TCP transport, the CAT
  mirror to an amplifier, latency measurement: small and without state that other
  parts rely on.

## What could come next

1. `RadioBridge` and `StatusView` joined, so that `ViewsAgree` speaks of the
   arbiter's own steps; a plug and an amplifier that follow `RadioManager`'s
   reloads.
2. The antenna switch's TCP transport with its reconnections; the jitter buffer's
   underruns as a queue with a bound.
3. The step invariants behind the liveness properties (what each fair action
   brings nearer), which are provable where the liveness itself is not.
