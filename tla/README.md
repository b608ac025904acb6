# THBR in TLA+

THBR is a Thread border router on a USB stick. The stick runs the border router and
speaks Ethernet over its serial port; a container on the host (the *add-on*) turns
that port into a network interface, keeps the stick's firmware current, and makes the
pieces around it meet: the host's routes, a Matter server, Home Assistant.

This directory holds a TLA+ model of that program: modules translated from the source,
configurations that let TLC check them on small instances, and proofs checked by TLAPS.
`PROJECT.json` is the index: which definition stands for which lines, which run checks
which property, which mutation of the model each property catches, which hazards the
code has.

    tlc -config Supervisor.cfg MCSupervisor.tla      # model-check a run
    tlapm SupervisorProofs.tla                        # check proofs

## 1. The system

### On the stick (`main/`, C, ESP-IDF with FreeRTOS tasks)

| Part | State | Operations | Meets |
|---|---|---|---|
| **BLE proxy** `ble_proxy.c` | `s_conn[]` (slots), `s_op` (the one operation in flight), `s_q` (message queue), `s_scanning`, the websocket | 15 text commands, the write payload, GAP events, GATT callbacks, websocket events, the watchdog | a Matter server over a websocket; NimBLE by callbacks |
| **Log sink** `log_sink.c` | `s_ring`, `s_head`, `s_tail`, `s_lock`, `s_detached` | the `vprintf` hook, `ring_put`, `ring_get`, the sender task, detaching the console | every task that logs; the add-on's log relay by UDP |
| **Ethernet link** `eth_link.c` | transmit buffer, receive buffer, escape flag | `eth_transmit`, `rx_task` | the add-on's pump over the serial port |
| **PPP link** `ppp_link.c`, `p2p_netif_glue.c` | one PPP interface | start, data in and out | esp_netif |
| **Border router** `thbr_main.c`, `backbone.h` | the on-link address, the infrastructure interface's index | boot, heartbeat | OpenThread, lwIP |
| **Info server** `info_server.c` | the stored BLE proxy address | `/version`, `/status`, `/backbone`, `/ble_proxy`, `/reboot` | the add-on's supervisor over HTTP |
| **Heap probe** `heap_probe.c` | a table of allocations | allocation hooks, dump | none in a normal build |

### On the host (`addon/`, Python)

| Part | State | Operations | Meets |
|---|---|---|---|
| **Supervisor** `thbrctl.py: cmd_run` | the pump's process, counters and latches of the loop, request and answer files, `IDENTITY_FILE` | start and stop the pump, flash, back up, restore, probe, reachability escalation, identity and proxy checks | the pump (child process), esptool, the stick's HTTP servers, `thbrctl flash`, the page |
| **Pump** `tap_pump.py` | SLIP decoder, descriptors | copy frames between tap and port, reopen the port | the stick's `eth_link.c` |
| **Backbone routing** `thbrctl.py: ensure_backbone_routing` | `LAST_PREFIXES`, `PREFIX_CHANGED_AT`, `LAST_LL` | add and remove routes, keepalive, router solicitations | the kernel's tables |
| **Matter forwarder** `thbrctl.py: matter_relay` | a listening socket, two threads a connection | contest for the port, forward | the stick, a Matter server |
| **Home Assistant adapters** `thbrctl.py: sync_ha_adapters` | `_HA` (settled; a request not yet posted) | look, plan, set the list, ask for a restart | Home Assistant's websocket |
| **Log relay** `thbrctl.py: log_relay` | the unfinished line | make lines, filter, redact | the stick's log sink |
| **Web page** `webui.py` | cached values | pages, POST handlers, refresher thread | the supervisor by request files |
| **Scripts and tools** `scripts/`, `tools/` | files | build, release, manual helpers | people |

### What is hard in it

* **Concurrency.** The BLE proxy spans three tasks: the websocket client's, the proxy's
  own and NimBLE's host task, which meet in one operation slot without a lock. The log
  hook runs on every task. On the host the supervisor, the pump, esptool and whoever
  asks for a flash share one serial port and a directory of files.
* **Ordering.** Commands are queued and handled after the connection they came over is
  gone; callbacks arrive for slots that have been released; an answer file may be older
  than the question.
* **Failure.** The serial port loses bytes; a websocket can be half open; a pump dies, a
  container is stopped between any two steps, esptool fails half-way. Log datagrams are
  lost; a call to Home Assistant can be carried out although its answer never came.
* **Others act on the same state.** The kernel learns and forgets routes while the add-on
  sets them by hand; a Matter server wants the forwarder's port; a user edits the list of
  adapters the add-on is about to write.
* **Time.** A watchdog that depends on a queue being empty; checks that escalate;
  latches that must not outlive what they stand for.

PROJECT.json lists each such hazard at its line with the properties that would notice.

## 2. What makes each component correct

* **BLE proxy**: every command is refused or worked on, one at a time, and answered at
  most once; what is under way on the radio is what `s_op` says; no slot and no handle
  is leaked or shared; a link nobody waits for is closed; a dead websocket is redialled
  and a live one spared.
* **Log sink**: lines do not mix; a full ring loses its oldest bytes and nothing else;
  what is kept comes out, if there is a socket to send it by.
* **Serial Ethernet**: what goes in comes out; a fault spoils the frame it falls on and,
  with the pump, at most the next; no more frames are invented than faults happened.
* **Supervisor**: one of its processes has the port; the pump always comes back; a flash
  was asked for since the supervisor started, not before; an answer is about the request
  its reader made, unless two requests met; no other firmware is overwritten unasked;
  every question is answered; the restart of the stick is the last remedy; what the
  supervisor itself replaced is looked at again.
* **Routing**: however sticks, networks and advertisements change under the rounds, the
  host ends up with a way into the mesh and the mesh with a way back; nothing of a network
  that is gone stays; what is set by hand steps back for what the kernel learns; a round
  never takes away what is in use.
* **Matter forwarder**: the port is left to a server that needs it; a connection that ends
  on one side ends on both. With the stick's websocket: the stick gets through again and
  again, whatever is lost or restarted on the way, but for a forwarder that hangs in a
  greeting (section 5).
* **Adapters**: no name and no adapter in use is taken off the list; a restart that is
  missing is asked for; the rounds end.
* **Log relay**: a line that loses bytes costs at most one other line; nothing stays
  behind.

## 3. The modules

| Module | Models | Role |
|---|---|---|
| `BleProxy` | `ble_proxy.c`: commands, slots, callbacks | detailed specification |
| `CommandDesk` | what a command may expect | abstract specification of `BleProxy` |
| `MCBleProxy` | sets of commands, symmetry | TLC instance |
| `BleProxyProofs` | | TLAPS |
| `ProxyLink` | `ble_proxy.c`: websocket and watchdog over time | component of `MatterPath` |
| `MatterRelay` | `thbrctl.py: matter_relay` | component of `MatterPath` |
| `MatterPath` | the websocket over the forwarder | composition |
| `MatterPathProofs` | | TLAPS |
| `LogRing` | `log_sink.c` | detailed specification |
| `LogBacklog` | a bounded first-in first-out backlog | abstract specification of `LogRing` |
| `LogRingProofs` | | TLAPS |
| `StickLog` | `LogRing`, its datagrams and `thbrctl.py: log_relay` | composition |
| `StickLogProofs` | | TLAPS |
| `Slip` | framing in `eth_link.c` and `tap_pump.py` | detailed specification |
| `MCSlip` | sets of frames | TLC instance |
| `SlipProofs` | | TLAPS |
| `Supervisor` | `thbrctl.py: cmd_run`, `cmd_flash`, `webui.py: do_POST` | detailed specification |
| `MCSupervisor` | who asks for what | TLC instance |
| `SupervisorProofs` | | TLAPS |
| `Routing` | `thbrctl.py: ensure_backbone_routing`, `send_ns_keepalive`; `thbr_main.c: sync_backbone_onlink_address` | detailed specification |
| `RoutingProofs` | | TLAPS |
| `HaAdapters` | `thbrctl.py: sync_ha_adapters` and what it calls | detailed specification |
| `HaAdaptersProofs` | | TLAPS |

Operators named `Mutant...` are deliberate errors: each stands before the operator it
corrupts and belongs to a property that has to fail with it. No specification uses them.

### BleProxy

One record of variables a task. `pc` and `cur` are the proxy task's (`proxy_task` with
`handle_text`/`handle_command`): it takes a message, and a command runs to its end in
one step, except where the code calls into NimBLE and records the result later
(`disc_started` between `ble_gap_disc` and `s_scanning = true`; `dial` between taking
the slot and `ble_gap_connect`), because another task can act in between. `in_use`,
`live`, `conn`, `proxy`, `chr` are the fields of `s_conn[]`; `op` is `s_op`; `q` the
queue, which drops what does not fit, as `q_put` does. NimBLE is what its callers see of
it: `link` (which handles it has), `procs` (GATT procedures that will call back), `dial`
(a connect under way), `disc` (a scan). `up` is the websocket. A command's payload, names
and formatting are left out; a message is its kind, its command's id, and its handle.

Not modelled: the tables that decide which advertisements are reported
(`report_due`, `remember_addr`), malformed commands (answered at once, with no effect),
and `handle_binary`, which passes a payload to NimBLE and changes no state above.

`CommandDesk` is what the server relies on: a command is free, asked, worked on or
answered; at most one is worked on; an answer disappears only at a full queue.
`ImplementsDesk` is the refinement: where a command is in the proxy decides its state on
the desk.

### ProxyLink

Time in ticks. `tcp` is what is really behind the socket ("half": nobody, and the client
library has not noticed), `quiet` the age of `s_last_rx`, `wait` how long
`xQueueReceive` has waited. The watchdog's code runs only when that wait reaches `WAIT`,
since the task that would run it also carries every message. It is checked as part of
`MatterPath`.

### MatterRelay and MatterPath

`relay` is where `matter_relay` is. It dials the server (`probe`) and, once that has
upgraded the connection, reads its greeting (`greet`): which comes (`Greeted`), does not
come in time (`GreetFails`), or is broken off by a server that stops. What a broken-off
greeting leaves is `Interrupted`: a reset ends `matter_greeting`, an ordinary end does not
(`hung`), since `recv` then returns nothing again and again. With a greeting in hand the
forwarder is about to take the port (`bind`), finds it taken (`contest`) and asks who has
it: a Matter server (`Meet`, then `Yield`; `refused` when that one stops meanwhile with a
reset), another websocket server that closes after its upgrade (`Baffled`), or nothing
that speaks Matter (`Wait`). It ends up serving (`listen`) or `off` for good. `wild` says
whether the server listens on every interface, in which case it has the port itself, or
needs to find it free (`locked` when it does not). A connection is a record of its two ends and of the threads that still run on it; a thread that ends shuts
both, the last one closes them. `met` and `missed` are history: a server was met on the
tap, or has stopped since it greeted.

`MatterPath` extends both. The stick's connection is one of the forwarder's (`via`), or
goes straight to a server that listens everywhere. `Dial` is an accepted connection on
the other side, `Handshake` needs the forwarder to have dialled on, `LetGo` closes the
stick's end so that the forwarder hears of it or does not, `Vanishes` breaks both sides
without a word. What the client library can see of the forwarder is `HungUp`.

Left out: the bytes carried, a half-closed connection of TCP (the code shuts both ways at
once), the limit of the listen queue. Of the connections a model has room for, one is not
lost without a word, since the code has no limit and TLC must have one.

### LogRing and StickLog

Each logging task moves from the hook's entry through the try of the lock (a failed try
gives the line up), the bytes one by one, to the console. The sender takes bytes out
under the lock and sends them. A byte is its line's number and its place in the line;
`LogBacklog` has the same bytes in one sequence.

`StickLog` extends `LogRing` by what happens outside: `said` (how long a line was, and
whether it is a routine line), `mail` (datagrams under way, each of which may be lost
instead), `rest` and `tail` (what `log_relay` has still to look at, and its unfinished
line). The sender waits for link and console, and is `gone` for good when it then finds no
socket. A line's last byte is its newline, unless the hook truncated it. `Emit` is
`stick_line_wanted` in the default mode with the printing: a text that begins with the
first byte of a routine line is left out. `cut` and `swallowed` are history.
Left out: the other two modes, which pass everything or nothing; `redact_secrets`, which
rewrites text within a line; a datagram that overtakes another.

### Routing

A network stands for its two prefixes, a stick for its link-local address; an address is
`[net, by]`, a route `[net, via, by]`, where `by` says whether kernel or add-on set it.
`at` is where `ensure_backbone_routing` is. Every `ip` command is a step, `seen` what
the last `show` printed, and between any two steps the kernel may learn or forget, the
stick be swapped, the network changed, the container restarted. `bb` is `/backbone` as it
was read last, `LAST_PREFIXES` and `LAST_LL` in one: the keepalive uses it later. `grace`
stands for both intervals in which the code leaves the kernel alone. On the stick, `held`
is the address `sync_backbone_onlink_address` keeps and `want` the one it is about to
add, its remove and its add being two steps; `heard` is the neighbour entry that the
keepalive refreshes and that ages out.

Taken together: a network's mesh prefix and its on-link prefix are published at once;
`ip addr del` and `ip route del` do what they are told (their failure is not looked at by
the code); two routes of the same network and router differ by who set them only. One
task calls `sync_backbone_onlink_address`: at the end of the boot two may (hazard listed).
Left out: router solicitations, which make an advertisement come sooner, and
`verify_mesh_reachable`, whose verdict is the supervisor's.

### HaAdapters

`Lans` are the machine's other interfaces, each of them there or not when Home Assistant
looks; `Gone` are names a list may hold besides. `core` is Home Assistant: the list, the
adapters it found and would pick when it started,
those it listens on, its notice. `at` is the place in `_ha_round`: `look` at the list
(the plan is `Listening`, `NeedsOnlyRestart`, `Unsure` or `MustSet`), `set` it, `ask` for
the restart. Each call can be lost, refused, carried out with its answer lost, or
carried out after the five seconds the code waits (`late`). `pending` is
`_HA["pending"]`, which is set before the request is posted so that a lost post is made
again. Home Assistant stops and starts, its user edits the list and dismisses notices.
`told` and `excuse` are history: what was asked for since the last start, and what
relieves the add-on of asking. Left out: the text of the messages, the websocket's
framing, and all but one of several calls that are under way late.

### Slip

One direction at a time: `side` is the end that decodes. A frame is encoded (`Encode`)
and travels byte by byte; the port may lose any bytes of it, the boot banner may come in
between, the port may be reopened, the stick be out of memory (`faults` counts them all).
The two decoders differ in what an END resets and what an unknown escape does, and are two
operators. `whole` and `before` are history: whether a fault fell on this frame, and on the
one before it.

### Supervisor

`pc` walks through `cmd_run`: `boot`, `ask` (the policy's first look), then the loop in
the order of its code: `pump`, `restore`, `backup`, `flash`, `probe`, `reach`,
`identity`, `ble`, `status`. A check that finds nothing, or whose interval has not
passed, is `Pass`. Wherever the code stops the pump for something, `job` says for what,
and `stop`, `write`, `writing`, `start` are the steps of it; `Resumes` says where the
loop goes on. `unlink` lies between reading a request and removing its file; `verify` is
the judgement on a rebuilt link; `reboot` the request to the stick.

`req` and `res` are the files, one request and one answer a kind. A request is
`[by, nr, force, left]`, so that a property can tell whose it is and whether it lay there
when the container started; in the file there is only `force`. `client` is
`thbrctl flash`, or a browser: `cleared` after it removed the old answer, `waiting` after
it moved the request into place, `alone` when it found no supervisor and flashes by
itself. One that gives up is `idle` and may ask again at once, also while its first flash
is carried out. `crossed` is history: whose last flash request met another one, on file,
in hand, or about to be posted (`Meets`), its own earlier one included.

`stick` is the application on the board, where it offers its radio, and its network.
`"unnamed"` is an application whose name cannot be read, because it lies elsewhere or
the read fails. What a flash leaves is any outcome of the write, a blank board included.
Others change what is on the stick (`StickChanges`), or put in another one; its history
`hand` remembers that nobody told the supervisor. A look at the stick can succeed only
while something there answers and a pump carries it (`Answering`). `remedy` is a history
variable: what the silent mesh has been given so far.

Left out: routes, neighbour keepalive, forwarder, adapters and log relay, which share no
state with this and have modules of their own; what the checks log; `adopt_port` and
`wait_for_configuration`, which run before anything else does. Taken as one step: a
client's write and rename of its request (two browsers at once share the temporary file,
a hazard listed), the three tries after a rebuild. Assumed: nobody posts a request while
the container boots, to a supervisor that a stale PID file takes for alive (hazard listed);
esptool does not use the port after it ended. The container may start over a stand-alone
flash, as nothing in the code prevents (hazard listed).

## 4. The runs

All passing runs are exhaustive for their instance. Every module's types are a theorem; a
run checks them as well where they bound something in the code: the queue of `BleProxy`,
the stick's receive buffer in `Slip`, the bytes under way in `StickLog`. Distinct states:
`links` 776,037, `gatt` 347,410, `matter_path` 132,222, `stick_log` 232,194, `slip` 453,986,
`supervisor` 3,155,528, `supervisor_care` 446,232, `routing` 490,781, `adapters` 135,220.

| Run | Instance | What it shows |
|---|---|---|
| `links` | 2 slots, 2 NimBLE handles, queue of 2, 2 command ids, 3 connections made | Commands for scanning and connecting against events in any order: no slot leaked, shared or dead; scans known; the proxy implements `CommandDesk` |
| `gatt` | 1 slot, 1 handle, queue of 2, 2 ids, all GATT commands, fairness | The operation slot agrees with the radio; one answer a command; every command settles |
| `orphan` (violation) | as `links` | A link made for a server that went away in the middle is left standing |
| `matter_path` | wait 1, limit 3, pong 1, queue 1; 2 connections, 1 wait for the port, 2 losses, stops or restarts; a server on loopback or everywhere, the port held by another process or not; fairness | A live server is spared and a new link has its minute; the port is left alone; connections end on both sides; the stick gets through again and again, unless the forwarder gave up or hangs |
| `stick_log` | 2 tasks, ring of 4, line of 4, datagrams of 2, 2 lines of lengths 0, 2 and 5, one datagram under way, fairness | Lines stay whole, the ring is a bounded backlog, a cut line costs at most one other, everything kept comes out unless the sender has no socket |
| `slip` | both decoders, every frame of up to 2 octets, of 3 those made of END and ESC, five hard ones of up to 4, three frames, two faults | What goes in comes out; a fault spoils its frame and at most the next; no more fakes than faults; the stick finds every whole frame |
| `supervisor` | `thbrctl flash` twice, the page flashing, restoring or saving once, policy `upgrade`, any application on the board | The port has one user, a flash was asked for since the start, answers belong to their questions unless requests met, other boards are spared |
| `supervisor_care` | one flash, restore or backup, the checks of the loop, two networks, fairness | Every question is answered, the pump comes back, the restart is the last remedy, what the supervisor replaced is looked at again, a new network is noticed |
| `supervisor_foreign` (violation) | policy `auto`, nobody asks, a silent board with an unreadable name | It is overwritten |
| `routing` | 2 networks, 2 sticks, 2 changes, any part of the advertisements taken, leftovers of an earlier container, fairness | One route by hand at most; nothing in use is taken away; host and mesh reach each other in the end |
| `adapters` | the tap, another interface and the name of one that is gone, one edit, every list and every choice of Home Assistant, fairness | No name and no adapter in use taken off; the restart asked for; the rounds end, those after the last start too |
| `adapters_lost` (violation) | as `adapters` | The list goes in, its answer is lost, and nobody asks for the restart |

### Why the bounds are enough to meet the interesting cases

* **BleProxy.** Two slots and two handles are the least with which a slot can stand for
  another's link; with two ids and a queue of two, one command can be worked on while
  another is refused and the queue is full. `MaxProxy` bounds the connections made (the
  handle counter); three make a slot be used again. The GATT run needs one slot: one
  operation is in flight at a time, and the second id is refused or comes after it.
* **MatterPath.** Of the times only the order of `WAIT`, `PONG` and `LIMIT` matters, and
  that more than one wait fits into the limit; the real numbers are 5, 10 and 60 seconds.
  A second connection lets the stick dial again while an old one is still closing or half
  open; two losses let the server stop between greeting and bind and come back, or break a
  greeting off and come back, or a link break twice.
* **StickLog.** The ring (three usable bytes) is smaller than two lines, so it overflows;
  a line longer than the buffer is truncated; an empty line is not put; datagrams cut
  lines; every position wraps. Two lines are what it takes for one to run into the other;
  a third was tried for the safety properties and changed nothing (5.8 million states).
* **Routing.** Two networks and two sticks give the same network behind another stick,
  another network behind the same one, and both at once; two changes let the second fall
  between any two commands of the round that answers the first.
* **HaAdapters.** Beside the tap an interface that comes and goes, and a name on the list
  whose interface is gone: the list can name one that is not there while another is in
  use. Any number of stops of Home Assistant and restarts of the container; one edit,
  after which the exceptions apply.
* **Slip.** Every three frames out of every short frame and the hard ones: a special
  octet first, last, twice in a row, frames below a header and of the greatest length.
  Three are the frame a fault falls on, the one it may spoil besides, and the first that
  must be handed on again. Two faults can damage a frame and its successor, or the same
  frame twice.
* **Supervisor.** Two pump ids are enough, since a third pump would need two left
  running. Two flashes by one client let the first's answer meet the second's question,
  and a second client that flashes lets requests of two meet. That every request is
  answered is checked beside the loop's checks, of one request of any kind: fairness makes
  the larger instance too slow. Policy `upgrade` does all that `auto` does and more; the
  checks have the policy off so that the flash at the start does not multiply every state.
  The counters of the checks have no bound but the code's own.

`CHECK_DEADLOCK FALSE` stands where the bounds let a behaviour end: all lines logged,
all frames sent.

### Fairness

* **BleProxy**: the proxy task is scheduled; NimBLE ends a connect (it was given 30 s)
  and every GATT procedure (30 s of its own). Nothing is assumed of the server, of peers,
  or of scans.
* **MatterPath**: time passes; proxy task, watchdog, forwarder and its threads run; a
  server that is down and a tap that is missing come up; the client library dials again
  and sees a connection that was closed, but never one that broke without a word. The
  handshake and the forwarder's dialling on are strongly fair: the watchdog, which comes
  once a minute, does not interrupt every single attempt. `StickGetsThrough` is
  conditional on the BLE side falling silent some time, since the watchdog runs only when
  the queue stays empty, and ends with a forwarder that gave its port up to a process that
  is no Matter server, with a server locked out of its port, and with a forwarder that
  hangs in a greeting that was broken off. A server that runs does not miss the four
  seconds for its greeting every time (strong fairness of `Greeted`); nothing is assumed of
  a greeting that was broken off.
* **StickLog**: the stick's sender and the relay's thread run, a task goes on putting the
  bytes it has begun with, the console is handed over. Nothing is assumed of datagrams. That
  the sender finds a socket is not assumed: `Drains` says "or the sender is gone".
* **Routing**: the supervisor's loop and the stick's heartbeat go on; a border router
  publishes its prefixes; advertisements are repeated, and what nobody advertises any more
  runs out. The keepalive is sent again and again between the rounds (strong fairness: it
  needs an address and a route, which come and go). Changes are bounded, so the last one
  comes some time; what the properties ask for is what holds after it.
* **HaAdapters**: of the connections and calls made every minute, one that can succeed
  again and again succeeds some time (strong fairness). `Settles` is conditional on Home
  Assistant staying up and the container not being restarted for ever, and says that the
  rounds are done again and again, so also after the last start.
* **Supervisor**: the loop goes on; esptool ends (the settings have a time limit of
  180 s in the code, `flash()` has none: a listed hazard); a client looks for its answer
  every second. `NetworkNoticed` needs more: the ten-minute look at the stick, when it
  happens again and again, sometimes succeeds and the note is stored (strong fairness),
  and it is conditional on the pump being up and something on the stick that answers at
  such looks. Nothing is assumed of pumps,
  SIGTERM, Docker or clients that give up. A container that stops stays stopped unless
  somebody starts it, and the properties say so ("or pc = off").

## 5. Findings

Three disagreements between the code and what its documents and comments say, each with a
run that shows it; PROJECT.json quotes the lines.

1. `ble_proxy.c:247` A connect whose server disappears: `conn_release_all` frees the slot
   but the link that comes up afterwards is taken for an expected one, and stands for good.
2. `thbrctl.py:1285` A missing application name counts as agreement: a board whose
   application cannot be named is overwritten, at start-up, with nobody asking.
3. `thbrctl.py:1829` When only the answer to the call that sets the list of adapters is
   lost, the next round finds the tap on it and asks for no restart.

Also seen while modelling, each a listed hazard:

* `ble_proxy.c:1272` The watchdog waits for an empty queue, which BLE traffic prevents: a
  half-open link is not looked at while advertisements keep coming.
* `tap_pump.py:80` The pump's decoder keeps its escape flag over an END with an empty
  buffer, and may lose the next, whole frame to an octet lost before; the stick's does not.
* `thbrctl.py:2140` A `thbrctl flash` that gave up or was interrupted and is run again while
  the first flash is carried out reads the first one's result as its own.
* `thbrctl.py:952` A Matter server that closes between the upgrade and its greeting, as one
  that restarts does, leaves `matter_greeting` reading nothing for ever, and the stick
  without its forwarder until the container restarts. The docstring of `matter_relay` says
  that a restarted server costs one refused connection and nothing else;
  `StickGetsThrough` without its exception is what that would be.
* `log_sink.c:111` Without a socket the log's sender ends for good, and the ring keeps what
  it has.
* `thbrctl.py:2156` Nothing keeps the container from starting over a stand-alone flash.
* `thbrctl.py:2160` `thbrctl flash --force` without a supervisor drops the `--force`.
* `thbrctl.py:1231` A routine line that lost its newline takes the warning after it out of
  the container's log.
* `thbrctl.py:970` A Matter server on every interface that stops between its greeting and
  the forwarder's bind finds its port taken when it comes back.

Three more behaviours the models have, which contradict no written promise and are
listed as hazards: a command handled after its server left takes a slot that nobody
returns until the next disconnect (`BleProxy`); a request that arrives between the
reading and the removal of the one before is deleted unread, and a backup or restore
request outlives a restart (`Supervisor`).

## 6. The proofs

TLC checks the instances above; TLAPS proves the following for every value of the
constants that meets the modules' named assumptions (positive sizes, sets of the right
kind). No theorem has another hypothesis, and none rests on a bound except the counters
that the guards cap.

### BleProxyProofs

`TypeOK`, then `Consistent`, the inductive invariant. That a slot reserved for a connect
is given back (`PendingSlotIsDialing`) cannot be proved alone: it needs to know that the
operation parked in `s_op` is the one whose procedure is under way
(`OperationMatchesRadio`), which for a GATT procedure needs its slot's link to be one
NimBLE still has (`LiveSlotHasLink`), which in turn needs a failed connect to have given
its slot back. The three are proved together with `OperationHasSlot`. From it follow
`NoSlotLeak`, `LiveSlots`, `OperationIsUnderWay` and, as an action property,
`SlotIsHeld`. `ScanIsKnown` has its own invariant over the scan and the task's place;
`HandlesAreUnique` needs that handles are given in order (`HandlesInOrder`), and holds
below the counter's wrap only.

`NeverAnsweredTwice` and `ProxyIsDesk` share `DeskInv`. `OneAnswerPerCommand` is not
inductive: it needs `Consistent`, and to know which command the task and the operation
slot hold at each place of the task (`TaskInHand`): both hold the same one while a
connect is being set up, and none where they are said to be free. The proof goes by
way of `Moves`, the seven things a step can do with the commands it finds and the one
that brings a new one: each action is shown to be one of them, however many of its other
variables change (`EveryStepMoves`), each of them keeps `DeskInv`, and each of them is a
step of `CommandDesk` or a stutter, where an answer is lost to a full queue only.

### LogRingProofs and StickLogProofs

`TypeCorrect` and `RingAlwaysLocked` (mutual exclusion over head, tail and bytes), and
`RingIsBacklog`: the ring implements `LogBacklog`. A step of the ring is shown to be a
`Put`, a `Get`, a `Send` or a stutter of the backlog; the work is in lemmas about
positions modulo the ring's size, stated once: how `Filled` moves with the head, with the
tail and with both, and which cell holds the n-th byte.

`LinesNeverMix` needs three things together (`WholeInv`): neither ring nor datagram has a
seam, and while the sender takes bytes out, neither have the two one after the other
(`StreamsWhole`); lines under way have numbers of their own (`OwnLine`); and the task that
has the lock either has nothing in the ring yet or finds there, last, the byte before its
next (`HookInv`). That a full ring drops its first byte takes no seam in, and the byte put
in follows the last one by `HookInv`; `RingIsLocked` keeps everybody else out meanwhile.

`StickLogProofs` shows that every step of `StickLog` is one of `LogRing` or leaves it
alone, and so carries both results over to a sink whose datagrams are lost.

`CutsTakeNoMore` compares the sizes of two history sets, and is proved by an account: each
swallowed line is charged to a cut line of which nothing is under way any more and nothing
is to come, so that no later line can be charged to it again (`Charged`). That needs to
know of what is under way that it is one stream. The relay's unfinished line, the
datagrams in their order, the sender's chunk and the ring's backlog are put one behind the
other (`Under`); in that stream the bytes of a line stand together, a line that another follows
has ended or is marked as cut, and only the line a task is putting is unfinished
(`StreamInv`). A lost datagram and the byte a full ring drops take something out of the
stream and mark whose it was; what the relay makes lines of leaves the stream in front.

### MatterPathProofs

Every step of the composition is one of `ProxyLink` (`LinkPart`) and one of `MatterRelay`
(`RelayPart`), or leaves that part alone; the invariants of the parts are then proved of
the parts' steps. `ClockIsFair`: the watchdog's clock is never ahead of the silence of a
server that is there, nor of the link's age, so that a clock at `LIMIT` means neither
(`ServerIsSpared`, `LinkHasItsMinute`). `PortInv`: between greeting and bind a server that
listens everywhere runs or has stopped since, so the bind that succeeds met one that had
(`PortIsLeftAlone`).

### RoutingProofs

`NeverTwoByHand` is inductive as it stands: what adds a route by hand is `route replace`,
which takes the one there was. `WayIsKept` is an action property; it needs that what a
round decides by was read for the network the round is about (`SeenIsMine`), and then that
each command spares an address and a route of that network, where they are what was read.

### HaAdaptersProofs

`RestartIsAskedFor` rests on `AskInv`: no look is taken at the list while a request to
restart is to be posted; where nothing excuses the add-on and it neither has asked nor is
about to, Home Assistant listens as its list says; and once it is satisfied, Home
Assistant has found the tap. `NothingIsTakenAway` rests on `ListInv`: a list about to be
written, or still under way, is the list there is or the one called for, whatever went in
or was lost meanwhile.

### SupervisorProofs

The inductive invariant `IInv` has five parts. `TypeOK` (proved in three groups, by which
variables a step touches). `JobOK`: the steps of the flash cycle have the job they belong
to, so that `Resumes` leads where it should. `PortOK`: a pump runs only if it is the one
the supervisor knows of and the supervisor has no esptool; at the places where one is about
to be started or the port is to be written, none runs; and the supervisor's esptool is at
work only where the loop waits for it. `RemedyOK`: a second miss is remembered as a rebuild under way,
until the rebuild has been judged. `LatchOK`: while `ble_synced` is set the stick has the
setting, or a job that will reset the latch is about to. `TypeCorrect`, `OnePortUser`,
`CheapRemedyFirst` and `LatchStands` follow; `OthersSpared` is an action property over
the same types.

`FlashAsked` and `OwnAnswer` hold for any number of clients, each of which may flash, give
up and ask again, and rest on `AskOK`. Its first part, `Current`: once the supervisor is
past its boot, which removes both files, no flash request on file or in hand is one that
was left over. Its second, `Alone`: a client whose request met no other finds on file, in
hand and answered nothing before it posts its request, and at most that request afterwards;
nobody else is about to post one. `Alone` is what a step of another client could break, and
each step that could is one that enters that client in `crossed`. For a client in `crossed`
nothing is claimed, for nothing holds: `req` and `res` keep one flash request and one answer
without a name on them.

### SlipProofs

The encoding is a fold over a frame. What it looks like is proved by induction over how
much of the frame is laid out, in the form this prover can be given: the least length for
which the claim fails does not exist (`Least`, from the library's well-founded relations).
`EncodeIs` is the result: where each byte of a frame stands in its encoding (`Off`), that
the two special ones take two places, and that an END stands first and last only.

The invariant follows the decoder through that layout. `Reading` says that after so many
bytes the decoder holds the first `k` bytes of the frame, and an ESC if the next is a
special one; `ReadOn` that the next byte keeps it so or is the END that hands on the whole
frame. `Synced` is that, or an empty decoder between frames. `FakesAreFew` needs that
a decoder can be out of step only while more faults were counted than frames invented
(`DamageOK`): every fault adds one to the account, and the END that hands on a fragment
takes one out and leaves the decoder in step. `EncodingUndone` is the case without faults,
`RoundTrip`, which no run checks by itself since `DamageIsLocal` contains it.

The stick gets into step at the END in front of a frame whatever it held (`StickOK`), the
pump only if its buffer was not empty or no escape stood open, which is why
`StickFindsFrames` speaks of the stick. `DamageEnds` is what both keep, and goes by two
frames: within a frame that suffered nothing an escape stands open only behind an ESC of
that frame, one left over ending with its first byte, so that its closing END leaves an
empty decoder (`SettledOK`); the frame after is then read from beginning to end (`CleanOK`).
These proofs are also why the guards in `PumpFeed` exclude each other.

### Only model-checked

Liveness (`EveryCommandSettles`, `EveryAskSettles`, `PumpComesBack`, `NetworkNoticed`,
`StickGetsThrough`, `OneEndEndsBoth`, `Drains`, `EndsSettled`, `MeshAnswers`, `Settles`):
the prover has no rules for fairness and ENABLED. Every other property of the passing runs
is a theorem.

## 7. Not modelled, and why

* **PPP link**: an alternative to `eth_link`; its protocol is a library's.
* **Info server**: handlers that report values; the two that act are seen from the
  supervisor (`SyncBle`, `Reboot`).
* **Boot of the firmware**: one sequence, once. The probe for the infrastructure
  interface's index asks a binary library for its answer.
* **Redaction of credentials in the log**: text within a line.
* **Build, release and manual tools; packaging**: run by hand, one at a time.
* **The page's HTML and its refresher**: values shown.
* The pump's reopening of the port; Ethernet driver registration; `wait_for_configuration`
  and `adopt_port`, which run before there is anything to disturb.
* **Heap probe**: a measuring aid left out of normal builds.

## 8. The plan

Done: 1 `BleProxy` with `CommandDesk`, 2 `ProxyLink`, 3 `LogRing` with `LogBacklog`,
4 `Slip`, 5 `Supervisor`, 6 `Routing`, 7 `MatterRelay` and its composition with 2,
8 `HaAdapters`, 9 the log relay composed with 3, and proofs of the safety properties of all.

Left, in this order:

* The advertisement tables of the BLE proxy (`report_due`, `remember_addr`): which reports
  are dropped when a table is full.
* A client's temporary file (two browsers at once), and a request posted while the container
  boots, as steps of `Supervisor`.

The number of runs is kept at a dozen, and a component that is composed with another is
checked in the composition.
