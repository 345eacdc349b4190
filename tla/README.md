# A verification of EmberZNet 4.5.2

EmberZNet 4.5.2 GA is a ZigBee application framework in C.  The repository has
what runs above the stack: the host's side of the serial protocol to a network
co-processor (ASH and EZSP), the application framework with its main loop,
events and utilities, and the plugins of the ZigBee and Smart Energy clusters.
The stack itself, the firmware of the co-processor (NCP) and the hardware are
not in it.

This directory holds TLA+ models of the parts whose correctness depends on the
order of events: what TLC checks of them on small instances, and what TLAPS
proves of them for every instance.

    cd tla
    tlc -config AshLink.cfg AshLink        # one line per run of PROJECT.json
    tlapm AshProofs.tla                    # one line per module named ...Proofs

`PROJECT.json` lists the components, the runs, the mutants (small bugs put into
a definition, each of which a run must find), the lines of source every
definition stands for, the hazards of the code and the theorems.

In this text `ash-host.c:360` is line 360 of that file; the paths are

| Short | Path under `src/em35x-ezsp` |
|---|---|
| `ash-host.c`, `ash-host-queues.c`, `ash-host-io.c` | `app/ezsp-uart-host/` |
| `ash-common.c`, `ash-protocol.h` | `hal/micro/generic/` |
| `ezsp.c`, `serial-interface-uart.c` | `app/util/ezsp/` |
| `af-main-host.c`, `af-main-common.c`, `af-event.c`, `af-event-host.c`, `fragmentation.c` | `app/framework/util/` |
| `form-and-join.c` and its two adapters | `app/util/common/` |
| `tunneling-*.c`, `ota-*.c` and other plugins | `app/framework/plugin/` |

## 1. Inventory

### The host and the NCP

**ASH host** (`ash-host.c`, `ash-host-queues.c`, with `ash-common.c`,
`ash-protocol.h`).  *State*: the flags (connected, retransmit, reject, send
ACK / NAK / RST, cancel, not ready), the six frame numbers `frmTx`, `frmRx`,
`frmReTx`, `frmReTxHead`, `ackRx`, `ackTx`, the transmit, retransmit and
receive queues with their two free lists, the frame being written, the buffer
of the frame being read, the acknowledgement and not-ready timers and the count
of timeouts.  *Operations*: `ashResetNcp` and `ashStart`, `ashSendExec` (one
state machine for all frames), `ashReceiveFrame`, `ashSend`, `ashReceive`.
*Hard*: `ashSendExec` stops in the middle of a frame when the
output buffer is full, and frames are received before it goes on; a window
counted modulo 8; retransmission overtaken by acknowledgements; a frame
cancelled after its last byte was written; buffers that move between five
places.  *Correct when*: no buffer is lost or used twice, every assert of the
queues holds, the frame numbers keep their order around the window, and a frame
that waits for its acknowledgement has the timer running.

**The link** (the host, two serial lines, the NCP).  *State*: the bytes on the
lines and the NCP's own numbers.  *Interaction*: frames only, and the RSTACK
that begins a session.  *Hard*: frames damaged or lost, late timers, resets of
either side while frames of the old session are still on the lines, no buffer
for a valid frame.  *Correct when*: within a session each side delivers exactly
what the other accepted, in order; nothing crosses from one session to another;
everything accepted is delivered in the end.

**EZSP** (`ezsp.c`, `serial-interface-uart.c`, the reset in `af-main-host.c`).
*State*: whether a command is being sent, whether a response is waited for, the
receive queue shared by responses and callbacks, and "the NCP needs a reset".
*Operations*: every EZSP command through `sendCommand`, `ezspTick`,
`serialResponseReceived`, `ezspErrorHandler`, the reset by the main loop.
*Hard*: callbacks that flood the pool while a response is waited for; a
response after the timeout; commands sent from handlers; the reset, which is
later than the error.  *Correct when*: a command returns, with its own response
or an error; no callback is lost or reordered without an error.

### The framework

**Main loop, events, cluster ticks** (`af-main-host.c`, `af-main-soc.c`,
`af-event.c`, `af-event-host.c`).  *State*: two tables of events, each with a
time in milliseconds, quarter seconds or minutes, 16 bits of each; the sleep
control of every cluster tick; the tasks that keep a device from hibernating.
*Operations*: schedule, deactivate, run what is due, sleep until the next event.
A due event's handler makes it inactive and may schedule it again; events are
held back while a cryptographic operation runs.  *Hard*: counts that wrap, three
units with three roundings, a clock read once for a whole table, handlers that
take time, a sleep set in a unit of its own.  *Correct when*: a scheduled event
runs, not early and not late, and the host sleeps neither past it nor through a
task that is waited for.

**Fragmentation** (`fragmentation.c`; a second version,
`app/util/source-route` and `app/util/ezsp`'s fragmentation for host
applications).  *State*: one message being sent (its buffer, fragment count,
window base, fragments in transit) and one being received (source, base, mask,
fragments expected and received).  *Operations*: send, the stack's report of a
fragment, an incoming fragment, the abort timer.  *Hard*: fragments lost, sent
twice or late; reports that name no message; a stack that refuses in the middle
of a window; 8-bit counters.  *Correct when*: a message passed on is whole, a
message reported as sent was received, every message is reported once, and the
component is free again afterwards.

**Message dispatch, ZCL utilities, attribute storage, reporting, service
discovery, trust center, crypto state**: dispatch of commands to clusters and
tables of attributes are sequential; reporting has minimum and maximum
intervals and one tick for all of its entries; discovery runs one search at a
time with a timeout; the crypto state is one flag that holds events back.

### The plugins

| Plugin | State | Hard |
|---|---|---|
| Tunneling server, client | two tables of tunnels that name each other by the server's index | commands lost or crossing; ids used again; a tunnel closed without a word to the other side |
| OTA client, server, storage | the download's state, offset, retries; page requests with a mask of missing blocks; the stored offset | blocks lost, duplicated or late; a page in which some blocks are missing; timers; an image replaced half way |
| Key establishment (CBKE) | one partner, the last step, sequence numbers seen, the tick, an ECC operation under way | two initiators; the last confirmation lost; messages twice or late; a timer held back by the operation |
| SE registration, partner link keys, trust center keepalive, service discovery | a step number, counters of errors and a timer each; the table of ESIs | callbacks of an earlier registration that come late; searches that fail to start; handlers that call one another |
| Load control | a table of events with start times, durations, randomization and the user's choice | superseding, cancelling, copies of old events; sums that wrap |
| Network find, with form and join and the status of the stack | the scan under way, candidates, networks heard, the search of the plugin | scans that fail from within the call, joins that fail, echoes of a network on another channel, the clean-up timer |
| Price, messaging, metering | tables of entries with start times and durations | replacing; ticks that outlive their entry |
| Level, colour, identify, scenes, groups, IAS zone, thermostat, time, basic | attributes; ticks for those that move | a command that replaces a move |
| Concentrator, gateway, XMODEM bootload, test harness, command line | small or pure I/O | - |

The list "components" of `PROJECT.json` has every part with what of it is
modelled; "hazards" has what is hard to test, line by line.

## 2. Plan

In the order of what the system rests on: the serial link carries everything,
then the components with a protocol of their own.

1. **AshHost**, every step of the host's ASH, with the lines left open;
   **AshProofs**, its invariants, and those of the link, for all parameters.
2. **ReliableLink**, what a link promises; **AshLink**, two lossy lines and an
   NCP around AshHost, shown to implement it.
3. **FragmentSend**, **FragmentReceive**, and **Fragmentation**, which joins
   them by a lossy network.
4. **Ezsp**, commands and callbacks over the abstract link.
5. **Tunneling**, server and client.
6. **OtaStorage**, **OtaClient** and **OtaDownload**, which joins the client to a
   server over a lossy network and reboots it.
7. **KeyAgreement**, what a key establishment promises, and
   **KeyEstablishment**, the protocol with two initiators, shown to implement it.
8. **Registration**, which uses it, with partner link keys, service discovery
   and the keepalive of the trust center.
9. **LoadControl**, the table of load control events.
10. **FormAndJoin** and **NetworkFind**, the search for a network and the moves
    of a device that has lost its parent.
11. **Events**, the events of the framework and the sleep of a host.
12. Proofs for all parameters: **LoadControlProofs**, **TransferProofs** (long
    messages in fragments, and the download of a file), **TunnelingProofs**,
    **EventsProofs**, **RegistrationProofs** (with the search for a network),
    **KeyEstablishmentProofs** (with the refinement of KeyAgreement),
    **EzspProofs**, and the second half of **AshProofs** (with the refinement of
    ReliableLink).
13. Price, messaging and reporting, each a table with one cluster tick.

Steps 1 to 12 are done.

## 3. The modules

### AshHost

One action for each step of the code that another step may come between.
`ashSendExec` is a loop that writes one byte per turn and returns when the
output buffer is full, so it can be left before any byte: a turn that changes
state is one action, and the bytes of a frame are the two turns that matter, the
one that starts the frame (with what it captures: `ackNum`, the buffer) and the
one that writes its FLAG.  Turns that write no byte cannot be left; `busy` marks
the points after them, where only `ashSendExec` may continue.

| Code | Actions |
|---|---|
| `ashResetNcp`, `ashStart`, `ashStop` | `Start`, `StartDone`, `StartFailed`, `Stop` |
| the timer at the head of `ashSendExec` | `AckTimeout`, `ResetTimeout` |
| `FLG_CAN` | `SendCancel` |
| state IDLE: housekeeping, flow control, choice | `StartRst`, `StartNakOrAck`, `StartReTx`, `FlagAck`, `StartData`, `NothingToSend` |
| the other states | `WriteFlag`, `FinishShort`, `FinishData`, `FinishReTx` |
| `ashReadFrame`, first bytes of a DATA frame | `ReadData` |
| `ashReceiveFrame`, one way to receive a frame each | `ReceiveIgnored`, `ReceiveBad`, `ReceiveXonXoff`, `ReceiveAck`, `ReceiveNak`, `ReceiveInSequence`, `ReceiveNoBuffer`, `ReceiveOutOfSequence`, `ReceiveBadAckNum`, `ReceiveRstAck`, `ReceiveReset`, `ReceiveError` |
| `ashSend`, `ashReceive` | `AshSend`, `TakeReceived` |

The serial port is open: any frame may arrive at any time, a running timer may
expire at any time.  Stuffing, CRC, randomization, counters, traces and the
arithmetic of the acknowledgement period are abstracted.  TLC checks its
invariants within AshLink, where the frames are those of a peer; the proofs are
about the open module, and one shows that AshLink does nothing with the host that
the open module does not allow.

### ReliableLink and AshLink

ReliableLink is the abstract link: while it is up, each side delivers a prefix
of what the other accepted, in order; when it goes down all is forgotten.
AshLink closes AshHost with two lines of `Capacity` frames, which keep the order
and may damage or lose `MaxFaults` frames, and with an NCP, which is external:
a go-back-N peer with window `NcpTxK`, made from the frames `ash-host.c` expects.
It restarts its numbers when it gets RST, may reset or fail by itself, and
rejects what `ash-host.c` rejects.  That it implements ReliableLink is both a
run and a proof.  Payloads are positions in the session's
traffic.  `epoch` counts the resets of the NCP and `hostEpoch` is the one the
host joined; both exist for the properties only, and the link is up
(`LinkUp`) when they agree.  A timer may also expire while the answer to what it
waits for is on its way; that counts as a fault.

### FragmentSend, FragmentReceive, Fragmentation

FragmentSend is the sending half: `SendUnicast`, `SendTooLong`, `SendRefused`
are the ways of `emAfFragmentationSendUnicast` (`fragmentation.c:72-130`),
`FragmentSent`, `WindowSent` and `FragmentFailed` those of
`emAfFragmentationMessageSent`, `SendNextFragments` the loop over a window, which
the stack may refuse at any fragment.  `stack` has the fragments the stack took
and has not reported.  FragmentReceive is `emAfFragmentationIncomingMessage`
and the abort event: `After` is the state after a fragment, `MaskAt` and
`Marked` the bits of the reply, `Store` where the fragment is put, and
`Replies` whether a reply goes out.  Fragmentation joins them: the stacks and
the network are external; a fragment is resent while no reply acknowledges it,
and reported when one does or as failed.  `Byte` stands for 256.  A fragment is
one unit of the buffer.

### Ezsp

A command is `Command`; while it waits each poll of `serialResponseReceived` is
one action: `PollReceives` (a whole frame arrived), `PollReads` (a part of one),
`PollQueue` (nothing new), `PollNoSpace`, `PollUnconnected`, `PollTimesOut`; all
of the scan of the queue, with the callbacks dropped when room is short, is in
it (`Eligible`, `Chosen`, `Dropped`).  `ErrorHandler` only marks the NCP; the
main loop resets it later, `ResetAndInit`.  The link below is the abstract one,
which AshLink is shown to implement.

### Tunneling

`served` and `opened` are the two tables; commands travel in order between each
pair of nodes and may be lost.  The server's handlers are `RequestTunnel`,
`CloseTunnel`, `TransferDataClientToServer`, `ServerFinds` (error), its tick is
`ServerTick` with `CloseInactiveTunnels`, also run when the timeout attribute is
written (`TimeoutChanged`); the client's are
`RequestTunnelResponse`, `TransferDataServerToClient`, `TransferDataError`.
`told` is what the client's application was told.  Time is the fact that a
tunnel may become inactive at any moment.  A cluster tick is made inactive
before its handler runs, as the event loop does it.

### OtaStorage, OtaClient, OtaDownload

The client is one C file of functions over static variables that call one
another; so is the model: a device is a record, a function an operator from the
device to the one it leaves, with the C function's name (`ContinueImageDownload`,
`DownloadAndVerifyFinish`, ...).  The two ways in are `Tick`, the cluster tick, and
`CommandParse` with `DefaultResponse`, an incoming message.  OtaStorage is the
simple storage over its EEPROM driver, in the same form: the version of each
block stored, the saved offset and the full-image flag, of which a reboot keeps
all but the flag.

OtaDownload has the actions: `ClientTick`, `ClientReceives`, `DiscoversServer`,
`DeviceReboots`; `ServerHandles` with one alternative per command, `ServerTick` for
the pages, and `ImageReplaced` and `ImageNotify`, which the server's application
does; `Loses` for the network, which keeps the order.  `lastSent` is the server's
response buffer: a handler that builds no response has the buffer sent again as
it is.  A timer is set or not (`tick`); the long ones run out before what is
waited for has come only as a fault.  `Builds` are the client's build options:
single blocks, pages, and pages with a download delay ("spaced pages").

### KeyAgreement, KeyEstablishment

KeyAgreement is the promise: a link key is made of one fresh ephemeral key of
each side, the responder accepts it, and the initiator completes only what was
accepted.  KeyEstablishment has two devices and the trust center.  `Machine` is
`keyEstablishStateMachine`, with `Perform` its switch, `Cleanup` is
`cleanupAndStop`, `Clear` is `clearKeyEstablishmentState`; `Command`
(`IsDuplicate`, `IsSecond`, `Refuse`, `Admit`) and `Terminated` are what the
commands go through, `KeysDone` and `SmacsDone` the two callbacks of the ECC
library.  A message may overtake others, arrive twice, be lost, or be reported
as lost though it arrived (`Unacked`, `MessageSent`).  `crypto` is the flag of
`crypto-state.c`: while it is set no tick runs, and `CryptoTimeout` clears it
when the end of an operation is not heard of.  `Outside` are devices whose
sessions are inter-PAN, where no failure is reported.

### Registration

One device.  As its handlers call each other (the registration, the keepalive,
discovery, key exchange, and the framework's status handler), an operator takes
the device and returns the device the calls leave, under the C function's name;
an action applies one of them: `RegistrationEvent`, `KeepaliveEvent`,
`DiscoveryTimeout`, `Answer` (of any part of the search), `KeyEstablishmentEnds`,
`PartnerLinkKeyExchangeEnds`, `NetworkUp`, `StackDown`,
`TrustCenterEuiHasChanged`.  Key establishment is its result, as
KeyEstablishment ends every session.  `Luck` is what a call into the stack returns;
"keyless" is the keepalive's `emberGetKey` that fails while everything else
succeeds.  `answers` are on their way and may be
lost, doubled or late.

### LoadControl

The event table, in operators over the table: `Schedule`, the overlap with
other events, opting in and out, cancelling, and one tick, which reports at most
one event.  A time has `Word` values and wraps, as do the sums of start, duration
and randomization; the service is the set of events it may send, any of which
arrives at any time, any number of times.  `during` remembers what the user had
chosen while an event ran; it exists for `ParticipationTrue` only.

### FormAndJoin, NetworkFind

FormAndJoin is the library: one operator for each function of `form-and-join.c`,
from a device to the device it leaves.  The functions of the application and of
the stack that it calls are operator constants (`ScanErrorHandler`,
`JoinableNetworkFoundHandler`, `UnusedPanIdFoundHandler`, `StackRefuses`,
`StartScan`), which NetworkFind supplies: the handlers of the plugin, called
from within the call that found something, as in C.  NetworkFind has the plugin
(`AppForms`, `AppJoins`), the stack (`BeaconArrives`, `ScanCompletes`, `JoinEnds`,
`MoveEnds`, `GoesDown`, and `StackTurns`, which makes it refuse buffers, scans
or joins), the framework's move event (`Moves`), the clean-up timer of a node
(`Sweeps`) and the reset of an NCP (`NcpResets`).  A device is a node or a host,
a coordinator or an end device (`Builds`).  The application does not ask again
from within the callback that tells it of the end.

### Events

| Code | Definitions |
|---|---|
| `emberAfEventControlSetDelay`, `emberAfScheduleClusterTick`, `emberAfDeactivateClusterTick` | `Asked`, `Accepted` with `DelayUnit`, `Fits`, `SetDelay`; `Schedule`; `Stopped` |
| `emberAfRunEvents`, `emberRunEvents` | `StartEvents`, then `RunEvent` or `SkipEvent` for each event, `EventsHeldBack` |
| `emberMsToNextEvent`, `emberAfMsToNextEvent` | `WaitOf`, `MsToNextEvent` |
| `emberAfAddToCurrentAppTasks`, `emberAfRemoveFromCurrentAppTasks`, `emberAfOkToHibernate` | the same, `TasksTimeOut`, `OkToHibernate` |
| `emAfCheckForSleep`, `emAfFullSleep`, the end of the sleep | `CheckForSleep` with `SleepDuration`, `TimerUnit`, `TimerDuration`; `Wake` |

Time is counted in milliseconds.  `clock` is the 32-bit count of the hardware,
from which the code takes its three 16-bit counts.  `left` is what remains of
the delay a program asked for, `waited` how long it is since a task with a
timeout was added, `removed` says that some task was removed after that, and
`gap` is how long ago events were last begun; the code has none of them, and the
properties compare it with them.  A handler may schedule or stop any events, with
no delay in either of the two ways the code has for it.  `MaxGap` is the time between two rounds of the
main loop, slow handlers and cryptographic operations included.  The scale is 8
for the 65536 values of a count and for the milliseconds of a counted minute, 7
for the minute of `af.h` (61440 ms) and 2 for a quarter second.

## 4. The runs

| Run | Instance | Checks | States |
|---|---|---|---|
| `ash_link` | modulus 3, window 2; 1 reset of the NCP, 2 starts of the host, 4 messages down and 2 up, or 2 and 1 in a session that a reset begins or ends; 1 receive buffer, 1 fault | `QueueIntegrity`, `WindowOrder`, `SendingOwned`, `AckTimerArmed`, `NothingLost`, `NoFalseAck`, `ImplementsReliableLink` | 2.0 M |
| `ash_link_live` | one session, 2 down, 1 up, 1 fault, 6 timeouts | `AllDelivered` | 0.1 M |
| `ash_link_leak` | one session, no fault | `NoBufferLeak` is violated | |
| `fragmentation` | bytes of 8 values, window 2, messages of 2, 3, 4 and 8 fragments, 2 faults, 2 resends, 1 abort, 1 refusal | `WholeMessages`, `SuccessIsDelivered`, `BusyIsOwed`, `AllReported` | 74 k |
| `ezsp` | 2 buffers, 3 commands, 4 callbacks, 2 failures, 1 timeout | `CallbacksKept`, `OwnAnswer`, `CommandReturns` | 0.15 M |
| `tunneling` | one pair, 2 client endpoints, 3 requests, 2 sends, 1 loss, a server table of 2 | `ServerTunnelsKnown`, `OwnDataTaken`, `InactiveClosedHere` | 0.46 M |
| `ota_download` | 4 blocks, pages of 3, offset saved every block, 2 versions, 2 errors or upgrade requests before giving up, 2 faults, 1 reboot | `WholeImage`, `Upgraded` | 0.12 M |
| `key_establishment` | the trust center and 2 devices, one of them inter-PAN, 1 endpoint, 2 sessions, 1 fault | `TickOfSession`, `SecondIsHarmless`, `SessionEnds`, `ImplementsAgreement` | 83 k |
| `registration` | 2 ESIs, one the trust center, a table of 2, 3 errors, 2 failures of the keepalive, 2 bindings, rediscovery, the network up twice, 1 fault | `NeverStuck`, `BeyondKeAuthorized`, `RegistrationEnds`, `TrustCenterSearched` | 0.35 M |
| `load_control` | a table of 2, 4 events, times of 7 values, durations and randomization up to 2 and 1, 4 commands or choices | `OneAtATime`, `ParticipationTrue`, `NoneDropped`, `EventEnds` | 0.21 M |
| `events` | counts of 8 values from every reading of the clock, 2 events; delays of 0, 1, 4 and 15 ms, or of 4 ms with 2 tasks; rounds 2 ms apart | `EventsInTime`, `NextEventExact`, `NeverEarly`, `TasksHeld` | 2.3 M |
| `network_find` | all 4 builds, 3 channels with 2 that echo each other, 4 networks, room for 2, 2 candidates, 2 searches, 2 or 3 attempts to move or no limit in bytes of 4 values, 1 network lost, 2 faults | `TrueChannel`, `NoneSkipped`, `PanIdUnused`, `FindEnds` | 0.38 M |

**What they show.**  `ash_link`, `ash_link_live`: the asserts of the queues hold
and the numbers stay in order, and what the layers above see of ASH is a
reliable link, in each session, across resets, with the faults allowed, and
live.  `fragmentation`: what is
passed on is whole and what is reported as sent was received, for an application
that is patient (see below).  `ezsp`: commands get their own answers and callbacks
stay in order except when an error is reported.  `tunneling`: the two tables
agree when nothing is lost; a client's data is not refused while it has the
tunnel; tunnels are closed if the endpoints have the same number.
`ota_download`: an image asked to be run is whole and of one version, and the
client ends up with the server's last image, after lost messages, early timers,
failed checks and launches and upgrades put off; with reboots and new images as
well, if it asks for single blocks.  `key_establishment`: both sides of a session
agree, a third node does not disturb it, and it ends, also when the end of an
ECC operation is not heard of.  `registration`: a registration ends and never
waits for nothing, goes on only with an authorized key of the present trust
center, and a dead trust center is searched for.  `load_control`: events that the
device follows never overlap, what it reports of them is true and every one of
them is reported and leaves the table.  `network_find`: a host joins a network
on its own channel, a device tries all it heard, forms with an unused PAN id, and its
application is told of the end of every search but for those described under
"Seen while modelling".  `events`: an event runs in the first round after its
time and not before it, the time until the next event is exact, the host never
sleeps past an event of milliseconds or quarter seconds, and a task with a timeout is
waited for until it is over, unless a task was removed meanwhile (see "Seen while
modelling").

No run lists a type invariant.  Those of the modules that have proofs are proved
with them, and the others are there as documentation.

**Why the bounds are enough.**  The properties relate a frame to its neighbours
in a window and to one session before or after.  Modulus 3 with window 2 is the
tightest window the protocol allows (one number outside of it), and four
messages take every number round.  One receive buffer makes every frame in a
row find none; one fault is enough to begin each recovery, which a second
message and an own message of the NCP then meet.  A reset and two starts leave
a stale RSTACK and frames of the earlier session on the lines; with a third start
the link is no longer the reliable one (see "Seen while modelling").  In `fragmentation` a message of 4
fragments has two windows, one of 3 a short last window, and 8 is too long for
a byte of 8 values.  In `ezsp` two buffers and four callbacks fill the queue
twice over.  In `ota_download` 4 blocks make a page and a short last page, the
offset saved every block is the finest grain, thresholds of 2 are met by 2
faults, and the second version comes while the first is anywhere on its way (3
faults give 0.5 M states and the same result).  In `key_establishment` the second
session meets the first at every step, from the same node, the partner or the
third.  In `registration` the network comes up again in every state of the first
registration, and the trust center may have changed.  In `load_control` two
events overlap a third and one another, a table of 2 is full with two of them,
and times wrap within the longest event.  In `network_find` the networks of one
channel fill the table with an echo, both candidates may be taken, and a second
search begins where the first has ended or got stuck.  In `events` every count
wraps in every phase of the delays: the clock starts at each of its values,
delays of 4 ms and 15 ms are below and above the quarter seconds that fit, and
`MaxGap` and a delay together come as near to half a count as the assumption
allows.  Runs stop when their counters are used up, which is why deadlock
is not checked in them; what has to go on is stated as liveness instead.

**Fairness.**  `AshLink`: weak fairness of the host's writing, reading and
timers, since every caller polls `ashSendExec` and `ashReceiveExec` for ever,
and of the NCP's; nothing has to send or to start.  `Fragmentation`: fragments
arrive or are lost, and the stack reports each fragment, which
`ezspMessageSentHandler` promises.  `Ezsp`: `sendCommand` polls until it has a
response or an error, and the NCP answers.  `Tunneling`: the main loop runs due
events, so a scheduled tick runs.  `OtaDownload`: scheduled ticks of client and
server run, messages arrive or are lost, and a server is found.
`KeyEstablishment`: messages that are not lost arrive, an operation ends or its
timeout runs, and ticks run; one condition on all of them, `Progress`, is enough.
`Registration`: due events run, answers that are not lost arrive, and a key
establishment ends, as shown above.  `LoadControl`: time goes on, and the tick
runs every second.  `NetworkFind`: the stack ends every scan, join and move,
beacons that are not missed come before that, and due events run; nothing has to
sweep, and the application asks for nothing.

**Conditions in the properties.**  `AllDelivered` needs 4 receive buffers and 6
timeouts: the leak below takes buffers, and an acknowledgement that arrives
between a frame's FLAG and the step that counts it is discarded, which costs a
timeout.  `SuccessIsDelivered` is for `Patient` applications, which give no new
message while the stack still owes reports of the last.  `ServerTunnelsKnown` needs that nothing was
lost and that the client's table has room.  `OwnAnswer` and `CallbacksKept` speak
of the time before an error is reported.  In `ota_download` only the client of
single blocks is disturbed by reboots and new images (`DisturbedBuilds`), since
a client of pages does not survive either (below), and pages come with a download
delay.  `TickOfSession` is for nodes of one endpoint, `TrustCenterSearched` excepts
a search that was refused, `NoneDropped` an event with two entries, `TrueChannel`
a search in which a beacon was missed, and `FindEnds` the three situations marked
`excused`; `EventsInTime` allows an event in minutes the drift of its minutes and
excepts a host that has slept for minutes; `TasksHeld` says of tasks
that go on when another is removed only what the code gives them: they are held
until the 16 bits of the clock exceed the timeout, which may be at once;
`HeldForTimeout` is without that case, and false.  `TrueChannel` is about
hosts: a chip is compiled without the scan that strikes echoes out
(`form-and-join.c:280`, `341`).  The others are described under "Seen while
modelling".  `EventsAssumption` bounds how slow the handlers may be: with
16-bit counts, a delay in milliseconds and the time between two rounds of the
main loop stay below 32.8 s together, and a round is no longer than 16.4 s, for
the second table may be looked at two rounds after an event of it was.  The other
conjuncts are facts of the constants in the code.  The ephemeral keys of
KeyAgreement are as many as sessions and faults, since a request that arrives
twice may make its responder generate a second one.

## 5. Proofs

`AshProofs.tla` proves, for every modulus above 1, window below it, pool
sizes, limits, reset method and kind of flow control:

| Theorem | Statement |
|---|---|
| `Inductive` | `Spec => []IInv` |
| `TypeCorrect`, `BuffersKept`, `NumbersOrdered`, `SenderOwnsBuffer`, `TimerArmed` | `Spec => []P` for `TypeOK`, `QueueIntegrity`, `WindowOrder`, `SendingOwned`, `AckTimerArmed` |

The only assumption is `AshHostAssumption`, on the types of the constants.

The invariants are not inductive.  `WindowOrder` says that the numbers lie
between `frmReTxHead` and `frmTx`; whether counting up `frmTx` or `frmReTx` at
the end of a frame keeps that depends on what was true when the frame was
started, several steps of several handlers earlier.  `IInv` adds three parts:

* `StartInv`: until `ashStart` has returned nothing was sent but RST, ACK and
  NAK, the queues are empty and the numbers 0, so that a session begins clean;
* `SendInv`: a new frame was started with room in the window and without
  retransmission, and if one begins meanwhile `FLG_CAN` is set, its only use
  while connected; a retransmitted frame is older than the next new one;
* `ReTxEndInv`: once the last frame is resent the timer runs, and the loop goes
  on to its housekeeping before anything else can happen (this is why the
  model has `busy`).

The proof has a layer of lemmas on frame numbers (`Dist`, `Inc`, `WithinRange`:
distances modulo any modulus), one on the queues (`ScrubQueue`, `RemoveEntry`,
`ScrubStep`), two on the steps many actions share (`AckStep`, an acknowledgement
taken; `HousekeepingStep`, the beginning of the idle state), then one lemma per
action, `<Action>Step`, with one step per part of `IInv` it can disturb.
`NextIInv` puts them together.  The same `IInv` was first checked by TLC.

Its second half is about the link, for any pair of windows, lengths of the lines,
traffic, resets and failures of the NCP, damage and loss, and for up to two starts
of the host (`MaxStarts <= 2`; with three it is false, see Findings):

| Theorem | Statement |
|---|---|
| `LinkInductive` | `LinkSpec => [](IInv /\ LinkInv)` |
| `HostWithinLink` | `LinkSpec => Spec`, so that the theorems above hold on the link |
| `HostKeepsAll`, `AcksTrue` | `LinkSpec => []P` for `NothingLost`, `NoFalseAck` |
| `LinkIsReliable` | `LinkSpec => ImplementsReliableLink`, the refinement of ReliableLink |

A frame names its payload, and the one before it, by what is left of a count.
`HostCounts` and `NcpCounts` say which counts these are: of frames sent, taken and
acknowledged since the reset.  `Session` is what the two sides and the lines
between them have to do with each other:

* what a side has got is a beginning of what the other accepted, and at least what
  it acknowledged (`Delivered`);
* of the data frames under way none is so old that the receiver would take it for
  the next one, neither now nor after those in front of it (`DataOn`).  The window
  is below the modulus, so what has the next number is the next frame;
* the acknowledgements under way are in order, and lie between the last one taken
  and the last frame got (`AcksOn`), so what is in the window is true.

The frame that is being written counts as on the line (`Out`), because its header
was built when it was begun and its sender goes on meanwhile.  If its last byte is
written and the acknowledgement comes before the sender counts it, the NCP has one
frame more than the host counts as sent (`Reached`).

Neither count nor frame names a session.  `SessionInv` says `Session` of the one
the host is in, if it is the NCP's, and of the one that an RSTACK under way would
begin, that is of what follows it on the line (`Present`).  So when that answer comes
the host must be as after a reset: while it `Waits` it has written nothing but RST
since it started, and what follows an RST on the line is another or damaged (`Fresh`,
`MuteAfterRst`).  A second start keeps this, since before it there was one RST or one
answer under way (`OneToken`), and a host that waited sent nothing else.  What an
answer to the first RST begins during the second start is no longer the NCP's session
once the second RST has arrived.  A third start may find the data of such a session
behind the second RST, whose answer it takes for its own.

The proof has a lemma on what most actions leave of the invariant (`SessionMoves`,
`SessionBegins`, `SessionAck`, `SessionPut`, `CalmStep` for the parts about starts),
then one per action of the host, the lines and the NCP (`<Action>Link`).  For the
refinement, `UpStep` says that a step within a session adds one frame to one of the
four sequences or none, `UpBegins` with what a session begins.  Earlier,
`AshLinkAssumption` did not say that the payloads after a reset are payloads; the
proof needed it.

`LoadControlProofs.tla` proves, for every table, word, set of events and choice of
the user:

| Theorem | Statement |
|---|---|
| `Inductive` | `Spec => []IInv` |
| `TypeCorrect` | `Spec => []LcTypeOK` |
| `EventsApart` | `Spec => []OneAtATime` |
| `ReportsTrue` | `Spec => []ParticipationTrue` |
| `EndsReported` | `NoneDropped`: no step takes an entry out unreported |

The only assumption is `LoadControlAssumption`, on the types of the constants.
`OneAtATime` is inductive with the types: a new event is put in only where it
overlaps nothing that is followed, or what it overlaps is superseded in the same
step, and an operator that only takes entries out or ends them keeps it.
`ParticipationTrue` is not: it speaks of an entry that is over, of which the
code keeps two flags, while what the user chose was a sequence.  `Recorded` says
of every entry, from its arrival on, what these flags record: nothing is partial
before the start, and what is partial was both.  `EndsReported` rests on the tick
being the only operator that takes an entry out (`Void`), and on its reporting
in the same step.  Which free entry `Least` picks matters to none of them.

The first part of `TransferProofs.tla` is about messages in fragments, for any
byte, window, lengths, messages, faults, resends and aborts:

| Theorem | Statement |
|---|---|
| `SendTypes` | `SendSpec => []SendTypeOK` |
| `SenderNeverBlocked`, `BusyOnlyWhileOwed` | `SendSpec => []BusyIsOwed`, `FragSpec => []BusyIsOwed` |
| `FragInvariant` | `FragSpec => []FragInv`, if `Orderly` |
| `PassedOnIsWhole` | `FragSpec => []WholeMessages`, if `Orderly` |
| `AnswerInvariant` | `FragSpec => [](FragInv /\ AnswerInv /\ SuccessIsDelivered)`, if `Orderly` and `Telling` |
| `SuccessWasReceived` | `FragSpec => []SuccessIsDelivered`, if `Orderly` and `Telling` |

Reports name no message, so the code's count of fragments in transit is not the
number of reports owed: a report of an earlier message lowers it.  What is
inductive is that the count is at least 1 and at most the number of owed reports
of the present message (`CountsOwed`), for messages that a byte can count.

`WholeMessages` is about three parties, and `Orderly` has the conditions without
which it is false (see Findings): the application sends no message while the
stack holds fragments of an earlier one; the network keeps the order; and a
message that a byte can count has at least a window of fragments, fits the buffer,
and ends before a byte's window base wraps.  Fragments and replies are still
lost, sent again, refused and given up, and the receiver's timer runs out, as
often as the bounds say.  `FragInv` follows a fragment along its way.  The stack
holds fragments of the present window alone (`StackInv`), so the line has the
fragments of a message window after window (`LineInv`), copies among them.  So
nothing under way is of a window that the receiver has left (`RecvInv`), and a
bit, which names only a place in a window, means the fragment it should
(`BasesApart`, `PlaceInWindow`).  Then mask, counter, lengths and buffer are all
the set of fragments received (`Gathered`): a bit is set exactly for those of the
present window, the counter is their number, and the buffer has each of them at
its place.  When the counter says that all are there, so they are, in order
(`CompleteIsWhole`).

`SuccessIsDelivered` is about what the replies say, and to whom.  `Telling` asks
that every message is longer than a window or the window is at most 2: otherwise it
is false (see Findings).  The sender reports success when the stack has reported
every fragment of the last window as sent, and the stack does so of acknowledged
ones.  `AnswerInv` says that as long as the message was not received, one of those
is not acknowledged (`StillMissing`).  In a first window that is the last one too,
fragment 0 is not acknowledged without the other.  In a later one, the receiver has
what it acknowledged, or it acknowledged nothing yet, or it gave up when one was
missing; then it cannot begin again, since only fragments of the first window begin
a reception, and the line has none left (`LineInv`).  After a window the stack
refused a part of, the reports still to come are counted from what it took, and
could end the message as well: but the reply to a last window is about its last
fragment, which was never taken (`CutShort`), so no fragment of it is acknowledged.

Its second part is about the download of a file, for any length, page and period of
saving, any errors, losses, reboots and requests to upgrade, and for builds that
disturb only downloads by blocks (`DisturbedBuilds \subseteq {"blocks"}`: of the
others the property is false, see Findings):

| Theorem | Statement |
|---|---|
| `OtaInvariant` | `Spec => []OtaInv` |
| `VerifiedIsWhole` | `Spec => []WholeImage` |

`WholeImage` compares what was stored with the file when the client verifies,
and the code looks at an offset.  The invariant says what offset, page and storage
have to do with each other.  By blocks, what is in front of the saved offset is of
one version, so that a reboot may go on from there (`AtRest`), and in a download
it is the version under way (`Loading`).  By pages, what is in front of the offset
is stored, and of the page under way, which may be one of a download given up,
what its bits have as received (`PageKept`); there is one version only, and a
device out of reset has nothing to go on with, or all of it (`Fresh`).  Past the
download all is stored (`Loaded`).

`TunnelingProofs.tla`, for any clients, servers, endpoints and sizes of tables:

| Theorem | Statement |
|---|---|
| `TypesKept` | `Spec => []TypeOK` |
| `RoomKept` | `Spec => []Room` |
| `TunnelsAgreed` | `Spec => []ServerTunnelsKnown` |

`ServerTunnelsKnown` speaks of two nodes between which nothing is under way.
`Agreed` says what leads there: of every tunnel in the server's table the
response is on its way and no error behind it, or the client has the tunnel and
no error is on its way, or a closing or an error is on the way to the server.
That a response finds a free entry is `Room`: requests, responses and entries
together are no more than were asked for.

`EventsProofs.tla`, for counts of any width, delays and events that
`EventsAssumption` allows:

| Theorem | Statement |
|---|---|
| `EventTypes` | `Spec => []TypeInv` |
| `TimedTasksHeld` | `Spec => TasksHeld`: a task with a timeout is dropped when that has passed since one was last added, or, when any was removed since, as soon as the clock's 16 bits exceed it |
| `EventsRunInTime`, `EventsNeverEarly` | `Spec => []EventsInTime`, `Spec => NeverEarly` |
| `NextEventIsExact` | `Spec => []NextEventExact` |

The code has a 16-bit time in one of three units, the properties the
milliseconds that are left.  `Kept` relates them: what is `Ahead` by the count,
with its wrap, is what is left but for a unit cut off, and half a count is never
reached.  `RoundInv` bounds how old the clock is that a round works with,
`EventsInv` says which events of the round have been looked at, `LoopInv` what
holds between rounds, `SleepInv` that the NCP wakes the host before its next
event.  Half of the module is arithmetic: remainders, and counts that wrap.

The first part of `RegistrationProofs.tla`, for any ESIs, table and limits:

| Theorem | Statement |
|---|---|
| `RegistrationTypes` | `Spec => []RegTypeOK`, the index into the ESI table included |
| `RegistrationNeverStuck` | `Spec => []NeverStuck` |
| `BeyondKeOnlyAuthorized` | `Spec => []BeyondKeAuthorized` |

As the model is operators from a device to a device, so is the proof: one lemma
per function, that it leads from a device as it is `Within` a handler to one as it
is `Between` two (`Waits`, `Errors`, `Index`, `Searching`, `Beyond`).  Between two
handlers a registration waits for its event or for a call back, within one it
may wait for neither.

Its second part is about the search for a network, for any networks, channels,
echoes, limits, refusals and resets:

| Theorem | Statement |
|---|---|
| `FindInvariant` | `FindSpec => []FindInv` |
| `OffersOnTrueChannel`, `SearchSkipsNone`, `FormsWithUnusedPanId` | `FindSpec => []P` for `TrueChannel`, `NoneSkipped`, `PanIdUnused` |

`FindInv` follows a beacon through the library, one conjunct per kind of scan:
what is saved was heard on the channel of the scan (`Saved`); in the scan of the
other channel an echo is struck out as soon as its network is heard at home
(`Struck`); what is left to offer is at home, unless a beacon was missed (`Left`);
and through all three what was heard and had room is offered or still in the list
(`NoneDropped`).  `Drawn` says of PAN ids that candidates which were heard are
struck out.  The attempt to prove `NoneSkipped` showed that it is false of two networks with
one extended PAN id, of which the code keeps one; `FindAssumption` now says
that an extended PAN id names one network.

`KeyEstablishmentProofs.tla`, for any nodes, endpoints, sessions and faults:

| Theorem | Statement |
|---|---|
| `KeInvariant`, `KeTypes` | `Spec => []KeInv`, `Spec => []KeTypeOK` |
| `BothEndsAgree` | `Spec => ImplementsAgreement`, the refinement of KeyAgreement |
| `TickIsOfSession`, `SecondNodeIsHarmless` | `TickOfSession` and `SecondIsHarmless`, if nodes have the cluster on one endpoint (`Sole`) |

That an ephemeral key is in no two link keys is about all sessions there were,
most of which no state remembers.  `KeInv` has them as a set `G` that exists:
the confirmations ever made, of a role and a link.  No party of a link, that is
a node's ephemeral key in a role, is in two of them (`Confirmed`); every node,
every message and every stored key agrees with `G` (`Joint`).  A step adds at most
one confirmation, of a key that was `Unused`.  `Covered` counts: keys made and
requests on their way are no more than sessions and faults, which makes every
key one of KeyAgreement's.

`EzspProofs.tla`, for any pool of receive buffers:

| Theorem | Statement |
|---|---|
| `EzspTypes` | `Spec => []EzspTypeOK` |
| `CallbacksNeverLost` | `Spec => []CallbacksKept` |
| `AnswerIsOwn` | `Spec => OwnAnswer` |

`Session` says, while no error is reported, what the queue and the link hold
together: the callbacks not yet dispatched, in order (`Numbered`), and of
commands and responses at most one, that of the command being sent
(`OneCommand`).  The invariant also needs that a command being sent is waited
for, so that no callback is taken for its response, and that a frame partly read
has its buffer (`RoomForPart`).  The lemmas on sequences say what taking a frame
out of the middle leaves (`Without`).

The assumptions of all of these are those that the modules declare on their
constants, and `Orderly`, `Telling`, `Sole`, `MaxStarts <= 2`, or the condition on
`DisturbedBuilds`, where it is named.  The runs of the same modules satisfy them.

**Only model-checked**, and why:

* All liveness (and with it `InactiveClosedHere` and everything under fairness),
  which is out of reach of the prover.
* What is false in general is proved under the condition that makes it true, and
  TLC checks it where that holds: `ImplementsReliableLink` is false with three
  starts of the host (below), hence `MaxStarts <= 2`.
* `OwnDataTaken` is false of several servers (below), and `SuccessIsDelivered` of
  messages of one window of 3 or more, hence `Telling`.  `TickOfSession` and
  `SecondIsHarmless` are false of several endpoints, hence `Sole`.

## 6. Findings

One run is expected to find a violation; it shows what the code does against
what the repository says.

* `ash_link_leak` (`ash-host.c:360`).  A DATA frame in sequence whose ackNum is
  out of range keeps its receive buffer for ever.  No fault of the line is
  needed.  In `ash_link_live` with 3 receive buffers instead of 4, an early
  timer is enough for the NCP to repeat such a frame until none is left, after
  which nothing is received any more.

Seen while modelling, in configurations no run lists (the change to make to a
.cfg is in parentheses):

*ASH, fragmentation, EZSP, tunneling*

* `ash-host.c:316`: an RSTACK names no session.  A host that gives up waiting
  and starts again twice takes the answer to its second RST for that to its
  third; DATA it had sent in the session before, on the stale RSTACK to its
  first, is still on the line and is delivered to the NCP in the new session
  (`MaxStarts = 3`, `MaxEpochs = 3`, `MaxFaults = 1`, `HostMsgs` and
  `ResetHostMsgs` = 1, `NcpMsgs` and `ResetNcpMsgs` = 0:
  `ImplementsReliableLink`).  Its starts are far enough apart in the code for a
  line that keeps nothing for seconds.
* `ash-host.c:581`: `ackTx` is set to the `frmRx` of the end of a DATA frame, not
  to the one that was sent in it, so a frame received in between is not
  acknowledged until another one is; the NCP's timeout repairs it.
* `fragmentation.c:91`: a message too long leaves `txMessageType` set, and every
  later message is refused (`BusyIsOwed` without its condition on the length).
* `fragmentation.c:109`: reports name no message; those of a message given up are
  counted for the next, which may be reported as sent when it was not
  (`Patient = FALSE`).
* `fragmentation.c:111`: the window base is a byte; a message of nearly 256
  fragments wraps it and begins again (`Lengths = {7}`, in the scale of 8).
* `fragmentation.c:280`: for a message shorter than the window, fragment 0 sets
  the mask again and forgets what came before it, while the counters keep it.
  Fragments 1, 0, 1 make 3 of 3, and a message is passed on with a fragment
  missing, where `fragmentation.h:4-5` speaks of long messages put together from
  fragments received in any order.  Fragments need not overtake each other for
  it: one that is lost and sent again is enough (`Window = 4`, `Lengths = {3}`, 2
  faults, 2 resends: `WholeMessages`).
* `fragmentation.c:295`: a reply says only which of a window's fragments it has.
  Fragments 1 and 2 of a message are acknowledged, the receiver's timer aborts
  the reception, and 0, sent again, begins another one that is acknowledged as
  well: every fragment was acknowledged, the sender reports success, and the
  message was never passed on (`Window = 3`, `Lengths = {3}`, 1 fault, 2 resends:
  `SuccessIsDelivered`).
* `fragmentation.c:356`: the room for a fragment is looked for at its place, not for
  what it moves up.  When the buffer lacks room for one fragment and fragment 0 comes
  last, the end of the message is moved out of the buffer, and the message is passed
  on without it, where it would have been given up had they come in order
  (`Window = 3`, `Lengths = {3}`, `BufferSize = 2`, 1 fault, 2 resends:
  `WholeMessages`).
* `fragmentation.c:270`: a late copy of a fragment of an earlier window is taken
  for one of the present window (`Reorder = TRUE`).
* `ezsp.c:253`: a response later than the timeout is taken for that of the next
  command until the NCP is reset (`OwnAnswer` without its condition).
* `tunneling-client.c:199`: tunnels are looked up by id alone; with two servers
  the application's data goes to the first (`Servers = {s1, s2}`).
* `tunneling-server.c:102`: the tick that closes inactive tunnels is scheduled for
  the client's endpoint number; if it differs from the server's no tunnel is
  ever closed, although `plugin.properties:28` of the plugin has tunnels closed
  after the timeout (client on endpoint 2, server on 1: `InactiveClosed`).
* `tunneling-client.c:67`: the application is told that a tunnel is open also when
  the server has refused it, with the invalid id (`told` in the model).

*OTA*

* `ota-storage-eeprom.c:286`: the saved offset is that of the block written last.
  A block of a page is lost, a later one stored, the device reboots: the
  download goes on behind the hole, and the check that "the file has completely
  downloaded" (`ota-client.c:1437`) compares the offset alone (`DisturbedBuilds`
  with "pages", 1 version: `WholeImage`).
* `ota-client-page-request.c:70`: the page under way is not reset with the download
  it belongs to.  When the client gives up and the server has a new image, the
  download of it starts at a missed block of the old page, and the image is mixed
  of both (`Builds` and `DisturbedBuilds` = {"spaced pages"}, no reboots:
  `WholeImage`).
* `ota-client.c:1197`: with a download delay of 0, its default, a page of which
  nothing came leaves no timer set, and the client waits for ever (`Builds` =
  {"pages"}: `Upgraded`).
* `ota-server.c:89`: the framework sends the response buffer after every handler.
  The first block of a page is sent twice, and a client that reports a failed
  download is answered with whatever was sent before.
* `ota-client.c:819`: default responses are taken in any state; one to an old
  block request ends the wait for an upgrade.

*Key establishment and registration*

* `key-establishment.c:333`: the comment at 320-322 has the partner put back after
  a second initiator was refused; the endpoint that was set with it (914) is not,
  and the end of the session deactivates the tick of another endpoint
  (`Endpoints = {1, 2}`: `NoStrayTick`, `TickOfSession`).
* `key-establishment.c:521`: the responder confirms before it stores the key, and
  the initiator that cannot store it still answers with success (611): a key on
  one side only, which KeyAgreement therefore allows.
* `af-main-common.c:604`: when the trust center has changed, the abort before the
  new registration tells the keepalive, which is still searching, that a
  registration has failed, and it reboots before the new trust center was tried;
  the comment at 605-610 has it the other way round, and the one at 614
  "nothing will happen here" (`NoEarlyReboot`, not checked by a run).
* `trust-center-keepalive.c:207`: a search for the trust center that is refused
  leaves the keepalive without an event; so does a network that goes down after a
  search has failed.
* `smart-energy-registration.c:392`: the indices into endpoints and clusters survive
  an abort, so the bindings of the next registration begin in the middle;
  `resuming` survives it too (411-466).  A registration aborted in its initial
  state reports its failure although none was under way.  A second match for
  the key establishment cluster that comes late is recorded as an ESI.
* `smart-energy-registration.c:257`: a key establishment that fails within the call
  is counted as two errors (also 275-283).

*Load control*

* `load-control-event-table.c:67`: an event sent again while its superseded or
  cancelled entry waits to be reported has two entries; the report of one voids
  both (`NoneDropped` without its exception).
* `load-control-event-table.c:265`: an opt-out before the start is reported,
  against the comment at 258-264.
* `load-control-event-table.c:304`: cancelling with randomization replaces the
  effective time that was asked for; an event cancelled for a time to come never
  starts, even if it should before then.
* A superseded event runs on until its randomized end or its tick while the
  event that superseded it starts: two reductions at once, for as long as that
  takes; `OneAtATime` is about the events that are followed.

*Events*

* `af-event.c:207`: removing one task sets the time that all tasks share to 0.
  The tasks that go on then time out at once if the 16-bit clock is above the
  timeout (1 second), which it is for all but a second of every 65, and the host
  hibernates, though `af.h:849-854` says that it is not ok to hibernate while a
  task is in progress that has not timed out.  Every report of a message sent
  removes `EMBER_AF_WAITING_FOR_DATA_ACK` (`af-main-common.c:500`), so that the
  wait for a ZCL or ZDO response (`client-api.c:226`, `af-main-common.c:497`) is
  mostly cut short (`Builds = {"tasks"}`: `HeldForTimeout` as a PROPERTY is
  violated in four states: add, remove, sleep).
* `af-event.c:240`, `af-event.c:153`: a minute is 61440 ms in the framework and
  65536 ms in the events and in the NCP (`ember-types.h:601`, `event.h:150`).  A
  delay in minutes (above 69 minutes) comes up to 6.7 % late, and the host sleeps
  past an event that is further away than the quarter seconds of the NCP's timer
  reach (2.3 hours), although the duration is translated back to "the accurate
  MS" at `af-main-host.c:564` (`EventsInTime` without `Late` and without its
  last case).
* `af-event-host.c:40`: the clock is read before the handlers of a table run.  If
  one takes so long that this and the delay it sets for a later event come to more than 32.8 s,
  that event runs at once.  A main loop that is held up for 32.8 s takes an
  overdue event in milliseconds for one to come.  An event of the second table
  may be looked at twice as late as one of the first, so it is overtaken at half
  of that (all without the last three conjuncts of `EventsAssumption`).

*Network find*

* `form-and-join.c:228`: the clean-up timer set when a network is offered is not
  stopped when `emberScanForNextJoinableNetwork` resumes the search.  30 seconds
  after the offer it ends the scan under way without a word, the stack's report
  of the scan is ignored, and the plugin is busy for ever.  It needs no fault,
  only a join that fails late (`FindEnds` without `excused`, `MaxMishaps = 0`); the
  comment at 413-420 has the timer only clean up behind an application that does
  not go on.
* `form-and-join.c:106`, `network-find.c:123`: a scan that the stack refuses to
  start is reported through the error handler within the call, which then returns
  success; the plugin takes itself to be searching after it has told its
  application of the end, and never searches again.
* `form-and-join.c:402`: when the NCP of a host is reset in a scan, the library
  stays in the scan, and refuses every other.
* `form-and-join.c:138`: an energy scan that fails, whose status is not looked at,
  leaves no candidate, against the comment at 131, and a division by 0; where
  that does not trap the device looks for a PAN id on the channel it had before.
* `af-main-common.c:126`: unless they are unlimited (0xff), attempts to move are counted until a network comes up;
  after the last one the device does not move again.

## 7. Not modelled, and why

* The encoding of bytes: stuffing, CRC, randomization, ZCL and EZSP formats.
  Their errors are damaged frames here.
* The time of timers, but for those of Events and LoadControl: a timer runs or
  not, and one that runs may expire.  The wrap of the 16-bit counts of the ASH
  timers is not in the models.
* Events: the main loop of a SoC and its polling; a wake-up that comes between
  `ezspSetTimer` and `halSleep` (`af-main-host.c:587-601`), which is a matter of the
  hardware; a sleep control that changes from one tick to the next.
* The stack, the NCP, the network and the serial port are external, as lossy as
  their interfaces allow.
* The NCP's sleep, synchronous callbacks and the exhaustion of the transmit pool
  in EZSP; `COMMAND_TOO_LONG`.
* Messages of no fragments and windows of 0, which the configuration excludes;
  the second version of the fragmentation code.
* OTA: the states in which the server and its keys are looked for are one step;
  verification of signatures, query jitter, queries for specific files, other
  policies of the server's plugin, a verification delay of 0 and a power loss in
  the middle of a handler; the bitmap of a page is not bounded above in the code,
  but a block behind the page needs a server other than this one.
* Sequential table code (attributes, dispatch, most cluster servers), generated
  code, command lines and sample applications: nothing in them is beyond a test.
* Key establishment: commands of a wrong length, which a node with this cluster
  does not send, and default responses with an error, which end the session of
  one that sent a command as a failure to send it does (`MessageSent`); several
  suites; the delay of a timeout.  Registration: delays, except where the order of two events hangs on
  them; SoC and host differ only in what starts them.
* Load control: set points, levels, device classes and groups, the signature of
  reports, and the server, which is the set of events it may send.
* Network find: energies (any channel may be the quiet one), the stack profile,
  scans that take longer than the clean-up timer runs, and a network that comes
  up by itself during a search, after which the application would be told of an
  end twice.
* The other plugins of the inventory, until their turn in the plan.
