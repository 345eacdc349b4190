----------------------------- MODULE NetworkFind -----------------------------
(***************************************************************************)
(* The network-find plugin and what the framework does with the status of  *)
(* the stack, over the library FormAndJoin: the application asks for a     *)
(* network to join or to form; the plugin joins the networks the library   *)
(* offers, one after another as each of them fails, until the device is on *)
(* a network or there are no more.  A device that has lost its parent      *)
(* moves, that is, looks for its own network again.                        *)
(*                                                                         *)
(* Outside is the stack: the radio, the network it is on, whether it has   *)
(* buffers and is willing to scan or to join; and, below a host, the NCP,  *)
(* which may be reset and forgets what it was doing.  The application may  *)
(* ask again at any time, but not from within the callback it is told of   *)
(* the end by.                                                             *)
(***************************************************************************)
EXTENDS Naturals, Sequences, FiniteSetsExt

CONSTANTS Channels, Echo, PanIds, Candidates, MaxNetworks,
          Mask,         \* EMBER_AF_CHANNEL_MASK
          Networks,     \* the networks around: EPID, PAN id, channel, open
          Byte,         \* what an int8u counts to: 256
          MoveLimits,   \* EMBER_AF_REJOIN_ATTEMPTS_MAX, of the builds looked at
          Builds,       \* the devices looked at, of AllBuilds
          MaxSearches,  \* bound on the calls of the application
          MaxDowns,     \* bound on networks and parents lost
          MaxMishaps    \* bound on what else goes wrong

AllBuilds == {"soc coordinator", "soc end device", "host coordinator",
              "host end device"}

ASSUME FindAssumption ==
  /\ Channels \subseteq Nat \ {0} /\ Mask \subseteq Channels
  /\ DOMAIN Echo \subseteq Channels /\ \A c \in DOMAIN Echo : Echo[c] \in Channels
  /\ PanIds \subseteq Nat \ {0} /\ Candidates \in Nat \ {0}
  /\ MaxNetworks \in Nat \ {0}
  /\ Byte \in Nat \ {0} /\ MoveLimits \subseteq 0 .. Byte - 1
  /\ Networks \subseteq
       [epid : Nat, panId : PanIds, channel : Channels, open : BOOLEAN]
  \* an extended PAN id names a network, which is on one channel
  /\ \A m, n \in Networks : m.epid = n.epid => m = n
  /\ Builds \subseteq AllBuilds
  /\ {MaxSearches, MaxDowns, MaxMishaps} \subseteq Nat

VARIABLES device,    \* the library, the plugin and the stack: see NewDevice
          excused,   \* the plugin is busy and nobody will end it: see FindEnds
          searches, downs, mishaps

findVars == <<device, excused, searches, downs, mishaps>>

NewDevice(build, limit) ==
  [host |-> build \in {"host coordinator", "host end device"},
   coordinator |-> build \in {"host coordinator", "soc coordinator"},
   \* the library
   scan |-> "NOT_SCANNING", channel |-> 0, mask |-> {}, networks |-> << >>,
   candidates |-> << >>, buffer |-> FALSE, sweep |-> FALSE,
   \* the plugin and the framework
   find |-> "NONE", move |-> FALSE, attempts |-> 0, limit |-> limit,
   \* the stack: what it refuses at present, the channels it scans
   net |-> "NO_NETWORK", radio |-> {}, refuses |-> "NOTHING",
   \* for the properties: how the last search ended, the networks offered in
   \* it and those heard, the networks heard in the last scan, whether one was
   \* missed in this search, the PAN id to form with, whether it has resumed
   reported |-> "NONE", offers |-> {}, heard |-> {}, seen |-> {},
   missed |-> FALSE, panId |-> 0, resumed |-> FALSE]

FindInit == /\ device \in {NewDevice(build, limit) :
                            build \in Builds, limit \in MoveLimits}
            /\ excused = FALSE /\ searches = 0 /\ downs = 0 /\ mishaps = 0

-----------------------------------------------------------------------------
(* The handlers the library calls, and the stack it calls.                 *)

Finished(d, status) == [d EXCEPT !.find = "NONE", !.reported = status]

ScanErrorCallback(d, status) == Finished(d, status)

JoiningRefused(d) == d.refuses = "JOIN" \/ d.net # "NO_NETWORK"

UnusedPanIdFoundCallback(d, panId) ==
  IF JoiningRefused(d) THEN ScanErrorCallback(d, "FORM_REFUSED")
                       ELSE [d EXCEPT !.net = "FORMING", !.panId = panId]

JoinableNetworkFoundCallback(d, network) ==
  LET offered == [d EXCEPT !.offers = @ \cup {network}, !.resumed = TRUE] IN
  IF JoiningRefused(d) THEN ScanErrorCallback(offered, "JOIN_REFUSED")
                       ELSE [offered EXCEPT !.net = "JOINING"]

RadioBusy(d) == d.radio # {} \/ d.net \in {"FORMING", "JOINING", "MOVING"}
Refuses(d, what) == d.refuses = what \/ (what = "SCAN" /\ RadioBusy(d))
Scan(d, channels) == [d EXCEPT !.radio = channels, !.seen = {}]

INSTANCE FormAndJoin WITH
  ScanErrorHandler <- ScanErrorCallback,
  JoinableNetworkFoundHandler <- JoinableNetworkFoundCallback,
  UnusedPanIdFoundHandler <- UnusedPanIdFoundCallback,
  StackRefuses <- Refuses, StartScan <- Scan

-----------------------------------------------------------------------------
(* The plugin.                                                             *)

NewSearch(d) == [d EXCEPT !.reported = "NONE", !.offers = {}, !.heard = {},
                          !.missed = FALSE, !.resumed = FALSE]

\* emberAfFindUnusedPanIdAndFormCallback: the library returns success
\* whatever has become of the scan
FindUnusedPanIdAndForm(d) ==
  [ScanForUnusedPanId(d, Mask) EXCEPT !.find = "FORM"]

\* emberAfStartSearchForJoinableNetworkCallback: likewise, once set up
StartSearch(d) ==
  LET called == ScanForJoinableNetwork(d, Mask)
  IN IF CanSetup(d) THEN [called EXCEPT !.find = "JOIN"] ELSE called

\* mutant: the search ends with the first network that fails
ContinueSearch_Not(d) == d
ContinueSearch(d) ==
  IF d.find = "JOIN" THEN ScanForNextJoinableNetwork(d) ELSE d

\* emberAfNetworkFindOperationCompleteCallback
OperationComplete(d) == Finished(d, "SUCCESS")

-----------------------------------------------------------------------------
(* The framework: moving, and the status of the stack.                     *)

\* 0xff is no limit
ScheduleMove(d) ==
  [d EXCEPT !.move = d.limit = Byte - 1 \/ d.attempts < d.limit]
StartMove(d) == IF d.move THEN d ELSE ScheduleMove(d)
StopMove(d) == [d EXCEPT !.move = FALSE]

StackIsUp(d) ==
  [StopMove(OperationComplete([d EXCEPT !.net = "JOINED"]))
     EXCEPT !.attempts = 0]

StackFailed(d, net) == ContinueSearch([d EXCEPT !.net = net])

\* NETWORK_DOWN; only end devices move
StackIsDown(d, net) ==
  LET down == [d EXCEPT !.net = net] IN
  IF d.coordinator THEN down
  ELSE IF net = "NO_PARENT" THEN StartMove(down) ELSE StopMove(down)

\* emAfMoveEvent, which the event loop has made inactive; the status of the
\* call is not looked at
MoveEvent(d) ==
  ScheduleMove([d EXCEPT !.attempts = (@ + 1) % Byte,
    !.net = IF @ = "NO_PARENT" /\ d.refuses # "JOIN" /\ d.radio = {}
            THEN "MOVING" ELSE @])

-----------------------------------------------------------------------------
(* Steps.                                                                  *)

Becomes(d) == device' = d /\ excused' = (excused /\ d.find # "NONE")
Mishap == mishaps < MaxMishaps /\ mishaps' = mishaps + 1

\* The plugin is busy but was already told of an error, in the call itself
AppCalls(d) ==
  /\ device.find = "NONE" /\ searches < MaxSearches
  /\ device' = d /\ excused' = (d.find # "NONE" /\ d.reported # "NONE")
  /\ searches' = searches + 1
  /\ UNCHANGED <<downs, mishaps>>
AppForms == /\ device.coordinator
            /\ AppCalls(FindUnusedPanIdAndForm(NewSearch(device)))
AppJoins == AppCalls(StartSearch(NewSearch(device)))

Heard(n, c) == [epid |-> n.epid, panId |-> n.panId, channel |-> c,
                open |-> n.open, lqi |-> IF c = n.channel THEN 2 ELSE 1]

\* A beacon, on the network's own channel or as an echo
BeaconArrives ==
  /\ device.scan # "ENERGY_SCAN"
  /\ \E n \in Networks, c \in device.radio :
       /\ c = n.channel \/ (c \in DOMAIN Echo /\ Echo[c] = n.channel)
       /\ LET d == NetworkFoundHandler(device, Heard(n, c))
              saved == /\ device.scan = "JOINABLE_SCAN" /\ n.open
                       /\ c = n.channel /\ Len(device.networks) < MaxNetworks
          IN Becomes([d EXCEPT !.seen = @ \cup {n},
               !.heard = IF saved THEN @ \cup {n.epid} ELSE @])
  /\ UNCHANGED <<searches, downs, mishaps>>

\* A scan ends; it is a fault that it measured nothing, that a beacon was
\* missed, and that every candidate is the PAN id of a network around.
ScanCompletes ==
  /\ device.radio # {}
  /\ \E quiet \in IF device.scan = "ENERGY_SCAN" THEN Mask \cup {0} ELSE {0},
        candidates \in IF device.scan \in {"ENERGY_SCAN", "PAN_ID_SCAN"}
                       THEN [1 .. Candidates -> PanIds] ELSE {<< >>} :
       LET failed == device.scan = "ENERGY_SCAN" /\ quiet = 0
           missed == /\ device.scan # "ENERGY_SCAN"
                     /\ ~({n \in Networks : n.channel \in device.radio}
                            \subseteq device.seen)
           unlucky == /\ candidates # << >>
                      /\ \A i \in 1 .. Candidates :
                           \E n \in Networks : n.panId = candidates[i]
       IN /\ IF failed \/ missed \/ unlucky THEN Mishap ELSE UNCHANGED mishaps
          /\ Becomes(ScanCompleteHandler(
               [device EXCEPT !.radio = {}, !.missed = @ \/ missed],
               quiet, candidates))
  /\ UNCHANGED <<searches, downs>>

JoinEnds ==
  /\ \/ device.net \in {"JOINING", "FORMING"} /\ Becomes(StackIsUp(device))
     \/ device.net = "JOINING" /\ Becomes(StackFailed(device, "NO_NETWORK"))
  /\ UNCHANGED <<searches, downs, mishaps>>

MoveEnds ==
  /\ device.net = "MOVING"
  /\ Becomes(StackIsUp(device)) \/ Becomes(StackFailed(device, "NO_PARENT"))
  /\ UNCHANGED <<searches, downs, mishaps>>

Moves ==
  /\ device.move /\ Becomes(MoveEvent(device))
  /\ UNCHANGED <<searches, downs, mishaps>>

\* The device leaves its network, or loses its parent
GoesDown ==
  /\ downs < MaxDowns /\ downs' = downs + 1
  /\ \/ /\ device.net \in {"JOINED", "NO_PARENT"}
        /\ Becomes(StackIsDown(device, "NO_NETWORK"))
     \/ /\ device.net = "JOINED" /\ ~device.coordinator
        /\ Becomes(StackIsDown(device, "NO_PARENT"))
  /\ UNCHANGED <<searches, mishaps>>

\* cleanupEventHandler, 30 s after a search began or a network was offered.
\* Only a scan that the next call resumed can be under way by then.
Sweeps ==
  /\ device.sweep
  /\ IsScanning(device) => device.resumed
  /\ device' = Cleanup([device EXCEPT !.sweep = FALSE], "SUCCESS")
  /\ excused' = (excused \/ (IsScanning(device) /\ device.find # "NONE"))
  /\ UNCHANGED <<searches, downs, mishaps>>

\* The NCP is reset: scans and joins are forgotten, a network is restored
NcpResets ==
  /\ device.host /\ Mishap
  /\ device' =
       [IF device.net = "JOINED" THEN StackIsUp(device) ELSE device
          EXCEPT !.radio = {},
                 !.net = CASE @ \in {"JOINING", "FORMING"} -> "NO_NETWORK"
                           [] @ = "MOVING" -> "NO_PARENT"
                           [] OTHER -> @]
  /\ excused' = (device'.find # "NONE")
  /\ UNCHANGED <<searches, downs>>

\* A host has its own memory for the networks
StackTurns ==
  /\ \/ /\ device.refuses = "NOTHING" /\ Mishap
        /\ \E what \in {"SCAN", "JOIN"} \cup (IF device.host THEN {} ELSE {"BUFFER"}) :
             Becomes([device EXCEPT !.refuses = what])
     \/ /\ device.refuses # "NOTHING" /\ UNCHANGED mishaps
        /\ Becomes([device EXCEPT !.refuses = "NOTHING"])
  /\ UNCHANGED <<searches, downs>>

FindNext ==
  \/ AppForms \/ AppJoins \/ BeaconArrives \/ ScanCompletes \/ JoinEnds
  \/ MoveEnds \/ Moves \/ GoesDown \/ Sweeps \/ NcpResets \/ StackTurns

\* The stack ends every scan, join and move, beacons that are not missed come
\* before that, and the main loop runs due events.
FindSpec == /\ FindInit /\ [][FindNext]_findVars
            /\ WF_findVars(BeaconArrives) /\ WF_findVars(ScanCompletes)
            /\ WF_findVars(JoinEnds) /\ WF_findVars(MoveEnds)
            /\ WF_findVars(Moves)

-----------------------------------------------------------------------------
(* Properties.                                                             *)

\* A host is offered a network on the channel it is on and not on the one where
\* its echo was heard first, unless a beacon of the search was missed; the
\* second scan of form-and-join.c:279-289 and 341-354 is there for this.
TrueChannel ==
  device.host /\ ~device.missed => \A o \in device.offers :
    \E n \in Networks : n.epid = o.epid /\ n.channel = o.channel

\* A search that says there are no beacons has offered every network it heard
\* and had room for, however many had to fail before.
NoneSkipped ==
  device.reported = "NO_BEACONS" =>
    device.heard \subseteq {o.epid : o \in device.offers}

\* No network is formed with a PAN id that a network on the channel was heard
\* to have, also when new candidates had to be drawn.
PanIdUnused ==
  device.net = "FORMING" =>
    device.panId \in PanIds \ {n.panId : n \in device.seen}

\* What the application asked for ends and it is told.  Excused is what does
\* not: a call that reported an error and then success, a scan under way when
\* the clean-up of the last one falls due, and a scan or a join that was
\* lost with the NCP.
FindEnds == device.find # "NONE" ~> device.find = "NONE" \/ excused

=============================================================================
