----------------------------- MODULE FormAndJoin -----------------------------
(***************************************************************************)
(* The library that looks for a network to join, or for a channel and a    *)
(* PAN id to form one with (form-and-join.c with its node and host         *)
(* adapters).  It runs one scan of the stack after another: an energy      *)
(* scan and then an active one for PAN ids, or an active scan of each      *)
(* channel for joinable networks, with a second one on the channel 12      *)
(* away where weak echoes are heard.  What it finds it hands to handlers   *)
(* of the application, from within the call that found it.                 *)
(*                                                                         *)
(* Every operator takes a device and gives the device the C function       *)
(* leaves.  Channels are numbered in the order of the mask; how the energy *)
(* scan ranks them is left open.  All networks have one stack profile and  *)
(* match the extended PAN id that is asked for, unless they are not open.  *)
(***************************************************************************)
EXTENDS Naturals, Sequences, FiniteSetsExt

CONSTANTS Channels,     \* the channels there are, numbers from 1
          Echo,         \* the channel 12 away, for those that have one
          PanIds,
          Candidates,   \* NUM_PAN_ID_CANDIDATES
          MaxNetworks   \* FORM_AND_JOIN_MAX_NETWORKS

CONSTANTS ScanErrorHandler(_, _),        \* (device, status)
          JoinableNetworkFoundHandler(_, _),
          UnusedPanIdFoundHandler(_, _),
          StackRefuses(_, _),            \* the stack gives no buffer, or no scan
          StartScan(_, _)                \* the stack scans a set of channels

Taken == 0    \* the PAN id 0xFFFF

ScanTypes == {"NOT_SCANNING", "NEXT_NETWORK", "ENERGY_SCAN", "PAN_ID_SCAN",
              "JOINABLE_SCAN", "DUAL_CHANNEL_SCAN"}

IsScanning(d) == d.scan \notin {"NOT_SCANNING", "NEXT_NETWORK"}

\* emberFormAndJoinCleanup
Cleanup(d, status) ==
  LET idle == [d EXCEPT !.scan = "NOT_SCANNING", !.buffer = FALSE]
  IN IF status = "SUCCESS" THEN idle ELSE ScanErrorHandler(idle, status)

\* startScan; there is no scan of a channel that is none
BeginScan(d, channels) ==
  IF channels \subseteq Channels /\ ~StackRefuses(d, "SCAN")
  THEN StartScan(d, channels) ELSE Cleanup(d, "MAC_SCANNING")

\* setup, which has reported the error if it gives FALSE.  The cleanup timer
\* exists on a node only.
CanSetup(d) == ~IsScanning(d) /\ ~StackRefuses(d, "BUFFER")
Setup(d, type) ==
  LET fresh == [Cleanup([d EXCEPT !.sweep = ~d.host], "SUCCESS")
                  EXCEPT !.networks = << >>, !.scan = type, !.buffer = TRUE]
  IN IF IsScanning(d) THEN ScanErrorHandler(d, "MAC_SCANNING")
     ELSE IF StackRefuses(d, "BUFFER") THEN Cleanup(fresh, "NO_BUFFERS")
     ELSE fresh

-----------------------------------------------------------------------------
(* An unused PAN id.                                                       *)

ScanForUnusedPanId(d, mask) ==
  LET s == Setup(d, "ENERGY_SCAN")
  IN IF CanSetup(d) THEN BeginScan(s, mask) ELSE s

StartPanIdScan(d, candidates) ==
  BeginScan([d EXCEPT !.scan = "PAN_ID_SCAN", !.candidates = candidates],
            {d.channel})

\* The status of the scan is not looked at.  If it has measured no channel the
\* number of quiet ones, by which a random one is divided, is 0: that gives no
\* index of a channel, and the one of an earlier search is gone by, if any.
EnergyScanComplete(d, quiet, candidates) ==
  StartPanIdScan([d EXCEPT !.channel = IF quiet \in Channels THEN quiet ELSE @],
                 candidates)

\* The first candidate not heard, or new ones if all were
Unheard_Any(d) == DOMAIN d.candidates    \* mutant: takes one that was heard
Unheard(d) == {i \in DOMAIN d.candidates : d.candidates[i] # Taken}
PanIdScanComplete(d, candidates) ==
  IF Unheard(d) = {} THEN StartPanIdScan(d, candidates)
  ELSE Cleanup(UnusedPanIdFoundHandler(d, d.candidates[Min(Unheard(d))]),
               "SUCCESS")

-----------------------------------------------------------------------------
(* A joinable network.                                                     *)

\* The networks of the last channel come first, then the next channel
Valid(networks) == {i \in DOMAIN networks : networks[i].panId # Taken}
OfferNetwork(d, i) ==
  [JoinableNetworkFoundHandler(
     [d EXCEPT !.networks = SubSeq(@, 1, i - 1)], d.networks[i])
     EXCEPT !.sweep = ~d.host]

ScanNextChannel(d) ==
  LET later == {c \in d.mask : c > d.channel} IN
  IF later = {}
  THEN Cleanup([d EXCEPT !.networks = << >>], "NO_BEACONS")
  ELSE BeginScan([d EXCEPT !.networks = << >>, !.channel = Min(later),
                           !.scan = "JOINABLE_SCAN"],
                 {Min(later)})

ScanForNextJoinableNetwork(d) ==
  IF d.scan # "NEXT_NETWORK" THEN ScanErrorHandler(d, "INVALID_CALL")
  ELSE IF Valid(d.networks) # {} THEN OfferNetwork(d, Max(Valid(d.networks)))
  ELSE ScanNextChannel(d)

ScanForJoinableNetwork(d, mask) ==
  LET s == Setup(d, "NEXT_NETWORK")
  IN IF CanSetup(d)
     THEN ScanForNextJoinableNetwork([s EXCEPT !.channel = 0, !.mask = mask])
     ELSE s

-----------------------------------------------------------------------------
(* What the stack reports.                                                 *)

\* mutant: does not look at the other channel
NeedsDualScan_Never(d) == FALSE
\* Compiled for a host; on a chip there is none (form-and-join.c:280).
NeedsDualScan(d) == /\ d.host /\ d.channel \in DOMAIN Echo
                    /\ d.networks # << >>

\* emberFormAndJoinScanCompleteHandler; quiet and candidates are what the
\* random numbers choose
ScanCompleteHandler(d, quiet, candidates) ==
  CASE d.scan = "ENERGY_SCAN" -> EnergyScanComplete(d, quiet, candidates)
    [] d.scan = "PAN_ID_SCAN" -> PanIdScanComplete(d, candidates)
    [] d.scan = "JOINABLE_SCAN" /\ NeedsDualScan(d) ->
         BeginScan([d EXCEPT !.scan = "DUAL_CHANNEL_SCAN"], {Echo[d.channel]})
    [] d.scan \in {"JOINABLE_SCAN", "DUAL_CHANNEL_SCAN"} /\
       ~(d.scan = "JOINABLE_SCAN" /\ NeedsDualScan(d)) ->
         ScanForNextJoinableNetwork([d EXCEPT !.scan = "NEXT_NETWORK"])
    [] OTHER -> d

SaveNetwork(d, beacon) ==
  IF \/ \E i \in DOMAIN d.networks : d.networks[i].epid = beacon.epid
     \/ Len(d.networks) = MaxNetworks
  THEN d
  ELSE [d EXCEPT !.networks = Append(@, beacon)]

\* mutant: a beacon strikes out its network however weak it is
IsEcho_Any(network, beacon) == network.epid = beacon.epid
IsEcho(network, beacon) ==
  network.epid = beacon.epid /\ beacon.lqi > network.lqi

\* emberFormAndJoinNetworkFoundHandler
NetworkFoundHandler(d, beacon) ==
  CASE d.scan = "PAN_ID_SCAN" ->
         [d EXCEPT !.candidates = [i \in DOMAIN @ |->
            IF @[i] = beacon.panId THEN Taken ELSE @[i]]]
    [] d.scan = "JOINABLE_SCAN" /\ beacon.open -> SaveNetwork(d, beacon)
    [] d.scan = "DUAL_CHANNEL_SCAN" ->
         [d EXCEPT !.networks = [i \in DOMAIN @ |->
            IF IsEcho(@[i], beacon) THEN [@[i] EXCEPT !.panId = Taken]
                                    ELSE @[i]]]
    [] OTHER -> d

=============================================================================
