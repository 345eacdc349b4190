----------------------------- MODULE OtaDownload -----------------------------
(***************************************************************************)
(* An OTA client and its server.  The server answers queries by the        *)
(* version it holds, sends single blocks, and sends pages block by block   *)
(* on its own cluster tick, one page at a time.  Between the two is a      *)
(* network that loses messages; the image at the server may be replaced    *)
(* and the device may reboot in the middle of anything.                    *)
(***************************************************************************)
EXTENDS OtaClient

CONSTANTS Builds,           \* the builds of the client looked at
          DisturbedBuilds,  \* those with reboots and replaced images
          MaxMishaps,       \* bound on what goes wrong
          MaxReboots

ASSUME DownloadAssumption ==
  /\ Builds \subseteq AllBuilds
  /\ DisturbedBuilds \subseteq Builds
  /\ MaxMishaps \in Nat
  /\ MaxReboots \in Nat
  /\ 1 \in Versions

VARIABLES device,       \* the client, a record of OtaClient
          offered,      \* the version the server holds
          servesPages,  \* whether the server is built for page requests
          serving,      \* its page request under way
          lastSent,     \* what its response buffer still holds
          toServer, toClient,
          mishaps, reboots

vars == <<device, offered, servesPages, serving, lastSent, toServer, toClient,
          mishaps, reboots>>

NotServing == [file |-> None, base |-> 0, sent |-> 0]

Init ==
  /\ device \in {NewDevice(build) : build \in Builds}
  /\ offered = 1
  /\ servesPages \in BOOLEAN
  /\ serving = NotServing
  /\ lastSent = << >>
  /\ toServer = << >> /\ toClient = << >>
  /\ mishaps = 0 /\ reboots = 0

\* The client has become d; the commands it sent are on their way.
Becomes(d) ==
  /\ device' = [d EXCEPT !.out = << >>]
  /\ toServer' = toServer \o d.out

Mishap == mishaps < MaxMishaps /\ mishaps' = mishaps + 1

\* Nothing is on its way to the client or still to be sent to it.
Quiet == toServer = << >> /\ toClient = << >> /\ serving = NotServing

\* The timers of seconds and minutes: the wait for an answer or for the blocks
\* of a page, and the delays between queries and between upgrade requests.
LongTimer ==
  \/ device.waitingForResponse
  \/ device.page.status = "WAITING"
  \/ device.state \in {"QUERY_NEXT_IMAGE", "WAITING_FOR_UPGRADE"}

-----------------------------------------------------------------------------
\* The server.  Responses are built in one buffer and sent from it; a handler
\* that builds none sends the buffer as it is (responses = << >>).
Responds(responses) ==
  /\ toClient' = toClient \o (IF responses = << >> THEN lastSent ELSE responses)
  /\ lastSent' = IF responses = << >> THEN lastSent
                 ELSE <<responses[Len(responses)]>>

Data(file, offset) == [is |-> "data", file |-> file, offset |-> offset]
Default(to, status) == [is |-> "default", to |-> to, status |-> status]

QueryHandled(m) ==
  /\ m.is = "query"
  /\ Responds(<<[is |-> "offer",
                 file |-> IF offered > m.file THEN offered ELSE None]>>)
  /\ UNCHANGED <<serving, mishaps>>

\* The application may have the client wait for a block.
BlockRequestHandled(m) ==
  /\ m.is = "block"
  /\ \/ /\ Responds(<<IF m.file = offered /\ m.offset < Blocks
                      THEN Data(m.file, m.offset)
                      ELSE Default("block", "NO_IMAGE_AVAILABLE")>>)
        /\ UNCHANGED mishaps
     \/ Mishap /\ Responds(<<[is |-> "wait"]>>)
  /\ UNCHANGED serving

\* The page after its next block is sent.  The end of the page is told from
\* the bytes sent alone, so that a page cut short by the end of the image, not
\* its first, is ended only by the read past the end that fails.
PageAfterBlock(page) ==
  IF page.sent + 1 >= Min({Blocks, PageBlocks})
  THEN NotServing
  ELSE [page EXCEPT !.sent = @ + 1]

\* The first block of an accepted page is sent by the handler, and again by
\* the framework that sends whatever response a handler leaves.
PageRequestHandled(m) ==
  /\ m.is = "page"
  /\ LET page   == [file |-> m.file, base |-> m.offset, sent |-> 0]
         status == CASE ~ servesPages -> "UNSUP"
                     [] servesPages /\ serving # NotServing -> "FAILURE"
                     [] OTHER -> "NOT_FOUND"
     IN  IF servesPages /\ serving = NotServing /\ m.file = offered
         THEN /\ Responds(<<Data(m.file, m.offset), Data(m.file, m.offset)>>)
              /\ serving' = PageAfterBlock(page)
         ELSE /\ Responds(<<Default("page", status)>>)
              /\ UNCHANGED serving
  /\ UNCHANGED mishaps

\* The application lets the upgrade run, puts it off, or aborts it.
UpgradeEndHandled(m) ==
  /\ m.is = "end"
  /\ \/ /\ Responds(<<[is |-> "end", file |-> m.file, upgrade |-> "NOW"]>>)
        /\ UNCHANGED mishaps
     \/ /\ Mishap
        /\ \/ Responds(<<[is |-> "end", file |-> m.file,
                          upgrade |-> "LATER"]>>)
           \/ Responds(<<Default("end", "ABORT")>>)
  /\ UNCHANGED serving

\* A report of failure asks for no answer, and gets the one before once more.
FailureHandled(m) ==
  /\ m.is = "end failed"
  /\ Responds(<< >>)
  /\ UNCHANGED <<serving, mishaps>>

ServerHandles ==
  /\ toServer # << >>
  /\ toServer' = Tail(toServer)
  /\ \/ QueryHandled(Head(toServer))
     \/ BlockRequestHandled(Head(toServer))
     \/ PageRequestHandled(Head(toServer))
     \/ UpgradeEndHandled(Head(toServer))
     \/ FailureHandled(Head(toServer))
  /\ UNCHANGED <<device, offered, servesPages, reboots>>

\* The server's cluster tick: one more block of the page.
ServerTick ==
  /\ serving # NotServing
  /\ LET offset == serving.base + serving.sent IN
     \/ /\ serving.file = offered /\ offset < Blocks
        /\ Responds(<<Data(serving.file, offset)>>)
        /\ serving' = PageAfterBlock(serving)
     \/ /\ serving.file = offered /\ offset >= Blocks
        /\ Responds(<< >>)
        /\ serving' = NotServing
     \/ /\ serving.file # offered
        /\ serving' = NotServing
        /\ UNCHANGED <<toClient, lastSent>>
  /\ UNCHANGED <<device, offered, servesPages, toServer, mishaps, reboots>>

\* A newer image takes the place of the one held.
ImageReplaced ==
  /\ device.build \in DisturbedBuilds
  /\ offered + 1 \in Versions
  /\ offered' = offered + 1
  /\ UNCHANGED <<device, servesPages, serving, lastSent, toServer, toClient,
                 mishaps, reboots>>

\* The server's application tells the client to query.
ImageNotify ==
  /\ Mishap
  /\ Responds(<<[is |-> "notify"]>>)
  /\ UNCHANGED <<device, offered, servesPages, serving, toServer, reboots>>

-----------------------------------------------------------------------------
\* The client.
DiscoversServer ==
  /\ device.state = "DISCOVER_SERVER"
  /\ Becomes(DetermineNextState(device))
  /\ UNCHANGED <<offered, servesPages, serving, lastSent, toClient, mishaps,
                 reboots>>

\* The cluster tick.  A long timer that runs out before the messages on their
\* way have come is a fault, and so is what the application fails to do.
ClientTick ==
  /\ device.tick
  /\ \E good \in BOOLEAN :
       /\ ~ good => /\ ~ device.waitingForResponse
                    /\ device.state \in {"VERIFY_IMAGE", "WAITING_FOR_UPGRADE",
                                        "COUNTDOWN"}
       /\ IF good /\ (LongTimer => Quiet) THEN UNCHANGED mishaps ELSE Mishap
       /\ Becomes(Tick(device, good))
  /\ UNCHANGED <<offered, servesPages, serving, lastSent, toClient, reboots>>

ClientReceives ==
  /\ toClient # << >>
  /\ Becomes(CommandParse(device, Head(toClient)))
  /\ toClient' = Tail(toClient)
  /\ UNCHANGED <<offered, servesPages, serving, lastSent, mishaps, reboots>>

DeviceReboots ==
  /\ device.build \in DisturbedBuilds
  /\ reboots < MaxReboots
  /\ reboots' = reboots + 1
  /\ Becomes(Reboot(device))
  /\ UNCHANGED <<offered, servesPages, serving, lastSent, toClient, mishaps>>

\* The network.
Loses ==
  /\ Mishap
  /\ \/ toServer # << >> /\ toServer' = Tail(toServer) /\ UNCHANGED toClient
     \/ toClient # << >> /\ toClient' = Tail(toClient) /\ UNCHANGED toServer
  /\ UNCHANGED <<device, offered, servesPages, serving, lastSent, reboots>>

Next ==
  \/ DiscoversServer \/ ClientTick \/ ClientReceives \/ DeviceReboots
  \/ ServerHandles \/ ServerTick \/ ImageReplaced \/ ImageNotify
  \/ Loses

OtaFairness ==
  /\ WF_vars(DiscoversServer) /\ WF_vars(ClientTick) /\ WF_vars(ClientReceives)
  /\ WF_vars(ServerHandles) /\ WF_vars(ServerTick)

Spec == Init /\ [][Next]_vars /\ OtaFairness

-----------------------------------------------------------------------------
States == {"DISCOVER_SERVER", "QUERY_NEXT_IMAGE", "DOWNLOAD", "VERIFY_IMAGE",
           "WAITING_FOR_UPGRADE", "COUNTDOWN"}

\* Every variable keeps its range; the offset may run past the image by what
\* its last page lacks.
OtaTypeOK ==
  /\ device.state \in States
  /\ device.errors \in
       0 .. Max({DownloadErrorThreshold, UpgradeWaitThreshold}) + 1
  /\ device.offset \in 0 .. Blocks + PageBlocks
  /\ device.storage.savedOffset \in 0 .. Blocks + PageBlocks
  /\ device.storage.stored \in [Offsets -> Versions \union {None}]
  /\ device.page.received \subseteq Offsets
  /\ device.running \in Versions \union {None}
  /\ serving.sent \in 0 .. PageBlocks - 1

\* An image the client has verified and asks to run is whole: every block of
\* it was stored, and all are of the version it says it has.
WholeImage ==
  device.state \in {"WAITING_FOR_UPGRADE", "COUNTDOWN"} =>
    \A b \in Offsets : device.storage.stored[b] = device.file

\* The device ends up running the last image the server came to hold.
Upgraded == <>[](device.running = offered)
=============================================================================
