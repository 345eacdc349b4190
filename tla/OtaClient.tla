------------------------------ MODULE OtaClient ------------------------------
(***************************************************************************)
(* The OTA bootload client: it asks the server for a newer image,          *)
(* downloads it block by block or page by page, verifies it, asks to be    *)
(* let run it, and boots it.                                               *)
(*                                                                         *)
(* The C file is a set of functions that call one another over static      *)
(* variables, entered from the cluster tick and from incoming messages.    *)
(* Here the variables are a record, a device d, and each function an       *)
(* operator from a device to the device it leaves.  d.tick says that the   *)
(* cluster tick is scheduled, d.out holds the commands sent on the way.    *)
(***************************************************************************)
EXTENDS OtaStorage, Sequences, FiniteSetsExt

CONSTANTS PageBlocks,              \* pageRequestSize, in blocks
          DownloadErrorThreshold,
          UpgradeWaitThreshold

ASSUME ClientAssumption ==
  /\ PageBlocks \in Nat \ {0}
  /\ DownloadErrorThreshold \in Nat \ {0}
  /\ UpgradeWaitThreshold \in Nat \ {0}

\* The builds of the client the model tells apart: usePageRequest, and whether
\* downloadDelayMs is above its default of 0.
AllBuilds == {"blocks", "pages", "spaced pages"}
UsesPages(build) == build # "blocks"
HasDelay(build) == build = "spaced pages"

NoPage == [status |-> "NONE", base |-> 0, received |-> {}]

\* A device out of reset, before the server is discovered.
Reboot(d) ==
  [d EXCEPT !.state = "DISCOVER_SERVER", !.waitingForResponse = FALSE,
            !.tick = FALSE, !.errors = 0, !.offset = 0, !.file = None,
            !.usePageRequest = UsesPages(d.build), !.page = NoPage,
            !.storage = StorageInit(@)]

NewDevice(build) ==
  [build |-> build, state |-> "DISCOVER_SERVER", waitingForResponse |-> FALSE,
   tick |-> FALSE, errors |-> 0, offset |-> 0, file |-> None,
   usePageRequest |-> UsesPages(build), page |-> NoPage,
   storage |-> EmptyStorage, running |-> None, out |-> << >>]

\* A timer of 0 schedules nothing, unless a message timeout takes its place.
SetTimer(d, nonZero) ==
  IF nonZero \/ (d.waitingForResponse /\ d.page.status # "WAITING")
  THEN [d EXCEPT !.tick = TRUE]
  ELSE d

SendMessage(d, message, timer) ==
  SetTimer([d EXCEPT !.waitingForResponse = message.is # "end failed",
                     !.out = Append(@, message)], timer)

-----------------------------------------------------------------------------
\* ota-client-page-request.c

BlocksInThisPage(page) == Min({PageBlocks, Blocks - page.base})

\* The blocks received before the first one missed.
NumBlocksReceived(page) ==
  Max({n \in 0 .. BlocksInThisPage(page) : 0 .. n - 1 \subseteq page.received})

\* A mutant: the page is complete with its last block.
AllBlocksReceived_Last(page) == BlocksInThisPage(page) - 1 \in page.received

AllBlocksReceived(page) == NumBlocksReceived(page) = BlocksInThisPage(page)

InitPageRequest(d) ==
  [d EXCEPT !.page = [status |-> "WAITING", base |-> d.offset,
                      received |-> {}]]

AbortPageRequest(d) == [d EXCEPT !.page.status = "NONE"]

PageRequestTimerExpired(d) ==
  IF d.page.status = "WAITING" THEN [d EXCEPT !.page.status = "RETRY"] ELSE d

NoteReceivedBlock(d, offset) ==
  LET noted == [d EXCEPT !.page.received = @ \union {offset - d.page.base}] IN
  IF offset < d.page.base THEN d
  ELSE IF AllBlocksReceived(noted.page) THEN AbortPageRequest(noted)
  ELSE noted

-----------------------------------------------------------------------------
\* A mutant: the query names the file of the last download.
QueryNextImage_StaleVersion(d, timeoutReached) ==
  LET querying == [d EXCEPT !.state = "QUERY_NEXT_IMAGE"] IN
  IF timeoutReached
  THEN SendMessage([querying EXCEPT !.errors = 0],
                   [is |-> "query", file |-> d.file], TRUE)
  ELSE SetTimer(querying, TRUE)

QueryNextImage(d, timeoutReached) ==
  LET querying == [d EXCEPT !.state = "QUERY_NEXT_IMAGE"] IN
  IF timeoutReached
  THEN SendMessage([querying EXCEPT !.errors = 0, !.file = d.running],
                   [is |-> "query", file |-> d.running], TRUE)
  ELSE SetTimer(querying, TRUE)

RequestUpgrade(d) ==
  SendMessage([d EXCEPT !.state = "WAITING_FOR_UPGRADE"],
              [is |-> "end", file |-> d.file], TRUE)

\* The application agrees to every verified image (its callback's default).
DownloadAndVerifyFinish(d, result) ==
  IF d.state \in {"DISCOVER_SERVER", "QUERY_NEXT_IMAGE"} THEN d
  ELSE IF result = "SUCCESS" THEN RequestUpgrade([d EXCEPT !.errors = 0])
  ELSE LET told == IF result = "SERVER_ABORTED" THEN d
                   ELSE SendMessage(d, [is |-> "end failed"], TRUE)
       IN  QueryNextImage([told EXCEPT !.waitingForResponse = FALSE], FALSE)

RequestBlock(d) ==
  SendMessage(d, [is |-> "block", file |-> d.file, offset |-> d.offset],
              HasDelay(d.build))

RequestPage(d) ==
  SendMessage(InitPageRequest(d),
              [is |-> "page", file |-> d.file, offset |-> d.offset], TRUE)

\* The next block of a page that was missed; a page of which nothing came is
\* given up, and what follows is left to the download delay.
RequestMissedBlock(d) ==
  LET received == NumBlocksReceived(d.page)
      missed   == [d EXCEPT !.offset = d.page.base + received]
  IN  CASE d.page.status # "RETRY" ->
             SetTimer([d EXCEPT !.errors = @ + 1], HasDelay(d.build))
        [] d.page.status = "RETRY" /\ received = 0 ->
             SetTimer([AbortPageRequest(d) EXCEPT !.errors = @ + 1],
                      HasDelay(d.build))
        [] OTHER ->
             RequestBlock([missed EXCEPT !.page.status =
                             IF AllBlocksReceived(d.page) THEN "COMPLETE"
                             ELSE @])

ContinueImageDownload(d0) ==
  LET d == [d0 EXCEPT !.state = "DOWNLOAD"] IN
  IF d.errors >= DownloadErrorThreshold
  THEN DownloadAndVerifyFinish(d, "CLIENT_ABORTED")
  ELSE IF ~ d.usePageRequest THEN RequestBlock(d)
  ELSE IF d.page.status = "NONE" THEN RequestPage(d)
  ELSE RequestMissedBlock(d)

\* Verification starts with a look at the storage.  Without support for
\* signatures the rest, the application's own check, is for the next tick.
StartImageVerification(d) ==
  LET verifying == [d EXCEPT !.state = "VERIFY_IMAGE",
                             !.storage = CheckTempData(@)]
  IN  IF TempData(d.storage) = "SUCCESS"
      THEN SetTimer(verifying, TRUE)
      ELSE DownloadAndVerifyFinish(verifying, "VERIFY_FAILED")

-----------------------------------------------------------------------------
\* Once the server and its keys are known.
DetermineNextState(d0) ==
  LET found == TempData(d0.storage)
      d     == [d0 EXCEPT !.storage = CheckTempData(@),
                          !.file = IF found = "ERROR" THEN @
                                   ELSE d0.storage.stored[0]]
  IN  CASE found = "PARTIAL" ->
             ContinueImageDownload(
               [d EXCEPT !.offset = d.storage.savedOffset, !.errors = 0,
                         !.state = "DOWNLOAD"])
        [] found = "SUCCESS" /\ d.file # d.running ->
             StartImageVerification([d EXCEPT !.state = "VERIFY_IMAGE"])
        [] OTHER -> QueryNextImage(d, TRUE)

\* The bootloader launches the image in storage, or does not and returns.
RunUpgrade(d, launched) ==
  IF launched
  THEN Reboot([d EXCEPT !.running = VersionStored(d.storage)])
  ELSE QueryNextImage(d, FALSE)

\* The cluster tick; good says what the application's check of the image, or
\* its launch of the bootloader, comes to.
Tick(d0, good) ==
  LET d == PageRequestTimerExpired([d0 EXCEPT !.tick = FALSE]) IN
  CASE d.waitingForResponse ->
         SetTimer([d EXCEPT !.errors = @ + 1, !.waitingForResponse = FALSE],
                  TRUE)
    [] ~ d.waitingForResponse /\ d.state = "QUERY_NEXT_IMAGE" ->
         QueryNextImage(d, TRUE)
    [] ~ d.waitingForResponse /\ d.state = "DOWNLOAD" ->
         ContinueImageDownload(d)
    [] ~ d.waitingForResponse /\ d.state = "VERIFY_IMAGE" ->
         DownloadAndVerifyFinish(
           d, IF good THEN "SUCCESS" ELSE "VERIFY_FAILED")
    [] ~ d.waitingForResponse /\ d.state = "WAITING_FOR_UPGRADE" ->
         IF d.errors >= UpgradeWaitThreshold
         THEN RunUpgrade(d, good) ELSE RequestUpgrade(d)
    [] ~ d.waitingForResponse /\ d.state = "COUNTDOWN" -> RunUpgrade(d, good)

-----------------------------------------------------------------------------
StartDownload(d, version) ==
  ContinueImageDownload(
    [d EXCEPT !.storage = ClearTempData(DeleteImage(@)), !.file = version,
              !.offset = 0, !.errors = 0])

QueryNextImageResponse(d, version) ==
  IF version = None THEN QueryNextImage(d, FALSE) ELSE StartDownload(d, version)

\* The block is in place: on to the next, or to verifying the image.
BlockStored(d, nextOffset, timer) ==
  LET advanced == [d EXCEPT !.offset = nextOffset] IN
  IF nextOffset >= Blocks
  THEN StartImageVerification(
         [advanced EXCEPT !.storage = FinishDownload(@, nextOffset)])
  ELSE IF timer THEN SetTimer(advanced, TRUE)
  ELSE ContinueImageDownload(advanced)

\* A block of data.  One that comes out of order is ignored, unless it may
\* belong to a page.
ImageBlockResponse(d, m) ==
  LET inPage == d.usePageRequest /\ d.page.status # "NONE"
      stored == [d EXCEPT !.errors = 0,
                          !.storage = WriteTempData(@, m.offset, m.file)]
      noted  == NoteReceivedBlock(stored, m.offset)
  IN  CASE \/ ~ (d.usePageRequest /\ d.page.status = "WAITING")
              /\ m.offset # d.offset
           \/ m.file # d.file -> d
        [] OTHER ->
           IF ~ inPage
           THEN BlockStored(stored, m.offset + 1, HasDelay(d.build))
           ELSE CASE noted.page.status = "WAITING" -> noted
                  [] noted.page.status = "NONE" ->
                       BlockStored(noted, noted.page.base + PageBlocks,
                                   HasDelay(d.build))
                  [] OTHER -> BlockStored(noted, m.offset + 1, TRUE)

UpgradeEndResponse(d, m) ==
  IF m.file # d.file THEN d
  ELSE SetTimer(
         [d EXCEPT !.state = IF m.upgrade = "NOW" THEN "COUNTDOWN" ELSE @],
         TRUE)

\* Default responses; they are looked at in whatever state the client is.
DefaultResponse(d, m) ==
  CASE m.to = "end" \/ m.status = "NO_IMAGE_AVAILABLE" ->
         DownloadAndVerifyFinish(d, "SERVER_ABORTED")
    [] m.to # "end" /\ m.status = "UNSUP" ->
         IF d.usePageRequest /\ d.page.status # "NONE"
         THEN ContinueImageDownload(
                [AbortPageRequest(d) EXCEPT !.usePageRequest = FALSE])
         ELSE DownloadAndVerifyFinish(d, "SERVER_ABORTED")
    [] OTHER -> d

\* An incoming message.  A command of the server ends the wait for an answer
\* before anything else of it is looked at, and counts only in its own state.
CommandParse(d0, m) ==
  LET d == [d0 EXCEPT !.waitingForResponse = FALSE] IN
  CASE d.state = "DISCOVER_SERVER" /\ m.is # "default" -> d0
    [] m.is = "default" -> DefaultResponse(d0, m)
    [] m.is = "notify" /\ d.state = "QUERY_NEXT_IMAGE" ->
         QueryNextImage(d, TRUE)
    [] m.is = "offer" /\ d.state = "QUERY_NEXT_IMAGE" ->
         QueryNextImageResponse(d, m.file)
    [] m.is = "data" /\ d.state = "DOWNLOAD" -> ImageBlockResponse(d, m)
    [] m.is = "wait" /\ d.state = "DOWNLOAD" -> SetTimer(d, TRUE)
    [] m.is = "end" /\ d.state = "WAITING_FOR_UPGRADE" ->
         UpgradeEndResponse(d, m)
    [] OTHER -> d
=============================================================================
