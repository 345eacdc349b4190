-------------------------------- MODULE Ezsp --------------------------------
(***************************************************************************)
(* The host's side of EZSP over the UART: commands and their responses     *)
(* (app/util/ezsp/ezsp.c) over the receive queue of ASH                    *)
(* (app/util/ezsp/serial-interface-uart.c), and the main loop's reset of   *)
(* an NCP that has failed (app/framework/util/af-main-host.c).             *)
(*                                                                         *)
(* One thread runs everything: a command is sent and polled for until its  *)
(* response, or an error, is there; in between, handlers may send further  *)
(* commands and ezspTick polls for callbacks.  A poll is one action.  The  *)
(* link is the abstract one of ReliableLink, the NCP answers every command *)
(* once and calls back as it likes: both are external here.                *)
(***************************************************************************)
EXTENDS Integers, Sequences, SequencesExt, FiniteSets

CONSTANTS
  RxPool,        \* buffers for received frames (EZSP_HOST_RX_POOL_SIZE)
  MaxCommands, MaxCallbacks,    \* commands sent, callbacks made (bounds)
  MaxFailures,   \* times the link fails, frames damaged or flagged (bound)
  MaxTimeouts    \* times a response is later than WAIT_FOR_RESPONSE_TIMEOUT

ASSUME EzspAssumption ==
  /\ RxPool \in Nat \ {0}
  /\ {MaxCommands, MaxCallbacks, MaxFailures, MaxTimeouts} \subseteq Nat

VARIABLES
  sendingCommand, waitingForResponse, ncpNeedsResetAndInit,
  connected,     \* ashIsConnected
  rxQueue,       \* frames received
  reading,       \* a frame of which a part was read: with a buffer or without
  answer,        \* the response the last command returned with
  dispatched,    \* callbacks passed to the application in this session
  commands, callbacks, before,   \* commands and callbacks so far, callbacks
                                 \* before this session
  toNcp, toHost, \* the link: commands one way, frames the other
  failures, timeouts

host == <<sendingCommand, waitingForResponse, ncpNeedsResetAndInit, connected,
          rxQueue, reading, answer, dispatched, commands, timeouts>>
ncp == <<callbacks, before, toNcp, toHost, failures>>
vars == <<host, ncp>>

\* flagged: truncated, overflowed or refused by the NCP
Frame == [kind : {"response", "callback"}, n : Nat, flagged : BOOLEAN]
NoAnswer == [kind |-> "none", n |-> 0, flagged |-> FALSE]

Async(f) == f.kind = "callback"

EzspTypeOK ==
  /\ {sendingCommand, waitingForResponse, ncpNeedsResetAndInit, connected}
       \subseteq BOOLEAN
  /\ rxQueue \in Seq(Frame) /\ Len(rxQueue) <= RxPool
  /\ toHost \in Seq(Frame)
  /\ reading \in {"nothing", "buffered", "unbuffered"}
  /\ answer \in Frame \cup {NoAnswer}
  /\ dispatched \in Seq(1 .. MaxCallbacks) /\ toNcp \in Seq(1 .. MaxCommands)
  /\ commands \in 0 .. MaxCommands /\ callbacks \in 0 .. MaxCallbacks
  /\ before \in 0 .. callbacks
  /\ failures \in 0 .. MaxFailures /\ timeouts \in 0 .. MaxTimeouts

\* After emAfResetAndInitNCP has started the link for the first time
Init ==
  /\ sendingCommand = FALSE /\ waitingForResponse = FALSE
  /\ ncpNeedsResetAndInit = FALSE /\ connected = TRUE
  /\ rxQueue = <<>> /\ reading = "nothing" /\ answer = NoAnswer
  /\ dispatched = <<>> /\ commands = 0 /\ callbacks = 0 /\ before = 0
  /\ toNcp = <<>> /\ toHost = <<>> /\ failures = 0 /\ timeouts = 0

-----------------------------------------------------------------------------
(* Receiving.                                                              *)

Free(queue, read) ==
  RxPool - Len(queue) - (IF read = "buffered" THEN 1 ELSE 0)

\* mutant: errors are only printed
ErrorHandler_Silent == UNCHANGED ncpNeedsResetAndInit

\* ezspErrorHandler: the main loop is to reset the NCP
ErrorHandler == ncpNeedsResetAndInit' = TRUE

\* The command, if one is being sent, returns without a response
CommandFails == sendingCommand' = FALSE /\ UNCHANGED answer

\* ezspInit, once it succeeds: the NCP is reset, both ends begin again
NewSession ==
  /\ connected' = TRUE
  /\ rxQueue' = <<>> /\ reading' = "nothing" /\ dispatched' = <<>>
  /\ toNcp' = <<>> /\ toHost' = <<>> /\ before' = callbacks

\* checkConnection fails, and starts the link again if it can
PollUnconnected ==
  /\ ~connected
  /\ ErrorHandler /\ CommandFails
  /\ \/ NewSession
     \/ UNCHANGED <<connected, rxQueue, reading, dispatched, toNcp, toHost,
                    before>>
  /\ UNCHANGED <<waitingForResponse, commands, callbacks, failures, timeouts>>

\* ashSendExec or ashReceiveExec finds that the link has failed
PollFatal ==
  /\ connected /\ failures < MaxFailures /\ failures' = failures + 1
  /\ connected' = FALSE
  /\ ErrorHandler /\ CommandFails
  /\ UNCHANGED <<waitingForResponse, rxQueue, reading, dispatched, commands,
                 callbacks, before, toNcp, toHost, timeouts>>

\* ashReceiveExec reads the rest of a frame, or a whole one, ...
FrameRead ==
  /\ \/ reading = "buffered"
     \/ reading = "nothing" /\ Free(rxQueue, reading) > 0
  /\ toHost # <<>> /\ toHost' = Tail(toHost)
  /\ reading' = "nothing" /\ UNCHANGED failures

\* ... or not all of it, or finds it damaged: it is sent again
PartRead ==
  /\ toHost # <<>> /\ UNCHANGED toHost
  /\ \/ /\ reading = "nothing"
        /\ reading' = IF Free(rxQueue, reading) > 0 THEN "buffered"
                                                     ELSE "unbuffered"
        /\ UNCHANGED failures
     \/ /\ reading # "nothing" /\ reading' = "nothing"
        /\ failures < MaxFailures /\ failures' = failures + 1

NothingRead == UNCHANGED <<toHost, reading, failures>>

\* A frame that found no buffer is refused: EZSP_ASH_NO_RX_SPACE
PollNoSpace ==
  /\ connected /\ reading = "unbuffered"
  /\ reading' = "nothing"
  /\ ErrorHandler /\ CommandFails
  /\ UNCHANGED <<waitingForResponse, connected, rxQueue, dispatched, commands,
                 callbacks, before, toNcp, toHost, failures, timeouts>>

\* The queue with what ashReceiveExec added to it
Queue == IF toHost' = toHost THEN rxQueue ELSE Append(rxQueue, Head(toHost))

\* mutant: only the head of the queue is looked at
Eligible_HeadOnly ==
  {k \in DOMAIN Queue \cap {1} : ~(waitingForResponse /\ Async(Queue[k]))}

\* mutant: a callback may be taken for the response
Eligible_Any == DOMAIN Queue

\* While a response is waited for, callbacks stay in the queue
Eligible ==
  {k \in DOMAIN Queue : ~(waitingForResponse /\ Async(Queue[k]))}

\* The first of them, or 0
Chosen == IF Eligible = {} THEN 0
          ELSE CHOOSE k \in Eligible : \A j \in Eligible : k <= j

\* ... and when no buffer is free, the last one passed over is dropped
Dropped ==
  IF waitingForResponse /\ Free(Queue, reading') = 0
    THEN (IF Chosen = 0 THEN Len(Queue) ELSE Chosen - 1)
    ELSE 0

\* Neither the frame taken nor the one dropped, which is before it
QueueLeft ==
  LET passed == IF Chosen = 0 THEN Queue ELSE RemoveAt(Queue, Chosen)
  IN IF Dropped = 0 THEN passed ELSE RemoveAt(passed, Dropped)

\* What the caller of serialResponseReceived, sendCommand or ezspTick, does
\* with the frame taken
Taken(f) ==
  IF f.flagged
    THEN ErrorHandler /\ CommandFails /\ UNCHANGED dispatched
  ELSE IF sendingCommand
    THEN /\ sendingCommand' = FALSE /\ answer' = f
         /\ UNCHANGED dispatched
         /\ IF Dropped # 0 THEN ErrorHandler ELSE UNCHANGED ncpNeedsResetAndInit
  ELSE /\ UNCHANGED <<sendingCommand, answer>>
       /\ IF Async(f)
            THEN /\ dispatched' = Append(dispatched, f.n)
                 /\ IF Dropped # 0 THEN ErrorHandler
                                   ELSE UNCHANGED ncpNeedsResetAndInit
            ELSE ErrorHandler /\ UNCHANGED dispatched

\* ashReceiveExec, then the queue is looked at
Poll ==
  /\ connected
  /\ rxQueue' = QueueLeft
  /\ waitingForResponse' = (waitingForResponse /\ Chosen = 0)
  /\ IF Chosen # 0 THEN Taken(Queue[Chosen])
     ELSE /\ UNCHANGED <<sendingCommand, answer, dispatched>>
          /\ IF Dropped # 0 THEN ErrorHandler ELSE UNCHANGED ncpNeedsResetAndInit
  /\ UNCHANGED <<connected, commands, callbacks, before, toNcp, timeouts>>

PollReceives == FrameRead /\ Poll
PollReads == PartRead /\ Poll
PollQueue == NothingRead /\ rxQueue # <<>> /\ Poll

\* The timeout is looked at before the queue, even if a frame was just read
PollTimesOut ==
  /\ connected /\ waitingForResponse
  /\ timeouts < MaxTimeouts /\ timeouts' = timeouts + 1
  /\ FrameRead \/ NothingRead
  /\ rxQueue' = Queue
  /\ waitingForResponse' = FALSE
  /\ ErrorHandler /\ CommandFails
  /\ UNCHANGED <<connected, dispatched, commands, callbacks, before, toNcp>>

-----------------------------------------------------------------------------
(* Commands, and the main loop.                                            *)

\* sendCommand, up to the first poll
Command ==
  /\ ~sendingCommand /\ commands < MaxCommands /\ commands' = commands + 1
  /\ connected
  /\ sendingCommand' = TRUE /\ waitingForResponse' = TRUE
  /\ answer' = NoAnswer
  /\ toNcp' = Append(toNcp, commands')
  /\ UNCHANGED <<ncpNeedsResetAndInit, connected, rxQueue, reading, dispatched,
                 callbacks, before, toHost, failures, timeouts>>

\* ... which fails when the link is down, and starts it again if it can
CommandUnconnected ==
  /\ ~sendingCommand /\ commands < MaxCommands /\ commands' = commands + 1
  /\ ~connected
  /\ ErrorHandler /\ answer' = NoAnswer
  /\ \/ NewSession
     \/ UNCHANGED <<connected, rxQueue, reading, dispatched, toNcp, toHost,
                    before>>
  /\ UNCHANGED <<sendingCommand, waitingForResponse, callbacks, failures,
                 timeouts>>

\* The main loop between two of its calls: emAfResetAndInitNCP
ResetAndInit ==
  /\ ~sendingCommand /\ ncpNeedsResetAndInit
  /\ ncpNeedsResetAndInit' = FALSE
  /\ NewSession
  /\ UNCHANGED <<sendingCommand, waitingForResponse, answer, commands, callbacks,
                 failures, timeouts>>

\* The NCP answers the commands in the order they come ...
NcpResponds ==
  /\ toNcp # <<>> /\ toNcp' = Tail(toNcp)
  /\ \E flagged \in BOOLEAN :
       /\ failures + (IF flagged THEN 1 ELSE 0) <= MaxFailures
       /\ failures' = failures + (IF flagged THEN 1 ELSE 0)
       /\ toHost' = Append(toHost, [kind |-> "response", n |-> Head(toNcp),
                                    flagged |-> flagged])
  /\ UNCHANGED <<host, callbacks, before>>

\* ... and calls back at any time
NcpCallsBack ==
  /\ callbacks < MaxCallbacks /\ callbacks' = callbacks + 1
  /\ toHost' = Append(toHost, [kind |-> "callback", n |-> callbacks',
                               flagged |-> FALSE])
  /\ UNCHANGED <<host, before, toNcp, failures>>

HostPolls == \/ PollReceives \/ PollReads \/ PollQueue \/ PollTimesOut
             \/ PollNoSpace \/ PollFatal \/ PollUnconnected

Next == \/ HostPolls
        \/ Command \/ CommandUnconnected \/ ResetAndInit
        \/ NcpResponds \/ NcpCallsBack

Spec == Init /\ [][Next]_vars

\* The host polls for as long as it waits, the NCP answers
Fairness == /\ WF_vars(PollReceives) /\ WF_vars(PollQueue)
            /\ WF_vars(PollUnconnected) /\ WF_vars(PollNoSpace)
            /\ WF_vars(NcpResponds)

FairSpec == Spec /\ Fairness

-----------------------------------------------------------------------------
(* Properties.                                                             *)

\* What the host has not taken yet, the callbacks among it
Unread == rxQueue \o toHost
Pending == {k \in DOMAIN Unread : Async(Unread[k])}

\* Unless an error is reported, every callback the NCP makes is dispatched
\* once and in order, however many commands are sent meanwhile: the first
\* of a session were, the others are still to be read.
CallbacksKept ==
  ~ncpNeedsResetAndInit =>
    /\ dispatched = [k \in DOMAIN dispatched |-> before + k]
    /\ before + Len(dispatched) <= callbacks
    /\ {Unread[k].n : k \in Pending} = before + Len(dispatched) + 1 .. callbacks
    /\ \A j, k \in Pending : j < k => Unread[j].n < Unread[k].n

\* Unless an error was reported since the NCP was reset, the response a command
\* returns with is its own, neither a callback nor an earlier response.
OwnAnswer ==
  [][answer' # answer /\ answer' # NoAnswer /\ ~ncpNeedsResetAndInit =>
       answer'.kind = "response" /\ answer'.n = commands]_vars

\* Every command returns, with a response or an error.
CommandReturns == sendingCommand ~> ~sendingCommand
=============================================================================
