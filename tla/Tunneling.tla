----------------------------- MODULE Tunneling -----------------------------
(***************************************************************************)
(* The two plugins of the Tunneling cluster, tunneling-server.c and        *)
(* tunneling-client.c: a server opens a tunnel on request and names it by  *)
(* its index in a table, either side sends data through it, the client     *)
(* closes it, and the server closes it when it has been inactive for a     *)
(* time.  Only the client's closing, and errors, are told to the other.    *)
(*                                                                         *)
(* Commands between two nodes arrive in order, or are lost; a handler is   *)
(* one action.  Time is what makes a tunnel inactive: any tunnel may be at *)
(* any moment.  Default responses change nothing and are left out.         *)
(***************************************************************************)
EXTENDS Integers, Sequences, FiniteSets

CONSTANTS
  Clients, Servers,
  ClientEndpoints, ServerEndpoints,   \* where the cluster's two sides are
  ServerLimit, ClientLimit,           \* tunnels in a table
  MaxRequests, MaxSends, MaxLosses, MaxIdle    \* bounds: tunnels asked for,
             \* data sent, commands lost, times a tunnel becomes inactive

ASSUME TunnelingAssumption ==
  /\ {ServerLimit, ClientLimit} \subseteq Nat \ {0}
  /\ {MaxRequests, MaxSends, MaxLosses, MaxIdle} \subseteq Nat

VARIABLES
  served,      \* the server's table: tunnels by their id
  tick,        \* endpoints of a server for which a cluster tick is scheduled
  opened,      \* the client's table
  told,        \* tunnels the client's application believes to be open
  toServer, toClient,    \* commands under way
  requests, sends, losses, idles

tables == <<served, tick, opened, told>>
bounds == <<requests, sends, losses, idles>>
vars == <<tables, toServer, toClient, bounds>>

Pairs == Clients \X Servers
Ids == 0 .. ServerLimit - 1
NoId == ServerLimit    \* 0xFFFF, the invalid tunnel id

Free == [inUse |-> FALSE]
ServerTunnel == [inUse : {TRUE}, client : Clients,
                 clientEndpoint : ClientEndpoints,
                 serverEndpoint : ServerEndpoints, inactive : BOOLEAN]
ClientTunnel == [inUse : {TRUE}, server : Servers,
                 clientEndpoint : ClientEndpoints,
                 serverEndpoint : ServerEndpoints, tunnelId : Ids]
Command == [is : {"request", "response", "data", "error", "close"},
            tunnelId : Ids \cup {NoId}, clientEndpoint : ClientEndpoints,
            serverEndpoint : ServerEndpoints]

TypeOK ==
  /\ served \in [Servers -> [Ids -> ServerTunnel \cup {Free}]]
  /\ tick \in [Servers -> SUBSET ServerEndpoints]
  /\ opened \in [Clients -> [1 .. ClientLimit -> ClientTunnel \cup {Free}]]
  /\ told \in [Clients -> SUBSET (Ids \cup {NoId})]
  /\ toServer \in [Pairs -> Seq(Command)]
  /\ toClient \in [Pairs -> Seq(Command)]
  /\ requests \in 0 .. MaxRequests /\ sends \in 0 .. MaxSends
  /\ losses \in 0 .. MaxLosses /\ idles \in 0 .. MaxIdle

Init ==
  /\ served = [s \in Servers |-> [i \in Ids |-> Free]]
  /\ tick = [s \in Servers |-> {}]
  /\ opened = [c \in Clients |-> [k \in 1 .. ClientLimit |-> Free]]
  /\ told = [c \in Clients |-> {}]
  /\ toServer = [p \in Pairs |-> <<>>] /\ toClient = [p \in Pairs |-> <<>>]
  /\ requests = 0 /\ sends = 0 /\ losses = 0 /\ idles = 0

First(S) == CHOOSE i \in S : \A j \in S : i <= j
FreeIn(table) == {i \in DOMAIN table : ~table[i].inUse}

Sent(is, id, t) == [is |-> is, tunnelId |-> id,
                    clientEndpoint |-> t.clientEndpoint,
                    serverEndpoint |-> t.serverEndpoint]

\* A side takes the first command of its queue and may send one
TakeAtServer(p, m) == toServer[p] # <<>> /\ m = Head(toServer[p])
                      /\ toServer' = [toServer EXCEPT ![p] = Tail(@)]
TakeAtClient(p, m) == toClient[p] # <<>> /\ m = Head(toClient[p])
                      /\ toClient' = [toClient EXCEPT ![p] = Tail(@)]
SendToClient(p, m) == toClient' = [toClient EXCEPT ![p] = Append(@, m)]
SendToServer(p, m) == toServer' = [toServer EXCEPT ![p] = Append(@, m)]

-----------------------------------------------------------------------------
(* The server.                                                             *)

\* mutant: no tick for the tunnels that stay
CloseInactiveTunnels_NoTick(s, table, endpoint, scheduled) ==
  /\ served' = [served EXCEPT ![s] =
       [i \in Ids |-> IF table[i].inUse /\ endpoint = table[i].serverEndpoint
                         /\ table[i].inactive THEN Free ELSE table[i]]]
  /\ tick' = [tick EXCEPT ![s] = scheduled]

\* emAfTunnelingServerCloseInactiveTunnels, of a table the caller may just have
\* changed; `scheduled' are the ticks there are.  Without the attribute of the
\* endpoint nothing is done.
CloseInactiveTunnels(s, table, endpoint, scheduled) ==
  LET here == {i \in Ids : table[i].inUse /\ table[i].serverEndpoint = endpoint}
      inactive == {i \in here : table[i].inactive} IN
    IF endpoint \notin ServerEndpoints
      THEN /\ served' = [served EXCEPT ![s] = table]
           /\ tick' = [tick EXCEPT ![s] = scheduled]
      ELSE /\ served' = [served EXCEPT ![s] =
                [i \in Ids |-> IF i \in inactive THEN Free ELSE table[i]]]
           /\ tick' = [tick EXCEPT ![s] =
                scheduled \cup (IF here \ inactive = {} THEN {} ELSE {endpoint})]

RequestTunnel(p, m) ==
  LET s == p[2]
      free == FreeIn(served[s])
      refusal == SendToClient(p, Sent("response", NoId, m)) IN
    /\ TakeAtServer(p, m) /\ m.is = "request"
    /\ \/ \* the protocol is not supported, or there is no more tunnel id
          refusal /\ UNCHANGED <<served, tick>>
       \/ LET i == First(free)
              tunnel == [inUse |-> TRUE, client |-> p[1],
                         clientEndpoint |-> m.clientEndpoint,
                         serverEndpoint |-> m.serverEndpoint,
                         inactive |-> FALSE] IN
            /\ free # {}
            /\ CloseInactiveTunnels(s, [served[s] EXCEPT ![i] = tunnel],
                                    m.clientEndpoint, tick[s])
            /\ SendToClient(p, Sent("response", i, m))
    /\ UNCHANGED <<opened, told, bounds>>

\* emAfTunnelingServerFindTunnel
ServerFinds(p, m) ==
  /\ m.tunnelId \in Ids
  /\ LET t == served[p[2]][m.tunnelId] IN
       /\ t.inUse /\ t.serverEndpoint = m.serverEndpoint
       /\ t.client = p[1] /\ t.clientEndpoint = m.clientEndpoint

\* mutant: a tunnel closed by its client stays in use
CloseTunnel_KeepsTunnel(p, m) ==
  /\ TakeAtServer(p, m) /\ m.is \in {"close", "error"}
  /\ UNCHANGED <<tables, toClient, bounds>>

\* A command, or an error, that closes the tunnel it names
CloseTunnel(p, m) ==
  /\ TakeAtServer(p, m) /\ m.is \in {"close", "error"}
  /\ served' = IF ServerFinds(p, m)
                 THEN [served EXCEPT ![p[2]][m.tunnelId] = Free] ELSE served
  /\ UNCHANGED <<tick, opened, told, toClient, bounds>>

TransferDataClientToServer(p, m) ==
  /\ TakeAtServer(p, m) /\ m.is = "data"
  /\ IF ServerFinds(p, m)
       THEN /\ served' = [served EXCEPT ![p[2]][m.tunnelId].inactive = FALSE]
            /\ UNCHANGED toClient
       ELSE UNCHANGED served /\ SendToClient(p, Sent("error", m.tunnelId, m))
  /\ UNCHANGED <<tick, opened, told, bounds>>

\* The server's application sends data; it is activity even if sending fails
ServerTransferData(s, i) ==
  /\ sends < MaxSends /\ sends' = sends + 1
  /\ served[s][i].inUse
  /\ served' = [served EXCEPT ![s][i].inactive = FALSE]
  /\ SendToClient(<<served[s][i].client, s>>, Sent("data", i, served[s][i]))
  /\ UNCHANGED <<tick, opened, told, toServer, requests, losses, idles>>

\* A tick is one event: it is inactive again before the handler runs
ServerTick(s) ==
  \E endpoint \in tick[s] :
    /\ CloseInactiveTunnels(s, served[s], endpoint, tick[s] \ {endpoint})
    /\ UNCHANGED <<opened, told, toServer, toClient, bounds>>

\* The attribute closeTunnelTimeout is written, which looks at the tunnels too
TimeoutChanged(s) ==
  \E endpoint \in ServerEndpoints :
    /\ CloseInactiveTunnels(s, served[s], endpoint, tick[s])
    /\ UNCHANGED <<opened, told, toServer, toClient, bounds>>

\* closeTunnelTimeout passes without activity
BecomesInactive(s, i) ==
  /\ idles < MaxIdle /\ idles' = idles + 1
  /\ served[s][i].inUse /\ ~served[s][i].inactive
  /\ served' = [served EXCEPT ![s][i].inactive = TRUE]
  /\ UNCHANGED <<tick, opened, told, toServer, toClient, requests, sends,
                 losses>>

-----------------------------------------------------------------------------
(* The client.                                                             *)

\* The application asks for a tunnel
AsksForTunnel(p, clientEndpoint, serverEndpoint) ==
  /\ requests < MaxRequests /\ requests' = requests + 1
  /\ SendToServer(p, [is |-> "request", tunnelId |-> NoId,
                      clientEndpoint |-> clientEndpoint,
                      serverEndpoint |-> serverEndpoint])
  /\ UNCHANGED <<tables, toClient, sends, losses, idles>>

\* The application is told of the tunnel unless the table is full
RequestTunnelResponse(p, m) ==
  LET c == p[1]
      free == FreeIn(opened[c])
      tunnel == [inUse |-> TRUE, server |-> p[2],
                 clientEndpoint |-> m.clientEndpoint,
                 serverEndpoint |-> m.serverEndpoint,
                 tunnelId |-> m.tunnelId] IN
    /\ TakeAtClient(p, m) /\ m.is = "response"
    /\ opened' = IF m.tunnelId # NoId /\ free # {}
                   THEN [opened EXCEPT ![c][First(free)] = tunnel] ELSE opened
    /\ told' = IF m.tunnelId = NoId \/ free # {}
                 THEN [told EXCEPT ![c] = @ \cup {m.tunnelId}] ELSE told
    /\ UNCHANGED <<served, tick, toServer, bounds>>

Named(c, id) == {k \in DOMAIN opened[c] : opened[c][k].inUse
                                           /\ opened[c][k].tunnelId = id}
Matches(t, p, m) ==
  /\ t.inUse /\ t.tunnelId = m.tunnelId /\ t.clientEndpoint = m.clientEndpoint
  /\ t.server = p[2] /\ t.serverEndpoint = m.serverEndpoint

\* mutant: the endpoint is looked at when the tunnel is already chosen
Candidates_AnyEndpoint(p, m) == Named(p[1], m.tunnelId)

\* emAfTunnelingClientFindTunnel: the first tunnel of that id and endpoint
\* decides, whoever its server is
Candidates(p, m) == {k \in Named(p[1], m.tunnelId) :
                       opened[p[1]][k].clientEndpoint = m.clientEndpoint}
ClientFinds(p, m) ==
  /\ Candidates(p, m) # {}
  /\ Matches(opened[p[1]][First(Candidates(p, m))], p, m)

TransferDataServerToClient(p, m) ==
  /\ TakeAtClient(p, m) /\ m.is = "data"
  /\ IF ClientFinds(p, m) THEN UNCHANGED toServer
     ELSE SendToServer(p, Sent("error", m.tunnelId, m))
  /\ UNCHANGED <<tables, bounds>>

TransferDataError(p, m) ==
  /\ TakeAtClient(p, m) /\ m.is = "error"
  /\ IF ClientFinds(p, m)
       THEN /\ opened' = [opened EXCEPT ![p[1]][First(Candidates(p, m))] = Free]
            /\ told' = [told EXCEPT ![p[1]] = @ \ {m.tunnelId}]
       ELSE UNCHANGED <<opened, told>>
  /\ UNCHANGED <<served, tick, toServer, bounds>>

\* The application sends data through a tunnel, or closes it: the first of
\* that id is meant
ClientTransferData(c, id) ==
  LET t == opened[c][First(Named(c, id))] IN
    /\ sends < MaxSends /\ sends' = sends + 1
    /\ id \in told[c] /\ Named(c, id) # {}
    /\ SendToServer(<<c, t.server>>, Sent("data", id, t))
    /\ UNCHANGED <<tables, toClient, requests, losses, idles>>

ClientCloseTunnel(c, id) ==
  LET k == First(Named(c, id)) IN
    /\ id \in told[c] /\ Named(c, id) # {}
    /\ opened' = [opened EXCEPT ![c][k] = Free]
    /\ told' = [told EXCEPT ![c] = IF Named(c, id) = {k} THEN @ \ {id} ELSE @]
    /\ SendToServer(<<c, opened[c][k].server>>, Sent("close", id, opened[c][k]))
    /\ UNCHANGED <<served, tick, toClient, bounds>>

\* The network loses a command
Loses(p) ==
  /\ losses < MaxLosses /\ losses' = losses + 1
  /\ \/ /\ toServer[p] # <<>> /\ UNCHANGED toClient
        /\ toServer' = [toServer EXCEPT ![p] = Tail(@)]
     \/ /\ toClient[p] # <<>> /\ UNCHANGED toServer
        /\ toClient' = [toClient EXCEPT ![p] = Tail(@)]
  /\ UNCHANGED <<tables, requests, sends, idles>>

-----------------------------------------------------------------------------

ServerHandles(p) ==
  toServer[p] # <<>> /\ LET m == Head(toServer[p]) IN
    RequestTunnel(p, m) \/ CloseTunnel(p, m) \/ TransferDataClientToServer(p, m)

ClientHandles(p) ==
  toClient[p] # <<>> /\ LET m == Head(toClient[p]) IN
    \/ RequestTunnelResponse(p, m)
    \/ TransferDataServerToClient(p, m) \/ TransferDataError(p, m)

Asks(p) == \E ce \in ClientEndpoints, se \in ServerEndpoints :
             AsksForTunnel(p, ce, se)
ClientUses(c) == \E id \in Ids :
                   ClientTransferData(c, id) \/ ClientCloseTunnel(c, id)
ServerUses(s) == \E i \in Ids :
                   ServerTransferData(s, i) \/ BecomesInactive(s, i)

Next ==
  \/ \E p \in Pairs : ServerHandles(p) \/ ClientHandles(p) \/ Asks(p) \/ Loses(p)
  \/ \E c \in Clients : ClientUses(c)
  \/ \E s \in Servers : ServerUses(s) \/ ServerTick(s)
                        \/ TimeoutChanged(s)

Spec == Init /\ [][Next]_vars

\* The main loop of each server runs its events
FairSpec == Spec /\ \A s \in Servers : WF_vars(ServerTick(s))

-----------------------------------------------------------------------------
(* Properties.                                                             *)

\* Data sent through a tunnel that the client has is not refused.
OwnDataTaken ==
  [][\A p \in Pairs :
       toClient[p] # <<>> /\ toClient'[p] = Tail(toClient[p]) =>
         LET m == Head(toClient[p]) IN
           m.is = "data"
           /\ (\E k \in DOMAIN opened[p[1]] : Matches(opened[p[1]][k], p, m))
             => toServer'[p] = toServer[p]]_vars

\* When nothing was lost and nothing is under way between two nodes, the client
\* knows every tunnel that the server holds for it.
ServerTunnelsKnown ==
  losses = 0 /\ ClientLimit >= MaxRequests =>
    \A p \in Pairs : toServer[p] = <<>> /\ toClient[p] = <<>> =>
      \A i \in Ids : LET t == served[p[2]][i] IN
        t.inUse /\ t.client = p[1] =>
          \E k \in DOMAIN opened[p[1]] :
            Matches(opened[p[1]][k], p, Sent("data", i, t))

Inactive(s, i) == served[s][i].inUse /\ served[s][i].inactive

\* A tunnel that stays inactive is closed in the end.
InactiveClosed ==
  \A s \in Servers, i \in Ids : Inactive(s, i) ~> ~Inactive(s, i)

\* ... at least if its client's endpoint number is one where the server has the
\* cluster, since it is for the client's endpoint that the tick is scheduled:
\* also when tunnels are opened and closed at once, and whatever is lost.
InactiveClosedHere ==
  \A s \in Servers, i \in Ids :
    Inactive(s, i) /\ served[s][i].clientEndpoint = served[s][i].serverEndpoint
      ~> ~Inactive(s, i)
=============================================================================
