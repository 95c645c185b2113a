------------------------------- MODULE AMProxy -------------------------------
(***************************************************************************)
(* The proxy between clients and game servers: pkg/am-proxy/am-proxy.go    *)
(* and net.go.  AMTCPProxy accepts client connections; every connection    *)
(* then has a goroutine that authenticates it, finds a game server for it, *)
(* connects to the server and relays packets in both directions.           *)
(*                                                                         *)
(* A framed connection is a FIFO of packets (PacketFramer shows that it    *)
(* implements one).  Matchmaking is one step, which may never come         *)
(* (MatchMaking models it), and a write may wait for a peer that does not  *)
(* read.                                                                   *)
(***************************************************************************)
EXTENDS Naturals, Sequences, FiniteSets

CONSTANTS
  Conns,          \* client connections
  ChanCap,        \* capacity of the channel of accepted connections: 10
  ClientPackets,  \* the packets a client may send after its first one
  GamePackets,    \* the packets a game server may send
  MaxPackets,     \* bound on the packets of one sender
  PeersMayDie     \* may clients and servers vanish, may a dial fail?

Close == "close"     \* PacketCloseConnection
Auth == "auth"       \* the client's first packet
AuthResponse == "authresponse"
Error == "error"     \* CreateErrorPacket

ASSUME ConstantsAssumption ==
  /\ ChanCap \in Nat \ {0}
  /\ MaxPackets \in Nat
  /\ PeersMayDie \in BOOLEAN
  /\ {Auth, AuthResponse, Error} \cap (ClientPackets \cup GamePackets) = {}

VARIABLES
  pc,                      \* where each connection is
  clientSent, gameSent,    \* history: the packets each side has sent
  cFramer, gFramer,        \* those not yet received by the proxy
  clientGot, gameGot,      \* the packets each side has been sent
  cOpen, gOpen,            \* the proxy's ends of the two connections
  clientAlive, gameAlive,  \* the peers' ends
  listening, running,      \* AMTCPProxy's listener, and its Run
  closed,                  \* AMProxy.closed
  exit                     \* "none", or the failed assertion

peerVars == <<clientSent, gameSent, clientAlive, gameAlive>>
proxyVars == <<listening, running, closed, exit>>
dataVars == <<cFramer, gFramer, clientGot, gameGot, cOpen, gOpen>>
vars == <<pc, peerVars, dataVars, proxyVars>>

Steps == {"none", "dialed", "queued", "add", "auth", "match", "dial",
          "respond", "relay", "blocked", "removed"}

Init ==
  /\ pc = [c \in Conns |-> "none"]
  /\ clientSent = [c \in Conns |-> <<>>] /\ gameSent = [c \in Conns |-> <<>>]
  /\ cFramer = [c \in Conns |-> <<>>] /\ gFramer = [c \in Conns |-> <<>>]
  /\ clientGot = [c \in Conns |-> <<>>] /\ gameGot = [c \in Conns |-> <<>>]
  /\ cOpen = [c \in Conns |-> FALSE] /\ gOpen = [c \in Conns |-> FALSE]
  /\ clientAlive = [c \in Conns |-> TRUE]
  /\ gameAlive = [c \in Conns |-> TRUE]
  /\ listening = TRUE
  /\ running = TRUE
  /\ closed = FALSE
  /\ exit = "none"

Goto(c, step) == pc' = [pc EXCEPT ![c] = step]

(***************************************************************************)
(* pkt.Into(conn): fails on a connection this side has closed; may fail,   *)
(* or be lost, when the peer has gone.                                     *)
(***************************************************************************)
CanFail(open, alive, c) == ~open[c] \/ ~alive[c]

(* What the peer has got after a write that returned no error. *)
Got(got, alive, c, p) ==
  IF alive[c] THEN [got EXCEPT ![c] = Append(@, p)] ELSE got

(***************************************************************************)
(* removeConnection: report the error to the client, if there is one and   *)
(* the connection is still open, and close both connections.               *)
(***************************************************************************)
CloseWrapper(c) ==
  /\ cOpen' = [cOpen EXCEPT ![c] = FALSE]
  /\ gOpen' = [gOpen EXCEPT ![c] = FALSE]

Reported(c) == IF cOpen[c] THEN Got(clientGot, clientAlive, c, Error) ELSE clientGot

-----------------------------------------------------------------------------
(***************************************************************************)
(* The peers.                                                              *)
(***************************************************************************)
Connect(c) ==
  /\ pc[c] = "none"
  /\ listening
  /\ Goto(c, "dialed")
  /\ cOpen' = [cOpen EXCEPT ![c] = TRUE]
  /\ UNCHANGED <<peerVars, cFramer, gFramer, clientGot, gameGot, gOpen, proxyVars>>

(* The first packet a client sends is its authentication. *)
ClientSend(c, p) ==
  /\ pc[c] # "none" /\ clientAlive[c] /\ cOpen[c]
  /\ Len(clientSent[c]) =< MaxPackets
  /\ p = Auth <=> clientSent[c] = <<>>
  /\ clientSent' = [clientSent EXCEPT ![c] = Append(@, p)]
  /\ cFramer' = [cFramer EXCEPT ![c] = Append(@, p)]
  /\ UNCHANGED <<pc, gameSent, clientAlive, gameAlive, gFramer, clientGot,
                 gameGot, cOpen, gOpen, proxyVars>>

GameSend(c, p) ==
  /\ gOpen[c] /\ gameAlive[c]
  /\ Len(gameSent[c]) < MaxPackets
  /\ gameSent' = [gameSent EXCEPT ![c] = Append(@, p)]
  /\ gFramer' = [gFramer EXCEPT ![c] = Append(@, p)]
  /\ UNCHANGED <<pc, clientSent, clientAlive, gameAlive, cFramer, clientGot,
                 gameGot, cOpen, gOpen, proxyVars>>

ClientDies(c) ==
  /\ PeersMayDie
  /\ clientAlive' = [clientAlive EXCEPT ![c] = FALSE]
  /\ UNCHANGED <<pc, clientSent, gameSent, gameAlive, dataVars, proxyVars>>

(* Game servers end; they may always, once the context that ends Run has
   ended the commands that run them (LocalServers). *)
GameDies(c) ==
  /\ PeersMayDie \/ ~running
  /\ gameAlive' = [gameAlive EXCEPT ![c] = FALSE]
  /\ UNCHANGED <<pc, clientSent, gameSent, clientAlive, dataVars, proxyVars>>

-----------------------------------------------------------------------------
(***************************************************************************)
(* AMTCPProxy: listen puts connections into a channel, Run takes them out  *)
(* and starts a goroutine that calls Add, until its context is cancelled.  *)
(***************************************************************************)
Listen(c) ==
  /\ pc[c] = "dialed"
  /\ listening
  /\ Cardinality({d \in Conns : pc[d] = "queued"}) < ChanCap
  /\ Goto(c, "queued")
  /\ UNCHANGED <<peerVars, dataVars, proxyVars>>

Dispatch(c) ==
  /\ pc[c] = "queued"
  /\ running
  /\ Goto(c, "add")
  /\ UNCHANGED <<peerVars, dataVars, proxyVars>>

(* Add: the assertion, then the connection's goroutine. *)
Add(c) ==
  /\ pc[c] = "add"
  /\ ~closed
  /\ Goto(c, "auth")
  /\ UNCHANGED <<peerVars, dataVars, proxyVars>>

AddWhenClosed(c) ==
  /\ pc[c] = "add"
  /\ closed
  /\ exit' = "adding connections when the proxy has been closed"
  /\ UNCHANGED <<pc, peerVars, dataVars, listening, running, closed>>

RunDone ==
  /\ running
  /\ running' = FALSE
  /\ UNCHANGED <<pc, peerVars, dataVars, listening, closed, exit>>

(* AMTCPProxy.Close: the listener first, then AMProxy.Close. *)
CloseListener ==
  /\ listening
  /\ listening' = FALSE
  /\ UNCHANGED <<pc, peerVars, dataVars, running, closed, exit>>

CloseProxy ==
  /\ ~listening /\ ~closed
  /\ closed' = TRUE
  /\ UNCHANGED <<pc, peerVars, dataVars, listening, running, exit>>

-----------------------------------------------------------------------------
(***************************************************************************)
(* handleConnection.  The first packet, whatever it is, is consumed and    *)
(* accepted: authenticate returns nil.  The framer never closes its        *)
(* channel, so a client that leaves before is waited for forever.          *)
(***************************************************************************)
Authenticate(c) ==
  /\ pc[c] = "auth"
  /\ cFramer[c] # <<>>
  /\ cFramer' = [cFramer EXCEPT ![c] = Tail(@)]
  /\ Goto(c, "match")
  /\ UNCHANGED <<peerVars, gFramer, clientGot, gameGot, cOpen, gOpen, proxyVars>>

MatchMake(c) ==
  /\ pc[c] = "match"
  /\ Goto(c, "dial")
  /\ UNCHANGED <<peerVars, dataVars, proxyVars>>

(* matchmake asserts that a server was created and that its row is there. *)
MatchMakeEnds(c) ==
  /\ pc[c] = "match"
  /\ exit' = "no game server"
  /\ UNCHANGED <<pc, peerVars, dataVars, listening, running, closed>>

DialGame(c) ==
  /\ pc[c] = "dial"
  /\ gameAlive[c]
  /\ gOpen' = [gOpen EXCEPT ![c] = TRUE]
  /\ Goto(c, "respond")
  /\ UNCHANGED <<peerVars, cFramer, gFramer, clientGot, gameGot, cOpen, proxyVars>>

(* Mutant of DialGameFails: the client is not told. *)
DialGameFailsQuietly(c) ==
  /\ pc[c] = "dial"
  /\ ~gameAlive[c]
  /\ CloseWrapper(c)
  /\ Goto(c, "removed")
  /\ UNCHANGED <<peerVars, cFramer, gFramer, clientGot, gameGot, proxyVars>>

DialGameFails(c) ==
  /\ pc[c] = "dial"
  /\ ~gameAlive[c]
  /\ clientGot' = Reported(c)
  /\ CloseWrapper(c)
  /\ Goto(c, "removed")
  /\ UNCHANGED <<peerVars, cFramer, gFramer, gameGot, proxyVars>>

(* Mutant of Respond: the relay starts without the response. *)
RespondNothing(c) ==
  /\ pc[c] = "respond"
  /\ cOpen[c]
  /\ Goto(c, "relay")
  /\ UNCHANGED <<peerVars, cFramer, gFramer, clientGot, gameGot, cOpen, gOpen,
                 proxyVars>>

Respond(c) ==
  /\ pc[c] = "respond"
  /\ cOpen[c]
  /\ clientGot' = Got(clientGot, clientAlive, c, AuthResponse)
  /\ Goto(c, "relay")
  /\ UNCHANGED <<peerVars, cFramer, gFramer, gameGot, cOpen, gOpen, proxyVars>>

(* Mutant of RespondFails: only the client's connection is closed. *)
RespondFailsHalf(c) ==
  /\ pc[c] = "respond"
  /\ CanFail(cOpen, clientAlive, c)
  /\ cOpen' = [cOpen EXCEPT ![c] = FALSE]
  /\ Goto(c, "removed")
  /\ UNCHANGED <<peerVars, cFramer, gFramer, clientGot, gameGot, gOpen, proxyVars>>

RespondFails(c) ==
  /\ pc[c] = "respond"
  /\ CanFail(cOpen, clientAlive, c)
  /\ CloseWrapper(c)
  /\ Goto(c, "removed")
  /\ UNCHANGED <<peerVars, cFramer, gFramer, clientGot, gameGot, proxyVars>>

-----------------------------------------------------------------------------
(***************************************************************************)
(* handleConnectionLifecycles: relay a packet; a close packet, and a write *)
(* that fails, remove the connection.  The loop goes on all the same, and  *)
(* what is left in the channels is then written to closed connections.     *)
(***************************************************************************)

(* Mutant of RelayToGame: a close packet is passed on like any other. *)
RelayCloseToGame(c) ==
  /\ pc[c] = "relay"
  /\ cFramer[c] # <<>>
  /\ gOpen[c]
  /\ gameGot' = Got(gameGot, gameAlive, c, Head(cFramer[c]))
  /\ UNCHANGED <<cOpen, gOpen>>
  /\ cFramer' = [cFramer EXCEPT ![c] = Tail(@)]
  /\ UNCHANGED <<pc, peerVars, gFramer, clientGot, proxyVars>>

(* Mutant of RelayToGame: a close packet closes without being passed on. *)
RelayDropsClose(c) ==
  /\ pc[c] = "relay"
  /\ cFramer[c] # <<>>
  /\ gOpen[c]
  /\ IF Head(cFramer[c]) = Close
       THEN CloseWrapper(c) /\ UNCHANGED gameGot
       ELSE /\ gameGot' = Got(gameGot, gameAlive, c, Head(cFramer[c]))
            /\ UNCHANGED <<cOpen, gOpen>>
  /\ cFramer' = [cFramer EXCEPT ![c] = Tail(@)]
  /\ UNCHANGED <<pc, peerVars, gFramer, clientGot, proxyVars>>

RelayToGame(c) ==
  /\ pc[c] = "relay"
  /\ cFramer[c] # <<>>
  /\ gOpen[c]
  /\ gameGot' = Got(gameGot, gameAlive, c, Head(cFramer[c]))
  /\ IF Head(cFramer[c]) = Close THEN CloseWrapper(c) ELSE UNCHANGED <<cOpen, gOpen>>
  /\ cFramer' = [cFramer EXCEPT ![c] = Tail(@)]
  /\ UNCHANGED <<pc, peerVars, gFramer, clientGot, proxyVars>>

RelayToGameFails(c) ==
  /\ pc[c] = "relay"
  /\ cFramer[c] # <<>>
  /\ CanFail(gOpen, gameAlive, c)
  /\ clientGot' = Reported(c)
  /\ CloseWrapper(c)
  /\ cFramer' = [cFramer EXCEPT ![c] = Tail(@)]
  /\ UNCHANGED <<pc, peerVars, gFramer, gameGot, proxyVars>>

(* Mutant of RelayToClient: the packet goes back to where it came from. *)
RelayBackToGame(c) ==
  /\ pc[c] = "relay"
  /\ gFramer[c] # <<>>
  /\ gOpen[c]
  /\ gameGot' = Got(gameGot, gameAlive, c, Head(gFramer[c]))
  /\ gFramer' = [gFramer EXCEPT ![c] = Tail(@)]
  /\ UNCHANGED <<pc, peerVars, cFramer, clientGot, cOpen, gOpen, proxyVars>>

(* Mutant of RelayToClient: the packet stays at the head of its channel. *)
RelayToClientAgain(c) ==
  /\ pc[c] = "relay"
  /\ gFramer[c] # <<>>
  /\ cOpen[c]
  /\ Len(clientGot[c]) =< MaxPackets + 1
  /\ clientGot' = Got(clientGot, clientAlive, c, Head(gFramer[c]))
  /\ UNCHANGED <<pc, peerVars, cFramer, gFramer, gameGot, cOpen, gOpen, proxyVars>>

RelayToClient(c) ==
  /\ pc[c] = "relay"
  /\ gFramer[c] # <<>>
  /\ cOpen[c]
  /\ clientGot' = Got(clientGot, clientAlive, c, Head(gFramer[c]))
  /\ IF Head(gFramer[c]) = Close THEN CloseWrapper(c) ELSE UNCHANGED <<cOpen, gOpen>>
  /\ gFramer' = [gFramer EXCEPT ![c] = Tail(@)]
  /\ UNCHANGED <<pc, peerVars, cFramer, gameGot, proxyVars>>

RelayToClientFails(c) ==
  /\ pc[c] = "relay"
  /\ gFramer[c] # <<>>
  /\ CanFail(cOpen, clientAlive, c)
  /\ CloseWrapper(c)
  /\ gFramer' = [gFramer EXCEPT ![c] = Tail(@)]
  /\ UNCHANGED <<pc, peerVars, cFramer, clientGot, gameGot, proxyVars>>

(* A write blocks while its peer is there but does not read.  One          *)
(* goroutine writes in both directions, so neither goes on.                *)
RelayBlocks(c) ==
  /\ pc[c] = "relay"
  /\ \/ cFramer[c] # <<>> /\ gOpen[c] /\ gameAlive[c]
     \/ gFramer[c] # <<>> /\ cOpen[c] /\ clientAlive[c]
  /\ Goto(c, "blocked")
  /\ UNCHANGED <<peerVars, dataVars, proxyVars>>

RelayUnblocks(c) ==
  /\ pc[c] = "blocked"
  /\ Goto(c, "relay")
  /\ UNCHANGED <<peerVars, dataVars, proxyVars>>

-----------------------------------------------------------------------------
RelayStep(c) ==
  \/ RelayToGame(c) \/ RelayToGameFails(c)
  \/ RelayToClient(c) \/ RelayToClientFails(c)
  \/ RelayBlocks(c) \/ RelayUnblocks(c)

ProxyStep(c) ==
  \/ Listen(c) \/ Dispatch(c) \/ Add(c) \/ AddWhenClosed(c)
  \/ Authenticate(c) \/ DialGame(c) \/ DialGameFails(c)
  \/ Respond(c) \/ RespondFails(c)

MatchMakeStep(c) == MatchMake(c) \/ MatchMakeEnds(c)

PeerStep(c) ==
  \/ Connect(c)
  \/ \E p \in ClientPackets \cup {Auth} : ClientSend(c, p)
  \/ \E p \in GamePackets : GameSend(c, p)
  \/ ClientDies(c) \/ GameDies(c)

Next ==
  /\ exit = "none"
  /\ \/ \E c \in Conns :
          ProxyStep(c) \/ MatchMakeStep(c) \/ RelayStep(c) \/ PeerStep(c)
     \/ RunDone \/ CloseListener \/ CloseProxy

Spec == Init /\ [][Next]_vars

-----------------------------------------------------------------------------
(***************************************************************************)
(* Every variable has its type.                                            *)
(***************************************************************************)
TypeOK ==
  /\ pc \in [Conns -> Steps]
  /\ clientSent \in [Conns -> Seq(ClientPackets \cup {Auth})]
  /\ cFramer \in [Conns -> Seq(ClientPackets \cup {Auth})]
  /\ gameGot \in [Conns -> Seq(ClientPackets \cup {Auth})]
  /\ gameSent \in [Conns -> Seq(GamePackets)]
  /\ gFramer \in [Conns -> Seq(GamePackets)]
  /\ clientGot \in [Conns -> Seq(GamePackets \cup {AuthResponse, Error})]
  /\ cOpen \in [Conns -> BOOLEAN] /\ gOpen \in [Conns -> BOOLEAN]
  /\ clientAlive \in [Conns -> BOOLEAN] /\ gameAlive \in [Conns -> BOOLEAN]
  /\ listening \in BOOLEAN /\ running \in BOOLEAN /\ closed \in BOOLEAN
  /\ exit \in {"none", "no game server",
              "adding connections when the proxy has been closed"}

IsPrefixOf(s, t) == Len(s) =< Len(t) /\ \A i \in 1..Len(s) : s[i] = t[i]

(***************************************************************************)
(* The game server gets the client's packets after the first one, in order *)
(* and without gaps.  The client gets the auth response before any packet  *)
(* of the game, then the game's packets in order and without gaps, and an  *)
(* error at most as the last packet (handleConnection starts the relay     *)
(* only after the response).                                               *)
(***************************************************************************)
RelayedInOrder ==
  \A c \in Conns :
    /\ gameGot[c] # <<>> => IsPrefixOf(gameGot[c], Tail(clientSent[c]))
    /\ \A i \in 1..Len(clientGot[c]) :
         \/ clientGot[c][i] = Error /\ i = Len(clientGot[c])
         \/ clientGot[c][i] = AuthResponse /\ i = 1
         \/ i > 1 /\ i =< Len(gameSent[c]) + 1 /\ clientGot[c][i] = gameSent[c][i - 1]

(***************************************************************************)
(* No connection is left half open by the proxy: while it relays, both     *)
(* sides are open or both are closed; a connection that was given up has   *)
(* both sides closed (removeConnection).                                   *)
(***************************************************************************)
NoHalfOpen ==
  \A c \in Conns :
    /\ pc[c] \in {"relay", "blocked"} => cOpen[c] = gOpen[c]
    /\ pc[c] = "removed" => ~cOpen[c] /\ ~gOpen[c]

(***************************************************************************)
(* A close packet that was relayed is the last packet in that direction,   *)
(* and it has closed both connections.                                     *)
(***************************************************************************)
CloseIsLast ==
  \A c \in Conns :
    /\ \A i \in 1..Len(gameGot[c]) :
         gameGot[c][i] = Close => i = Len(gameGot[c]) /\ ~cOpen[c] /\ ~gOpen[c]
    /\ \A i \in 1..Len(clientGot[c]) :
         clientGot[c][i] = Close => i = Len(clientGot[c]) /\ ~cOpen[c] /\ ~gOpen[c]

-----------------------------------------------------------------------------
(***************************************************************************)
(* The proxy's goroutines run when they can, and select does not starve    *)
(* one of the two directions between two blocked writes (hence SF).        *)
(* Nothing is assumed of matchmaking, which may wait for ever              *)
(* (matchmaking.go:58, local.go:130), or of a blocked write, which ends    *)
(* only if its peer reads or goes.                                         *)
(***************************************************************************)
Alive(A) == exit = "none" /\ A

FairSpec ==
  /\ Spec
  /\ \A c \in Conns :
       /\ SF_vars(Alive(ProxyStep(c)))
       /\ SF_vars(Alive(RelayToGame(c) \/ RelayToGameFails(c)))
       /\ SF_vars(Alive(RelayToClient(c) \/ RelayToClientFails(c)))

StaysIn(c, step) == <>[](pc[c] = step)

(***************************************************************************)
(* The close packet of a client reaches its game server, which counts the  *)
(* connection off when it gets it, unless the game closed the connection,  *)
(* it was never accepted, a peer or the proxy has died before, matchmake   *)
(* never returns (the waiter of matchmaking.go:58, the row awaited at      *)
(* local.go:130), or the relay stays blocked in a write, in whichever      *)
(* direction (am-proxy.go:160-189).                                        *)
(***************************************************************************)
CloseArrives ==
  \A c \in Conns :
    \/ StaysIn(c, "match") \/ StaysIn(c, "blocked")
    \/ (\E i \in 1..Len(clientSent[c]) : clientSent[c][i] = Close) ~>
         \/ \E i \in 1..Len(gameGot[c]) : gameGot[c][i] = Close
         \/ \E i \in 1..Len(clientGot[c]) : clientGot[c][i] = Close
         \/ pc[c] = "dialed" /\ ~listening
         \/ pc[c] \in {"dialed", "queued"} /\ ~running
         \/ ~clientAlive[c] \/ ~gameAlive[c] \/ exit # "none"

(***************************************************************************)
(* A client that has sent its authentication is answered, with the         *)
(* response or with an error (handleConnection, removeConnection), unless  *)
(* it was never accepted, it or the proxy has died before, or matchmake    *)
(* never returns (matchmaking.go:58, local.go:130).  Connect in            *)
(* pkg/api/client.go waits for this answer without a limit.                *)
(***************************************************************************)
ClientAnswered ==
  \A c \in Conns :
    \/ StaysIn(c, "match")
    \/ clientSent[c] # <<>> ~>
         \/ clientGot[c] # <<>>
         \/ pc[c] = "dialed" /\ ~listening
         \/ pc[c] \in {"dialed", "queued"} /\ ~running
         \/ ~clientAlive[c] \/ exit # "none"
=============================================================================
