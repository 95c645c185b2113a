---------------------------- MODULE AMProxyProofs ----------------------------
(***************************************************************************)
(* Proofs about AMProxy: its type, the order in which it relays packets,   *)
(* and what it closes, for any number of connections, any packets and any  *)
(* bounds.                                                                 *)
(***************************************************************************)
EXTENDS AMProxy, SequenceTheorems, TLAPS

(***************************************************************************)
(* f holds the last elements of s: what has been sent and not received.    *)
(***************************************************************************)
IsSuffixOf(f, s) ==
  /\ Len(f) =< Len(s)
  /\ \A i \in 1..Len(f) : f[i] = s[Len(s) - Len(f) + i]

Waiting == {"none", "dialed", "queued", "add", "auth"}
Before == Waiting \cup {"match", "dial", "respond"}
Relaying == {"relay", "blocked"}

(***************************************************************************)
(* Which ends are open where.                                              *)
(***************************************************************************)
EndsInv(c) ==
  /\ pc[c] \in Before \ {"none"} => cOpen[c]
  /\ gOpen[c] => pc[c] \in {"respond"} \cup Relaying
  /\ pc[c] = "respond" => gOpen[c]
  /\ pc[c] \in Relaying => cOpen[c] = gOpen[c]
  /\ pc[c] = "removed" => ~cOpen[c] /\ ~gOpen[c]

(* How many packets of each side the proxy has received. *)
FromClient(c) == Len(clientSent[c]) - Len(cFramer[c])
FromGame(c) == Len(gameSent[c]) - Len(gFramer[c])

(***************************************************************************)
(* From the client to the game server: one packet is consumed by the       *)
(* authentication; as long as the server is there, it has got exactly the  *)
(* rest of what the proxy has received...                                  *)
(***************************************************************************)
ToGameInv(c) ==
  /\ IsSuffixOf(cFramer[c], clientSent[c])
  /\ pc[c] \in Waiting => FromClient(c) = 0
  /\ pc[c] \notin Waiting => FromClient(c) >= 1
  /\ pc[c] \in Before \ Waiting => FromClient(c) = 1
  /\ pc[c] \notin Relaying => Len(gameGot[c]) = 0
  /\ pc[c] \in Relaying /\ gOpen[c] /\ gameAlive[c]
       => FromClient(c) = Len(gameGot[c]) + 1
  /\ Len(gameGot[c]) > 0 => FromClient(c) >= Len(gameGot[c]) + 1

(* ... packet by packet. *)
GameGotInv(c) ==
  \A i \in 1..Len(gameGot[c]) : gameGot[c][i] = clientSent[c][i + 1]

(***************************************************************************)
(* From the game server to the client: as long as the client is there, it  *)
(* has got the response and exactly what the proxy has received...         *)
(***************************************************************************)
ToClientInv(c) ==
  /\ IsSuffixOf(gFramer[c], gameSent[c])
  /\ pc[c] \in Before => FromGame(c) = 0 /\ Len(clientGot[c]) = 0
  /\ pc[c] \in Relaying /\ cOpen[c] /\ clientAlive[c]
       => Len(clientGot[c]) = FromGame(c) + 1

(* ... packet by packet. *)
ClientGotInv(c) ==
  \A i \in 1..Len(clientGot[c]) :
    \/ clientGot[c][i] = Error /\ i = Len(clientGot[c]) /\ ~cOpen[c]
    \/ clientGot[c][i] = AuthResponse /\ i = 1
    \/ /\ i > 1 /\ i =< Len(gameSent[c]) + 1
       /\ clientGot[c][i] = gameSent[c][i - 1]

(***************************************************************************)
(* CloseIsLast of one connection.                                          *)
(***************************************************************************)
CloseInv(c) ==
  /\ \A i \in 1..Len(gameGot[c]) :
       gameGot[c][i] = Close => i = Len(gameGot[c]) /\ ~cOpen[c] /\ ~gOpen[c]
  /\ \A i \in 1..Len(clientGot[c]) :
       clientGot[c][i] = Close
         => i = Len(clientGot[c]) /\ ~cOpen[c] /\ ~gOpen[c]

ConnInv(c) ==
  /\ EndsInv(c)
  /\ ToGameInv(c) /\ GameGotInv(c)
  /\ ToClientInv(c) /\ ClientGotInv(c)
  /\ CloseInv(c)

IInv == TypeOK /\ \A c \in Conns : ConnInv(c)

-----------------------------------------------------------------------------
USE DEF Goto, peerVars, proxyVars, dataVars, CloseWrapper, Steps,
        Waiting, Before, Relaying

(***************************************************************************)
(* Types.                                                                  *)
(***************************************************************************)

(* A family of sequences keeps its type when one of them grows... *)
LEMMA AppendType ==
  ASSUME NEW S, NEW f \in [Conns -> Seq(S)], NEW c \in Conns, NEW e \in S
  PROVE  [f EXCEPT ![c] = Append(@, e)] \in [Conns -> Seq(S)]
<1>1. Append(f[c], e) \in Seq(S)
  BY AppendProperties
<1> QED BY <1>1

(* ... or loses its head. *)
LEMMA TailType ==
  ASSUME NEW S, NEW f \in [Conns -> Seq(S)], NEW c \in Conns, f[c] # <<>>
  PROVE  /\ [f EXCEPT ![c] = Tail(@)] \in [Conns -> Seq(S)]
         /\ Head(f[c]) \in S
<1>1. Tail(f[c]) \in Seq(S) /\ Head(f[c]) \in S
  BY HeadTailProperties
<1> QED BY <1>1

(* A write keeps the type of what a peer has got. *)
LEMMA GotType ==
  ASSUME NEW S, NEW f \in [Conns -> Seq(S)], NEW alive, NEW c \in Conns,
         NEW p \in S
  PROVE  Got(f, alive, c, p) \in [Conns -> Seq(S)]
  BY AppendType DEF Got

(* The initial sequences. *)
LEMMA EmptyType ==
  ASSUME NEW S
  PROVE  [c \in Conns |-> <<>>] \in [Conns -> Seq(S)]
  BY EmptySeq

(* What the peers do keeps the type. *)
LEMMA PeerStepType ==
  ASSUME TypeOK, NEW c \in Conns, PeerStep(c)
  PROVE  TypeOK'
<1> USE DEF TypeOK
<1>1. CASE Connect(c)
  BY <1>1 DEF Connect
<1>2. ASSUME NEW p \in ClientPackets \cup {Auth}, ClientSend(c, p)
      PROVE  TypeOK'
  BY <1>2, AppendType DEF ClientSend
<1>3. ASSUME NEW p \in GamePackets, GameSend(c, p)
      PROVE  TypeOK'
  BY <1>3, AppendType DEF GameSend
<1>4. CASE ClientDies(c)
  BY <1>4 DEF ClientDies
<1>5. CASE GameDies(c)
  BY <1>5 DEF GameDies
<1> QED BY <1>1, <1>2, <1>3, <1>4, <1>5 DEF PeerStep

(* What a connection's goroutine does before the relay keeps the type. *)
LEMMA ProxyStepType ==
  ASSUME TypeOK, NEW c \in Conns, ProxyStep(c)
  PROVE  TypeOK'
<1> USE DEF TypeOK
<1>1. CASE Listen(c)
  BY <1>1 DEF Listen
<1>2. CASE Dispatch(c)
  BY <1>2 DEF Dispatch
<1>3. CASE Add(c)
  BY <1>3 DEF Add
<1>4. CASE AddWhenClosed(c)
  BY <1>4 DEF AddWhenClosed
<1>5. CASE Authenticate(c)
  BY <1>5, TailType DEF Authenticate
<1>7. CASE DialGame(c)
  BY <1>7 DEF DialGame
<1>8. CASE DialGameFails(c)
  BY <1>8, GotType DEF DialGameFails, Reported
<1>9. CASE Respond(c)
  BY <1>9, GotType DEF Respond
<1>10. CASE RespondFails(c)
  BY <1>10 DEF RespondFails
<1> QED BY <1>1, <1>2, <1>3, <1>4, <1>5, <1>7, <1>8, <1>9, <1>10
        DEF ProxyStep

(* Matchmaking keeps the type. *)
LEMMA MatchMakeStepType ==
  ASSUME TypeOK, NEW c \in Conns, MatchMakeStep(c)
  PROVE  TypeOK'
<1> USE DEF TypeOK
<1>1. CASE MatchMake(c)
  BY <1>1 DEF MatchMake
<1>2. CASE MatchMakeEnds(c)
  BY <1>2 DEF MatchMakeEnds
<1> QED BY <1>1, <1>2 DEF MatchMakeStep

(* The relay keeps the type. *)
LEMMA RelayStepType ==
  ASSUME TypeOK, NEW c \in Conns, RelayStep(c)
  PROVE  TypeOK'
<1> USE DEF TypeOK
<1>1. CASE RelayToGame(c)
  BY <1>1, TailType, GotType DEF RelayToGame
<1>2. CASE RelayToGameFails(c)
  BY <1>2, TailType, GotType DEF RelayToGameFails, Reported
<1>3. CASE RelayToClient(c)
  <2>1. Head(gFramer[c]) \in GamePackets \cup {AuthResponse, Error}
    BY <1>3, TailType DEF RelayToClient
  <2> QED BY <1>3, <2>1, TailType, GotType DEF RelayToClient
<1>4. CASE RelayToClientFails(c)
  BY <1>4, TailType, GotType DEF RelayToClientFails
<1>5. CASE RelayBlocks(c)
  BY <1>5 DEF RelayBlocks
<1>6. CASE RelayUnblocks(c)
  BY <1>6 DEF RelayUnblocks
<1> QED BY <1>1, <1>2, <1>3, <1>4, <1>5, <1>6 DEF RelayStep

(* Every step keeps the type. *)
LEMMA NextType ==
  TypeOK /\ [Next]_vars => TypeOK'
<1> SUFFICES ASSUME TypeOK, [Next]_vars PROVE TypeOK'
  OBVIOUS
<1>1. CASE UNCHANGED vars
  BY <1>1 DEF vars, TypeOK
<1>2. CASE RunDone \/ CloseListener \/ CloseProxy
  BY <1>2 DEF RunDone, CloseListener, CloseProxy, TypeOK
<1> QED BY <1>1, <1>2, PeerStepType, ProxyStepType, MatchMakeStepType,
        RelayStepType DEF Next

(* The initial state is well typed. *)
LEMMA InitType ==
  Init => TypeOK
  BY EmptyType DEF Init, TypeOK

(* TypeOK always holds, for every value of the constants. *)
THEOREM TypeCorrect ==
  Spec => []TypeOK
  BY InitType, NextType, PTL DEF Spec

-----------------------------------------------------------------------------
(***************************************************************************)
(* Sequences.                                                              *)
(***************************************************************************)

(* What is sent is the last element of both what was sent and what was not
   yet received. *)
LEMMA SuffixSend ==
  ASSUME NEW S, NEW f \in Seq(S), NEW s \in Seq(S), NEW e \in S,
         IsSuffixOf(f, s)
  PROVE  IsSuffixOf(Append(f, e), Append(s, e))
<1> DEFINE ff == Append(f, e)
           ss == Append(s, e)
<1>1. /\ Len(ff) = Len(f) + 1 /\ ff[Len(f) + 1] = e
      /\ \A i \in 1..Len(f) : ff[i] = f[i]
  BY AppendProperties
<1>2. /\ Len(ss) = Len(s) + 1 /\ ss[Len(s) + 1] = e
      /\ \A i \in 1..Len(s) : ss[i] = s[i]
  BY AppendProperties
<1>3. Len(f) \in Nat /\ Len(s) \in Nat
  BY LenProperties
<1> SUFFICES IsSuffixOf(ff, ss)
  OBVIOUS
<1> HIDE DEF ff, ss
<1>4. ASSUME NEW i \in 1..Len(ff)
      PROVE  ff[i] = ss[Len(ss) - Len(ff) + i]
  <2>1. CASE i = Len(f) + 1
    <3>1. Len(ss) - Len(ff) + i = Len(s) + 1
      BY <2>1, <1>1, <1>2, <1>3
    <3> QED BY <2>1, <3>1, <1>1, <1>2
  <2>2. CASE i \in 1..Len(f)
    <3>1. /\ Len(ss) - Len(ff) + i = Len(s) - Len(f) + i
          /\ Len(s) - Len(f) + i \in 1..Len(s)
      BY <2>2, <1>1, <1>2, <1>3 DEF IsSuffixOf
    <3> QED BY <2>2, <3>1, <1>1, <1>2 DEF IsSuffixOf
  <2> QED BY <2>1, <2>2, <1>1, <1>3
<1> QED BY <1>1, <1>2, <1>3, <1>4 DEF IsSuffixOf

(* The number of elements received is between zero and the number sent. *)
LEMMA ReceivedType ==
  ASSUME NEW S, NEW f \in Seq(S), NEW s \in Seq(S), IsSuffixOf(f, s)
  PROVE  /\ Len(s) - Len(f) \in Nat
         /\ Len(s) - Len(f) =< Len(s)
<1> DEFINE m == Len(f)
           n == Len(s)
<1>1. m \in Nat /\ n \in Nat /\ m =< n
  BY LenProperties DEF IsSuffixOf
<1> HIDE DEF m, n
<1>2. n - m \in Nat /\ n - m =< n
  BY <1>1
<1> QED BY <1>2 DEF m, n

(* What is received is the first element sent and not yet received. *)
LEMMA SuffixReceive ==
  ASSUME NEW S, NEW f \in Seq(S), NEW s \in Seq(S), f # <<>>,
         IsSuffixOf(f, s)
  PROVE  /\ IsSuffixOf(Tail(f), s)
         /\ Len(s) - Len(Tail(f)) = Len(s) - Len(f) + 1
         /\ Len(s) - Len(f) + 1 =< Len(s)
         /\ Head(f) = s[Len(s) - Len(f) + 1]
<1> DEFINE t == Tail(f)
           k == Len(t)
           m == Len(f)
           n == Len(s)
<1>1. k = m - 1 /\ \A i \in 1..k : t[i] = f[i + 1]
  BY HeadTailProperties
<1>2. m \in Nat \ {0} /\ n \in Nat /\ m =< n
  BY EmptySeq, LenProperties DEF IsSuffixOf
<1>3. Head(f) = f[1]
  BY <1>2, SubSeqFull, HeadTailOfSubSeq
<1>4. \A i \in 1..m : f[i] = s[n - m + i]
  BY DEF IsSuffixOf
<1> HIDE DEF t, k, m, n
<1>5. k =< n /\ n - k = n - m + 1 /\ n - m + 1 =< n
  BY <1>1, <1>2
<1>6. Head(f) = s[n - m + 1]
  BY <1>2, <1>3, <1>4
<1>7. ASSUME NEW i \in 1..k PROVE t[i] = s[n - k + i]
  <2>1. i + 1 \in 1..m /\ n - m + (i + 1) = n - k + i
    BY <1>1, <1>2
  <2> QED BY <2>1, <1>1, <1>4
<1> QED BY <1>5, <1>6, <1>7 DEF IsSuffixOf, t, k, m, n

(* What a sequence holds after Append. *)
LEMMA Appended ==
  ASSUME NEW S, NEW s \in Seq(S), NEW e \in S
  PROVE  /\ Len(s) \in Nat /\ Len(Append(s, e)) = Len(s) + 1
         /\ Append(s, e)[Len(s) + 1] = e
         /\ \A i \in 1..Len(s) : Append(s, e)[i] = s[i]
  BY AppendProperties, LenProperties

-----------------------------------------------------------------------------
(***************************************************************************)
(* A step of one connection leaves the others alone.                       *)
(***************************************************************************)
Untouched(c) ==
  /\ pc'[c] = pc[c]
  /\ clientSent'[c] = clientSent[c] /\ gameSent'[c] = gameSent[c]
  /\ cFramer'[c] = cFramer[c] /\ gFramer'[c] = gFramer[c]
  /\ clientGot'[c] = clientGot[c] /\ gameGot'[c] = gameGot[c]
  /\ cOpen'[c] = cOpen[c] /\ gOpen'[c] = gOpen[c]
  /\ clientAlive'[c] = clientAlive[c] /\ gameAlive'[c] = gameAlive[c]

(* An untouched connection keeps its invariant. *)
LEMMA UntouchedInv ==
  ASSUME NEW c \in Conns, ConnInv(c), Untouched(c)
  PROVE  ConnInv(c)'
<1> USE DEF Untouched
<1>1. EndsInv(c)'
  BY DEF ConnInv, EndsInv
<1>2. ToGameInv(c)' /\ GameGotInv(c)'
  BY DEF ConnInv, ToGameInv, GameGotInv, IsSuffixOf, FromClient
<1>3. ToClientInv(c)' /\ ClientGotInv(c)'
  BY DEF ConnInv, ToClientInv, ClientGotInv, IsSuffixOf, FromGame
<1>4. CloseInv(c)'
  BY DEF ConnInv, CloseInv
<1> QED BY <1>1, <1>2, <1>3, <1>4 DEF ConnInv

(* The steps of another connection touch nothing of c. *)
LEMMA OthersUntouched ==
  ASSUME TypeOK, NEW c \in Conns, NEW d \in Conns, c # d,
         ProxyStep(d) \/ MatchMakeStep(d) \/ RelayStep(d) \/ PeerStep(d)
  PROVE  Untouched(c)
<1> USE DEF TypeOK, Untouched, Got, Reported
<1>1. CASE PeerStep(d)
  BY <1>1 DEF PeerStep, Connect, ClientSend, GameSend, ClientDies, GameDies
<1>2. CASE Listen(d) \/ Dispatch(d) \/ Add(d) \/ AddWhenClosed(d)
             \/ Authenticate(d) \/ MatchMakeStep(d)
  BY <1>2 DEF Listen, Dispatch, Add, AddWhenClosed, Authenticate,
              MatchMakeStep, MatchMake, MatchMakeEnds
<1>3. CASE DialGame(d) \/ DialGameFails(d) \/ Respond(d) \/ RespondFails(d)
  BY <1>3 DEF DialGame, DialGameFails, Respond, RespondFails
<1>4. CASE RelayStep(d)
  BY <1>4 DEF RelayStep, RelayToGame, RelayToGameFails, RelayToClient,
              RelayToClientFails, RelayBlocks, RelayUnblocks
<1> QED BY <1>1, <1>2, <1>3, <1>4 DEF ProxyStep

-----------------------------------------------------------------------------
(***************************************************************************)
(* The steps of a connection keep its invariant.                           *)
(***************************************************************************)

(* Steps that move only pc, or only end a peer. *)
LEMMA QuietStepInv ==
  ASSUME TypeOK, NEW c \in Conns, ConnInv(c),
         \/ Connect(c) \/ Listen(c) \/ Dispatch(c) \/ Add(c)
         \/ AddWhenClosed(c) \/ MatchMakeStep(c) \/ DialGame(c)
         \/ RelayBlocks(c) \/ RelayUnblocks(c)
         \/ ClientDies(c) \/ GameDies(c)
  PROVE  ConnInv(c)'
<1>1. /\ Len(clientGot[c]) \in Nat /\ Len(gameGot[c]) \in Nat
      /\ clientGot'[c] = clientGot[c] /\ gameGot'[c] = gameGot[c]
      /\ clientSent'[c] = clientSent[c] /\ gameSent'[c] = gameSent[c]
      /\ cFramer'[c] = cFramer[c] /\ gFramer'[c] = gFramer[c]
  BY LenProperties
     DEF TypeOK, Connect, Listen, Dispatch, Add, AddWhenClosed, MatchMakeStep,
         MatchMake, MatchMakeEnds, DialGame, RelayBlocks, RelayUnblocks,
         ClientDies, GameDies
<1>2. \/ /\ pc'[c] = pc[c]
         /\ cOpen'[c] = cOpen[c] /\ gOpen'[c] = gOpen[c]
         /\ clientAlive'[c] => clientAlive[c]
         /\ gameAlive'[c] => gameAlive[c]
      \/ /\ pc[c] \in Waiting /\ pc'[c] \in Waiting \ {"none"}
         /\ IF pc[c] = "none" THEN cOpen'[c] = TRUE ELSE cOpen'[c] = cOpen[c]
         /\ gOpen'[c] = gOpen[c]
      \/ /\ pc[c] = "match" /\ pc'[c] = "dial"
         /\ cOpen'[c] = cOpen[c] /\ gOpen'[c] = gOpen[c]
      \/ /\ pc[c] = "dial" /\ pc'[c] = "respond"
         /\ cOpen'[c] = cOpen[c] /\ gOpen'[c] = TRUE
      \/ /\ pc[c] \in Relaying /\ pc'[c] \in Relaying
         /\ cOpen'[c] = cOpen[c] /\ gOpen'[c] = gOpen[c]
         /\ clientAlive'[c] = clientAlive[c] /\ gameAlive'[c] = gameAlive[c]
  <2>1. CASE Connect(c)
    BY <2>1 DEF TypeOK, Connect
  <2>2. CASE Listen(c) \/ Dispatch(c) \/ Add(c)
    BY <2>2 DEF TypeOK, Listen, Dispatch, Add
  <2>5. CASE AddWhenClosed(c) \/ MatchMakeEnds(c)
    BY <2>5 DEF TypeOK, AddWhenClosed, MatchMakeEnds
  <2>6. CASE RelayBlocks(c) \/ RelayUnblocks(c)
    BY <2>6 DEF TypeOK, RelayBlocks, RelayUnblocks
  <2>3. CASE MatchMake(c) \/ DialGame(c)
    BY <2>3 DEF TypeOK, MatchMake, DialGame
  <2>4. CASE ClientDies(c) \/ GameDies(c)
    BY <2>4 DEF TypeOK, ClientDies, GameDies
  <2> QED BY <2>1, <2>2, <2>3, <2>4, <2>5, <2>6 DEF MatchMakeStep
<1>3. EndsInv(c)'
  BY <1>2 DEF ConnInv, EndsInv
<1>4. ToGameInv(c)' /\ GameGotInv(c)'
  BY <1>1, <1>2 DEF ConnInv, ToGameInv, GameGotInv, IsSuffixOf, EndsInv,
                        FromClient
<1>5. ToClientInv(c)' /\ ClientGotInv(c)'
  <2>1. ToClientInv(c)'
    BY <1>1, <1>2 DEF ConnInv, ToClientInv, IsSuffixOf, FromGame
  <2>2. CASE Len(clientGot[c]) = 0
    BY <2>1, <2>2, <1>1 DEF ClientGotInv
  <2>3. CASE cOpen'[c] = cOpen[c]
    BY <2>1, <2>3, <1>1 DEF ConnInv, ClientGotInv
  <2> QED BY <2>2, <2>3, <1>2 DEF ConnInv, ToClientInv
<1>6. CloseInv(c)'
  <2>1. CASE Len(clientGot[c]) = 0 /\ Len(gameGot[c]) = 0
    BY <2>1, <1>1 DEF CloseInv
  <2>2. CASE cOpen'[c] = cOpen[c] /\ gOpen'[c] = gOpen[c]
    BY <2>2, <1>1 DEF ConnInv, CloseInv
  <2> QED BY <2>1, <2>2, <1>2 DEF ConnInv, ToGameInv, ToClientInv
<1> QED BY <1>3, <1>4, <1>5, <1>6 DEF ConnInv

(* A packet of the client. *)
LEMMA ClientSendInv ==
  ASSUME TypeOK, NEW c \in Conns, ConnInv(c),
         NEW p \in ClientPackets \cup {Auth}, ClientSend(c, p)
  PROVE  ConnInv(c)'
<1>1. /\ cFramer[c] \in Seq(ClientPackets \cup {Auth})
      /\ clientSent[c] \in Seq(ClientPackets \cup {Auth})
      /\ gameGot[c] \in Seq(ClientPackets \cup {Auth})
      /\ cFramer'[c] = Append(cFramer[c], p)
      /\ clientSent'[c] = Append(clientSent[c], p)
  BY DEF TypeOK, ClientSend
<1>2. /\ Len(cFramer[c]) \in Nat /\ Len(cFramer'[c]) = Len(cFramer[c]) + 1
      /\ Len(clientSent[c]) \in Nat
      /\ Len(clientSent'[c]) = Len(clientSent[c]) + 1
      /\ Len(gameGot[c]) \in Nat
  BY <1>1, Appended, LenProperties
<1>3. \A i \in 1..Len(clientSent[c]) : clientSent'[c][i] = clientSent[c][i]
  BY <1>1, Appended
<1>4. IsSuffixOf(cFramer[c], clientSent[c])'
  BY <1>1, SuffixSend DEF ConnInv, ToGameInv
<1>5. FromClient(c)' = FromClient(c)
  BY <1>2 DEF FromClient
<1>6. /\ pc'[c] = pc[c] /\ cOpen'[c] = cOpen[c] /\ gOpen'[c] = gOpen[c]
      /\ gameAlive'[c] = gameAlive[c] /\ gameGot'[c] = gameGot[c]
  BY DEF ClientSend
<1>7. ToGameInv(c)'
  BY <1>4, <1>5, <1>6 DEF ConnInv, ToGameInv
<1>8. GameGotInv(c)'
  <2> SUFFICES ASSUME NEW i \in 1..Len(gameGot[c])
               PROVE  gameGot[c][i] = clientSent'[c][i + 1]
    BY <1>6 DEF GameGotInv
  <2>1. FromClient(c) \in Nat /\ FromClient(c) =< Len(clientSent[c])
    <3>1. IsSuffixOf(cFramer[c], clientSent[c])
      BY DEF ConnInv, ToGameInv
    <3> QED BY <1>1, <3>1, ReceivedType DEF FromClient
  <2>2. Len(gameGot[c]) > 0
    BY <1>2
  <2>3. FromClient(c) >= Len(gameGot[c]) + 1
    BY <2>2 DEF ConnInv, ToGameInv
  <2>4. i + 1 \in 1..Len(clientSent[c])
    BY <2>1, <2>3, <1>2
  <2> QED BY <2>4, <1>3 DEF ConnInv, GameGotInv
<1>9. EndsInv(c)' /\ CloseInv(c)'
  BY <1>6 DEF ClientSend, ConnInv, EndsInv, CloseInv
<1>10. ToClientInv(c)' /\ ClientGotInv(c)'
  BY DEF ClientSend, ConnInv, ToClientInv, ClientGotInv, IsSuffixOf, FromGame
<1> QED BY <1>7, <1>8, <1>9, <1>10 DEF ConnInv

(* A packet of the game server. *)
LEMMA GameSendInv ==
  ASSUME TypeOK, NEW c \in Conns, ConnInv(c),
         NEW p \in GamePackets, GameSend(c, p)
  PROVE  ConnInv(c)'
<1>1. /\ gFramer[c] \in Seq(GamePackets) /\ gameSent[c] \in Seq(GamePackets)
      /\ clientGot[c] \in Seq(GamePackets \cup {AuthResponse, Error})
      /\ gFramer'[c] = Append(gFramer[c], p)
      /\ gameSent'[c] = Append(gameSent[c], p)
  BY DEF TypeOK, GameSend
<1>2. /\ Len(gFramer[c]) \in Nat /\ Len(gFramer'[c]) = Len(gFramer[c]) + 1
      /\ Len(gameSent[c]) \in Nat
      /\ Len(gameSent'[c]) = Len(gameSent[c]) + 1
      /\ Len(clientGot[c]) \in Nat
  BY <1>1, Appended, LenProperties
<1>3. \A i \in 1..Len(gameSent[c]) : gameSent'[c][i] = gameSent[c][i]
  BY <1>1, Appended
<1>4. IsSuffixOf(gFramer[c], gameSent[c])'
  BY <1>1, SuffixSend DEF ConnInv, ToClientInv
<1>5. FromGame(c)' = FromGame(c)
  BY <1>2 DEF FromGame
<1>6. /\ pc'[c] = pc[c] /\ cOpen'[c] = cOpen[c] /\ gOpen'[c] = gOpen[c]
      /\ clientAlive'[c] = clientAlive[c] /\ clientGot'[c] = clientGot[c]
  BY DEF GameSend
<1>7. ToClientInv(c)'
  BY <1>4, <1>5, <1>6 DEF ConnInv, ToClientInv
<1>8. ClientGotInv(c)'
  <2>1. ASSUME NEW i \in 1..Len(clientGot[c]),
               i > 1 /\ i =< Len(gameSent[c]) + 1
        PROVE  /\ i =< Len(gameSent'[c]) + 1
               /\ gameSent'[c][i - 1] = gameSent[c][i - 1]
    <3>1. i - 1 \in 1..Len(gameSent[c])
      BY <2>1, <1>2
    <3> QED BY <3>1, <2>1, <1>2, <1>3
  <2> QED BY <2>1, <1>6 DEF ConnInv, ClientGotInv
<1>9. EndsInv(c)' /\ CloseInv(c)'
  BY <1>6 DEF GameSend, ConnInv, EndsInv, CloseInv
<1>10. ToGameInv(c)' /\ GameGotInv(c)'
  BY DEF GameSend, ConnInv, ToGameInv, GameGotInv, IsSuffixOf, FromClient
<1> QED BY <1>7, <1>8, <1>9, <1>10 DEF ConnInv

(* What the proxy has received grows by the first packet of the framer. *)
LEMMA ReceiveFromClient ==
  ASSUME TypeOK, NEW c \in Conns, ConnInv(c), cFramer[c] # <<>>,
         cFramer'[c] = Tail(cFramer[c]), clientSent'[c] = clientSent[c]
  PROVE  /\ IsSuffixOf(cFramer[c], clientSent[c])'
         /\ FromClient(c) \in Nat /\ FromClient(c)' = FromClient(c) + 1
         /\ Head(cFramer[c]) = clientSent[c][FromClient(c) + 1]
         /\ FromClient(c) + 1 =< Len(clientSent[c])
<1>1. /\ cFramer[c] \in Seq(ClientPackets \cup {Auth})
      /\ clientSent[c] \in Seq(ClientPackets \cup {Auth})
      /\ IsSuffixOf(cFramer[c], clientSent[c])
  BY DEF TypeOK, ConnInv, ToGameInv
<1> QED BY <1>1, SuffixReceive, ReceivedType DEF FromClient

LEMMA ReceiveFromGame ==
  ASSUME TypeOK, NEW c \in Conns, ConnInv(c), gFramer[c] # <<>>,
         gFramer'[c] = Tail(gFramer[c]), gameSent'[c] = gameSent[c]
  PROVE  /\ IsSuffixOf(gFramer[c], gameSent[c])'
         /\ FromGame(c) \in Nat /\ FromGame(c)' = FromGame(c) + 1
         /\ Head(gFramer[c]) = gameSent[c][FromGame(c) + 1]
         /\ FromGame(c) + 1 =< Len(gameSent[c])
<1>1. /\ gFramer[c] \in Seq(GamePackets) /\ gameSent[c] \in Seq(GamePackets)
      /\ IsSuffixOf(gFramer[c], gameSent[c])
  BY DEF TypeOK, ConnInv, ToClientInv
<1> QED BY <1>1, SuffixReceive, ReceivedType DEF FromGame

(* The first packet is consumed. *)
LEMMA AuthenticateInv ==
  ASSUME TypeOK, NEW c \in Conns, ConnInv(c), Authenticate(c)
  PROVE  ConnInv(c)'
<1> USE DEF Authenticate
<1>1. /\ cFramer[c] # <<>> /\ cFramer'[c] = Tail(cFramer[c])
      /\ clientSent'[c] = clientSent[c] /\ gameGot'[c] = gameGot[c]
      /\ pc[c] = "auth" /\ pc'[c] = "match"
  BY DEF TypeOK
<1>2. ToGameInv(c)'
  BY <1>1, ReceiveFromClient DEF ConnInv, ToGameInv
<1>3. GameGotInv(c)'
  BY <1>1 DEF ConnInv, GameGotInv
<1>4. ToClientInv(c)' /\ ClientGotInv(c)'
  BY <1>1 DEF ConnInv, ToClientInv, ClientGotInv, IsSuffixOf, FromGame
<1>5. EndsInv(c)' /\ CloseInv(c)'
  BY <1>1 DEF ConnInv, EndsInv, CloseInv
<1> QED BY <1>2, <1>3, <1>4, <1>5 DEF ConnInv

(* What a client that had got nothing has got after a write. *)
LEMMA FirstGot ==
  ASSUME NEW S, NEW s \in Seq(S), NEW e \in S, Len(s) = 0
  PROVE  Len(Append(s, e)) = 1 /\ Append(s, e)[1] = e
  BY Appended

(* A client that has now got at most one packet, not a close packet. *)
LEMMA OneGot ==
  ASSUME NEW c \in Conns,
         \/ Len(clientGot'[c]) = 0
         \/ /\ Len(clientGot'[c]) = 1
            /\ \/ clientGot'[c][1] = AuthResponse
               \/ clientGot'[c][1] = Error /\ ~cOpen'[c]
  PROVE  /\ ClientGotInv(c)'
         /\ \A i \in 1..Len(clientGot'[c]) : clientGot'[c][i] # Close
<1>1. CASE Len(clientGot'[c]) = 0
  BY <1>1 DEF ClientGotInv
<1>2. CASE Len(clientGot'[c]) = 1
  <2>1. \A i \in 1..Len(clientGot'[c]) : i = 1
    BY <1>2
  <2> QED BY <1>2, <2>1 DEF ClientGotInv, Close, AuthResponse, Error
<1> QED BY <1>1, <1>2

(* A failed dial, and a failed response: both connections are closed. *)
LEMMA GiveUpInv ==
  ASSUME TypeOK, NEW c \in Conns, ConnInv(c),
         DialGameFails(c) \/ RespondFails(c)
  PROVE  ConnInv(c)'
<1>1. /\ pc[c] \in {"dial", "respond"} /\ pc'[c] = "removed"
      /\ cOpen'[c] = FALSE /\ gOpen'[c] = FALSE
      /\ clientSent'[c] = clientSent[c] /\ cFramer'[c] = cFramer[c]
      /\ gameSent'[c] = gameSent[c] /\ gFramer'[c] = gFramer[c]
      /\ gameGot'[c] = gameGot[c]
  BY DEF TypeOK, DialGameFails, RespondFails
<1>2. \/ clientGot'[c] = clientGot[c]
      \/ clientGot'[c] = Append(clientGot[c], Error)
  <2>1. CASE DialGameFails(c)
    BY <2>1 DEF TypeOK, DialGameFails, Reported, Got
  <2>2. CASE RespondFails(c)
    BY <2>2 DEF RespondFails
  <2> QED BY <2>1, <2>2
<1>3. /\ clientGot[c] \in Seq(GamePackets \cup {AuthResponse, Error})
      /\ Len(clientGot[c]) = 0 /\ Len(gameGot[c]) = 0
  BY <1>1 DEF TypeOK, ConnInv, ToClientInv, ToGameInv
<1>4. \/ Len(clientGot'[c]) = 0
      \/ Len(clientGot'[c]) = 1 /\ clientGot'[c][1] = Error
  <2>1. /\ Len(Append(clientGot[c], Error)) = 1
        /\ Append(clientGot[c], Error)[1] = Error
    BY <1>3, FirstGot
  <2> QED BY <1>2, <1>3, <2>1
<1>5. ClientGotInv(c)' /\ CloseInv(c)'
  <2>1. /\ ClientGotInv(c)'
        /\ \A i \in 1..Len(clientGot'[c]) : clientGot'[c][i] # Close
    BY <1>1, <1>4, OneGot
  <2> QED BY <2>1, <1>1, <1>3 DEF CloseInv
<1>6. ToGameInv(c)' /\ GameGotInv(c)'
  BY <1>1 DEF ConnInv, ToGameInv, GameGotInv, FromClient, IsSuffixOf
<1>7. ToClientInv(c)' /\ EndsInv(c)'
  BY <1>1 DEF ConnInv, ToClientInv, EndsInv, IsSuffixOf
<1> QED BY <1>5, <1>6, <1>7 DEF ConnInv

(* The response is the first packet of the client. *)
LEMMA RespondInv ==
  ASSUME TypeOK, NEW c \in Conns, ConnInv(c), Respond(c)
  PROVE  ConnInv(c)'
<1>1. /\ pc[c] = "respond" /\ pc'[c] = "relay"
      /\ cOpen[c] /\ cOpen'[c] = cOpen[c] /\ gOpen'[c] = gOpen[c]
      /\ clientSent'[c] = clientSent[c] /\ cFramer'[c] = cFramer[c]
      /\ gameSent'[c] = gameSent[c] /\ gFramer'[c] = gFramer[c]
      /\ gameGot'[c] = gameGot[c]
      /\ clientAlive'[c] = clientAlive[c] /\ gameAlive'[c] = gameAlive[c]
  BY DEF TypeOK, Respond
<1>2. clientGot'[c] = IF clientAlive[c] THEN Append(clientGot[c], AuthResponse)
                                        ELSE clientGot[c]
  BY DEF TypeOK, Respond, Got
<1>3. /\ clientGot[c] \in Seq(GamePackets \cup {AuthResponse, Error})
      /\ Len(clientGot[c]) = 0 /\ Len(gameGot[c]) = 0 /\ gOpen[c]
      /\ FromGame(c) = 0 /\ FromClient(c) = 1
  BY <1>1 DEF TypeOK, ConnInv, ToClientInv, ToGameInv, EndsInv
<1>4. IF clientAlive[c]
        THEN Len(clientGot'[c]) = 1 /\ clientGot'[c][1] = AuthResponse
        ELSE Len(clientGot'[c]) = 0
  BY <1>2, <1>3, FirstGot
<1>5. FromGame(c)' = FromGame(c) /\ FromClient(c)' = FromClient(c)
  BY <1>1 DEF FromGame, FromClient
<1>6. ClientGotInv(c)' /\ CloseInv(c)'
  <2>1. /\ ClientGotInv(c)'
        /\ \A i \in 1..Len(clientGot'[c]) : clientGot'[c][i] # Close
    BY <1>1, <1>4, OneGot
  <2> QED BY <2>1, <1>1, <1>3 DEF CloseInv
<1>7. /\ IsSuffixOf(cFramer[c], clientSent[c])'
      /\ IsSuffixOf(gFramer[c], gameSent[c])'
  <2>1. /\ IsSuffixOf(cFramer[c], clientSent[c])
        /\ IsSuffixOf(gFramer[c], gameSent[c])
    BY DEF ConnInv, ToGameInv, ToClientInv
  <2> QED BY <2>1, <1>1 DEF IsSuffixOf
<1>8. ToGameInv(c)' /\ ToClientInv(c)'
  BY <1>1, <1>3, <1>4, <1>5, <1>7 DEF ToGameInv, ToClientInv
<1>9. EndsInv(c)' /\ GameGotInv(c)'
  BY <1>1, <1>3 DEF ConnInv, EndsInv, GameGotInv
<1> QED BY <1>6, <1>7, <1>8, <1>9 DEF ConnInv

(***************************************************************************)
(* While a connection relays, its two ends are open or closed together and *)
(* no close packet has passed as long as they are open.                    *)
(***************************************************************************)
LEMMA RelayOpen ==
  ASSUME NEW c \in Conns, ConnInv(c), pc[c] = "relay", cOpen[c] \/ gOpen[c]
  PROVE  /\ cOpen[c] /\ gOpen[c]
         /\ \A i \in 1..Len(gameGot[c]) : gameGot[c][i] # Close
         /\ \A i \in 1..Len(clientGot[c]) : clientGot[c][i] # Close
<1>1. cOpen[c] /\ gOpen[c]
  BY DEF ConnInv, EndsInv
<1> QED BY <1>1 DEF ConnInv, CloseInv

(* A packet for the game server. *)
LEMMA RelayToGameInv ==
  ASSUME TypeOK, NEW c \in Conns, ConnInv(c), RelayToGame(c)
  PROVE  ConnInv(c)'
<1> DEFINE p == Head(cFramer[c])
           n == Len(gameGot[c])
           m == Len(gameGot'[c])
           k == FromClient(c)
<1>1. /\ pc[c] = "relay" /\ pc'[c] = "relay" /\ gOpen[c]
      /\ cFramer[c] # <<>> /\ cFramer'[c] = Tail(cFramer[c])
      /\ clientSent'[c] = clientSent[c]
      /\ gameSent'[c] = gameSent[c] /\ gFramer'[c] = gFramer[c]
      /\ clientGot'[c] = clientGot[c]
      /\ clientAlive'[c] = clientAlive[c] /\ gameAlive'[c] = gameAlive[c]
  BY DEF TypeOK, RelayToGame
<1>2. IF p = Close THEN cOpen'[c] = FALSE /\ gOpen'[c] = FALSE
                   ELSE cOpen'[c] = cOpen[c] /\ gOpen'[c] = gOpen[c]
  BY DEF TypeOK, RelayToGame
<1>3. gameGot'[c] = IF gameAlive[c] THEN Append(gameGot[c], p) ELSE gameGot[c]
  BY DEF TypeOK, RelayToGame, Got
<1>4. /\ IsSuffixOf(cFramer[c], clientSent[c])'
      /\ k \in Nat /\ FromClient(c)' = k + 1 /\ p = clientSent[c][k + 1]
  BY <1>1, ReceiveFromClient
<1>5. /\ n \in Nat /\ k >= 1
      /\ gameAlive[c] => k = n + 1
      /\ n > 0 => k >= n + 1
  BY <1>1, LenProperties DEF TypeOK, ConnInv, ToGameInv
<1>6. gameAlive[c] => /\ m = n + 1 /\ gameGot'[c][n + 1] = p
                      /\ \A i \in 1..n : gameGot'[c][i] = gameGot[c][i]
  <2>1. /\ gameGot[c] \in Seq(ClientPackets \cup {Auth})
        /\ p \in ClientPackets \cup {Auth}
    BY <1>1, TailType DEF TypeOK
  <2> QED BY <2>1, <1>3, Appended
<1>7. ~gameAlive[c] => gameGot'[c] = gameGot[c] /\ m = n
  BY <1>3
<1>8. EndsInv(c)'
  BY <1>1, <1>2 DEF ConnInv, EndsInv
<1>9. ToGameInv(c)'
  <2> HIDE DEF n, m, k
  <2>1. gameAlive[c] => k + 1 = m + 1
    BY <1>5, <1>6
  <2>2. m > 0 => k + 1 >= m + 1
    <3>1. CASE gameAlive[c]
      BY <3>1, <1>5, <1>6
    <3>2. CASE ~gameAlive[c]
      BY <3>2, <1>4, <1>5, <1>7
    <3> QED BY <3>1, <3>2
  <2>3. k + 1 >= 1
    BY <1>4, <1>5
  <2> QED BY <2>1, <2>2, <2>3, <1>1, <1>4 DEF ToGameInv, m
<1>10. GameGotInv(c)'
  <2> SUFFICES ASSUME NEW i \in 1..m
               PROVE  gameGot'[c][i] = clientSent[c][i + 1]
    BY <1>1 DEF GameGotInv
  <2> HIDE DEF n, m, k
  <2>1. CASE i \in 1..n
    BY <2>1, <1>6, <1>7 DEF ConnInv, GameGotInv, n
  <2>2. CASE i \notin 1..n
    <3>1. gameAlive[c] /\ i = n + 1 /\ k = i
      BY <2>2, <1>5, <1>6, <1>7
    <3> QED BY <3>1, <1>4, <1>6
  <2> QED BY <2>1, <2>2
<1>11. ToClientInv(c)' /\ ClientGotInv(c)'
  <2>1. cOpen'[c] => cOpen[c]
    BY <1>2
  <2> QED BY <2>1, <1>1
          DEF ConnInv, ToClientInv, ClientGotInv, IsSuffixOf, FromGame
<1>12. CloseInv(c)'
  <2>1. ASSUME NEW i \in 1..m, gameGot'[c][i] = Close
        PROVE  i = m /\ ~cOpen'[c] /\ ~gOpen'[c]
    <3>1. i \notin 1..n
      BY <2>1, <1>1, <1>6, <1>7, RelayOpen
    <3> HIDE DEF n, m
    <3>2. gameAlive[c] /\ i = n + 1 /\ i = m
      BY <3>1, <1>5, <1>6, <1>7
    <3> QED BY <3>2, <2>1, <1>2, <1>6
  <2>2. \A i \in 1..Len(clientGot'[c]) : clientGot'[c][i] # Close
    BY <1>1, RelayOpen
  <2> QED BY <2>1, <2>2 DEF CloseInv
<1> QED BY <1>8, <1>9, <1>10, <1>11, <1>12 DEF ConnInv

(* A packet for the client. *)
LEMMA RelayToClientInv ==
  ASSUME TypeOK, NEW c \in Conns, ConnInv(c), RelayToClient(c)
  PROVE  ConnInv(c)'
<1> DEFINE p == Head(gFramer[c])
           n == Len(clientGot[c])
           m == Len(clientGot'[c])
           k == FromGame(c)
           s == Len(gameSent[c])
<1>1. /\ pc[c] = "relay" /\ pc'[c] = "relay" /\ cOpen[c]
      /\ gFramer[c] # <<>> /\ gFramer'[c] = Tail(gFramer[c])
      /\ gameSent'[c] = gameSent[c]
      /\ clientSent'[c] = clientSent[c] /\ cFramer'[c] = cFramer[c]
      /\ gameGot'[c] = gameGot[c]
      /\ clientAlive'[c] = clientAlive[c] /\ gameAlive'[c] = gameAlive[c]
  BY DEF TypeOK, RelayToClient
<1>2. IF p = Close THEN cOpen'[c] = FALSE /\ gOpen'[c] = FALSE
                   ELSE cOpen'[c] = cOpen[c] /\ gOpen'[c] = gOpen[c]
  BY DEF TypeOK, RelayToClient
<1>3. clientGot'[c] = IF clientAlive[c] THEN Append(clientGot[c], p)
                                        ELSE clientGot[c]
  BY DEF TypeOK, RelayToClient, Got
<1>4. /\ IsSuffixOf(gFramer[c], gameSent[c])'
      /\ k \in Nat /\ FromGame(c)' = k + 1 /\ p = gameSent[c][k + 1]
      /\ k + 1 =< s
  BY <1>1, ReceiveFromGame
<1>5. /\ n \in Nat /\ s \in Nat
      /\ clientAlive[c] => n = k + 1
  <2>1. /\ clientGot[c] \in Seq(GamePackets \cup {AuthResponse, Error})
        /\ gameSent[c] \in Seq(GamePackets)
    BY DEF TypeOK
  <2>2. clientAlive[c] => n = k + 1
    BY <1>1 DEF ConnInv, ToClientInv
  <2> QED BY <2>1, <2>2, LenProperties
<1>6. clientAlive[c] => /\ m = n + 1 /\ clientGot'[c][n + 1] = p
                        /\ \A i \in 1..n : clientGot'[c][i] = clientGot[c][i]
  <2>1. /\ clientGot[c] \in Seq(GamePackets \cup {AuthResponse, Error})
        /\ p \in GamePackets
    BY <1>1, TailType DEF TypeOK
  <2>2. p \in GamePackets \cup {AuthResponse, Error}
    BY <2>1
  <2> QED BY <2>1, <2>2, <1>3, Appended
<1>7. ~clientAlive[c] => clientGot'[c] = clientGot[c] /\ m = n
  BY <1>3
<1>8. EndsInv(c)'
  BY <1>1, <1>2 DEF ConnInv, EndsInv
<1>9. ToClientInv(c)'
  <2> HIDE DEF n, m, k
  <2>1. clientAlive[c] => m = k + 1 + 1
    BY <1>5, <1>6
  <2> QED BY <2>1, <1>1, <1>4 DEF ToClientInv, m
<1>10. ClientGotInv(c)'
  <2> SUFFICES ASSUME NEW i \in 1..m
               PROVE  \/ clientGot'[c][i] = Error /\ i = m /\ ~cOpen'[c]
                      \/ clientGot'[c][i] = AuthResponse /\ i = 1
                      \/ /\ i > 1 /\ i =< s + 1
                         /\ clientGot'[c][i] = gameSent[c][i - 1]
    BY <1>1 DEF ClientGotInv
  <2> HIDE DEF n, m, k, s
  <2>1. CASE i \in 1..n
    <3>1. \/ clientGot[c][i] = AuthResponse /\ i = 1
          \/ /\ i > 1 /\ i =< s + 1
             /\ clientGot[c][i] = gameSent[c][i - 1]
      BY <2>1, <1>1 DEF ConnInv, ClientGotInv, n, s
    <3> QED BY <3>1, <2>1, <1>6, <1>7
  <2>2. CASE i \notin 1..n
    <3>1. clientAlive[c] /\ i = n + 1
      BY <2>2, <1>5, <1>6, <1>7
    <3>2. i > 1 /\ i - 1 = k + 1 /\ i =< s + 1
      BY <3>1, <1>4, <1>5
    <3> QED BY <3>1, <3>2, <1>4, <1>6
  <2> QED BY <2>1, <2>2
<1>11. ToGameInv(c)' /\ GameGotInv(c)'
  <2>1. gOpen'[c] => gOpen[c]
    BY <1>2
  <2> QED BY <2>1, <1>1
          DEF ConnInv, ToGameInv, GameGotInv, IsSuffixOf, FromClient
<1>12. CloseInv(c)'
  <2>1. ASSUME NEW i \in 1..m, clientGot'[c][i] = Close
        PROVE  i = m /\ ~cOpen'[c] /\ ~gOpen'[c]
    <3>1. i \notin 1..n
      BY <2>1, <1>1, <1>6, <1>7, RelayOpen
    <3> HIDE DEF n, m
    <3>2. clientAlive[c] /\ i = n + 1 /\ i = m
      BY <3>1, <1>5, <1>6, <1>7
    <3> QED BY <3>2, <2>1, <1>2, <1>6
  <2>2. \A i \in 1..Len(gameGot'[c]) : gameGot'[c][i] # Close
    BY <1>1, RelayOpen
  <2> QED BY <2>1, <2>2 DEF CloseInv
<1> QED BY <1>8, <1>9, <1>10, <1>11, <1>12 DEF ConnInv

(* A packet for a game server that is gone, or whose connection is closed. *)
LEMMA RelayToGameFailsInv ==
  ASSUME TypeOK, NEW c \in Conns, ConnInv(c), RelayToGameFails(c)
  PROVE  ConnInv(c)'
<1> DEFINE n == Len(clientGot[c])
           m == Len(clientGot'[c])
           k == FromClient(c)
<1>1. /\ pc[c] = "relay" /\ pc'[c] = "relay"
      /\ cOpen'[c] = FALSE /\ gOpen'[c] = FALSE
      /\ cFramer[c] # <<>> /\ cFramer'[c] = Tail(cFramer[c])
      /\ clientSent'[c] = clientSent[c]
      /\ gameSent'[c] = gameSent[c] /\ gFramer'[c] = gFramer[c]
      /\ gameGot'[c] = gameGot[c]
  BY DEF TypeOK, RelayToGameFails
<1>2. \/ clientGot'[c] = clientGot[c]
      \/ cOpen[c] /\ clientGot'[c] = Append(clientGot[c], Error)
  BY DEF TypeOK, RelayToGameFails, Reported, Got
<1>3. /\ clientGot[c] \in Seq(GamePackets \cup {AuthResponse, Error})
      /\ n \in Nat
  BY LenProperties DEF TypeOK
<1>4. clientGot'[c] # clientGot[c]
        => /\ cOpen[c] /\ m = n + 1 /\ clientGot'[c][n + 1] = Error
           /\ \A i \in 1..n : clientGot'[c][i] = clientGot[c][i]
  BY <1>2, <1>3, Appended
<1>5. ToGameInv(c)'
  <2>1. /\ IsSuffixOf(cFramer[c], clientSent[c])'
        /\ k \in Nat /\ FromClient(c)' = k + 1
    BY <1>1, ReceiveFromClient
  <2>2. Len(gameGot[c]) \in Nat
    BY LenProperties DEF TypeOK
  <2>3. k >= 1 /\ (Len(gameGot[c]) > 0 => k >= Len(gameGot[c]) + 1)
    BY <1>1 DEF ConnInv, ToGameInv
  <2> HIDE DEF k
  <2> QED BY <2>1, <2>2, <2>3, <1>1 DEF ToGameInv
<1>6. ToClientInv(c)' /\ GameGotInv(c)' /\ EndsInv(c)'
  BY <1>1 DEF ConnInv, ToClientInv, GameGotInv, EndsInv, IsSuffixOf
<1>7. ClientGotInv(c)'
  <2>1. CASE clientGot'[c] = clientGot[c]
    BY <2>1, <1>1 DEF ConnInv, ClientGotInv
  <2>2. CASE clientGot'[c] # clientGot[c]
    <3> SUFFICES ASSUME NEW i \in 1..m
                 PROVE  \/ clientGot'[c][i] = Error /\ i = m
                        \/ clientGot'[c][i] = AuthResponse /\ i = 1
                        \/ /\ i > 1 /\ i =< Len(gameSent[c]) + 1
                           /\ clientGot'[c][i] = gameSent[c][i - 1]
      BY <1>1 DEF ClientGotInv
    <3>1. CASE i \in 1..n
      BY <3>1, <2>2, <1>4 DEF ConnInv, ClientGotInv
    <3>2. CASE i \notin 1..n
      <4> HIDE DEF n, m
      <4>1. i = n + 1
        BY <3>2, <2>2, <1>3, <1>4
      <4> QED BY <4>1, <2>2, <1>4
    <3> QED BY <3>1, <3>2
  <2> QED BY <2>1, <2>2
<1>8. CloseInv(c)'
  <2>1. CASE clientGot'[c] = clientGot[c]
    BY <2>1, <1>1 DEF ConnInv, CloseInv
  <2>2. CASE clientGot'[c] # clientGot[c]
    <3>1. ASSUME NEW i \in 1..m PROVE clientGot'[c][i] # Close
      <4>1. CASE i \in 1..n
        BY <4>1, <2>2, <1>1, <1>4, RelayOpen
      <4>2. CASE i \notin 1..n
        <5> HIDE DEF n, m
        <5>1. i = n + 1
          BY <4>2, <2>2, <1>3, <1>4
        <5> QED BY <5>1, <2>2, <1>4 DEF Close, Error
      <4> QED BY <4>1, <4>2
    <3> QED BY <3>1, <1>1 DEF ConnInv, CloseInv
  <2> QED BY <2>1, <2>2
<1> QED BY <1>5, <1>6, <1>7, <1>8 DEF ConnInv

(* A packet for a client that is gone, or whose connection is closed. *)
LEMMA RelayToClientFailsInv ==
  ASSUME TypeOK, NEW c \in Conns, ConnInv(c), RelayToClientFails(c)
  PROVE  ConnInv(c)'
<1>1. /\ pc[c] = "relay" /\ pc'[c] = "relay"
      /\ cOpen'[c] = FALSE /\ gOpen'[c] = FALSE
      /\ gFramer[c] # <<>> /\ gFramer'[c] = Tail(gFramer[c])
      /\ gameSent'[c] = gameSent[c]
      /\ clientSent'[c] = clientSent[c] /\ cFramer'[c] = cFramer[c]
      /\ gameGot'[c] = gameGot[c] /\ clientGot'[c] = clientGot[c]
  BY DEF TypeOK, RelayToClientFails
<1>2. ToClientInv(c)'
  BY <1>1, ReceiveFromGame DEF ToClientInv
<1>3. ToGameInv(c)' /\ GameGotInv(c)'
  BY <1>1 DEF ConnInv, ToGameInv, GameGotInv, IsSuffixOf, FromClient
<1>4. ClientGotInv(c)' /\ CloseInv(c)' /\ EndsInv(c)'
  BY <1>1 DEF ConnInv, ClientGotInv, CloseInv, EndsInv
<1> QED BY <1>2, <1>3, <1>4 DEF ConnInv

-----------------------------------------------------------------------------
(***************************************************************************)
(* The invariant, and what follows from it.                                *)
(***************************************************************************)

(* The steps of a connection keep its invariant. *)
LEMMA OwnStepInv ==
  ASSUME TypeOK, NEW c \in Conns, ConnInv(c),
         ProxyStep(c) \/ MatchMakeStep(c) \/ RelayStep(c) \/ PeerStep(c)
  PROVE  ConnInv(c)'
<1>1. CASE ProxyStep(c)
  BY <1>1, QuietStepInv, AuthenticateInv, GiveUpInv, RespondInv DEF ProxyStep
<1>2. CASE RelayStep(c)
  BY <1>2, RelayToGameInv, RelayToGameFailsInv, RelayToClientInv,
     RelayToClientFailsInv, QuietStepInv DEF RelayStep
<1>3. CASE PeerStep(c)
  BY <1>3, QuietStepInv, ClientSendInv, GameSendInv DEF PeerStep
<1>4. CASE MatchMakeStep(c)
  BY <1>4, QuietStepInv
<1> QED BY <1>1, <1>2, <1>3, <1>4

(* The invariant holds initially. *)
LEMMA InitIInv ==
  Init => IInv
<1> SUFFICES ASSUME Init PROVE IInv
  OBVIOUS
<1>1. TypeOK
  BY InitType
<1>2. ASSUME NEW c \in Conns PROVE ConnInv(c)
  <2>1. /\ pc[c] = "none" /\ cOpen[c] = FALSE /\ gOpen[c] = FALSE
        /\ clientSent[c] = <<>> /\ cFramer[c] = <<>> /\ gameGot[c] = <<>>
        /\ gameSent[c] = <<>> /\ gFramer[c] = <<>> /\ clientGot[c] = <<>>
    BY DEF Init
  <2>2. /\ IsSuffixOf(cFramer[c], clientSent[c]) /\ FromClient(c) = 0
        /\ IsSuffixOf(gFramer[c], gameSent[c]) /\ FromGame(c) = 0
    BY <2>1 DEF IsSuffixOf, FromClient, FromGame
  <2>3. GameGotInv(c) /\ ClientGotInv(c) /\ CloseInv(c)
    BY <2>1 DEF GameGotInv, ClientGotInv, CloseInv
  <2>4. EndsInv(c) /\ ToGameInv(c) /\ ToClientInv(c)
    BY <2>1, <2>2 DEF EndsInv, ToGameInv, ToClientInv
  <2> QED BY <2>3, <2>4 DEF ConnInv
<1> QED BY <1>1, <1>2 DEF IInv

(* Every step keeps the invariant. *)
LEMMA NextIInv ==
  IInv /\ [Next]_vars => IInv'
<1> SUFFICES ASSUME IInv, [Next]_vars PROVE IInv'
  OBVIOUS
<1>1. TypeOK /\ TypeOK'
  BY NextType DEF IInv
<1>2. ASSUME NEW c \in Conns PROVE ConnInv(c)'
  <2>1. CASE UNCHANGED vars
    BY <2>1, UntouchedInv DEF IInv, vars, Untouched
  <2>2. CASE RunDone \/ CloseListener \/ CloseProxy
    BY <2>2, UntouchedInv
       DEF IInv, Untouched, RunDone, CloseListener, CloseProxy
  <2>3. ASSUME NEW d \in Conns,
               ProxyStep(d) \/ MatchMakeStep(d) \/ RelayStep(d) \/ PeerStep(d)
        PROVE  ConnInv(c)'
    <3>1. CASE c = d
      BY <3>1, <2>3, <1>1, OwnStepInv DEF IInv
    <3>2. CASE c # d
      BY <3>2, <2>3, <1>1, OthersUntouched, UntouchedInv DEF IInv
    <3> QED BY <3>1, <3>2
  <2> QED BY <2>1, <2>2, <2>3 DEF Next
<1> QED BY <1>1, <1>2 DEF IInv

(* The invariant always holds. *)
THEOREM Invariance ==
  Spec => []IInv
  BY InitIInv, NextIInv, PTL DEF Spec

(***************************************************************************)
(* Packets are relayed in order and without gaps in both directions, the   *)
(* response comes first and an error comes last.                           *)
(***************************************************************************)
THEOREM RelayedInOrderCorrect ==
  Spec => []RelayedInOrder
<1>1. IInv => RelayedInOrder
  <2> SUFFICES ASSUME IInv, NEW c \in Conns
               PROVE  /\ gameGot[c] # <<>>
                           => IsPrefixOf(gameGot[c], Tail(clientSent[c]))
                      /\ ClientGotInv(c)
    BY DEF RelayedInOrder, ClientGotInv
  <2>1. ClientGotInv(c)
    BY DEF IInv, ConnInv
  <2>2. ASSUME gameGot[c] # <<>>
        PROVE  IsPrefixOf(gameGot[c], Tail(clientSent[c]))
    <3> DEFINE n == Len(gameGot[c])
               s == Len(clientSent[c])
               t == Len(Tail(clientSent[c]))
    <3>1. /\ gameGot[c] \in Seq(ClientPackets \cup {Auth})
          /\ clientSent[c] \in Seq(ClientPackets \cup {Auth})
          /\ cFramer[c] \in Seq(ClientPackets \cup {Auth})
          /\ IsSuffixOf(cFramer[c], clientSent[c])
      BY DEF IInv, TypeOK, ConnInv, ToGameInv
    <3>2. n \in Nat \ {0} /\ s \in Nat
      BY <2>2, <3>1, EmptySeq, LenProperties
    <3>3. FromClient(c) \in Nat /\ FromClient(c) =< s
      BY <3>1, ReceivedType DEF FromClient
    <3>4. n > 0 => FromClient(c) >= n + 1
      BY DEF IInv, ConnInv, ToGameInv
    <3>5. clientSent[c] # <<>>
      <4>1. s # 0
        <5> HIDE DEF n, s
        <5> QED BY <3>2, <3>3, <3>4
      <4> QED BY <4>1
    <3>6. /\ t = s - 1
          /\ \A i \in 1..t : Tail(clientSent[c])[i] = clientSent[c][i + 1]
      BY <3>1, <3>5, HeadTailProperties
    <3>7. \A i \in 1..n : gameGot[c][i] = clientSent[c][i + 1]
      BY DEF IInv, ConnInv, GameGotInv
    <3>8. n =< t
      <4> HIDE DEF n, s, t
      <4> QED BY <3>2, <3>3, <3>4, <3>6
    <3>9. \A i \in 1..n : i \in 1..t
      <4> HIDE DEF n, s, t
      <4> QED BY <3>2, <3>6, <3>8
    <3> QED BY <3>6, <3>7, <3>8, <3>9 DEF IsPrefixOf
  <2> QED BY <2>1, <2>2
<1> QED BY <1>1, Invariance, PTL

(***************************************************************************)
(* No connection is left half open by the proxy.                           *)
(***************************************************************************)
THEOREM NoHalfOpenCorrect ==
  Spec => []NoHalfOpen
<1>1. IInv => NoHalfOpen
  BY DEF IInv, ConnInv, EndsInv, NoHalfOpen
<1> QED BY <1>1, Invariance, PTL

(***************************************************************************)
(* A close packet is the last one in its direction, and closes both ends.  *)
(***************************************************************************)
THEOREM CloseIsLastCorrect ==
  Spec => []CloseIsLast
<1>1. IInv => CloseIsLast
  BY DEF IInv, ConnInv, CloseInv, CloseIsLast
<1> QED BY <1>1, Invariance, PTL
=============================================================================
