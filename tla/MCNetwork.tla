----------------------------- MODULE MCNetwork -----------------------------
(***************************************************************************)
(* The programs that talk to others: the daytime servers and clients over  *)
(* UDP and over TCP, and the Redis listener, one of them at a time.        *)
(***************************************************************************)
EXTENDS Integers, Sequences, FiniteSets

CONSTANTS
  Clients, NoClient,
  Messages, MaxDuplicates,
  Connections, Chunks,
  MaxPushes

VARIABLES
  network, kind, client,
  receive, remote_endpoint_, sends, alive, toServer, toClient, duplicates, lost,
  server, accepting, peer, writes, backlog, stream, got, closed,
  conn, subscribed, listener, resp, has_error, pushes, printed, dangling, entry, redisMain

Udp == INSTANCE UdpDaytime
Tcp == INSTANCE TcpDaytime
Redis == INSTANCE RedisListener WITH main <- redisMain

udpVars == <<receive, remote_endpoint_, sends, alive, toServer, toClient, duplicates, lost>>
tcpVars == <<server, accepting, peer, writes, backlog, stream, got, closed>>
redisVars == <<conn, subscribed, listener, resp, has_error, pushes, printed, dangling, entry, redisMain>>
networkVars == <<network, kind, client, udpVars, tcpVars, redisVars>>

(* A program does not use the variables of the others. *)
NoUdp ==
  /\ receive = "ended" /\ remote_endpoint_ = NoClient
  /\ sends = {} /\ alive = {} /\ toServer = <<>> /\ toClient = <<>>
  /\ duplicates = 0 /\ lost = {}
NoTcp ==
  /\ server = "ended" /\ accepting = 0 /\ peer = <<>> /\ writes = {}
  /\ backlog = <<>> /\ stream = <<>> /\ got = <<>> /\ closed = <<>>
NoRedis ==
  /\ conn = "down" /\ subscribed = FALSE /\ listener = "left" /\ resp = <<>>
  /\ has_error = FALSE /\ pushes = 0 /\ printed = <<>> /\ dangling = FALSE
  /\ entry = "waiting" /\ redisMain = "run"
NoDaytime == kind = "async" /\ client = [c \in Clients |-> "start"]

NetworkInit ==
  \/ network = "udp" /\ Udp!Init /\ NoTcp /\ NoRedis
  \/ network = "tcp" /\ Tcp!Init /\ NoUdp /\ NoRedis
  \/ network = "redis" /\ Redis!Init /\ NoDaytime /\ NoUdp /\ NoTcp

UdpNext == network = "udp" /\ Udp!Next /\ UNCHANGED <<network, tcpVars, redisVars>>
TcpNext == network = "tcp" /\ Tcp!Next /\ UNCHANGED <<network, udpVars, redisVars>>
RedisNext == network = "redis" /\ Redis!Next /\ UNCHANGED <<network, kind, client, udpVars, tcpVars>>

NetworkNext == UdpNext \/ TcpNext \/ RedisNext

(* Programs go on, and so do their handlers.  An accept may fail again and again,
   but not for ever; a datagram may be lost, a signal may never come. *)
NetworkSpec ==
  /\ NetworkInit /\ [][NetworkNext]_networkVars
  /\ WF_(Udp!vars)(network = "udp" /\ Udp!ServerStep)
  /\ \A c \in Clients : WF_(Udp!vars)(network = "udp" /\ Udp!ClientStep(c))
  /\ WF_(Tcp!vars)(network = "tcp" /\ Tcp!AcceptedStep)
  /\ \A k \in Connections : WF_(Tcp!vars)(network = "tcp" /\ Tcp!WriteStep(k))
  /\ SF_(Tcp!vars)(network = "tcp" /\ Tcp!Accept)
  /\ \A c \in Clients : WF_(Tcp!vars)(network = "tcp" /\ Tcp!ClientStep(c))
  /\ WF_redisVars(network = "redis" /\ Redis!ProgramStep)

-----------------------------------------------------------------------------
(* The programs' properties, stated in the module of each *)
Owed == IF network = "udp" THEN Udp!Owed
        ELSE IF network = "tcp" THEN Tcp!Owed ELSE [c \in Clients |-> 0]
Answers == IF network = "udp" THEN Udp!Answers
           ELSE IF network = "tcp" THEN Tcp!Answers ELSE [c \in Clients |-> 0]
Service == INSTANCE DaytimeService WITH owed <- Owed, answers <- Answers
ImplementsService == Service!DSSpec
NothingIsUsedAfterItsEnd ==
  /\ network = "udp" => Udp!NothingDangles
  /\ network = "tcp" => Tcp!NothingDangles
  /\ network = "redis" => Redis!ResponseOutlivesPushes
EofMeansWholeMessage == network = "tcp" => Tcp!EofMeansWholeMessage
PushesAreRead == network = "redis" => Redis!PushesAreRead
NobodyWaitsInVain ==
  /\ network = "udp" => Udp!AnsweredUnlessLost
  /\ network = "tcp" => Tcp!ClientsEnd
  /\ network = "redis" => Redis!SignalEndsRun /\ Redis!PushesAreNotLeft
=============================================================================
