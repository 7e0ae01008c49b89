----------------------------- MODULE UdpDaytime -----------------------------
(***************************************************************************)
(* udp_async_server.cpp, udp_sync_server.cpp and udp_client.cpp of         *)
(* 04-boost_asio on a network that loses, delays and doubles datagrams.    *)
(*                                                                         *)
(* The servers have one receive at a time, into remote_endpoint_.  A send  *)
(* of the asynchronous one copies the endpoint when it is started and is   *)
(* performed later, out of a message that only its handler keeps alive.    *)
(***************************************************************************)
EXTENDS Integers, FiniteSets

CONSTANTS
  Clients,
  Messages,        \* the heap's room for messages
  NoClient,
  MaxDuplicates    \* a bound on the datagrams the network doubles

VARIABLES
  kind,                \* the server: "async" or "sync"
  receive,             \* the receive: pending, completed or failed; then
                       \* "ended", for it is not started again, and "returned"
  remote_endpoint_,
  sends,               \* the sends under way: their endpoint and their message
  alive,               \* the messages that were made and not deleted
  toServer, toClient,  \* the datagrams on their way from and to each client
  client,              \* where each client's main() is
  duplicates,
  lost                 \* history: the clients that have lost a datagram

server == <<receive, remote_endpoint_, sends, alive>>
vars == <<kind, server, toServer, toClient, client, duplicates, lost>>

Init ==
  /\ kind \in {"async", "sync"}
  /\ receive = "pending" /\ remote_endpoint_ = NoClient
  /\ sends = {} /\ alive = {}
  /\ toServer = [c \in Clients |-> 0] /\ toClient = [c \in Clients |-> 0]
  /\ client = [c \in Clients |-> "start"]
  /\ duplicates = 0 /\ lost = {}

More(f, c) == [f EXCEPT ![c] = @ + 1]
Fewer(f, c) == f[c] > 0 /\ f' = [f EXCEPT ![c] = @ - 1]

-----------------------------------------------------------------------------
(* The network *)

Lose(c) ==
  /\ \/ Fewer(toServer, c) /\ UNCHANGED toClient
     \/ Fewer(toClient, c) /\ UNCHANGED toServer
  /\ lost' = lost \union {c}
  /\ UNCHANGED <<kind, server, client, duplicates>>

Duplicate(c) ==
  /\ toServer[c] > 0 /\ duplicates < MaxDuplicates
  /\ toServer' = More(toServer, c)
  /\ duplicates' = duplicates + 1
  /\ UNCHANGED <<kind, server, toClient, client, lost>>

-----------------------------------------------------------------------------
(* The clients: main() *)

send_to(c) ==
  /\ client[c] = "start"
  /\ client' = [client EXCEPT ![c] = "waiting"]
  /\ toServer' = More(toServer, c)
  /\ UNCHANGED <<kind, server, toClient, duplicates, lost>>

(* The arguments, the resolver or the socket fail, or receive_from() throws:
   main() ends. *)
ClientFails(c) ==
  /\ client[c] \in {"start", "waiting"}
  /\ client' = [client EXCEPT ![c] = "failed"]
  /\ UNCHANGED <<kind, server, toServer, toClient, duplicates, lost>>

(* receive_from(), which waits for ever if nothing comes *)
receive_from(c) ==
  /\ client[c] = "waiting"
  /\ Fewer(toClient, c)
  /\ client' = [client EXCEPT ![c] = "done"]
  /\ UNCHANGED <<kind, server, toServer, duplicates, lost>>

-----------------------------------------------------------------------------
(* The server *)

Receive(c) ==
  /\ receive = "pending"
  /\ Fewer(toServer, c)
  /\ remote_endpoint_' = c
  /\ receive' = "completed"
  /\ UNCHANGED <<kind, sends, alive, toClient, client, duplicates, lost>>

ReceiveFails ==
  /\ receive = "pending"
  /\ receive' = "failed"
  /\ UNCHANGED <<kind, remote_endpoint_, sends, alive, toServer, toClient, client, duplicates, lost>>

Bug_handle_receive ==   \* start_receive() comes first, and finds a datagram
  /\ receive = "completed" /\ kind = "async"
  /\ \E m \in Messages \ alive, c \in Clients :
       /\ Fewer(toServer, c)
       /\ remote_endpoint_' = c
       /\ alive' = alive \union {m}
       /\ sends' = sends \union {[to |-> c, message |-> m]}
  /\ UNCHANGED <<kind, receive, toClient, client, duplicates, lost>>

(* A new message, async_send_to(), and start_receive() *)
handle_receive ==
  /\ receive = "completed" /\ kind = "async"
  /\ \E m \in Messages \ alive :
       /\ alive' = alive \union {m}
       /\ sends' = sends \union {[to |-> remote_endpoint_, message |-> m]}
  /\ receive' = "pending"
  /\ UNCHANGED <<kind, remote_endpoint_, toServer, toClient, client, duplicates, lost>>

(* The send is performed or fails; handle_send() lets the message go. *)
handle_send ==
  \E s \in sends :
    /\ sends' = sends \ {s}
    /\ alive' = alive \ {s.message}
    /\ \/ toClient' = More(toClient, s.to) /\ UNCHANGED lost
       \/ lost' = lost \union {s.to} /\ UNCHANGED toClient
    /\ UNCHANGED <<kind, receive, remote_endpoint_, toServer, client, duplicates>>

(* The loop of the synchronous server; the error of a send is ignored. *)
SendSync ==
  /\ receive = "completed" /\ kind = "sync"
  /\ \/ toClient' = More(toClient, remote_endpoint_) /\ UNCHANGED lost
     \/ lost' = lost \union {remote_endpoint_} /\ UNCHANGED toClient
  /\ receive' = "pending"
  /\ UNCHANGED <<kind, remote_endpoint_, sends, alive, toServer, client, duplicates>>

(* handle_receive() with an error starts nothing; the synchronous server's
   receive_from() throws.  run() returns when no send is left. *)
ReceiveEnds ==
  /\ \/ receive = "failed" /\ receive' = "ended"
     \/ receive = "ended" /\ sends = {} /\ receive' = "returned"
  /\ UNCHANGED <<kind, remote_endpoint_, sends, alive, toServer, toClient, client, duplicates, lost>>

ServerStep ==
  (\E c \in Clients : Receive(c)) \/ handle_receive \/ handle_send \/ SendSync \/ ReceiveEnds

ClientStep(c) == send_to(c) \/ receive_from(c)

(* Whoever waits in a receive goes on waiting. *)
Waits == receive \in {"pending", "returned"} /\ UNCHANGED vars

Next ==
  \/ ServerStep \/ ReceiveFails
  \/ \E c \in Clients : ClientStep(c) \/ ClientFails(c) \/ Lose(c) \/ Duplicate(c)
  \/ Waits

Spec == Init /\ [][Next]_vars

-----------------------------------------------------------------------------
(* What DaytimeService knows of it: a request waits for its answer on the network,
   in the completed receive, or in its send. *)
Owed ==
  [c \in Clients |->
     toServer[c] + Cardinality({s \in sends : s.to = c})
       + (IF receive = "completed" /\ remote_endpoint_ = c THEN 1 ELSE 0)]
Answers == [c \in Clients |-> toClient[c] + (IF client[c] = "done" THEN 1 ELSE 0)]

(* A send reads a message that is there, and a message goes with its send. *)
NothingDangles == {s.message : s \in sends} = alive

(* A client whose receive_from() does not fail waits for ever only if the
   network has lost a datagram of its own or the server has met an error in a
   receive, which ends the service. *)
AnsweredUnlessLost ==
  \A c \in Clients :
    client[c] = "waiting"
      ~> client[c] \in {"done", "failed"} \/ c \in lost \/ receive \in {"failed", "ended", "returned"}
=============================================================================
