----------------------------- MODULE TcpDaytime -----------------------------
(***************************************************************************)
(* tcp_async_server.cpp, tcp_sync_server.cpp and tcp_client.cpp of         *)
(* 04-boost_asio.  The asynchronous server makes a tcp_connection for each *)
(* accept; the handlers of the accept and of the write that follows keep   *)
(* it, and with it its socket, alive.  A write goes out in chunks, the     *)
(* client reads until it meets the end of the stream.                      *)
(***************************************************************************)
EXTENDS Integers, Sequences

CONSTANTS
  Clients,
  Connections,   \* the heap's room for connections
  Chunks,        \* how many writes a message may take
  NoClient

VARIABLES
  kind,          \* the server: "async" or "sync"
  server,        \* "accepting", "accepted", "failed"; "writing" and "ended" of the
                 \* synchronous one
  accepting,     \* the connection whose socket waits for a client
  peer,          \* the client of each tcp_connection that is not destroyed
  writes,        \* the connections whose message is being written
  backlog,       \* the clients that are connected and not accepted
  client,        \* where each client's main() is
  stream,        \* the chunks sent to each client
  got,           \* those it has read
  closed         \* how the server's end of its stream was closed, or "open"

vars == <<kind, server, accepting, peer, writes, backlog, client, stream, got, closed>>

Without(f, x) == [z \in DOMAIN f \ {x} |-> f[z]]

Init ==
  /\ kind \in {"async", "sync"}
  /\ server = "accepting" /\ accepting \in Connections
  /\ peer = [k \in {accepting} |-> NoClient]
  /\ writes = {} /\ backlog = <<>>
  /\ client = [c \in Clients |-> "start"]
  /\ stream = [c \in Clients |-> 0] /\ got = [c \in Clients |-> 0]
  /\ closed = [c \in Clients |-> "open"]

-----------------------------------------------------------------------------
(* The clients: main() *)

Goto(c, place) == client' = [client EXCEPT ![c] = place]

connect(c) ==
  /\ client[c] = "start"
  /\ IF server = "ended" THEN Goto(c, "failed") /\ UNCHANGED backlog
     ELSE Goto(c, "reading") /\ backlog' = Append(backlog, c)
  /\ UNCHANGED <<kind, server, accepting, peer, writes, stream, got, closed>>

(* read_some() gives what has come, the end, or an error. *)
read_some(c) ==
  /\ client[c] = "reading"
  /\ \/ (\E n \in got[c] + 1 .. stream[c] : got' = [got EXCEPT ![c] = n]) /\ UNCHANGED client
     \/ got[c] = stream[c] /\ closed[c] = "eof" /\ Goto(c, "eof") /\ UNCHANGED got
     \/ closed[c] = "reset" /\ Goto(c, "error") /\ UNCHANGED got
  /\ UNCHANGED <<kind, server, accepting, peer, writes, backlog, stream, closed>>

(* The arguments or the resolver fail, or the client is ended from outside. *)
ClientLeaves(c) ==
  /\ \/ client[c] = "start" /\ Goto(c, "failed")
     \/ client[c] = "reading" /\ Goto(c, "error")
  /\ UNCHANGED <<kind, server, accepting, peer, writes, backlog, stream, got, closed>>

-----------------------------------------------------------------------------
(* The servers *)

Accept ==
  /\ server = "accepting" /\ backlog # <<>>
  /\ peer' = [peer EXCEPT ![accepting] = Head(backlog)]
  /\ backlog' = Tail(backlog)
  /\ server' = "accepted"
  /\ UNCHANGED <<kind, accepting, writes, client, stream, got, closed>>

AcceptFails ==
  /\ server = "accepting"
  /\ server' = "failed"
  /\ UNCHANGED <<kind, accepting, peer, writes, backlog, client, stream, got, closed>>

Bug_handle_accept ==   \* the write's handler captures this instead of self
  /\ kind = "async" /\ server = "accepted"
  /\ \E k \in Connections \ DOMAIN peer :
       /\ accepting' = k
       /\ peer' = [j \in {k} \union (DOMAIN peer \ {accepting}) |-> IF j = k THEN NoClient ELSE peer[j]]
  /\ writes' = writes \union {accepting}
  /\ closed' = [closed EXCEPT ![peer[accepting]] = "eof"]
  /\ server' = "accepting"
  /\ UNCHANGED <<kind, backlog, client, stream, got>>

(* start() of the connection, or its end if the accept has failed, and in
   either case start_accept() with a new one *)
handle_accept ==
  /\ kind = "async" /\ server \in {"accepted", "failed"}
  /\ LET kept == IF server = "accepted" THEN DOMAIN peer ELSE DOMAIN peer \ {accepting}
     IN  \E k \in Connections \ DOMAIN peer :
           /\ accepting' = k
           /\ peer' = [j \in kept \union {k} |-> IF j = k THEN NoClient ELSE peer[j]]
  /\ writes' = IF server = "accepted" THEN writes \union {accepting} ELSE writes
  /\ server' = "accepting"
  /\ UNCHANGED <<kind, backlog, client, stream, got, closed>>

(* The synchronous server writes at once, and leaves its loop by an exception
   if accept() has failed: the clients in the backlog are reset. *)
AcceptedSync ==
  /\ kind = "sync"
  /\ \/ /\ server = "accepted"
        /\ server' = "writing"
        /\ writes' = {accepting}
        /\ UNCHANGED <<peer, backlog, closed>>
     \/ /\ server = "failed"
        /\ server' = "ended"
        /\ peer' = <<>> /\ backlog' = <<>>
        /\ closed' = [c \in Clients |-> IF \E n \in DOMAIN backlog : backlog[n] = c
                                         THEN "reset" ELSE closed[c]]
        /\ UNCHANGED writes
  /\ UNCHANGED <<kind, accepting, client, stream, got>>

write_some(k) ==
  /\ k \in writes /\ k \in DOMAIN peer /\ stream[peer[k]] < Chunks
  /\ stream' = [stream EXCEPT ![peer[k]] = @ + 1]
  /\ UNCHANGED <<kind, server, accepting, peer, writes, backlog, client, got, closed>>

Bug_handle_write(k) ==   \* write_some() for write(): what is left is not sent
  /\ k \in writes /\ k \in DOMAIN peer /\ stream[peer[k]] > 0
  /\ writes' = writes \ {k}
  /\ closed' = [closed EXCEPT ![peer[k]] = "eof"]
  /\ IF kind = "async" THEN peer' = Without(peer, k) /\ UNCHANGED server
     ELSE peer' = [peer EXCEPT ![k] = NoClient] /\ server' = "accepting"
  /\ UNCHANGED <<kind, accepting, backlog, client, stream, got>>

(* The message is out, or the write fails: whoever held the connection lets go
   of it, and its destructor closes the socket.  A write is assumed to fail only
   on a connection that is dead, for which the client sees a reset; closed alive,
   the stream would end in the middle of the message. *)
handle_write(k) ==
  /\ k \in writes /\ k \in DOMAIN peer
  /\ writes' = writes \ {k}
  /\ \/ stream[peer[k]] = Chunks /\ closed' = [closed EXCEPT ![peer[k]] = "eof"]
     \/ stream[peer[k]] < Chunks /\ closed' = [closed EXCEPT ![peer[k]] = "reset"]
  /\ IF kind = "async" THEN peer' = Without(peer, k) /\ UNCHANGED server
     ELSE peer' = [peer EXCEPT ![k] = NoClient] /\ server' = "accepting"
  /\ UNCHANGED <<kind, accepting, backlog, client, stream, got>>

AcceptedStep == handle_accept \/ AcceptedSync
WriteStep(k) == write_some(k) \/ handle_write(k)

ClientStep(c) == connect(c) \/ read_some(c)

Waits == backlog = <<>> /\ server \in {"accepting", "ended"} /\ UNCHANGED vars

Next ==
  \/ Accept \/ AcceptFails \/ AcceptedStep
  \/ \E k \in Connections : WriteStep(k)
  \/ \E c \in Clients : ClientStep(c) \/ ClientLeaves(c)
  \/ Waits

Spec == Init /\ [][Next]_vars

-----------------------------------------------------------------------------
(* What DaytimeService knows of it: each connection is the way to one client,
   which has come once. *)
Owed == [c \in Clients |-> IF client[c] \notin {"start", "failed"} /\ closed[c] = "open" THEN 1 ELSE 0]
Answers == [c \in Clients |-> IF closed[c] = "eof" /\ stream[c] = Chunks THEN 1 ELSE 0]

(* A write is one of a connection that is not destroyed, whoever accepts the
   next client; and no connection is left without a handler that keeps it. *)
NothingDangles ==
  /\ writes \subseteq DOMAIN peer
  /\ server # "ended" => DOMAIN peer = writes \union {accepting}
  /\ \A j, k \in writes : peer[j] = peer[k] => j = k

(* tcp_client.cpp:42, "Connection closed cleanly by peer": a client that has met
   the end of the stream has read the message, and all of it. *)
EofMeansWholeMessage == \A c \in Clients : client[c] = "eof" => got[c] = Chunks

(* A client does not wait for ever: it is served, although accepts may fail in
   between, or is told of an error. *)
ClientsEnd == \A c \in Clients : client[c] = "reading" ~> client[c] \in {"eof", "error"}
=============================================================================
