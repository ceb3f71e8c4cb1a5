--------------------------- MODULE SslConnection ---------------------------
(***************************************************************************)
(* The handshake of an HttpServer with useSSL_: SslConnection between the  *)
(* TCP connection and OpenSSL, and a client that keeps to the protocol.    *)
(* OpenSSL reads from readBio_ and writes to writeBio_, two memory BIOs;   *)
(* whatever reaches the client has to be moved from writeBio_ to conn_.    *)
(*                                                                         *)
(* A message stands for a flight of the handshake: "hello" of either side, *)
(* "finished" of the client, "alert".  Reads may split a flight: it        *)
(* arrives as parts, and OpenSSL needs all of them.                        *)
(***************************************************************************)
EXTENDS Naturals, Sequences

CONSTANT Parts   \* number of reads a flight is split into, at least 1

VARIABLES
    client,     \* the client's side: "start", "wait", "done"
    network,    \* parts the client has sent and the server has not read
    readBio_, writeBio_,
    step,       \* OpenSSL: the flight it needs next, or "done"
    state_,     \* SSLState
    conn,       \* "up" or "closing"
    arrived     \* what was sent on conn_

vars == <<client, network, readBio_, writeBio_, step, state_, conn, arrived>>

Flight(name) == [i \in 1..Parts |-> name]

Init ==
    /\ client = "start" /\ network = <<>> /\ readBio_ = <<>> /\ writeBio_ = <<>>
    /\ step = "hello" /\ state_ = "HANDSHAKE" /\ conn = "up" /\ arrived = <<>>

-----------------------------------------------------------------------------
(* The client *)

ClientHello ==
    /\ client = "start" /\ client' = "wait"
    /\ network' = network \o Flight("hello")
    /\ UNCHANGED <<readBio_, writeBio_, step, state_, conn, arrived>>

\* The client answers the server's flight once it has arrived.
ClientFinished ==
    /\ client = "wait" /\ arrived = <<"hello">>
    /\ client' = "done" /\ network' = network \o Flight("finished")
    /\ UNCHANGED <<readBio_, writeBio_, step, state_, conn, arrived>>

\* A client that does not speak TLS.
ClientBabbles ==
    /\ client = "start" /\ client' = "done"
    /\ network' = network \o Flight("junk")
    /\ UNCHANGED <<readBio_, writeBio_, step, state_, conn, arrived>>

-----------------------------------------------------------------------------
(* SSL_do_handshake (OpenSSL), with the bytes of readBio_ *)

Complete(bio) == Len(bio) >= Parts
Outcome(bio) ==
    IF ~Complete(bio) THEN "WANT_READ"
    ELSE IF bio[1] # step THEN "failed"
    ELSE IF step = "finished" THEN "success" ELSE "WANT_READ"

\* What it writes: the server's flight, or an alert.
Written(bio) ==
    IF Outcome(bio) = "failed" THEN <<"alert">>
    ELSE IF Complete(bio) /\ step = "hello" THEN <<"hello">> ELSE <<>>

\* handleHandshake: after WANT_READ and WANT_WRITE the handshake goes on with the next
\* read; a failure closes the connection.
HandleHandshake(bio) ==
    /\ writeBio_' = writeBio_ \o Written(bio)
    /\ readBio_' = IF Complete(bio) THEN <<>> ELSE bio
    /\ step' = IF Outcome(bio) = "WANT_READ" /\ Complete(bio) THEN "finished" ELSE step
    /\ state_' = IF Outcome(bio) = "success" THEN "ESTABLISHED" ELSE state_
    /\ conn' = IF Outcome(bio) = "failed" THEN "closing" ELSE conn

\* onRead during the handshake, with the next part.
OnRead ==
    /\ network # <<>> /\ conn = "up" /\ state_ = "HANDSHAKE"
    /\ network' = Tail(network)
    /\ HandleHandshake(Append(readBio_, Head(network)))
    /\ UNCHANGED <<client, arrived>>

\* send: nothing leaves before the handshake is complete; afterwards everything that
\* writeBio_ holds does.
Drain ==
    /\ state_ = "ESTABLISHED" /\ writeBio_ # <<>>
    /\ arrived' = arrived \o writeBio_ /\ writeBio_' = <<>>
    /\ UNCHANGED <<client, network, readBio_, step, state_, conn>>

Next == ClientHello \/ ClientFinished \/ ClientBabbles \/ OnRead \/ Drain

\* The client goes on when it can, and the event loop hands over what arrives.
Spec ==
    /\ Init /\ [][Next]_vars
    /\ WF_vars(ClientHello) /\ WF_vars(ClientFinished) /\ WF_vars(OnRead) /\ WF_vars(Drain)

-----------------------------------------------------------------------------
(* Properties *)

\* "start the SSL handshake (establish the encrypted channel)" (HttpServer.cpp:85): a
\* handshake that was begun ends, with an established channel or a closed connection.
HandshakeEnds == <>(state_ = "ESTABLISHED" \/ conn = "closing")
=============================================================================
