---------------------------- MODULE MCPeerConnection ----------------------------
(* Model checking PeerConnection: small clients, small kernel buffers.  A      *)
(* client of a connection without TLS waits for its replies, because a plain   *)
(* socket that is full when write() is called loses the rest of a reply        *)
(* (SEND_FAILURE for EAGAIN, socket.hh:119); so HTTP/2 does too.                *)
EXTENDS PeerConnection

Conn(protocol, use_ssl, pipelining, reply) ==
    [protocol |-> protocol, use_ssl |-> use_ssl, pipelining |-> pipelining,
     wellformed |-> TRUE, reply |-> reply]

Http1Tls   == Conn("http1", TRUE,  TRUE,  2)
Http1Plain == Conn("http1", FALSE, FALSE, 2)
LargeReply == Conn("http1", FALSE, FALSE, 5)
Http2Tls   == Conn("http2", TRUE,  TRUE,  2)
Http2Plain == Conn("http2", FALSE, FALSE, 2)
Iot        == Conn("iot",   FALSE, FALSE, 2)
Listener   == Conn("listen", FALSE, TRUE, 1)

(* Requests that are cut short, or otherwise do not parse. *)
Unparsed(c) == [c EXCEPT !.wellformed = FALSE]

AllConnections   == {Http1Tls, Http1Plain, LargeReply, Http2Tls, Http2Plain, Iot,
                     Listener, Unparsed(Http1Tls), Unparsed(Http1Plain)}

==============================================================================
