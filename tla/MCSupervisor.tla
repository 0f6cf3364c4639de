---------------------------- MODULE MCSupervisor ----------------------------
(* Small processes for TLC. *)
EXTENDS Supervisor, TLC

Listen(addr) == [addr |-> addr, tls |-> FALSE, h3 |-> FALSE]
ListenTls(addr, quic) == [addr |-> addr, tls |-> TRUE, h3 |-> quic]
Tcp(addr) == [addr |-> addr, udp |-> FALSE]
Udp(addr) == [addr |-> addr, udp |-> TRUE]

\* A TLS address with QUIC beside a TCP relay; without QUIC beside a UDP relay;
\* the two addresses swapped and without TLS, one relayed for TCP and UDP.
MCConfigs ==
  {[http |-> {ListenTls("a", TRUE)}, streams |-> <<Tcp("b")>>, user |-> TRUE],
   [http |-> {ListenTls("a", FALSE)}, streams |-> <<Udp("b")>>, user |-> TRUE],
   [http |-> {Listen("b")}, streams |-> <<Tcp("a"), Udp("a")>>, user |-> FALSE]}

\* Plain HTTP that moves to another port.
MovingConfigs ==
  {[http |-> {Listen("a")}, streams |-> << >>, user |-> FALSE],
   [http |-> {Listen("b")}, streams |-> << >>, user |-> FALSE]}

\* TCP and UDP relays of one port.
DnsConfigs == {[http |-> {}, streams |-> <<Tcp("a"), Udp("a")>>, user |-> FALSE]}
=============================================================================
