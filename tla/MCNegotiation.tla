---------------------------- MODULE MCNegotiation ----------------------------
(* Values of Negotiation's constants for TLC.  A client is named for what    *)
(* its tree makes it do: u, v and w go over to UDP, t, x and y to TCP, n has *)
(* exactly 65535 bytes, b has one entry more than a datagram can carry.      *)
EXTENDS NegotiationInvariant, TLC

CONSTANTS u, v, w, t, x, y, n, b

UdpClients == {u, v, w}
TcpClients == {t, x, n, b}
MixedClients == {u, t, x}
OnlyN == {n}
OneTcp == {t, x}

MCFileCount == [c \in Clients |-> CASE c \in {u, t} -> 1
                                    [] c \in {v, x} -> 2
                                    [] c = b -> 32
                                    [] OTHER -> 31]
\* w and y have met one entry that is neither a directory nor a regular file.
MCIdx == [c \in Clients |-> IF c \in {w, y} THEN 30 ELSE MCFileCount[c]]
MCTotalSize == [c \in Clients |-> CASE c \in {t, x, y, b} -> 65536
                                    [] c = n -> 65535
                                    [] c = v -> 65534
                                    [] OTHER -> 0]
==============================================================================
