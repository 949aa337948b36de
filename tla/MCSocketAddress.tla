---------------------------- MODULE MCSocketAddress ----------------------------
(* An instance of SocketAddress for TLC: three objects, addresses at the   *)
(* edges of the IPv4 classes the code tells apart and just outside one, a  *)
(* port that needs its cut to 16 bits and both its bytes.  The IPv4        *)
(* addresses read the same backwards, so that ReceiveStorage adds none.    *)
EXTENDS SocketAddress, TLC

CONSTANTS o1, o2, o3

ThreeObjs == {o1, o2, o3}

FewNames == {NoName, "10.0.0.1", "::1", "localhost"}
Ranks    == [n \in FewNames |-> CASE n = NoName -> 0 [] n = "10.0.0.1" -> 1
                         [] n = "::1" -> 2 [] OTHER -> 3]
Inets    == [n \in {"10.0.0.1"} |-> <<10, 0, 0, 1>>]
Inet6s   == [n \in {"::1"} |-> in6addr_loopback]

FewIPs == {IPv4(Zeros(4)), IPv4(<<172, 31, 31, 172>>), IPv4(<<172, 32, 32, 172>>),
           IPv4(<<192, 168, 168, 192>>), IPv4(<<127, 0, 0, 127>>),
           IPv6(Zeros(16)), IPv6(kV4MappedPrefix)}

OnePort   == {65536 + 443}
Text(open, close, colon, name) ==
  [open |-> open, close |-> close, colon |-> colon, name |-> name, port |-> 443]
SomeTexts == {Text(FALSE, FALSE, TRUE, "localhost"), Text(FALSE, FALSE, FALSE, "localhost"),
              Text(TRUE, FALSE, TRUE, "::1"), Text(TRUE, TRUE, TRUE, "::1")}

Sym == Permutations(ThreeObjs)
=============================================================================
