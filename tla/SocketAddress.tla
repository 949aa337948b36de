----------------------------- MODULE SocketAddress -----------------------------
(***************************************************************************)
(* class SocketAddress (net/socket_address.h, socket_address.cpp): objects *)
(* with a host name, an IP address and a port, the operations that change  *)
(* them one at a time, and the comparisons and conversions.  A text is     *)
(* what inet_pton, or FromString, finds in it.  literal_, which nothing    *)
(* reads, and scoped_id_ are left out.                                     *)
(***************************************************************************)
EXTENDS IPAddress, FiniteSets

CONSTANTS
  Objs,        \* SocketAddress objects
  Names,       \* host names, "" among them
  NameRank,    \* their order as std::strings
  Inet, Inet6, \* the bytes inet_pton finds in names that are addresses
  IPs,         \* IP addresses to use
  Ports,       \* ints given as ports
  Texts        \* arguments of FromString

NoName == ""

uint16_t == {n \in Nat : n < 65536}

(* FromString's argument: whether it begins with '[', has a ']', has a ':' *)
(* (behind the ']', if any); the text before the ':' or in brackets; and   *)
(* what strtoul makes of the rest.                                         *)
ASSUME AddressAssumption ==
  /\ NoName \in Names
  /\ NameRank \in [Names -> Nat] /\ \A m, n \in Names : NameRank[m] = NameRank[n] => m = n
  /\ DOMAIN Inet \cup DOMAIN Inet6 \subseteq Names \ {NoName}
  /\ \A name \in DOMAIN Inet : Inet[name] \in Bytes(4)
  /\ \A name \in DOMAIN Inet6 : Inet6[name] \in Bytes(16)
  /\ IPs \subseteq IPAddresses
  /\ Ports \subseteq Int
  /\ Texts \subseteq [open : BOOLEAN, close : BOOLEAN, colon : BOOLEAN, name : Names, port : Int]

VARIABLE addr
vars == <<addr>>

SocketAddresses == [hostname_ : Names, ip_ : IPAddresses, port_ : uint16_t]

(* Host names, IP addresses and 16-bit ports, whatever ints they come from. *)
TypeOK == addr \in [Objs -> SocketAddresses]

NilAddress == [hostname_ |-> NoName, ip_ |-> Unspec, port_ |-> 0]

Init == addr = [o \in Objs |-> NilAddress]

(* Mutant: the int as it is. *)
ToPort_Int(port) == port

ToPort(port) == port % 65536

IPFromString(str) == IF str \in DOMAIN Inet THEN IPv4(Inet[str])
                     ELSE IF str \in DOMAIN Inet6 THEN IPv6(Inet6[str]) ELSE Unspec

-----------------------------------------------------------------------------
(* Comparisons.                                                            *)

(* Mutant: a name is compared where there is an address, too. *)
EqualIPs_NameOnly(x, y) == x.hostname_ = y.hostname_

(* Two addresses without a definite IP are never equal, not even copies.   *)
EqualIPs(x, y) == /\ Equal(x.ip_, y.ip_)
                  /\ ~IPIsAny(x.ip_) /\ ~IPIsUnspec(x.ip_)
                  /\ x.hostname_ = y.hostname_

EqualAddress(x, y) == EqualIPs(x, y) /\ x.port_ = y.port_

(* operator<: && binds tighter than ||, so for an any address the port     *)
(* does not count.                                                         *)
LessAddress(x, y) ==
  IF ~Equal(x.ip_, y.ip_) THEN Less(x.ip_, y.ip_)
  ELSE IF IPIsAny(x.ip_) \/ (IPIsUnspec(x.ip_) /\ x.hostname_ # y.hostname_)
       THEN NameRank[x.hostname_] < NameRank[y.hostname_]
       ELSE x.port_ < y.port_

-----------------------------------------------------------------------------
(* What Bind asks of an address.                                           *)

IsAnyIP(x) == IPIsAny(x.ip_)

IsLoopBackIP(x) == IPIsLoopback(x.ip_) \/ (IPIsAny(x.ip_) /\ x.hostname_ = "localhost")

-----------------------------------------------------------------------------
(* Conversions.  The port is two bytes in network order.                   *)

htons(port)  == <<port \div 256, port % 256>>
ntohs(bytes) == 256 * bytes[1] + bytes[2]

ToSockAddr(x) ==
  [family |-> AF_INET, port |-> htons(x.port_),
   addr |-> IF IPIsAny(x.ip_) THEN Zeros(4) ELSE ipv4_address(x.ip_)]

ToSockAddrStorage(x) ==
  CASE x.ip_.family = AF_INET  -> [family |-> AF_INET, port |-> htons(x.port_),
                                   addr |-> ipv4_address(x.ip_)]
    [] x.ip_.family = AF_INET6 -> [family |-> AF_INET6, port |-> htons(x.port_),
                                   addr |-> x.ip_.u]
    [] OTHER -> [family |-> AF_UNSPEC, port |-> htons(0), addr |-> <<>>]

(* Mutant: no ntohl. *)
FromSockAddr_NoSwap(x, sa) ==
  IF sa.family # AF_INET THEN x
  ELSE [x EXCEPT !.ip_ = FromInteger(s_addr(sa.addr)), !.port_ = ntohs(sa.port)]

FromSockAddr(x, sa) ==
  IF sa.family # AF_INET THEN x
  ELSE [x EXCEPT !.ip_ = FromInteger(ntohl(s_addr(sa.addr))), !.port_ = ntohs(sa.port)]

(* s_addr is handed to the constructor that wants host byte order: an IPv4 *)
(* address comes out with its bytes reversed.                              *)
SocketAddressFromSockAddrStorage(x, sa) ==
  CASE sa.family = AF_INET  -> [hostname_ |-> NoName, ip_ |-> FromInteger(s_addr(sa.addr)),
                                port_ |-> ntohs(sa.port)]
    [] sa.family = AF_INET6 -> [hostname_ |-> NoName, ip_ |-> IPv6(sa.addr),
                                port_ |-> ntohs(sa.port)]
    [] OTHER -> x

-----------------------------------------------------------------------------
(* Operations.                                                             *)

Change(o, x) == addr' = [addr EXCEPT ![o] = x]

Construct(o, ip, port) ==
  Change(o, [hostname_ |-> NoName, ip_ |-> ip, port_ |-> ToPort(port)])

Clear(o) == Change(o, NilAddress)

Assign(o, p) == Change(o, addr[p])

SetIP_string(o, name) ==
  Change(o, [addr[o] EXCEPT !.hostname_ = name, !.ip_ = IPFromString(name)])

(* The host name stays. *)
SetIP(o, ip) == Change(o, [addr[o] EXCEPT !.ip_ = ip])

SetPort(o, port) == Change(o, [addr[o] EXCEPT !.port_ = ToPort(port)])

(* A text that fails changes nothing; one with '[' and no ']' changes      *)
(* nothing either, and counts as read.                                     *)
FromString(o, text) ==
  IF text.colon /\ (text.open => text.close)
  THEN Change(o, [hostname_ |-> text.name, ip_ |-> IPFromString(text.name),
                  port_ |-> ToPort(text.port)])
  ELSE UNCHANGED addr

Receive(o, p) == Change(o, FromSockAddr(addr[o], ToSockAddr(addr[p])))

ReceiveStorage(o, p) ==
  Change(o, SocketAddressFromSockAddrStorage(addr[o], ToSockAddrStorage(addr[p])))

Next == \E o \in Objs :
  \/ \E ip \in IPs, port \in Ports : Construct(o, ip, port)
  \/ Clear(o)
  \/ \E p \in Objs \ {o} : Assign(o, p) \/ Receive(o, p) \/ ReceiveStorage(o, p)
  \/ \E name \in Names : SetIP_string(o, name)
  \/ \E ip \in IPs : SetIP(o, ip)
  \/ \E port \in Ports : SetPort(o, port)
  \/ \E text \in Texts : FromString(o, text)

Spec == Init /\ [][Next]_vars

-----------------------------------------------------------------------------
(* Properties.                                                             *)

(* operator< can order a std::map: it is irreflexive and transitive, and   *)
(* so is being neither smaller nor greater, for addresses of any families, *)
(* with and without names, made in any way; and operator== is symmetric,   *)
(* transitive and never true of two addresses of which one is smaller.     *)
OrderIsStrictWeak ==
  LET lt(o, p)   == LessAddress(addr[o], addr[p])
      same(o, p) == ~lt(o, p) /\ ~lt(p, o)
      eq(o, p)   == EqualAddress(addr[o], addr[p])
  IN  \A o, p, q \in Objs : /\ ~lt(o, o)
                            /\ lt(o, p) /\ lt(p, q) => lt(o, q)
                            /\ same(o, p) /\ same(p, q) => same(o, q)
                            /\ eq(o, p) => eq(p, o) /\ same(o, p)
                            /\ eq(o, p) /\ eq(p, q) => eq(o, q)

(* An IPv4 address and its port survive ToSockAddr and FromSockAddr, and   *)
(* what was any, of either family, still is.  An IPv6 address survives     *)
(* sockaddr_storage, and so does the port with any family; an IPv4 address *)
(* does not, it is reversed.  Mapping IPv4 addresses into IPv6 keeps them  *)
(* apart, in order, and any.                                               *)
ConversionsLoseNothing ==
  /\ \A o \in Objs :
       LET back == FromSockAddr(NilAddress, ToSockAddr(addr[o]))
           kept == SocketAddressFromSockAddrStorage(NilAddress, ToSockAddrStorage(addr[o]))
       IN  /\ back.port_ = addr[o].port_
           /\ addr[o].ip_.family = AF_INET => Equal(back.ip_, addr[o].ip_)
           /\ IPIsAny(addr[o].ip_) => IPIsAny(back.ip_)
           /\ addr[o].ip_.family = AF_INET6 => Equal(kept.ip_, addr[o].ip_)
           /\ addr[o].ip_.family # AF_UNSPEC => kept.port_ = addr[o].port_
  /\ \A o, p \in Objs : LET a == addr[o].ip_  b == addr[p].ip_ IN
       (a.family = AF_INET /\ b.family = AF_INET) =>
          /\ Equal(a, b) <=> Equal(AsIPv6Address(a), AsIPv6Address(b))
          /\ Less(a, b) <=> Less(AsIPv6Address(a), AsIPv6Address(b))
          /\ IPIsAny(a) <=> IPIsAny(AsIPv6Address(a))

(* The shifts of IPIsPrivate are the ranges its comment gives, 10.x.x.x,   *)
(* 172.16.0.0 to 172.31.255.255, 192.168.x.x; no address is two of any,    *)
(* loopback and private; and only a name can make an address both what     *)
(* IsAnyIP and what IsLoopBackIP looks for, the two that Bind lets pass.   *)
ClassesAreApart ==
  \A o \in Objs : LET ip == addr[o].ip_ IN
    /\ ip.family = AF_INET =>
         LET v == ipv4_address(ip)
             In(first, last) == ~LexLess(v, first) /\ ~LexLess(last, v)
         IN  IPIsPrivate(ip) <=> \/ In(<<10, 0, 0, 0>>, <<10, 255, 255, 255>>)
                                 \/ In(<<172, 16, 0, 0>>, <<172, 31, 255, 255>>)
                                 \/ In(<<192, 168, 0, 0>>, <<192, 168, 255, 255>>)
    /\ ~(IPIsAny(ip) /\ IPIsLoopback(ip))
    /\ ~(IPIsAny(ip) /\ IPIsPrivate(ip))
    /\ ~(IPIsLoopback(ip) /\ IPIsPrivate(ip))
    /\ IsAnyIP(addr[o]) /\ IsLoopBackIP(addr[o]) => addr[o].hostname_ = "localhost"
=============================================================================
