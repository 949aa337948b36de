------------------------------- MODULE IPAddress -------------------------------
(***************************************************************************)
(* class IPAddress (net/ip_address.h, ip_address.cpp): values and their    *)
(* operators.  An address is a family and the bytes of u_ in network       *)
(* order; a uint32_t is the sequence of its bytes, the most significant    *)
(* first.  The host is little-endian, as the ones it is built for are.     *)
(***************************************************************************)
EXTENDS Integers, Sequences

AF_UNSPEC == "AF_UNSPEC"
AF_INET   == "AF_INET"
AF_INET6  == "AF_INET6"

Byte == {n \in Nat : n < 256}
Bytes(n) == [1..n -> Byte]
Zeros(n) == [i \in 1..n |-> 0]

(* u_ is a union of 16 bytes: an address that is not IPv6 has the rest of  *)
(* it 0.                                                                   *)
IPAddresses == [family : {AF_UNSPEC, AF_INET, AF_INET6}, u : Bytes(16)]

Unspec    == [family |-> AF_UNSPEC, u |-> Zeros(16)]
IPv4(b)   == [family |-> AF_INET, u |-> [i \in 1..16 |-> IF i <= 4 THEN b[i] ELSE 0]]
IPv6(b)   == [family |-> AF_INET6, u |-> b]

ipv4_address(ip) == [i \in 1..4 |-> ip.u[i]]

Swapped(word) == [i \in 1..4 |-> word[5 - i]]

(* The value of s_addr, read as an integer, and the bytes of one stored. *)
s_addr(bytes) == Swapped(bytes)
ntohl(value)  == Swapped(value)
htonl(value)  == Swapped(value)
Stored(value) == Swapped(value)

(* IPAddress(uint32_t ip_in_host_byte_order) *)
FromInteger(value) == IPv4(Stored(htonl(value)))

v4AddressAsHostOrderInteger(ip) ==
  IF ip.family = AF_INET THEN ntohl(s_addr(ipv4_address(ip))) ELSE Zeros(4)

Mapped(b) == [i \in 1..16 |-> IF i <= 10 THEN 0 ELSE IF i <= 12 THEN 255 ELSE b[i - 12]]

kV4MappedPrefix == Mapped(Zeros(4))

(* Mutant: the integer's bytes instead of the address's. *)
AsIPv6Address_HostOrder(ip) ==
  IF ip.family = AF_INET6 THEN ip
  ELSE IPv6(Mapped(s_addr(ipv4_address(ip))))

AsIPv6Address(ip) ==
  IF ip.family = AF_INET6 THEN ip
  ELSE IPv6(Mapped(ipv4_address(ip)))

-----------------------------------------------------------------------------
(* operator== *)
Equal(a, b) ==
  /\ a.family = b.family
  /\ a.family = AF_INET => ipv4_address(a) = ipv4_address(b)
  /\ a.family = AF_INET6 => a.u = b.u

(* memcmp, and < of integers *)
LexLess(s, t) == \E i \in DOMAIN s : s[i] < t[i] /\ \A j \in 1..(i - 1) : s[j] = t[j]

(* Mutant: nothing is said of AF_UNSPEC. *)
Less_UnspecForgotten(a, b) ==
  IF a.family # b.family THEN a.family = AF_INET /\ b.family = AF_INET6
  ELSE \/ /\ a.family = AF_INET
          /\ LexLess(v4AddressAsHostOrderInteger(a), v4AddressAsHostOrderInteger(b))
       \/ a.family = AF_INET6 /\ LexLess(a.u, b.u)

(* operator< *)
Less(a, b) ==
  IF a.family # b.family
  THEN a.family = AF_UNSPEC \/ (a.family = AF_INET /\ b.family = AF_INET6)
  ELSE \/ /\ a.family = AF_INET
          /\ LexLess(v4AddressAsHostOrderInteger(a), v4AddressAsHostOrderInteger(b))
       \/ a.family = AF_INET6 /\ LexLess(a.u, b.u)

-----------------------------------------------------------------------------
(* Classes of addresses.                                                   *)

IPIsUnspec(ip) == ip.family = AF_UNSPEC

IPIsAny(ip) ==
  \/ ip.family = AF_INET /\ Equal(ip, FromInteger(Zeros(4)))
  \/ ip.family = AF_INET6 /\ (Equal(ip, IPv6(Zeros(16))) \/ Equal(ip, IPv6(kV4MappedPrefix)))

in6addr_loopback == [i \in 1..16 |-> IF i = 16 THEN 1 ELSE 0]

(* The shift by 24. *)
IPIsLoopbackV4(ip) == v4AddressAsHostOrderInteger(ip)[1] = 127

IPIsLoopback(ip) == \/ ip.family = AF_INET /\ IPIsLoopbackV4(ip)
                    \/ ip.family = AF_INET6 /\ Equal(ip, IPv6(in6addr_loopback))

(* Mutant: 172.16 like 192.168, by its first two bytes. *)
IPIsPrivateNetworkV4_TwoBytes(ip) ==
  LET v == v4AddressAsHostOrderInteger(ip)
  IN  v[1] = 10 \/ (v[1] = 172 /\ v[2] = 16) \/ (v[1] = 192 /\ v[2] = 168)

(* The shifts by 24, 20 and 16. *)
IPIsPrivateNetworkV4(ip) ==
  LET v == v4AddressAsHostOrderInteger(ip)
  IN  v[1] = 10 \/ (v[1] = 172 /\ v[2] \div 16 = 1) \/ (v[1] = 192 /\ v[2] = 168)

IPIsPrivate(ip) == \/ ip.family = AF_INET /\ IPIsPrivateNetworkV4(ip)
                   \/ ip.family = AF_INET6 /\ ip.u[1] = 253
=============================================================================
