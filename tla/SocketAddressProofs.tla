-------------------------- MODULE SocketAddressProofs --------------------------
(***************************************************************************)
(* Proofs about IPAddress and SocketAddress: for any objects, names,       *)
(* addresses and ports, addresses are ordered as std::map needs it, the    *)
(* conversions lose nothing, and the classes of addresses are apart.       *)
(***************************************************************************)
EXTENDS SocketAddress, TLAPS

-----------------------------------------------------------------------------
(* Sequences of bytes, compared as memcmp does.                            *)

(* What a sequence of bytes holds. *)
LEMMA BytesAt ==
  ASSUME NEW n \in Nat, NEW s \in Bytes(n)
  PROVE  DOMAIN s = 1..n /\ \A i \in 1..n : s[i] \in Int
<1>1. Byte \subseteq Int
  BY DEF Byte
<1>2. DOMAIN s = 1..n /\ \A i \in 1..n : s[i] \in Byte
  BY DEF Bytes
<1> QED BY <1>1, <1>2

(* Nothing is less than itself. *)
LEMMA LexIrreflexive ==
  ASSUME NEW n \in Nat, NEW s \in Bytes(n)
  PROVE  ~LexLess(s, s)
BY BytesAt DEF LexLess

(* The first place where three sequences differ decides. *)
LEMMA LexTransitive ==
  ASSUME NEW n \in Nat, NEW s \in Bytes(n), NEW t \in Bytes(n), NEW v \in Bytes(n),
         LexLess(s, t), LexLess(t, v)
  PROVE  LexLess(s, v)
<1>0. /\ DOMAIN s = 1..n /\ DOMAIN t = 1..n
      /\ \A i \in 1..n : s[i] \in Int /\ t[i] \in Int /\ v[i] \in Int
  BY BytesAt
<1>1. PICK i \in 1..n : s[i] < t[i] /\ \A j \in 1..(i - 1) : s[j] = t[j]
  BY <1>0 DEF LexLess
<1>2. PICK k \in 1..n : t[k] < v[k] /\ \A j \in 1..(k - 1) : t[j] = v[j]
  BY <1>0 DEF LexLess
<1>3. CASE i <= k
  <2>1. s[i] < v[i]
    BY <1>0, <1>1, <1>2, <1>3
  <2>2. \A j \in 1..(i - 1) : s[j] = v[j]
    BY <1>1, <1>2, <1>3
  <2> QED BY <1>0, <2>1, <2>2 DEF LexLess
<1>4. CASE k < i
  <2>1. s[k] < v[k]
    BY <1>0, <1>1, <1>2, <1>4
  <2>2. \A j \in 1..(k - 1) : s[j] = v[j]
    BY <1>1, <1>2, <1>4
  <2> QED BY <1>0, <2>1, <2>2 DEF LexLess
<1> QED BY <1>3, <1>4

(* If the first i bytes agree and neither sequence is less, so does the    *)
(* next one.                                                               *)
LEMMA LexNext ==
  ASSUME NEW n \in Nat, NEW s \in Bytes(n), NEW t \in Bytes(n), NEW i \in 1..n,
         ~LexLess(s, t), ~LexLess(t, s), \A j \in 1..(i - 1) : s[j] = t[j]
  PROVE  s[i] = t[i]
<1>1. s[i] \in Int /\ t[i] \in Int
  BY BytesAt
<1>2. i \in DOMAIN s /\ i \in DOMAIN t
  BY BytesAt
<1>3. ~(s[i] < t[i]) /\ ~(t[i] < s[i])
  BY <1>2 DEF LexLess
<1> QED BY <1>1, <1>3

(* Of two different words one is less. *)
LEMMA LexTotalOnWords ==
  ASSUME NEW s \in Bytes(4), NEW t \in Bytes(4), ~LexLess(s, t), ~LexLess(t, s)
  PROVE  s = t
<1>1. s[1] = t[1]  BY LexNext
<1>2. s[2] = t[2]  BY LexNext, <1>1
<1>3. s[3] = t[3]  BY LexNext, <1>1, <1>2
<1>4. s[4] = t[4]  BY LexNext, <1>1, <1>2, <1>3
<1> QED BY <1>1, <1>2, <1>3, <1>4 DEF Bytes

(* ... and of two different IPv6 addresses. *)
LEMMA LexTotalOnSixteen ==
  ASSUME NEW s \in Bytes(16), NEW t \in Bytes(16), ~LexLess(s, t), ~LexLess(t, s)
  PROVE  s = t
<1> DEFINE Agree(i) == \A j \in 1..i : s[j] = t[j]
<1>0. ASSUME NEW i \in 1..16, Agree(i - 1) PROVE Agree(i)
  <2>1. s[i] = t[i]  BY <1>0, LexNext
  <2> QED BY <1>0, <2>1
<1>1. Agree(0)  OBVIOUS
<1>2. Agree(1)  BY <1>0, <1>1
<1>3. Agree(2)  BY <1>0, <1>2
<1>4. Agree(3)  BY <1>0, <1>3
<1>5. Agree(4)  BY <1>0, <1>4
<1>6. Agree(5)  BY <1>0, <1>5
<1>7. Agree(6)  BY <1>0, <1>6
<1>8. Agree(7)  BY <1>0, <1>7
<1>9. Agree(8)  BY <1>0, <1>8
<1>10. Agree(9)  BY <1>0, <1>9
<1>11. Agree(10)  BY <1>0, <1>10
<1>12. Agree(11)  BY <1>0, <1>11
<1>13. Agree(12)  BY <1>0, <1>12
<1>14. Agree(13)  BY <1>0, <1>13
<1>15. Agree(14)  BY <1>0, <1>14
<1>16. Agree(15)  BY <1>0, <1>15
<1>17. Agree(16)  BY <1>0, <1>16
<1> QED BY <1>17 DEF Bytes

-----------------------------------------------------------------------------
(* IP addresses.                                                           *)

(* The bytes of an IPv4 address. *)
LEMMA WordOf ==
  ASSUME NEW ip \in IPAddresses
  PROVE  ipv4_address(ip) \in Bytes(4)
BY DEF IPAddresses, Bytes, ipv4_address

(* On a little-endian host ntohl undoes what reading s_addr did. *)
LEMMA HostOrder ==
  ASSUME NEW ip \in IPAddresses, ip.family = AF_INET
  PROVE  v4AddressAsHostOrderInteger(ip) = ipv4_address(ip)
<1>1. v4AddressAsHostOrderInteger(ip) = Swapped(Swapped(ipv4_address(ip)))
  BY DEF v4AddressAsHostOrderInteger, ntohl, s_addr
<1>2. \A i \in 1..4 : 5 - i \in 1..4 /\ 5 - (5 - i) = i
  OBVIOUS
<1>3. ipv4_address(ip) = [i \in 1..4 |-> ipv4_address(ip)[i]]
  BY DEF ipv4_address
<1> QED BY <1>1, <1>2, <1>3 DEF Swapped

(* operator== is an equivalence. *)
LEMMA EqualEquivalence ==
  ASSUME NEW a, NEW b, NEW c
  PROVE  /\ Equal(a, a)
         /\ Equal(a, b) => Equal(b, a)
         /\ Equal(a, b) /\ Equal(b, c) => Equal(a, c)
BY DEF Equal

(* ... and operator< a total order of its classes. *)
LEMMA LessIrreflexive ==
  ASSUME NEW a \in IPAddresses, NEW b \in IPAddresses, Equal(a, b)
  PROVE  ~Less(a, b)
<1>1. CASE a.family = AF_INET
  BY <1>1, HostOrder, WordOf, LexIrreflexive DEF Equal, Less, AF_INET, AF_INET6
<1>2. CASE a.family = AF_INET6
  <2>1. a.u \in Bytes(16)  BY DEF IPAddresses
  <2> QED BY <1>2, <2>1, LexIrreflexive DEF Equal, Less, AF_INET, AF_INET6
<1> QED BY <1>1, <1>2 DEF Equal, Less

LEMMA LessTransitive ==
  ASSUME NEW a \in IPAddresses, NEW b \in IPAddresses, NEW c \in IPAddresses, Less(a, b), Less(b, c)
  PROVE  Less(a, c)
<1>1. CASE a.family = AF_INET /\ b.family = AF_INET /\ c.family = AF_INET
  BY <1>1, HostOrder, WordOf, LexTransitive DEF Less, AF_INET, AF_INET6
<1>2. CASE a.family = AF_INET6 /\ b.family = AF_INET6 /\ c.family = AF_INET6
  <2>1. a.u \in Bytes(16) /\ b.u \in Bytes(16) /\ c.u \in Bytes(16)  BY DEF IPAddresses
  <2> QED BY <1>2, <2>1, LexTransitive DEF Less, AF_INET, AF_INET6
<1> QED BY <1>1, <1>2 DEF Less, IPAddresses, AF_INET, AF_INET6, AF_UNSPEC

LEMMA LessTotal ==
  ASSUME NEW a \in IPAddresses, NEW b \in IPAddresses, ~Less(a, b), ~Less(b, a)
  PROVE  Equal(a, b)
<1>1. a.family = b.family
  BY DEF Less, IPAddresses
<1>2. CASE a.family = AF_INET
  BY <1>1, <1>2, HostOrder, WordOf, LexTotalOnWords DEF Equal, Less, AF_INET, AF_INET6
<1>3. CASE a.family = AF_INET6
  <2>1. a.u \in Bytes(16) /\ b.u \in Bytes(16)  BY DEF IPAddresses
  <2> QED BY <1>1, <1>3, <2>1, LexTotalOnSixteen DEF Equal, Less, AF_INET, AF_INET6
<1> QED BY <1>1, <1>2, <1>3 DEF Equal

(* Equal addresses are in the same classes. *)
LEMMA EqualInClass ==
  ASSUME NEW a, NEW b, Equal(a, b)
  PROVE  (IPIsAny(a) <=> IPIsAny(b)) /\ (IPIsUnspec(a) <=> IPIsUnspec(b))
<1>1. a.family = b.family
  BY DEF Equal
<1> QED BY <1>1, EqualEquivalence DEF IPIsAny, IPIsUnspec

(* operator< gives addresses equal to each other the same place. *)
LEMMA LessRespectsEqual ==
  ASSUME NEW a \in IPAddresses, NEW b \in IPAddresses, NEW c \in IPAddresses, Equal(a, b)
  PROVE  (Less(a, c) <=> Less(b, c)) /\ (Less(c, a) <=> Less(c, b))
<1>1. a.family = b.family
  BY DEF Equal
<1>2. CASE a.family = AF_INET
  BY <1>1, <1>2, HostOrder DEF Equal, Less, AF_INET, AF_INET6
<1> QED BY <1>1, <1>2 DEF Equal, Less

-----------------------------------------------------------------------------
(* Socket addresses.                                                       *)

(* What operator< compares, and how it tells names apart. *)
LEMMA Parts ==
  ASSUME NEW x \in SocketAddresses, NEW y \in SocketAddresses
  PROVE  /\ x.ip_ \in IPAddresses
         /\ x.port_ \in Int
         /\ NameRank[x.hostname_] \in Int
         /\ NameRank[x.hostname_] = NameRank[y.hostname_] => x.hostname_ = y.hostname_
<1>1. x.hostname_ \in Names /\ y.hostname_ \in Names
  BY DEF SocketAddresses
<1>2. x.ip_ \in IPAddresses
  BY DEF SocketAddresses
<1>3. x.port_ \in uint16_t
  BY DEF SocketAddresses
<1>4. x.port_ \in Int
  BY <1>3 DEF uint16_t
<1>5. NameRank \in [Names -> Nat]
  BY Zenon, AddressAssumption
<1>6. \A m, n \in Names : NameRank[m] = NameRank[n] => m = n
  BY Zenon, AddressAssumption
<1>7. NameRank[x.hostname_] \in Int
  BY <1>1, <1>5
<1>8. NameRank[x.hostname_] = NameRank[y.hostname_] => x.hostname_ = y.hostname_
  BY <1>1, <1>6
<1> QED BY <1>2, <1>4, <1>7, <1>8

(* Addresses with equal IPs are ordered by name, by port or, without an    *)
(* IP, by both.                                                            *)
LEMMA TieTransitive ==
  ASSUME NEW x \in SocketAddresses, NEW y \in SocketAddresses, NEW z \in SocketAddresses,
         Equal(x.ip_, y.ip_), Equal(y.ip_, z.ip_)
  PROVE  /\ LessAddress(x, y) /\ LessAddress(y, z) => LessAddress(x, z)
         /\ /\ ~LessAddress(x, y) /\ ~LessAddress(y, x)
            /\ ~LessAddress(y, z) /\ ~LessAddress(z, y)
            => ~LessAddress(x, z) /\ ~LessAddress(z, x)
<1>1. /\ Equal(x.ip_, z.ip_) /\ Equal(z.ip_, x.ip_)
      /\ Equal(y.ip_, x.ip_) /\ Equal(z.ip_, y.ip_)
  BY EqualEquivalence
<1>2. /\ IPIsAny(x.ip_) <=> IPIsAny(y.ip_)
      /\ IPIsAny(y.ip_) <=> IPIsAny(z.ip_)
      /\ IPIsUnspec(x.ip_) <=> IPIsUnspec(y.ip_)
      /\ IPIsUnspec(y.ip_) <=> IPIsUnspec(z.ip_)
  BY EqualInClass
<1>3. /\ NameRank[x.hostname_] \in Int /\ NameRank[y.hostname_] \in Int /\ NameRank[z.hostname_] \in Int
      /\ x.port_ \in Int /\ y.port_ \in Int /\ z.port_ \in Int
      /\ NameRank[x.hostname_] = NameRank[y.hostname_] => x.hostname_ = y.hostname_
      /\ NameRank[y.hostname_] = NameRank[z.hostname_] => y.hostname_ = z.hostname_
      /\ NameRank[x.hostname_] = NameRank[z.hostname_] => x.hostname_ = z.hostname_
  BY Parts
<1> QED BY <1>1, <1>2, <1>3 DEF LessAddress

(* Addresses neither of which is less have equal IPs. *)
LEMMA TieEqual ==
  ASSUME NEW x \in SocketAddresses, NEW y \in SocketAddresses,
         ~LessAddress(x, y), ~LessAddress(y, x)
  PROVE  Equal(x.ip_, y.ip_)
<1>1. x.ip_ \in IPAddresses /\ y.ip_ \in IPAddresses
  BY Parts
<1>2. Equal(y.ip_, x.ip_) => Equal(x.ip_, y.ip_)
  BY EqualEquivalence
<1> QED BY <1>1, <1>2, LessTotal DEF LessAddress

LEMMA AddressIrreflexive ==
  ASSUME NEW x \in SocketAddresses
  PROVE  ~LessAddress(x, x)
BY EqualEquivalence, Parts DEF LessAddress

LEMMA AddressTransitive ==
  ASSUME NEW x \in SocketAddresses, NEW y \in SocketAddresses, NEW z \in SocketAddresses,
         LessAddress(x, y), LessAddress(y, z)
  PROVE  LessAddress(x, z)
<1>1. x.ip_ \in IPAddresses /\ y.ip_ \in IPAddresses /\ z.ip_ \in IPAddresses
  BY Parts
<1>2. CASE Equal(x.ip_, y.ip_) /\ Equal(y.ip_, z.ip_)
  BY <1>2, TieTransitive
<1>3. CASE ~(Equal(x.ip_, y.ip_) /\ Equal(y.ip_, z.ip_))
  <2>1. Less(x.ip_, z.ip_)
    <3>1. CASE Equal(x.ip_, y.ip_)
      BY <1>1, <1>3, <3>1, LessRespectsEqual DEF LessAddress
    <3>2. CASE Equal(y.ip_, z.ip_)
      BY <1>1, <1>3, <3>2, LessRespectsEqual DEF LessAddress
    <3>3. CASE ~Equal(x.ip_, y.ip_) /\ ~Equal(y.ip_, z.ip_)
      BY <1>1, <3>3, LessTransitive DEF LessAddress
    <3> QED BY <3>1, <3>2, <3>3
  <2>2. ~Equal(x.ip_, z.ip_)
    BY <1>1, <2>1, LessIrreflexive
  <2> QED BY <2>1, <2>2 DEF LessAddress
<1> QED BY <1>2, <1>3

(* operator== of two addresses. *)
LEMMA EqualAddressFits ==
  ASSUME NEW x \in SocketAddresses, NEW y \in SocketAddresses, EqualAddress(x, y)
  PROVE  EqualAddress(y, x) /\ ~LessAddress(x, y) /\ ~LessAddress(y, x)
<1>1. Equal(x.ip_, y.ip_) /\ Equal(y.ip_, x.ip_)
  BY EqualEquivalence DEF EqualAddress, EqualIPs
<1>2. /\ ~IPIsAny(x.ip_) /\ ~IPIsUnspec(x.ip_)
      /\ ~IPIsAny(y.ip_) /\ ~IPIsUnspec(y.ip_)
  BY <1>1, EqualInClass DEF EqualAddress, EqualIPs
<1>3. x.port_ = y.port_ /\ x.port_ \in Int /\ x.hostname_ = y.hostname_
  BY Parts DEF EqualAddress, EqualIPs
<1> QED BY <1>1, <1>2, <1>3 DEF LessAddress, EqualAddress, EqualIPs

-----------------------------------------------------------------------------
(* What the invariant gives.                                               *)

(* operator< is a strict weak order of whatever addresses there are, and   *)
(* operator== an equivalence on its ties.                                  *)
LEMMA InvOrder ==
  ASSUME TypeOK
  PROVE  OrderIsStrictWeak
<1> SUFFICES ASSUME NEW o \in Objs, NEW p \in Objs, NEW q \in Objs
             PROVE  LET lt(r, s)   == LessAddress(addr[r], addr[s])
                        same(r, s) == ~lt(r, s) /\ ~lt(s, r)
                        eq(r, s)   == EqualAddress(addr[r], addr[s])
                    IN  /\ ~lt(o, o)
                        /\ lt(o, p) /\ lt(p, q) => lt(o, q)
                        /\ same(o, p) /\ same(p, q) => same(o, q)
                        /\ eq(o, p) => eq(p, o) /\ same(o, p)
                        /\ eq(o, p) /\ eq(p, q) => eq(o, q)
  BY Zenon DEF OrderIsStrictWeak
<1>0. addr[o] \in SocketAddresses /\ addr[p] \in SocketAddresses /\ addr[q] \in SocketAddresses
  BY DEF TypeOK
<1>1. ~LessAddress(addr[o], addr[o])
  BY <1>0, AddressIrreflexive
<1>2. LessAddress(addr[o], addr[p]) /\ LessAddress(addr[p], addr[q]) => LessAddress(addr[o], addr[q])
  BY <1>0, AddressTransitive
<1>3. /\ ~LessAddress(addr[o], addr[p]) /\ ~LessAddress(addr[p], addr[o])
      /\ ~LessAddress(addr[p], addr[q]) /\ ~LessAddress(addr[q], addr[p])
      => ~LessAddress(addr[o], addr[q]) /\ ~LessAddress(addr[q], addr[o])
  BY <1>0, TieEqual, TieTransitive
<1>4. EqualAddress(addr[o], addr[p]) =>
        EqualAddress(addr[p], addr[o]) /\ ~LessAddress(addr[o], addr[p]) /\ ~LessAddress(addr[p], addr[o])
  BY <1>0, EqualAddressFits
<1>5. EqualAddress(addr[o], addr[p]) /\ EqualAddress(addr[p], addr[q]) => EqualAddress(addr[o], addr[q])
  BY EqualEquivalence DEF EqualAddress, EqualIPs
<1> QED BY <1>1, <1>2, <1>3, <1>4, <1>5

-----------------------------------------------------------------------------
(* Conversions.                                                            *)

LEMMA BytesSwap ==
  ASSUME NEW w \in Bytes(4)
  PROVE  Swapped(w) \in Bytes(4) /\ Swapped(Swapped(w)) = w
<1>1. \A i \in 1..4 : 5 - i \in 1..4 /\ 5 - (5 - i) = i
  OBVIOUS
<1>2. w = [i \in 1..4 |-> w[i]]
  BY DEF Bytes
<1> QED BY <1>1, <1>2 DEF Swapped, Bytes

(* What is made from four or sixteen bytes is an address that has them. *)
LEMMA MadeIPv4 ==
  ASSUME NEW w \in Bytes(4)
  PROVE  /\ IPv4(w) \in IPAddresses
         /\ IPv4(w).family = AF_INET
         /\ ipv4_address(IPv4(w)) = w
<1>1. w = [i \in 1..4 |-> w[i]] /\ \A i \in 1..4 : w[i] \in Byte
  BY DEF Bytes
<1>2. 0 \in Byte
  BY DEF Byte
<1>3. [i \in 1..16 |-> IF i <= 4 THEN w[i] ELSE 0] \in Bytes(16)
  BY <1>1, <1>2 DEF Bytes
<1> QED BY <1>1, <1>3 DEF IPv4, IPAddresses, ipv4_address

LEMMA MadeIPv6 ==
  ASSUME NEW b \in Bytes(16)
  PROVE  IPv6(b) \in IPAddresses /\ IPv6(b).family = AF_INET6 /\ IPv6(b).u = b
BY DEF IPv6, IPAddresses

LEMMA ZerosAreBytes ==
  ASSUME NEW n \in Nat
  PROVE  Zeros(n) \in Bytes(n)
<1>1. 0 \in Byte  BY DEF Byte
<1> QED BY <1>1 DEF Zeros, Bytes

(* Four swaps between a sockaddr and an address undo each other. *)
LEMMA ThroughInteger ==
  ASSUME NEW w \in Bytes(4)
  PROVE  FromInteger(ntohl(s_addr(w))) = IPv4(w)
BY BytesSwap DEF FromInteger, ntohl, s_addr, Stored, htonl

LEMMA NamedInteger ==
  ASSUME NEW w \in Bytes(4)
  PROVE  FromInteger(w) = IPv4(w)
BY BytesSwap DEF FromInteger, Stored, htonl

(* A port is its two bytes. *)
LEMMA PortBytes ==
  ASSUME NEW port \in uint16_t
  PROVE  ntohs(htons(port)) = port
<1>1. port \in Int  BY DEF uint16_t
<1>2. htons(port)[1] = port \div 256 /\ htons(port)[2] = port % 256
  BY DEF htons
<1> QED BY <1>1, <1>2 DEF ntohs

(* The bytes of a mapped address. *)
LEMMA MappedBytes ==
  ASSUME NEW w \in Bytes(4)
  PROVE  /\ Mapped(w) \in Bytes(16)
         /\ \A i \in 1..4 : Mapped(w)[12 + i] = w[i]
         /\ \A i \in 1..10 : Mapped(w)[i] = 0
         /\ \A i \in 11..12 : Mapped(w)[i] = 255
<1>1. \A i \in 1..4 : w[i] \in Byte
  BY DEF Bytes
<1>2. 0 \in Byte /\ 255 \in Byte
  BY DEF Byte
<1>3. ASSUME NEW i \in 1..16
      PROVE  (IF i <= 10 THEN 0 ELSE IF i <= 12 THEN 255 ELSE w[i - 12]) \in Byte
  <2>1. CASE i > 12
    <3>1. i - 12 \in 1..4  BY <2>1
    <3> QED BY <1>1, <2>1, <3>1
  <2>2. CASE i <= 12
    BY <1>2, <2>2
  <2> QED BY <2>1, <2>2
<1>4. Mapped(w) \in Bytes(16)
  BY <1>3 DEF Mapped, Bytes
<1>5. ASSUME NEW i \in 1..4 PROVE Mapped(w)[12 + i] = w[i]
  <2>1. 12 + i \in 1..16 /\ 12 + i > 12 /\ (12 + i) - 12 = i  OBVIOUS
  <2> QED BY <2>1 DEF Mapped
<1>6. \A i \in 1..10 : Mapped(w)[i] = 0
  BY DEF Mapped
<1>7. \A i \in 11..12 : Mapped(w)[i] = 255
  BY DEF Mapped
<1> QED BY <1>4, <1>5, <1>6, <1>7

LEMMA MappedApart ==
  ASSUME NEW w \in Bytes(4), NEW v \in Bytes(4), Mapped(w) = Mapped(v)
  PROVE  w = v
<1>1. \A i \in 1..4 : w[i] = v[i]
  BY MappedBytes
<1> QED BY <1>1 DEF Bytes

LEMMA MappedInOrder ==
  ASSUME NEW w \in Bytes(4), NEW v \in Bytes(4)
  PROVE  LexLess(w, v) <=> LexLess(Mapped(w), Mapped(v))
<1>0. /\ DOMAIN w = 1..4 /\ DOMAIN Mapped(w) = 1..16
      /\ \A i \in 1..4 : w[i] \in Int /\ v[i] \in Int
  <2>1. DOMAIN Mapped(w) = 1..16
    BY DEF Mapped
  <2> QED BY <2>1, BytesAt
<1>1. \A i \in 1..12 : Mapped(w)[i] = Mapped(v)[i]
  <2>1. \A i \in 1..12 : i \in 1..10 \/ i \in 11..12  OBVIOUS
  <2> QED BY <2>1, MappedBytes
<1>2. \A i \in 1..4 : Mapped(w)[12 + i] = w[i] /\ Mapped(v)[12 + i] = v[i]
  BY MappedBytes
<1>3. ASSUME LexLess(w, v) PROVE LexLess(Mapped(w), Mapped(v))
  <2>1. PICK i \in 1..4 : w[i] < v[i] /\ \A j \in 1..(i - 1) : w[j] = v[j]
    BY <1>0, <1>3 DEF LexLess
  <2>2. 12 + i \in 1..16 /\ Mapped(w)[12 + i] < Mapped(v)[12 + i]
    BY <1>2, <2>1
  <2>3. ASSUME NEW j \in 1..((12 + i) - 1) PROVE Mapped(w)[j] = Mapped(v)[j]
    <3>1. CASE j <= 12
      BY <1>1, <3>1
    <3>2. CASE j > 12
      <4>1. j - 12 \in 1..4 /\ j - 12 \in 1..(i - 1) /\ 12 + (j - 12) = j
        BY <3>2
      <4>2. Mapped(w)[12 + (j - 12)] = w[j - 12] /\ Mapped(v)[12 + (j - 12)] = v[j - 12]
        BY <1>2, <4>1
      <4> QED BY <2>1, <4>1, <4>2
    <3> QED BY <3>1, <3>2
  <2> QED BY <1>0, <2>2, <2>3 DEF LexLess
<1>4. ASSUME LexLess(Mapped(w), Mapped(v)) PROVE LexLess(w, v)
  <2>1. PICK k \in 1..16 : /\ Mapped(w)[k] < Mapped(v)[k]
                           /\ \A j \in 1..(k - 1) : Mapped(w)[j] = Mapped(v)[j]
    BY <1>0, <1>4 DEF LexLess
  <2>2. k > 12
    <3>1. SUFFICES ASSUME k <= 12 PROVE FALSE
      OBVIOUS
    <3>2. Mapped(w)[k] = Mapped(v)[k]
      BY <1>1, <3>1
    <3>3. Mapped(w)[k] \in Int
      BY BytesAt, MappedBytes
    <3> QED BY <2>1, <3>2, <3>3
  <2>3. k - 12 \in 1..4 /\ 12 + (k - 12) = k
    BY <2>2
  <2>4. w[k - 12] < v[k - 12]
    BY <1>2, <2>1, <2>3
  <2>5. ASSUME NEW j \in 1..((k - 12) - 1) PROVE w[j] = v[j]
    <3>1. j \in 1..4 /\ 12 + j \in 1..(k - 1)
      BY <2>3
    <3> QED BY <1>2, <2>1, <3>1
  <2> QED BY <1>0, <2>3, <2>4, <2>5 DEF LexLess
<1> QED BY <1>3, <1>4

(* operator< and operator== see through the mapping. *)
LEMMA MappingKeeps ==
  ASSUME NEW a \in IPAddresses, NEW b \in IPAddresses, a.family = AF_INET, b.family = AF_INET
  PROVE  /\ Equal(a, b) <=> Equal(AsIPv6Address(a), AsIPv6Address(b))
         /\ Less(a, b) <=> Less(AsIPv6Address(a), AsIPv6Address(b))
         /\ IPIsAny(a) <=> IPIsAny(AsIPv6Address(a))
<1> DEFINE v == ipv4_address(a)
           w == ipv4_address(b)
<1>0. v \in Bytes(4) /\ w \in Bytes(4) /\ Zeros(4) \in Bytes(4)
  BY WordOf, ZerosAreBytes
<1>1. /\ AsIPv6Address(a) = IPv6(Mapped(v))
      /\ AsIPv6Address(b) = IPv6(Mapped(w))
  BY DEF AsIPv6Address, AF_INET, AF_INET6
<1>2. /\ IPv6(Mapped(v)).family = AF_INET6 /\ IPv6(Mapped(v)).u = Mapped(v)
      /\ IPv6(Mapped(w)).family = AF_INET6 /\ IPv6(Mapped(w)).u = Mapped(w)
  BY DEF IPv6
<1>3. Equal(a, b) <=> v = w
  BY DEF Equal, AF_INET, AF_INET6
<1>4. Equal(IPv6(Mapped(v)), IPv6(Mapped(w))) <=> Mapped(v) = Mapped(w)
  BY <1>2 DEF Equal, AF_INET, AF_INET6
<1>5. Mapped(v) = Mapped(w) <=> v = w
  BY <1>0, MappedApart
<1>6. Less(a, b) <=> LexLess(v, w)
  BY HostOrder DEF Less, AF_INET, AF_INET6
<1>7. Less(IPv6(Mapped(v)), IPv6(Mapped(w))) <=> LexLess(Mapped(v), Mapped(w))
  BY <1>2 DEF Less, AF_INET, AF_INET6
<1>8. LexLess(v, w) <=> LexLess(Mapped(v), Mapped(w))
  BY <1>0, MappedInOrder
<1>9. IPIsAny(a) <=> v = Zeros(4)
  <2>1. FromInteger(Zeros(4)).family = AF_INET /\ ipv4_address(FromInteger(Zeros(4))) = Zeros(4)
    BY <1>0, NamedInteger, MadeIPv4
  <2>2. Equal(a, FromInteger(Zeros(4))) <=> v = Zeros(4)
    BY <2>1 DEF Equal, AF_INET, AF_INET6
  <2> QED BY <2>2 DEF IPIsAny, AF_INET, AF_INET6
<1>10. IPIsAny(IPv6(Mapped(v))) <=> v = Zeros(4)
  <2>1. Equal(IPv6(Mapped(v)), IPv6(kV4MappedPrefix)) <=> Mapped(v) = Mapped(Zeros(4))
    BY <1>2 DEF Equal, IPv6, kV4MappedPrefix, AF_INET, AF_INET6
  <2>2. Mapped(v) = Mapped(Zeros(4)) <=> v = Zeros(4)
    BY <1>0, MappedApart
  <2>3. Mapped(v)[11] = 255 /\ Zeros(16)[11] = 0
    BY DEF Zeros, Mapped
  <2>4. ~Equal(IPv6(Mapped(v)), IPv6(Zeros(16)))
    BY <1>2, <2>3 DEF Equal, IPv6, AF_INET, AF_INET6
  <2> QED BY <1>2, <2>1, <2>2, <2>4 DEF IPIsAny, AF_INET, AF_INET6
<1> HIDE DEF v, w
<1> QED BY <1>1, <1>3, <1>4, <1>5, <1>6, <1>7, <1>8, <1>9, <1>10

(* What ToSockAddr writes, FromSockAddr reads. *)
LEMMA RoundTrip ==
  ASSUME NEW x \in SocketAddresses
  PROVE  LET back == FromSockAddr(NilAddress, ToSockAddr(x))
         IN  /\ back.port_ = x.port_
             /\ x.ip_.family = AF_INET => Equal(back.ip_, x.ip_)
             /\ IPIsAny(x.ip_) => IPIsAny(back.ip_)
<1> DEFINE w    == IF IPIsAny(x.ip_) THEN Zeros(4) ELSE ipv4_address(x.ip_)
           back == FromSockAddr(NilAddress, ToSockAddr(x))
<1>1. x.ip_ \in IPAddresses /\ x.port_ \in uint16_t
  BY DEF SocketAddresses
<1>2. w \in Bytes(4) /\ Zeros(4) \in Bytes(4)
  BY <1>1, WordOf, ZerosAreBytes
<1>3. /\ ToSockAddr(x).family = AF_INET
      /\ ToSockAddr(x).port = htons(x.port_)
      /\ ToSockAddr(x).addr = w
  BY DEF ToSockAddr
<1>4. back.ip_ = FromInteger(ntohl(s_addr(w))) /\ back.port_ = ntohs(htons(x.port_))
  BY <1>3 DEF FromSockAddr, NilAddress
<1>5. back.ip_ = IPv4(w) /\ back.port_ = x.port_
  BY <1>1, <1>2, <1>4, ThroughInteger, PortBytes
<1>6. back.ip_.family = AF_INET /\ ipv4_address(back.ip_) = w
  BY <1>2, <1>5, MadeIPv4
<1>7. /\ FromInteger(Zeros(4)).family = AF_INET
      /\ ipv4_address(FromInteger(Zeros(4))) = Zeros(4)
  BY <1>2, NamedInteger, MadeIPv4
<1>8. ASSUME IPIsAny(x.ip_) PROVE IPIsAny(back.ip_)
  <2>1. w = Zeros(4)
    BY <1>8
  <2> QED BY <1>6, <1>7, <2>1 DEF IPIsAny, Equal, AF_INET, AF_INET6
<1>9. ASSUME x.ip_.family = AF_INET PROVE Equal(back.ip_, x.ip_)
  <2>1. ipv4_address(x.ip_) = w
    <3>1. IPIsAny(x.ip_) => ipv4_address(x.ip_) = Zeros(4)
      BY <1>7, <1>9 DEF IPIsAny, Equal, AF_INET, AF_INET6
    <3> QED BY <3>1
  <2> QED BY <1>6, <1>9, <2>1 DEF Equal, AF_INET, AF_INET6
<1> QED BY <1>5, <1>8, <1>9

(* An IPv6 address, and a port with any address, through sockaddr_storage. *)
LEMMA StorageTrip ==
  ASSUME NEW x \in SocketAddresses
  PROVE  LET kept == SocketAddressFromSockAddrStorage(NilAddress, ToSockAddrStorage(x))
         IN  /\ x.ip_.family = AF_INET6 => Equal(kept.ip_, x.ip_)
             /\ x.ip_.family # AF_UNSPEC => kept.port_ = x.port_
<1> DEFINE sa   == ToSockAddrStorage(x)
           kept == SocketAddressFromSockAddrStorage(NilAddress, sa)
<1>1. x.ip_ \in IPAddresses /\ x.port_ \in uint16_t
  BY DEF SocketAddresses
<1>2. ntohs(htons(x.port_)) = x.port_
  BY <1>1, PortBytes
<1>3. CASE x.ip_.family = AF_INET
  <2>1. sa.family = AF_INET /\ sa.port = htons(x.port_)
    BY <1>3 DEF ToSockAddrStorage
  <2>2. kept.port_ = ntohs(sa.port)
    BY <2>1 DEF SocketAddressFromSockAddrStorage
  <2> QED BY <1>2, <1>3, <2>1, <2>2 DEF AF_INET, AF_INET6
<1>4. CASE x.ip_.family = AF_INET6
  <2>1. sa.family = AF_INET6 /\ sa.port = htons(x.port_) /\ sa.addr = x.ip_.u
    BY <1>4 DEF ToSockAddrStorage, AF_INET, AF_INET6
  <2>2. kept.port_ = ntohs(sa.port) /\ kept.ip_ = IPv6(sa.addr)
    BY <2>1 DEF SocketAddressFromSockAddrStorage, AF_INET, AF_INET6
  <2>3. IPv6(x.ip_.u).family = AF_INET6 /\ IPv6(x.ip_.u).u = x.ip_.u
    BY DEF IPv6
  <2>4. Equal(kept.ip_, x.ip_)
    BY <1>4, <2>1, <2>2, <2>3 DEF Equal, AF_INET, AF_INET6
  <2> QED BY <1>2, <2>1, <2>2, <2>4
<1>5. x.ip_.family \in {AF_UNSPEC, AF_INET, AF_INET6}
  BY <1>1 DEF IPAddresses
<1> QED BY <1>3, <1>4, <1>5 DEF AF_INET, AF_INET6, AF_UNSPEC

LEMMA InvConversions ==
  ASSUME TypeOK
  PROVE  ConversionsLoseNothing
<1>1. \A o \in Objs : addr[o] \in SocketAddresses
  BY DEF TypeOK
<1>2. \A o \in Objs : addr[o].ip_ \in IPAddresses
  BY <1>1, Parts
<1>3. \A o \in Objs :
        LET back == FromSockAddr(NilAddress, ToSockAddr(addr[o]))
        IN  /\ back.port_ = addr[o].port_
            /\ addr[o].ip_.family = AF_INET => Equal(back.ip_, addr[o].ip_)
            /\ IPIsAny(addr[o].ip_) => IPIsAny(back.ip_)
  BY <1>1, RoundTrip
<1>4. \A o, p \in Objs :
        LET a == addr[o].ip_  b == addr[p].ip_ IN
        (a.family = AF_INET /\ b.family = AF_INET) =>
           /\ Equal(a, b) <=> Equal(AsIPv6Address(a), AsIPv6Address(b))
           /\ Less(a, b) <=> Less(AsIPv6Address(a), AsIPv6Address(b))
           /\ IPIsAny(a) <=> IPIsAny(AsIPv6Address(a))
  BY <1>2, MappingKeeps
<1>5. \A o \in Objs :
        LET kept == SocketAddressFromSockAddrStorage(NilAddress, ToSockAddrStorage(addr[o]))
        IN  /\ addr[o].ip_.family = AF_INET6 => Equal(kept.ip_, addr[o].ip_)
            /\ addr[o].ip_.family # AF_UNSPEC => kept.port_ = addr[o].port_
  BY <1>1, StorageTrip
<1> QED BY <1>3, <1>4, <1>5 DEF ConversionsLoseNothing

-----------------------------------------------------------------------------
(* Classes of addresses.                                                   *)

(* memcmp of four bytes. *)
LEMMA LexWord ==
  ASSUME NEW s \in Bytes(4), NEW t \in Bytes(4)
  PROVE  LexLess(s, t) <=> \/ s[1] < t[1]
                           \/ s[1] = t[1] /\ s[2] < t[2]
                           \/ s[1] = t[1] /\ s[2] = t[2] /\ s[3] < t[3]
                           \/ s[1] = t[1] /\ s[2] = t[2] /\ s[3] = t[3] /\ s[4] < t[4]
<1>1. DOMAIN s = 1..4
  BY DEF Bytes
<1>2. LexLess(s, t) <=> \E i \in 1..4 : s[i] < t[i] /\ \A j \in 1..(i - 1) : s[j] = t[j]
  BY <1>1 DEF LexLess
<1> QED BY <1>2

(* Between two words that differ where the first has 0 and the last 255.   *)
LEMMA PrivateRanges ==
  ASSUME NEW v \in Bytes(4)
  PROVE  LET In(first, last) == ~LexLess(v, first) /\ ~LexLess(last, v)
         IN  /\ In(<<10, 0, 0, 0>>, <<10, 255, 255, 255>>) <=> v[1] = 10
             /\ In(<<172, 16, 0, 0>>, <<172, 31, 255, 255>>) <=> v[1] = 172 /\ v[2] \div 16 = 1
             /\ In(<<192, 168, 0, 0>>, <<192, 168, 255, 255>>) <=> v[1] = 192 /\ v[2] = 168
<1>1. \A i \in 1..4 : v[i] \in Byte
  BY DEF Bytes
<1>2. \A i \in 1..4 : v[i] \in Int /\ 0 <= v[i] /\ v[i] <= 255
  BY <1>1 DEF Byte
<1>3. /\ 0 \in Byte /\ 10 \in Byte /\ 16 \in Byte /\ 31 \in Byte /\ 168 \in Byte
      /\ 172 \in Byte /\ 192 \in Byte /\ 255 \in Byte
  BY DEF Byte
<1>4. /\ <<10, 0, 0, 0>> \in Bytes(4) /\ <<10, 255, 255, 255>> \in Bytes(4)
      /\ <<172, 16, 0, 0>> \in Bytes(4) /\ <<172, 31, 255, 255>> \in Bytes(4)
      /\ <<192, 168, 0, 0>> \in Bytes(4) /\ <<192, 168, 255, 255>> \in Bytes(4)
  BY <1>3 DEF Bytes
<1>5. ~LexLess(v, <<10, 0, 0, 0>>) /\ ~LexLess(<<10, 255, 255, 255>>, v) <=> v[1] = 10
  BY <1>2, <1>4, LexWord
<1>6. ~LexLess(v, <<172, 16, 0, 0>>) /\ ~LexLess(<<172, 31, 255, 255>>, v)
        <=> v[1] = 172 /\ 16 <= v[2] /\ v[2] <= 31
  BY <1>2, <1>4, LexWord
<1>7. 16 <= v[2] /\ v[2] <= 31 <=> v[2] \div 16 = 1
  BY <1>2
<1>8. ~LexLess(v, <<192, 168, 0, 0>>) /\ ~LexLess(<<192, 168, 255, 255>>, v)
        <=> v[1] = 192 /\ v[2] = 168
  BY <1>2, <1>4, LexWord
<1> QED BY <1>5, <1>6, <1>7, <1>8

LEMMA InvClasses ==
  ASSUME TypeOK
  PROVE  ClassesAreApart
<1> SUFFICES ASSUME NEW o \in Objs
             PROVE  LET ip == addr[o].ip_ IN
                    /\ ip.family = AF_INET =>
                         LET v == ipv4_address(ip)
                             In(first, last) == ~LexLess(v, first) /\ ~LexLess(last, v)
                         IN  IPIsPrivate(ip) <=> \/ In(<<10, 0, 0, 0>>, <<10, 255, 255, 255>>)
                                                 \/ In(<<172, 16, 0, 0>>, <<172, 31, 255, 255>>)
                                                 \/ In(<<192, 168, 0, 0>>, <<192, 168, 255, 255>>)
                    /\ ~(IPIsAny(ip) /\ IPIsLoopback(ip))
                    /\ ~(IPIsAny(ip) /\ IPIsPrivate(ip))
                    /\ ~(IPIsLoopback(ip) /\ IPIsPrivate(ip))
                    /\ IsAnyIP(addr[o]) /\ IsLoopBackIP(addr[o]) => addr[o].hostname_ = "localhost"
  BY Zenon DEF ClassesAreApart
<1> DEFINE ip == addr[o].ip_
           v  == ipv4_address(ip)
<1>1. ip \in IPAddresses /\ v \in Bytes(4) /\ Zeros(4) \in Bytes(4)
  <2>1. addr[o] \in SocketAddresses  BY DEF TypeOK
  <2>2. ip \in IPAddresses  BY <2>1, Parts
  <2> QED BY <2>2, WordOf, ZerosAreBytes
<1>2. ASSUME ip.family = AF_INET
      PROVE  /\ IPIsAny(ip) <=> v = Zeros(4)
             /\ IPIsLoopback(ip) <=> v[1] = 127
             /\ IPIsPrivate(ip) <=> \/ v[1] = 10
                                    \/ v[1] = 172 /\ v[2] \div 16 = 1
                                    \/ v[1] = 192 /\ v[2] = 168
  <2>1. v4AddressAsHostOrderInteger(ip) = v
    BY <1>1, <1>2, HostOrder
  <2>2. FromInteger(Zeros(4)).family = AF_INET /\ ipv4_address(FromInteger(Zeros(4))) = Zeros(4)
    BY <1>1, NamedInteger, MadeIPv4
  <2>3. Equal(ip, FromInteger(Zeros(4))) <=> v = Zeros(4)
    BY <1>2, <2>2 DEF Equal, AF_INET, AF_INET6
  <2>4. IPIsAny(ip) <=> v = Zeros(4)
    BY <1>2, <2>3 DEF IPIsAny, AF_INET, AF_INET6
  <2>5. IPIsLoopback(ip) <=> v[1] = 127
    BY <1>2, <2>1 DEF IPIsLoopback, IPIsLoopbackV4, AF_INET, AF_INET6
  <2>6. IPIsPrivate(ip) <=> \/ v[1] = 10
                            \/ v[1] = 172 /\ v[2] \div 16 = 1
                            \/ v[1] = 192 /\ v[2] = 168
    BY <1>2, <2>1 DEF IPIsPrivate, IPIsPrivateNetworkV4, AF_INET, AF_INET6
  <2> QED BY <2>4, <2>5, <2>6
<1>3. ASSUME ip.family = AF_INET6
      PROVE  /\ IPIsAny(ip) => ip.u[1] = 0 /\ ip.u[16] = 0
             /\ IPIsLoopback(ip) => ip.u[1] = 0 /\ ip.u[16] = 1
             /\ IPIsPrivate(ip) => ip.u[1] = 253
  <2>1. Equal(ip, IPv6(Zeros(16))) => ip.u = Zeros(16)
    BY <1>3 DEF Equal, IPv6, AF_INET, AF_INET6
  <2>2. Equal(ip, IPv6(kV4MappedPrefix)) => ip.u = kV4MappedPrefix
    BY <1>3 DEF Equal, IPv6, AF_INET, AF_INET6
  <2>3. Equal(ip, IPv6(in6addr_loopback)) => ip.u = in6addr_loopback
    BY <1>3 DEF Equal, IPv6, AF_INET, AF_INET6
  <2>4. Zeros(16)[1] = 0 /\ Zeros(16)[16] = 0
    BY DEF Zeros
  <2>5. kV4MappedPrefix[1] = 0 /\ kV4MappedPrefix[16] = 0
    <3>1. Zeros(4)[4] = 0  BY DEF Zeros
    <3> QED BY <1>1, <3>1, MappedBytes DEF kV4MappedPrefix
  <2>6. in6addr_loopback[1] = 0 /\ in6addr_loopback[16] = 1
    BY DEF in6addr_loopback
  <2>7. IPIsAny(ip) => ip.u[1] = 0 /\ ip.u[16] = 0
    BY <1>3, <2>1, <2>2, <2>4, <2>5 DEF IPIsAny, AF_INET, AF_INET6
  <2>8. IPIsLoopback(ip) => ip.u[1] = 0 /\ ip.u[16] = 1
    BY <1>3, <2>3, <2>6 DEF IPIsLoopback, AF_INET, AF_INET6
  <2>9. IPIsPrivate(ip) => ip.u[1] = 253
    BY <1>3 DEF IPIsPrivate, AF_INET, AF_INET6
  <2> QED BY <2>7, <2>8, <2>9
<1>4. ip.family \notin {AF_INET, AF_INET6} => ~IPIsAny(ip) /\ ~IPIsLoopback(ip) /\ ~IPIsPrivate(ip)
  BY DEF IPIsAny, IPIsLoopback, IPIsPrivate
<1>5. Zeros(4)[1] = 0
  BY DEF Zeros
<1>6. ~(IPIsAny(ip) /\ IPIsLoopback(ip))
  BY <1>2, <1>3, <1>4, <1>5
<1>7. ~(IPIsAny(ip) /\ IPIsPrivate(ip))
  BY <1>2, <1>3, <1>4, <1>5
<1>8. ~(IPIsLoopback(ip) /\ IPIsPrivate(ip))
  BY <1>2, <1>3, <1>4
<1>9. ip.family = AF_INET =>
        LET In(first, last) == ~LexLess(v, first) /\ ~LexLess(last, v)
        IN  IPIsPrivate(ip) <=> \/ In(<<10, 0, 0, 0>>, <<10, 255, 255, 255>>)
                                \/ In(<<172, 16, 0, 0>>, <<172, 31, 255, 255>>)
                                \/ In(<<192, 168, 0, 0>>, <<192, 168, 255, 255>>)
  BY <1>1, <1>2, PrivateRanges
<1>10. IsAnyIP(addr[o]) /\ IsLoopBackIP(addr[o]) => addr[o].hostname_ = "localhost"
  BY <1>6 DEF IsAnyIP, IsLoopBackIP
<1> HIDE DEF v
<1> QED BY <1>6, <1>7, <1>8, <1>9, <1>10 DEF v

-----------------------------------------------------------------------------
(* The theorems.                                                           *)

(* Values of the operations are addresses. *)
LEMMA MadeFromString ==
  ASSUME NEW str
  PROVE  IPFromString(str) \in IPAddresses
<1>1. \A name \in DOMAIN Inet : Inet[name] \in Bytes(4)
  BY Zenon, AddressAssumption
<1>2. \A name \in DOMAIN Inet6 : Inet6[name] \in Bytes(16)
  BY Zenon, AddressAssumption
<1>3. Unspec \in IPAddresses
  BY ZerosAreBytes DEF Unspec, IPAddresses
<1> QED BY <1>1, <1>2, <1>3, MadeIPv4, MadeIPv6 DEF IPFromString

LEMMA MadePort ==
  ASSUME NEW port \in Int
  PROVE  ToPort(port) \in uint16_t
BY DEF ToPort, uint16_t

LEMMA NilIsAddress == NilAddress \in SocketAddresses
<1>1. NoName \in Names  BY Zenon, AddressAssumption
<1>2. Unspec \in IPAddresses  BY ZerosAreBytes DEF Unspec, IPAddresses
<1>3. 0 \in uint16_t  BY DEF uint16_t
<1> QED BY <1>1, <1>2, <1>3 DEF NilAddress, SocketAddresses

(* What ToSockAddr and ToSockAddrStorage write can be read. *)
LEMMA Received ==
  ASSUME NEW x \in SocketAddresses, NEW y \in SocketAddresses
  PROVE  /\ FromSockAddr(x, ToSockAddr(y)) \in SocketAddresses
         /\ SocketAddressFromSockAddrStorage(x, ToSockAddrStorage(y)) \in SocketAddresses
<1>0. /\ x.hostname_ \in Names /\ y.ip_ \in IPAddresses /\ y.port_ \in uint16_t
      /\ x = [hostname_ |-> x.hostname_, ip_ |-> x.ip_, port_ |-> x.port_]
  BY DEF SocketAddresses
<1>1. ntohs(htons(y.port_)) \in uint16_t
  BY <1>0, PortBytes
<1>2. /\ ipv4_address(y.ip_) \in Bytes(4) /\ Zeros(4) \in Bytes(4)
      /\ y.ip_.u \in Bytes(16)
  BY <1>0, WordOf, ZerosAreBytes DEF IPAddresses
<1>3. ASSUME NEW w \in Bytes(4)
      PROVE  /\ FromInteger(ntohl(s_addr(w))) \in IPAddresses
             /\ FromInteger(s_addr(w)) \in IPAddresses
  <2>1. s_addr(w) \in Bytes(4)
    BY BytesSwap DEF s_addr
  <2> QED BY <2>1, ThroughInteger, NamedInteger, MadeIPv4
<1>4. FromSockAddr(x, ToSockAddr(y)) \in SocketAddresses
  <2> DEFINE w == IF IPIsAny(y.ip_) THEN Zeros(4) ELSE ipv4_address(y.ip_)
  <2>1. FromSockAddr(x, ToSockAddr(y))
          = [x EXCEPT !.ip_ = FromInteger(ntohl(s_addr(w))), !.port_ = ntohs(htons(y.port_))]
    BY DEF FromSockAddr, ToSockAddr
  <2>2. w \in Bytes(4)
    BY <1>2
  <2>3. FromInteger(ntohl(s_addr(w))) \in IPAddresses
    BY <1>3, <2>2
  <2> QED BY <1>1, <2>1, <2>3 DEF SocketAddresses
<1>5. SocketAddressFromSockAddrStorage(x, ToSockAddrStorage(y)) \in SocketAddresses
  <2>0. NoName \in Names
    BY Zenon, AddressAssumption
  <2>1. CASE y.ip_.family = AF_INET
    <3>1. SocketAddressFromSockAddrStorage(x, ToSockAddrStorage(y))
            = [hostname_ |-> NoName, ip_ |-> FromInteger(s_addr(ipv4_address(y.ip_))),
               port_ |-> ntohs(htons(y.port_))]
      BY <2>1 DEF SocketAddressFromSockAddrStorage, ToSockAddrStorage, AF_INET, AF_INET6
    <3>2. FromInteger(s_addr(ipv4_address(y.ip_))) \in IPAddresses
      BY <1>2, <1>3
    <3> QED BY <1>1, <2>0, <3>1, <3>2 DEF SocketAddresses
  <2>2. CASE y.ip_.family = AF_INET6
    <3>1. SocketAddressFromSockAddrStorage(x, ToSockAddrStorage(y))
            = [hostname_ |-> NoName, ip_ |-> IPv6(y.ip_.u), port_ |-> ntohs(htons(y.port_))]
      BY <2>2 DEF SocketAddressFromSockAddrStorage, ToSockAddrStorage, AF_INET, AF_INET6
    <3>2. IPv6(y.ip_.u) \in IPAddresses
      BY <1>2, MadeIPv6
    <3> QED BY <1>1, <2>0, <3>1, <3>2 DEF SocketAddresses
  <2>3. CASE y.ip_.family \notin {AF_INET, AF_INET6}
    <3>1. SocketAddressFromSockAddrStorage(x, ToSockAddrStorage(y)) = x
      BY <2>3 DEF SocketAddressFromSockAddrStorage, ToSockAddrStorage,
                  AF_INET, AF_INET6, AF_UNSPEC
    <3> QED BY <3>1
  <2> QED BY <2>1, <2>2, <2>3
<1> QED BY <1>4, <1>5

LEMMA ChangeKeepsType ==
  ASSUME TypeOK, NEW o \in Objs, NEW x \in SocketAddresses, Change(o, x)
  PROVE  TypeOK'
BY DEF TypeOK, Change

LEMMA TypeInductive == TypeOK /\ [Next]_vars => TypeOK'
<1> SUFFICES ASSUME TypeOK, [Next]_vars PROVE TypeOK'
  OBVIOUS
<1>0. \A o \in Objs : addr[o] \in SocketAddresses
  BY DEF TypeOK
<1>a. NoName \in Names  BY Zenon, AddressAssumption
<1>b. IPs \subseteq IPAddresses  BY Zenon, AddressAssumption
<1>c. Ports \subseteq Int  BY Zenon, AddressAssumption
<1>d. Texts \subseteq [open : BOOLEAN, close : BOOLEAN, colon : BOOLEAN, name : Names, port : Int]
  BY Zenon, AddressAssumption
<1>1. CASE UNCHANGED vars
  BY <1>1 DEF vars, TypeOK
<1>2. ASSUME NEW o \in Objs, NEW ip \in IPs, NEW port \in Ports, Construct(o, ip, port) PROVE TypeOK'
  <2>1. ip \in IPAddresses /\ ToPort(port) \in uint16_t
    BY <1>b, <1>c, MadePort
  <2>2. [hostname_ |-> NoName, ip_ |-> ip, port_ |-> ToPort(port)] \in SocketAddresses
    BY <1>a, <2>1 DEF SocketAddresses
  <2> QED BY <1>2, <2>2, ChangeKeepsType DEF Construct
<1>3. ASSUME NEW o \in Objs, Clear(o) PROVE TypeOK'
  BY <1>3, NilIsAddress, ChangeKeepsType DEF Clear
<1>4. ASSUME NEW o \in Objs, NEW p \in Objs, Assign(o, p) PROVE TypeOK'
  BY <1>0, <1>4, ChangeKeepsType DEF Assign
<1>5. ASSUME NEW o \in Objs, NEW p \in Objs, Receive(o, p) PROVE TypeOK'
  <2>1. FromSockAddr(addr[o], ToSockAddr(addr[p])) \in SocketAddresses
    BY <1>0, Received
  <2> QED BY <1>5, <2>1, ChangeKeepsType DEF Receive
<1>6. ASSUME NEW o \in Objs, NEW p \in Objs, ReceiveStorage(o, p) PROVE TypeOK'
  <2>1. SocketAddressFromSockAddrStorage(addr[o], ToSockAddrStorage(addr[p])) \in SocketAddresses
    BY <1>0, Received
  <2> QED BY <1>6, <2>1, ChangeKeepsType DEF ReceiveStorage
<1>7. ASSUME NEW o \in Objs, NEW name \in Names, SetIP_string(o, name) PROVE TypeOK'
  <2>1. [addr[o] EXCEPT !.hostname_ = name, !.ip_ = IPFromString(name)] \in SocketAddresses
    BY <1>0, MadeFromString DEF SocketAddresses
  <2> QED BY <1>7, <2>1, ChangeKeepsType DEF SetIP_string
<1>8. ASSUME NEW o \in Objs, NEW ip \in IPs, SetIP(o, ip) PROVE TypeOK'
  <2>1. [addr[o] EXCEPT !.ip_ = ip] \in SocketAddresses
    BY <1>0, <1>b DEF SocketAddresses
  <2> QED BY <1>8, <2>1, ChangeKeepsType DEF SetIP
<1>9. ASSUME NEW o \in Objs, NEW port \in Ports, SetPort(o, port) PROVE TypeOK'
  <2>1. ToPort(port) \in uint16_t
    BY <1>c, MadePort
  <2>2. [addr[o] EXCEPT !.port_ = ToPort(port)] \in SocketAddresses
    BY <1>0, <2>1 DEF SocketAddresses
  <2> QED BY <1>9, <2>2, ChangeKeepsType DEF SetPort
<1>10. ASSUME NEW o \in Objs, NEW text \in Texts, FromString(o, text) PROVE TypeOK'
  <2>1. text.name \in Names /\ ToPort(text.port) \in uint16_t /\ IPFromString(text.name) \in IPAddresses
    BY <1>d, MadePort, MadeFromString
  <2>2. [hostname_ |-> text.name, ip_ |-> IPFromString(text.name), port_ |-> ToPort(text.port)]
          \in SocketAddresses
    BY <2>1 DEF SocketAddresses
  <2>3. UNCHANGED addr => TypeOK'
    BY DEF TypeOK
  <2> QED BY <1>10, <2>2, <2>3, ChangeKeepsType DEF FromString
<1> QED BY <1>1, <1>2, <1>3, <1>4, <1>5, <1>6, <1>7, <1>8, <1>9, <1>10 DEF Next

(* However it was set, copied or received, a SocketAddress holds one of    *)
(* the names, an address of a family the code knows and a 16-bit port.     *)
THEOREM AddressTypeCorrect == Spec => []TypeOK
<1>1. Init => TypeOK
  BY NilIsAddress DEF Init, TypeOK
<1> QED BY <1>1, TypeInductive, PTL DEF Spec

(* operator< can order a std::map of any socket addresses a program can    *)
(* make, and operator== agrees with it.                                    *)
THEOREM AddressOrder == Spec => []OrderIsStrictWeak
BY AddressTypeCorrect, InvOrder, PTL

(* ToSockAddr and FromSockAddr keep every IPv4 address and port, and       *)
(* AsIPv6Address keeps addresses apart and in order.                       *)
THEOREM AddressConversions == Spec => []ConversionsLoseNothing
BY AddressTypeCorrect, InvConversions, PTL

(* No address is in two classes, and the shifts are the private ranges.    *)
THEOREM AddressClasses == Spec => []ClassesAreApart
BY AddressTypeCorrect, InvClasses, PTL
=============================================================================
