-------------------------- MODULE PacketPathProofs ---------------------------
(***************************************************************************)
(* Theorems about the way of a packet through try_xdp_redirect, for every  *)
(* width of a word, every address and port, every length of a frame and    *)
(* every way of cutting datagrams into fragments.                          *)
(*                                                                         *)
(* The argument for the incremental checksum corrections is the one of RFC *)
(* 1624: the code's sums and the sender's agree modulo Base - 1, and a sum *)
(* that is not zero is right when that remainder is zero.                  *)
(***************************************************************************)
EXTENDS PacketPath, TLAPS

M == Base - 1

\* Equal as ones' complement sums, except that zero has two representations.
Same(a, b) == \E k \in Int : a = b + k * M

\* The laws of a congruence.
LEMMA SameRefl == ASSUME NEW a \in Int PROVE Same(a, a)
<1>1. a = a + 0 * M
  BY HeaderAssumption DEF M
<1> QED
  BY <1>1 DEF Same

\* All ones is the other zero.
LEMMA AllOnesIsZero == M \in Words \ {0} /\ M \in Int /\ Same(M, 0)
<1>1. M \in Words \ {0} /\ M \in Int
  BY HeaderAssumption DEF M, Words
<1>2. M = 0 + 1 * M
  BY <1>1
<1> QED
  BY <1>1, <1>2 DEF Same

\* It is transitive,
LEMMA SameTrans ==
  ASSUME NEW a \in Int, NEW b \in Int, NEW c \in Int, Same(a, b), Same(b, c)
  PROVE  Same(a, c)
<1>1. PICK j \in Int : a = b + j * M
  BY DEF Same
<1>2. PICK k \in Int : b = c + k * M
  BY DEF Same
<1>3. a = c + (j + k) * M
  BY <1>1, <1>2, HeaderAssumption DEF M
<1> QED
  BY <1>3 DEF Same

\* and sums and differences respect it.
LEMMA SameAdd ==
  ASSUME NEW a \in Int, NEW b \in Int, NEW c \in Int, NEW d \in Int,
         Same(a, b), Same(c, d)
  PROVE  Same(a + c, b + d) /\ Same(a - c, b - d)
<1>1. PICK j \in Int : a = b + j * M
  BY DEF Same
<1>2. PICK k \in Int : c = d + k * M
  BY DEF Same
<1>3. a + c = b + d + (j + k) * M
  BY <1>1, <1>2, HeaderAssumption DEF M
<1>4. a - c = b - d + (j - k) * M
  BY <1>1, <1>2, HeaderAssumption DEF M
<1> QED
  BY <1>3, <1>4 DEF Same

\* A sum in which one term takes another's place, and one that follows it.
LEMMA SameExchange ==
  ASSUME NEW s \in Int, NEW v \in Int, NEW w \in Int, NEW a \in Int, NEW b \in Int,
         Same(v, a), Same(w, b)
  PROVE  Same((s - v) + w, (s - a) + b)
<1>1. Same(s - v, s - a)
  BY SameAdd, SameRefl
<1> QED
  BY <1>1, SameAdd

\* If t is s with a exchanged for b, then adding the difference of t and s to h
\* exchanges a for b there.
LEMMA SameFollows ==
  ASSUME NEW s \in Int, NEW t \in Int, NEW h \in Int, NEW a \in Int, NEW b \in Int,
         Same(t, (s - a) + b)
  PROVE  Same((t - s) + h, (h - a) + b)
<1>1. PICK k \in Int : t = ((s - a) + b) + k * M
  BY DEF Same
<1>2. k * M \in Int
  BY HeaderAssumption DEF M
<1>3. (t - s) + h = ((h - a) + b) + k * M
  BY <1>1, <1>2
<1> QED
  BY <1>3 DEF Same

-----------------------------------------------------------------------------
\* The two halves of a number, and what comes of adding them.
LEMMA Halving ==
  ASSUME NEW a \in Nat
  PROVE  /\ a % Base \in Words /\ a \div Base \in Nat
         /\ a = (a \div Base) * Base + (a % Base)
         /\ Same((a \div Base) + (a % Base), a)
<1>1. a % Base \in Words /\ a \div Base \in Nat
  BY HeaderAssumption DEF Words
<1>2. a = (a \div Base) * Base + (a % Base)
  BY HeaderAssumption
<1>3. (a \div Base) + (a % Base) = a + (0 - (a \div Base)) * M
  BY <1>1, <1>2, HeaderAssumption DEF M, Words
<1> QED
  BY <1>1, <1>2, <1>3 DEF Same

\* The upper half of a number below n times Base is below n.
LEMMA QuotientBound ==
  ASSUME NEW a \in Nat, NEW n \in Nat, a < n * Base
  PROVE  a \div Base < n
<1> DEFINE q == a \div Base
<1>1. q \in Nat /\ a >= q * Base
  BY Halving, HeaderAssumption DEF Words
<1> HIDE DEF q
<1>2. CASE q >= n
  <2>1. (q - n) * Base >= 0 /\ q * Base = n * Base + (q - n) * Base
    BY <1>1, <1>2, HeaderAssumption
  <2> QED
    BY <1>1, <2>1, HeaderAssumption
<1> QED
  BY <1>1, <1>2 DEF q

\* All ones in 32 bits is a multiple of all ones in 16, so a carry that comes
\* back at the end changes nothing.
LEMMA WideSize == Base * Base \in Nat /\ Base * Base >= 2 * Base /\ Base * Base - 1 = (Base + 1) * M
BY HeaderAssumption DEF M

\* csum_add: the end-around carry.
LEMMA AddIsSame ==
  ASSUME NEW a \in Wide, NEW b \in Wide
  PROVE  csum_add(a, b) \in Wide /\ Same(csum_add(a, b), a + b)
<1> DEFINE W == Base * Base
<1>0. W \in Nat /\ W >= 4 /\ W - 1 = (Base + 1) * M
  BY WideSize, HeaderAssumption
<1>1. a \in 0..(W - 1) /\ b \in 0..(W - 1)
  BY DEF Wide
<1>2. csum_add(a, b) = (((a + b) % W) + (IF ((a + b) % W) < b THEN 1 ELSE 0)) % W
  BY DEF csum_add, WrappingAdd
<1> HIDE DEF W
<1>3. CASE a + b < W
  <2>1. (a + b) % W = a + b
    BY <1>0, <1>1, <1>3
  <2>2. csum_add(a, b) = a + b
    BY <1>0, <1>1, <1>2, <1>3, <2>1
  <2> QED
    BY <2>2, <1>0, <1>1, <1>3, SameRefl DEF Wide, W
<1>4. CASE a + b >= W
  <2>1. (a + b) % W = a + b - W
    BY <1>0, <1>1, <1>4
  <2>2. csum_add(a, b) = a + b - W + 1
    BY <1>0, <1>1, <1>2, <1>4, <2>1
  <2>3. csum_add(a, b) = a + b + (0 - (Base + 1)) * M
    BY <2>2, <1>0, <1>1, HeaderAssumption DEF M
  <2>4. 0 - (Base + 1) \in Int
    BY HeaderAssumption
  <2> QED
    BY <2>2, <2>3, <2>4, <1>0, <1>1, <1>4 DEF Wide, W, Same
<1> QED
  BY <1>0, <1>1, <1>3, <1>4

\* csum_fold: two halvings leave a word, and the complement changes the sign.
LEMMA FoldIsSame ==
  ASSUME NEW a \in Wide
  PROVE  csum_fold(a) \in Words /\ Same(csum_fold(a), 0 - a)
<1> DEFINE W == Base * Base
           once == (a \div Base) + (a % Base)
           twice == (once \div Base) + (once % Base)
<1>0. W \in Nat /\ W >= 2 * Base /\ a \in Nat /\ a <= W - 1
  BY WideSize, HeaderAssumption DEF Wide
<1>1. a \div Base \in 0..(Base - 1) /\ a % Base \in 0..(Base - 1)
  <2>1. a \div Base < Base
    BY <1>0, QuotientBound, HeaderAssumption
  <2> QED
    BY <1>0, <2>1, Halving, HeaderAssumption DEF Words
<1>2. once \in 0..(2 * Base - 2) /\ Same(once, a)
  BY <1>0, <1>1, Halving, HeaderAssumption
<1>3. FoldOnce(a) = once
  BY <1>0, <1>1, <1>2, HeaderAssumption DEF FoldOnce, WrappingAdd
<1>4. once \div Base \in 0..1 /\ once = (once \div Base) * Base + (once % Base)
      /\ once % Base \in 0..(Base - 1)
  <2>1. once \in Nat /\ once < 2 * Base
    BY <1>2, HeaderAssumption
  <2> HIDE DEF once
  <2>2. once \div Base < 2
    BY <2>1, QuotientBound
  <2> QED
    BY <2>1, <2>2, Halving DEF Words
<1> HIDE DEF once
<1>5. twice \in 0..(Base - 1) /\ Same(twice, once)
  BY <1>2, <1>4, Halving, HeaderAssumption
<1>6. FoldOnce(once) = twice
  <2>1. FoldOnce(once) = twice % (Base * Base)
    BY <1>4 DEF FoldOnce, WrappingAdd
  <2> HIDE DEF twice
  <2> QED
    BY <1>0, <1>5, <2>1, HeaderAssumption
<1> HIDE DEF twice
<1>7. twice % Base = twice
  BY <1>5, HeaderAssumption
<1>8. csum_fold(a) = M - twice
  BY <1>3, <1>6, <1>7, HeaderAssumption DEF csum_fold, M
<1>9. Same(twice, a)
  BY <1>0, <1>2, <1>5, SameTrans, HeaderAssumption
<1>10. Same(M, 0)
  BY AllOnesIsZero
<1>11. Same(M - twice, 0 - a)
  BY <1>0, <1>5, <1>9, <1>10, SameAdd, HeaderAssumption DEF M
<1> QED
  BY <1>5, <1>8, <1>11, HeaderAssumption DEF Words, M

\* The complement of a number is its negative.
LEMMA NotIsSame ==
  ASSUME NEW a \in Wide
  PROVE  NotWide(a) \in Wide /\ Same(NotWide(a), 0 - a)
<1>1. NotWide(a) = (0 - a) + (Base + 1) * M
  BY WideSize, HeaderAssumption DEF NotWide, Wide
<1>2. NotWide(a) \in Wide
  BY WideSize, HeaderAssumption DEF NotWide, Wide
<1> QED
  BY <1>1, <1>2, HeaderAssumption DEF Same

\* A checksum and a port are widened before they are added.
LEMMA WordIsWide == Words \subseteq Wide
BY WideSize, HeaderAssumption DEF Words, Wide

\* csum_replace4 takes the old value out of the complement of the sum and puts
\* the new one in.
LEMMA ReplaceIsSame ==
  ASSUME NEW csum \in Words, NEW from \in Wide, NEW to \in Wide
  PROVE  /\ csum_replace4(csum, from, to) \in Words
         /\ Same(csum_replace4(csum, from, to), csum + from - to)
<1> DEFINE x == csum_add(NotWide(csum), NotWide(from))
           y == csum_add(x, to)
<1>1. csum \in Wide /\ csum \in Int /\ from \in Int /\ to \in Int
  BY WordIsWide, WideSize DEF Wide
<1>2. NotWide(csum) \in Wide /\ Same(NotWide(csum), 0 - csum)
      /\ NotWide(from) \in Wide /\ Same(NotWide(from), 0 - from)
  BY <1>1, NotIsSame
<1>3. x \in Wide /\ Same(x, NotWide(csum) + NotWide(from))
  BY <1>2, AddIsSame
<1>4. y \in Wide /\ Same(y, x + to)
  BY <1>3, AddIsSame
<1>5. csum_replace4(csum, from, to) = csum_fold(y)
  BY DEF csum_replace4
<1>6. csum_fold(y) \in Words /\ Same(csum_fold(y), 0 - y)
  BY <1>4, FoldIsSame
<1> HIDE DEF x, y
<1>7. x \in Int /\ y \in Int /\ NotWide(csum) \in Int /\ NotWide(from) \in Int
      /\ csum_fold(y) \in Int
  BY <1>2, <1>3, <1>4, <1>6, WideSize, HeaderAssumption DEF Wide, Words
<1>8. Same(x, (0 - csum) + (0 - from))
  <2>1. Same(NotWide(csum) + NotWide(from), (0 - csum) + (0 - from))
    BY <1>1, <1>2, <1>7, SameAdd
  <2> QED
    BY <1>1, <1>3, <1>7, <2>1, SameTrans
<1>9. Same(y, ((0 - csum) + (0 - from)) + to)
  <2>1. Same(x + to, ((0 - csum) + (0 - from)) + to)
    BY <1>1, <1>7, <1>8, SameAdd, SameRefl
  <2> QED
    BY <1>1, <1>4, <1>7, <2>1, SameTrans
<1>10. Same(0 - y, 0 - (((0 - csum) + (0 - from)) + to))
  BY <1>1, <1>7, <1>9, SameAdd, SameRefl
<1>11. 0 - (((0 - csum) + (0 - from)) + to) = csum + from - to
  BY <1>1
<1>12. Same(csum_fold(y), csum + from - to)
  BY <1>1, <1>6, <1>7, <1>10, <1>11, SameTrans
<1> QED
  BY <1>5, <1>6, <1>12
-----------------------------------------------------------------------------
\* The sender's sum: a remainder that is never zero, except of zero.
LEMMA OnesSumIsSame ==
  ASSUME NEW n \in Nat \ {0}
  PROVE  /\ OnesSum(n) \in 1..M
         /\ Same(OnesSum(n), n)
         /\ Same(n, 0) => OnesSum(n) = M
<1> DEFINE q == (n - 1) \div M
           r == (n - 1) % M
<1>0. M \in Nat /\ M >= 1 /\ n \in Nat /\ n >= 1
  BY HeaderAssumption DEF M
<1>1. q \in Nat /\ r \in 0..(M - 1) /\ n - 1 = q * M + r
  BY <1>0
<1>2. OnesSum(n) = r + 1
  BY <1>0 DEF OnesSum, M
<1> HIDE DEF q, r
<1>3. r + 1 = n + (0 - q) * M
  BY <1>0, <1>1
<1>4. Same(OnesSum(n), n)
  BY <1>0, <1>1, <1>2, <1>3 DEF Same
<1>5. ASSUME Same(n, 0) PROVE r + 1 = M
  <2>1. PICK k \in Int : n = 0 + k * M
    BY <1>5 DEF Same
  <2>2. r + 1 = (k - q) * M
    BY <1>0, <1>1, <2>1
  <2>3. k - q >= 1
    BY <1>0, <1>1, <2>1, <2>2
  <2>4. k - q <= 1
    <3>1. CASE k - q >= 2
      <4>1. (k - q) * M >= 2 * M
        BY <3>1, <1>0, <1>1, <2>1
      <4> QED
        BY <4>1, <1>0, <1>1, <2>2
    <3> QED
      BY <3>1, <1>1, <2>1
  <2>5. k - q = 1
    BY <1>1, <2>1, <2>3, <2>4
  <2> QED
    BY <1>0, <2>2, <2>5
<1> QED
  BY <1>0, <1>1, <1>2, <1>4, <1>5
-----------------------------------------------------------------------------
\* A sum and its checksum are right together when they leave no remainder.  The
\* invariant says so of both, and keeps UDP's zero for the missing checksum.
IpInv == Same(IpSum(datagram) + datagram.ip_check, 0)

UdpInv ==
  IF datagram.checked
  THEN datagram.udp_check # 0 /\ Same(UdpSum(datagram) + datagram.udp_check, 0)
  ELSE datagram.udp_check = 0

ChecksumInv == TypeOK /\ IpInv /\ UdpInv

Headers == [src_addr : Addrs, dst_addr : Addrs,
            src_port : PortNumbers, dst_port : PortNumbers,
            rest : Words \ {0}, checked : BOOLEAN, ip_check : Words, udp_check : Words]

\* Words are numbers, and zero is one of them.
LEMMA WordsAreNumbers == Words \subseteq Nat /\ 0 \in Words
BY HeaderAssumption DEF Words

\* The two words of an address add up to what the code adds, the address itself.
LEMMA AddressIsSame ==
  ASSUME NEW addr \in Addrs
  PROVE  addr \in Nat /\ addr \in Wide
         /\ AddressWords(addr) \in Nat /\ Same(AddressWords(addr), addr)
<1>1. addr \in Wide /\ addr \in Nat
  BY WideSize, HeaderAssumption DEF Wide
<1>2. addr \div Base \in Nat /\ addr % Base \in Nat
  BY <1>1, Halving DEF Words
<1> QED
  BY <1>1, <1>2, Halving DEF AddressWords

\* The sums of a datagram are numbers, and never zero.
LEMMA SumsArePositive ==
  ASSUME NEW d \in Headers
  PROVE  IpSum(d) \in Nat \ {0} /\ UdpSum(d) \in Nat \ {0}
<1>1. AddressWords(d.src_addr) \in Nat /\ AddressWords(d.dst_addr) \in Nat
  BY AddressIsSame DEF Headers
<1>2. d.rest \in Words \ {0} /\ d.src_port \in Words /\ d.dst_port \in Words
  BY HeaderAssumption DEF Headers
<1>3. Words \subseteq Nat
  BY WordsAreNumbers
<1>4. IpSum(d) \in Nat \ {0}
  <2>1. d.rest \in Nat \ {0}
    BY <1>2, <1>3
  <2>2. ASSUME NEW a \in Nat, NEW b \in Nat, NEW c \in Nat \ {0}
        PROVE  a + b + c \in Nat \ {0}
    OBVIOUS
  <2> QED
    BY <1>1, <2>1, <2>2 DEF IpSum
<1>5. d.src_port \in Nat /\ d.dst_port \in Nat
  BY <1>2, <1>3
<1>6. UdpSum(d) = IpSum(d) + d.src_port + d.dst_port
  BY DEF UdpSum
<1>7. UdpSum(d) \in Nat \ {0}
  BY <1>4, <1>5, <1>6
<1> QED
  BY <1>4, <1>7

\* A correction by from and to keeps a sum right in which from became to.
LEMMA CorrectionKeepsSum ==
  ASSUME NEW sum \in Int, NEW new \in Int, NEW csum \in Words,
         NEW from \in Wide, NEW to \in Wide,
         Same(new, sum - from + to), Same(sum + csum, 0)
  PROVE  Same(new + csum_replace4(csum, from, to), 0)
<1> DEFINE c == csum_replace4(csum, from, to)
<1>1. c \in Words /\ Same(c, csum + from - to)
  BY ReplaceIsSame
<1> HIDE DEF c
<1>2. c \in Int /\ csum \in Int /\ from \in Int /\ to \in Int
  BY <1>1, WideSize, HeaderAssumption DEF Words, Wide
<1>3. Same(new + c, (sum - from + to) + (csum + from - to))
  BY <1>1, <1>2, SameAdd
<1>4. (sum - from + to) + (csum + from - to) = sum + csum
  BY <1>2
<1> QED
  BY <1>2, <1>3, <1>4, SameTrans DEF c

\* The two corrections of UDP in a row, and the zero that is sent as all ones.
LEMMA UdpCheckKeepsSum ==
  ASSUME NEW sum \in Int, NEW new \in Int, NEW check \in Words \ {0},
         NEW port \in Words, NEW addr \in Wide, NEW nat \in Nats,
         Same(new, ((sum - port + nat.nat_port) - addr) + nat.nat_addr), Same(sum + check, 0)
  PROVE  /\ UdpCheck(check, port, addr, nat) \in Words \ {0}
         /\ Same(new + UdpCheck(check, port, addr, nat), 0)
<1> DEFINE b == csum_replace4(check, port, nat.nat_port)
           c == csum_replace4(b, addr, nat.nat_addr)
           half == sum - port + nat.nat_port
<1>1. nat.nat_port \in Words /\ nat.nat_port \in Wide /\ nat.nat_addr \in Wide
      /\ port \in Wide
  BY WordIsWide, HeaderAssumption DEF Nats
<1>2. half \in Int
  BY <1>1, HeaderAssumption DEF Words
<1>3. b \in Words /\ Same(half + b, 0)
  BY <1>1, <1>2, ReplaceIsSame, CorrectionKeepsSum, SameRefl
<1> HIDE DEF b, half
<1>4. Same(new, (half - addr) + nat.nat_addr)
  BY DEF half
<1>5. c \in Words /\ Same(new + c, 0)
  BY <1>1, <1>2, <1>3, <1>4, ReplaceIsSame, CorrectionKeepsSum
<1>6. UdpCheck(check, port, addr, nat) = IF c = 0 THEN M ELSE c
  BY DEF UdpCheck, b, M
<1> HIDE DEF c
<1>7. CASE c = 0
  <2>1. M \in Words \ {0} /\ Same(M, 0) /\ M \in Int
    BY AllOnesIsZero
  <2>2. Same(new, 0)
    BY <1>5, <1>7
  <2>3. Same(new + M, 0 + 0)
    BY <2>1, <2>2, SameAdd
  <2> QED
    BY <1>6, <1>7, <2>1, <2>3
<1>8. CASE c # 0
  BY <1>5, <1>6, <1>8
<1> QED
  BY <1>7, <1>8
-----------------------------------------------------------------------------
\* A sender fills in both checksums, or leaves the one of UDP out.
LEMMA SentIsRight ==
  ASSUME NEW n \in Nat \ {0}
  PROVE  /\ Checksum(n) \in Words /\ Same(n + Checksum(n), 0)
         /\ SentChecksum(n) \in Words \ {0} /\ Same(n + SentChecksum(n), 0)
<1> DEFINE o == OnesSum(n)
<1>1. o \in 1..M /\ Same(o, n) /\ o \in Int /\ n \in Int /\ M \in Nat /\ M >= 1
  BY OnesSumIsSame, HeaderAssumption DEF M
<1>2. Checksum(n) = M - o
  BY DEF Checksum, M
<1> HIDE DEF o
<1>3. Checksum(n) \in Words /\ Checksum(n) \in Int
  BY <1>1, <1>2, HeaderAssumption DEF Words, M
<1>4. Same(n - o, 0)
  <2>1. Same(n - o, n - n)
    BY <1>1, SameAdd, SameRefl
  <2> QED
    BY <2>1, <1>1
<1>5. Same(M, 0)
  BY AllOnesIsZero
<1>6. Same(n + Checksum(n), 0)
  <2>1. Same((n - o) + M, 0 + 0)
    BY <1>1, <1>4, <1>5, SameAdd
  <2> QED
    BY <2>1, <1>1, <1>2
<1>7. CASE Checksum(n) = 0
  <2>1. SentChecksum(n) = M /\ Same(n, 0)
    BY <1>1, <1>6, <1>7 DEF SentChecksum, M
  <2>2. Same(n + M, 0 + 0)
    BY <1>1, <1>5, <2>1, SameAdd
  <2> QED
    BY <1>1, <1>3, <1>6, <2>1, <2>2, HeaderAssumption DEF Words, M
<1>8. CASE Checksum(n) # 0
  BY <1>3, <1>6, <1>8 DEF SentChecksum
<1> QED
  BY <1>7, <1>8

\* The checksums of a sender are right.
LEMMA InitChecksumInv == Init => ChecksumInv
<1> SUFFICES ASSUME Init PROVE ChecksumInv
  OBVIOUS
<1>1. PICK d \in Blank, checked \in BOOLEAN : datagram = Sent(d, checked)
  BY DEF Init
<1>2. d \in Headers
  BY WordsAreNumbers DEF Blank, Headers
<1>3. IpSum(d) \in Nat \ {0} /\ UdpSum(d) \in Nat \ {0}
  BY <1>2, SumsArePositive
<1>4. /\ Checksum(IpSum(d)) \in Words /\ Same(IpSum(d) + Checksum(IpSum(d)), 0)
      /\ SentChecksum(UdpSum(d)) \in Words \ {0}
      /\ Same(UdpSum(d) + SentChecksum(UdpSum(d)), 0)
  BY <1>3, SentIsRight
<1>5. /\ datagram.ip_check = Checksum(IpSum(d)) /\ datagram.checked = checked
      /\ datagram.udp_check = IF checked THEN SentChecksum(UdpSum(d)) ELSE 0
      /\ IpSum(datagram) = IpSum(d) /\ UdpSum(datagram) = UdpSum(d)
  BY <1>1 DEF Sent, Blank, IpSum, UdpSum
<1>6. datagram \in Headers
  BY <1>1, <1>2, <1>4, WordsAreNumbers DEF Sent, Headers
<1>7. TypeOK
  BY <1>6, HeaderAssumption DEF Init, TypeOK, Headers
<1>8. IpInv
  BY <1>4, <1>5 DEF IpInv
<1>9. UdpInv
  BY <1>4, <1>5 DEF UdpInv
<1> QED
  BY <1>7, <1>8, <1>9 DEF ChecksumInv

\* What both rewriting functions do, on the side they are given: the address is
\* replaced, and the port unless there is no UDP checksum.
RewrittenSide(d, e, port, addr, nat) ==
  /\ e \in [src_addr : Addrs, dst_addr : Addrs,
            src_port : PortNumbers, dst_port : PortNumbers,
            rest : {d.rest}, checked : {d.checked},
            ip_check : {csum_replace4(d.ip_check, addr, nat.nat_addr)},
            udp_check : {UdpCheck(d.udp_check, port, addr, nat)}]
  /\ IpSum(e) = IpSum(d) - AddressWords(addr) + AddressWords(nat.nat_addr)
  /\ d.udp_check # 0 =>
       UdpSum(e) = (IpSum(e) - IpSum(d)) + (UdpSum(d) - port + nat.nat_port)

\* apply_ip_snat does it to the source,
LEMMA SnatRewrites ==
  ASSUME NEW d \in Headers, NEW nat \in Nats
  PROVE  RewrittenSide(d, apply_ip_snat(d, nat), d.src_port, d.src_addr, nat)
<1> DEFINE e == apply_ip_snat(d, nat)
<1>1. /\ e.src_addr = nat.nat_addr /\ e.dst_addr = d.dst_addr
      /\ e.src_port = NewPort(d.udp_check, d.src_port, nat) /\ e.dst_port = d.dst_port
      /\ e.rest = d.rest
  BY DEF apply_ip_snat, Headers
<1>2. e \in [src_addr : Addrs, dst_addr : Addrs,
            src_port : PortNumbers, dst_port : PortNumbers,
            rest : {d.rest}, checked : {d.checked},
            ip_check : {csum_replace4(d.ip_check, d.src_addr, nat.nat_addr)},
            udp_check : {UdpCheck(d.udp_check, d.src_port, d.src_addr, nat)}]
  BY DEF apply_ip_snat, Headers, Nats, NewPort
<1> HIDE DEF e
<1>3. /\ AddressWords(d.src_addr) \in Nat /\ AddressWords(d.dst_addr) \in Nat
      /\ AddressWords(nat.nat_addr) \in Nat
  BY AddressIsSame DEF Headers, Nats
<1>4. d.rest \in Nat /\ d.src_port \in Nat /\ d.dst_port \in Nat /\ nat.nat_port \in Nat
  <2>1. /\ d.rest \in Words /\ d.src_port \in Words /\ d.dst_port \in Words
        /\ nat.nat_port \in Words
    BY HeaderAssumption DEF Headers, Nats
  <2> QED
    BY <2>1, WordsAreNumbers
<1>5. /\ IpSum(d) = AddressWords(d.src_addr) + AddressWords(d.dst_addr) + d.rest
      /\ IpSum(e) = AddressWords(nat.nat_addr) + AddressWords(d.dst_addr) + d.rest
  BY <1>1 DEF IpSum
<1>6. IpSum(d) \in Nat /\ IpSum(e) \in Nat
      /\ IpSum(e) = IpSum(d) - AddressWords(d.src_addr) + AddressWords(nat.nat_addr)
  BY <1>3, <1>4, <1>5
<1>7. ASSUME d.udp_check # 0
      PROVE  UdpSum(e) = (IpSum(e) - IpSum(d)) + (UdpSum(d) - d.src_port + nat.nat_port)
  <2>1. /\ UdpSum(e) = IpSum(e) + nat.nat_port + d.dst_port
        /\ UdpSum(d) = IpSum(d) + d.src_port + d.dst_port
    BY <1>1, <1>7 DEF UdpSum, NewPort
  <2> QED
    BY <2>1, <1>4, <1>6
<1> QED
  BY <1>2, <1>6, <1>7 DEF RewrittenSide, e

\* and apply_ip_dnat to the destination.
LEMMA DnatRewrites ==
  ASSUME NEW d \in Headers, NEW nat \in Nats
  PROVE  RewrittenSide(d, apply_ip_dnat(d, nat), d.dst_port, d.dst_addr, nat)
<1> DEFINE e == apply_ip_dnat(d, nat)
<1>1. /\ e.dst_addr = nat.nat_addr /\ e.src_addr = d.src_addr
      /\ e.dst_port = NewPort(d.udp_check, d.dst_port, nat) /\ e.src_port = d.src_port
      /\ e.rest = d.rest
  BY DEF apply_ip_dnat, Headers
<1>2. e \in [src_addr : Addrs, dst_addr : Addrs,
            src_port : PortNumbers, dst_port : PortNumbers,
            rest : {d.rest}, checked : {d.checked},
            ip_check : {csum_replace4(d.ip_check, d.dst_addr, nat.nat_addr)},
            udp_check : {UdpCheck(d.udp_check, d.dst_port, d.dst_addr, nat)}]
  BY DEF apply_ip_dnat, Headers, Nats, NewPort
<1> HIDE DEF e
<1>3. /\ AddressWords(d.src_addr) \in Nat /\ AddressWords(d.dst_addr) \in Nat
      /\ AddressWords(nat.nat_addr) \in Nat
  BY AddressIsSame DEF Headers, Nats
<1>4. d.rest \in Nat /\ d.src_port \in Nat /\ d.dst_port \in Nat /\ nat.nat_port \in Nat
  <2>1. /\ d.rest \in Words /\ d.src_port \in Words /\ d.dst_port \in Words
        /\ nat.nat_port \in Words
    BY HeaderAssumption DEF Headers, Nats
  <2> QED
    BY <2>1, WordsAreNumbers
<1>5. /\ IpSum(d) = AddressWords(d.src_addr) + AddressWords(d.dst_addr) + d.rest
      /\ IpSum(e) = AddressWords(d.src_addr) + AddressWords(nat.nat_addr) + d.rest
  BY <1>1 DEF IpSum
<1>6. IpSum(d) \in Nat /\ IpSum(e) \in Nat
      /\ IpSum(e) = IpSum(d) - AddressWords(d.dst_addr) + AddressWords(nat.nat_addr)
  BY <1>3, <1>4, <1>5
<1>7. ASSUME d.udp_check # 0
      PROVE  UdpSum(e) = (IpSum(e) - IpSum(d)) + (UdpSum(d) - d.dst_port + nat.nat_port)
  <2>1. /\ UdpSum(e) = IpSum(e) + d.src_port + nat.nat_port
        /\ UdpSum(d) = IpSum(d) + d.src_port + d.dst_port
    BY <1>1, <1>7 DEF UdpSum, NewPort
  <2> QED
    BY <2>1, <1>4, <1>6
<1> QED
  BY <1>2, <1>6, <1>7 DEF RewrittenSide, e

\* Either function keeps both checksums right.
LEMMA RewriteKeepsChecksums ==
  ASSUME ChecksumInv, NEW nat \in Nats, NEW port \in PortNumbers, NEW addr \in Addrs,
         NEW e, RewrittenSide(datagram, e, port, addr, nat)
  PROVE  /\ e \in Headers
         /\ Same(IpSum(e) + e.ip_check, 0)
         /\ IF e.checked THEN e.udp_check # 0 /\ Same(UdpSum(e) + e.udp_check, 0)
                         ELSE e.udp_check = 0
<1> DEFINE d == datagram
           u == UdpCheck(d.udp_check, port, addr, nat)
<1>1. d \in Headers /\ d.ip_check \in Words /\ d.udp_check \in Words
  BY DEF ChecksumInv, TypeOK, Headers
<1>2. /\ addr \in Wide /\ addr \in Int /\ port \in Words /\ port \in Int
      /\ nat.nat_addr \in Wide /\ nat.nat_addr \in Int /\ nat.nat_port \in Int
      /\ AddressWords(addr) \in Int /\ AddressWords(nat.nat_addr) \in Int
      /\ Same(AddressWords(addr), addr) /\ Same(AddressWords(nat.nat_addr), nat.nat_addr)
  <2>1. nat.nat_addr \in Addrs /\ nat.nat_port \in Words /\ port \in Words
    BY HeaderAssumption DEF Nats
  <2>2. nat.nat_port \in Nat /\ port \in Nat
    BY <2>1, WordsAreNumbers
  <2>3. addr \in Wide /\ addr \in Nat
        /\ AddressWords(addr) \in Nat /\ Same(AddressWords(addr), addr)
    BY AddressIsSame
  <2>4. nat.nat_addr \in Wide /\ nat.nat_addr \in Nat
        /\ AddressWords(nat.nat_addr) \in Nat
        /\ Same(AddressWords(nat.nat_addr), nat.nat_addr)
    BY <2>1, AddressIsSame
  <2> QED
    BY <2>1, <2>2, <2>3, <2>4
<1>3. e.ip_check = csum_replace4(d.ip_check, addr, nat.nat_addr) /\ e.ip_check \in Words
  BY <1>1, <1>2, ReplaceIsSame DEF RewrittenSide
<1>4. e.checked = d.checked /\ e.udp_check = u
  BY DEF RewrittenSide
<1>5. IpSum(d) \in Int /\ UdpSum(d) \in Int
  BY <1>1, SumsArePositive
<1>6. IpSum(e) = IpSum(d) - AddressWords(addr) + AddressWords(nat.nat_addr)
  BY DEF RewrittenSide
<1>7. IpSum(e) \in Int /\ Same(IpSum(e), (IpSum(d) - addr) + nat.nat_addr)
  <2>1. IpSum(e) \in Int
    BY <1>2, <1>5, <1>6
  <2>2. Same((IpSum(d) - AddressWords(addr)) + AddressWords(nat.nat_addr),
             (IpSum(d) - addr) + nat.nat_addr)
    BY <1>2, <1>5, SameExchange
  <2> QED
    BY <1>6, <2>1, <2>2
<1>8. Same(IpSum(e) + e.ip_check, 0)
  BY <1>1, <1>2, <1>3, <1>5, <1>7, CorrectionKeepsSum DEF ChecksumInv, IpInv
<1>9. CASE d.udp_check = 0
  <2>1. u = 0 /\ ~ d.checked
    BY <1>9 DEF UdpCheck, ChecksumInv, UdpInv
  <2>2. e \in Headers
    BY <1>1, <1>3, <1>4, <2>1, WordsAreNumbers DEF RewrittenSide, Headers
  <2> QED
    BY <1>4, <1>8, <2>1, <2>2
<1>10. CASE d.udp_check # 0
  <2>1. d.checked /\ Same(UdpSum(d) + d.udp_check, 0)
    BY <1>10 DEF ChecksumInv, UdpInv
  <2>2. UdpSum(e) = (IpSum(e) - IpSum(d)) + (UdpSum(d) - port + nat.nat_port)
    BY <1>10 DEF RewrittenSide
  <2>3. UdpSum(e) \in Int
    BY <1>2, <1>5, <1>7, <2>2
  <2>4. Same(UdpSum(e), ((UdpSum(d) - port + nat.nat_port) - addr) + nat.nat_addr)
    <3> DEFINE half == UdpSum(d) - port + nat.nat_port
    <3>1. half \in Int
      BY <1>2, <1>5
    <3>2. UdpSum(e) = (IpSum(e) - IpSum(d)) + half
      BY <2>2
    <3> HIDE DEF half
    <3>3. Same((IpSum(e) - IpSum(d)) + half, (half - addr) + nat.nat_addr)
      BY <1>2, <1>5, <1>7, <3>1, SameFollows
    <3> QED
      BY <3>2, <3>3 DEF half
  <2>5. u \in Words \ {0} /\ Same(UdpSum(e) + u, 0)
    BY <1>1, <1>2, <1>5, <1>10, <2>1, <2>3, <2>4, UdpCheckKeepsSum
  <2>6. e \in Headers
    BY <1>1, <1>3, <1>4, <2>5 DEF RewrittenSide, Headers
  <2> QED
    BY <1>4, <1>8, <2>1, <2>5, <2>6
<1> QED
  BY <1>9, <1>10

\* The invariant holds over every translation of every datagram.
LEMMA NextChecksumInv == ChecksumInv /\ [Next]_vars => ChecksumInv'
<1> SUFFICES ASSUME ChecksumInv, [Next]_vars PROVE ChecksumInv'
  OBVIOUS
<1>1. datagram \in Headers /\ rewrites \in Nat
  BY HeaderAssumption DEF ChecksumInv, TypeOK, Headers
<1>2. datagram.src_port \in PortNumbers /\ datagram.dst_port \in PortNumbers
      /\ datagram.src_addr \in Addrs /\ datagram.dst_addr \in Addrs
  BY <1>1 DEF Headers
<1>3. ASSUME NEW nat \in Nats, Snat(nat) PROVE ChecksumInv'
  <2>1. RewrittenSide(datagram, datagram', datagram.src_port, datagram.src_addr, nat)
    BY <1>1, <1>3, SnatRewrites DEF Snat
  <2>2. /\ datagram' \in Headers /\ IpInv' /\ UdpInv'
    BY <1>2, <2>1, RewriteKeepsChecksums DEF IpInv, UdpInv
  <2>3. TypeOK'
    BY <1>1, <1>3, <2>2, HeaderAssumption DEF Snat, TypeOK, Headers
  <2> QED
    BY <2>2, <2>3 DEF ChecksumInv
<1>4. ASSUME NEW nat \in Nats, Dnat(nat) PROVE ChecksumInv'
  <2>1. RewrittenSide(datagram, datagram', datagram.dst_port, datagram.dst_addr, nat)
    BY <1>1, <1>4, DnatRewrites DEF Dnat
  <2>2. /\ datagram' \in Headers /\ IpInv' /\ UdpInv'
    BY <1>2, <2>1, RewriteKeepsChecksums DEF IpInv, UdpInv
  <2>3. TypeOK'
    BY <1>1, <1>4, <2>2, HeaderAssumption DEF Dnat, TypeOK, Headers
  <2> QED
    BY <2>2, <2>3 DEF ChecksumInv
<1>5. CASE UNCHANGED vars
  BY <1>5 DEF vars, ChecksumInv, TypeOK, IpInv, UdpInv
<1> QED
  BY <1>3, <1>4, <1>5 DEF Next

\* What the receiver checks follows: a sum that leaves no remainder and is not
\* zero comes out as all ones.
LEMMA ChecksumInvSuffices == ChecksumInv => TypeOK /\ IpChecksumValid /\ UdpChecksumValid
<1> SUFFICES ASSUME ChecksumInv PROVE IpChecksumValid /\ UdpChecksumValid
  BY DEF ChecksumInv
<1>1. datagram \in Headers /\ datagram.ip_check \in Nat /\ datagram.udp_check \in Nat
  BY WordsAreNumbers DEF ChecksumInv, TypeOK, Headers
<1>2. IpSum(datagram) \in Nat \ {0} /\ UdpSum(datagram) \in Nat \ {0}
  BY <1>1, SumsArePositive
<1>3. IpSum(datagram) + datagram.ip_check \in Nat \ {0}
      /\ UdpSum(datagram) + datagram.udp_check \in Nat \ {0}
  BY <1>1, <1>2
<1>4. IpChecksumValid
  BY <1>3, OnesSumIsSame DEF ChecksumInv, IpInv, IpChecksumValid, M
<1>5. UdpChecksumValid
  BY <1>3, OnesSumIsSame DEF ChecksumInv, UdpInv, UdpChecksumValid, M
<1> QED
  BY <1>4, <1>5
-----------------------------------------------------------------------------
(***************************************************************************)
(* The way of the frames.                                                  *)
(***************************************************************************)
\* Frames are passed on or translated, and of a fragment's train none is
\* translated, since each of its frames is recognized by its flag or its offset.
PathInv ==
  /\ ChecksumInv
  /\ train \in Trains
  /\ waiting \subseteq train
  /\ translated \subseteq train \ waiting
  /\ \A f \in translated : train = {f} /\ IsPlainUdp(f)

\* All frames are still to come.
LEMMA InitPathInv == PathInit => PathInv
BY InitChecksumInv DEF PathInit, PathInv

\* A step of a packet is a translation of its headers or leaves them alone.
LEMMA StepsAreRewrites == [PathNext]_pathVars => [Next]_vars
BY DEF PathNext, Pass, Translate, Hop, Next, pathVars

\* The invariant holds over every check, translation and hop.
LEMMA NextPathInv == PathInv /\ [PathNext]_pathVars => PathInv'
<1> SUFFICES ASSUME PathInv, [PathNext]_pathVars PROVE PathInv'
  OBVIOUS
<1>1. ChecksumInv'
  BY StepsAreRewrites, NextChecksumInv DEF PathInv
<1>2. ASSUME NEW f \in waiting, Pass(f) PROVE PathInv'
  BY <1>1, <1>2 DEF Pass, PathInv
<1>3. ASSUME NEW f \in waiting, NEW nat \in Nats, Translate(f, nat) PROVE PathInv'
  <2>1. f \in train /\ IsPlainUdp(f) /\ train' = train
    BY <1>3 DEF Translate, PathInv
  <2>2. train = {f}
    <3>1. f \in Frames
      BY <2>1, TrainAssumption DEF PathInv
    <3>2. ~ (f.mf \/ f.offset # 0)
      BY <2>1 DEF IsPlainUdp, IsFragment
    <3> QED
      BY <2>1, <3>2, TrainAssumption DEF PathInv
  <2> QED
    BY <1>1, <1>3, <2>1, <2>2 DEF Translate, PathInv
<1>4. CASE Hop
  BY <1>1, <1>4 DEF Hop, PathInv
<1>5. CASE UNCHANGED pathVars
  BY <1>1, <1>5 DEF pathVars, PathInv
<1> QED
  BY <1>2, <1>3, <1>4, <1>5 DEF PathNext

\* The receiver finds the IP checksum right, whatever way the packet took.
THEOREM IpValidOnPath == PathSpec => []IpChecksumValid
<1>1. PathInv => IpChecksumValid
  BY ChecksumInvSuffices DEF PathInv
<1> QED
  BY InitPathInv, NextPathInv, <1>1, PTL DEF PathSpec

\* And the UDP checksum, which is neither lost nor made up.
THEOREM UdpValidOnPath == PathSpec => []UdpChecksumValid
<1>1. PathInv => UdpChecksumValid
  BY ChecksumInvSuffices DEF PathInv
<1> QED
  BY InitPathInv, NextPathInv, <1>1, PTL DEF PathSpec

\* No datagram is torn: its fragments are recognized one by one, in whatever
\* order they come (the fragment mask of try_xdp_redirect).
THEOREM NeverTornHolds == PathSpec => []NeverTorn
<1>1. PathInv => NeverTorn
  BY DEF PathInv, NeverTorn
<1> QED
  BY InitPathInv, NextPathInv, <1>1, PTL DEF PathSpec

\* The fixed offsets of the casts in try_xdp_redirect are those of a UDP header
\* within the frame.
THEOREM OnlyUdpRewritten == PathSpec => []RewritesOnlyUdp
<1>1. PathInv => RewritesOnlyUdp
  <2> SUFFICES ASSUME PathInv, NEW f \in translated
               PROVE  CarriesUdpHeader(f) /\ UdpAt(f) = EthLen + Ipv4Len
    BY DEF RewritesOnlyUdp
  <2>1. f \in Frames /\ IsPlainUdp(f)
    BY TrainAssumption DEF PathInv
  <2> QED
    BY <2>1 DEF IsPlainUdp, IsFragment, HasOptions, CarriesUdpHeader, UdpAt, Frames,
                EthLen, Ipv4Len, UdpLen
<1> QED
  BY InitPathInv, NextPathInv, <1>1, PTL DEF PathSpec
=============================================================================
