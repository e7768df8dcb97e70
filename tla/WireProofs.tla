------------------------------ MODULE WireProofs ------------------------------
(***************************************************************************)
(* What modules Packets and Wire promise, for every packet, every script   *)
(* of a client, whatever pieces recv() makes of it and in whatever order   *)
(* servers send: the cipher opens what it sealed, the servers get what the *)
(* client sent for them, the client gets whole packets, and both sides     *)
(* agree about the client's table.                                         *)
(*                                                                         *)
(* From the bytes up: slices and numbers; what each write leaves in a      *)
(* packet and each read takes from it; the cipher (SealOpens); what a      *)
(* handler may do to a session (Kept: which fields; Effect: what is        *)
(* forwarded and answered), one lemma per command of a client; the same    *)
(* per packet of a server (ServerEffect); streams as packets put one       *)
(* behind the other; a round of the packet loop (RoundIs) and all of them  *)
(* (DrainedIs); and the inductive invariant WInv: at any time the session  *)
(* is one that has handled the first k packets of the client, for some k,  *)
(* and what is in its buffer is the beginning of the rest.                 *)
(*                                                                         *)
(* Recursive functions are taken up by Recursion, which makes one from a   *)
(* step, and by induction on the number of steps.                          *)
(***************************************************************************)
EXTENDS Wire, SequenceTheorems, FiniteSetTheorems, WellFoundedInduction, TLAPS


-----------------------------------------------------------------------------
(* Numbers. *)

Octet == 0..255
Int16 == {n \in Int : -32768 <= n /\ n <= 32767}

\* Packets in memory.
Packet == [buf : Seq(Octet), pos : Nat, checked : BOOLEAN]

\* n bytes of a buffer that has them.
LEMMA SliceIs ==
  ASSUME NEW S, NEW b \in Seq(S), NEW i \in Nat, NEW n \in Nat, i + n <= Len(b)
  PROVE  /\ Slice(b, i, n) \in Seq(S) /\ Len(Slice(b, i, n)) = n
         /\ \A k \in 1..n : Slice(b, i, n)[k] = b[i + k]
<1>1. Slice(b, i, n) = SubSeq(b, i + 1, i + n)
  BY DEF Slice
<1>2. Len(b) \in Nat
  OBVIOUS
<1>3. SubSeq(b, i + 1, i + n) \in Seq(S) /\ Len(SubSeq(b, i + 1, i + n)) = n
  BY <1>2
<1>4. \A k \in 1..n : SubSeq(b, i + 1, i + n)[k] = b[i + k]
  BY <1>2
<1> QED
  BY <1>1, <1>3, <1>4

\* Buffers that agree on n bytes, from behind i and from behind j.
Alike(b, i, c, j, n) == \A k \in 1..n : b[i + k] = c[j + k]

\* Bytes taken out of a sequence of bytes.
LEMMA SomeOctets ==
  ASSUME NEW c \in Seq(Octet), NEW i \in Nat, NEW n \in Nat, i + n <= Len(c)
  PROVE  /\ Slice(c, i, n) \in Seq(Octet) /\ Len(Slice(c, i, n)) = n
         /\ \A k \in 1..n : Slice(c, i, n)[k] = c[i + k]
BY SliceIs

\* Two sequences alike over n bytes have the same slice there.
LEMMA SliceSame ==
  ASSUME NEW b \in Seq(Octet), NEW c \in Seq(Octet), NEW i \in Nat, NEW j \in Nat, NEW n \in Nat,
         i + n <= Len(b), j + n <= Len(c), Alike(b, i, c, j, n)
  PROVE  Slice(b, i, n) = Slice(c, j, n)
<1> DEFINE u == Slice(b, i, n)
           v == Slice(c, j, n)
<1>1. u \in Seq(Octet) /\ Len(u) = n /\ \A k \in 1..n : u[k] = b[i + k]
  BY SliceIs
<1>2. v \in Seq(Octet) /\ Len(v) = n /\ \A k \in 1..n : v[k] = c[j + k]
  BY SliceIs
<1> HIDE DEF u, v
<1>6. \A k \in 1..n : b[i + k] = c[j + k]
  BY DEF Alike
<1>3. u = [k \in 1..n |-> u[k]] /\ v = [k \in 1..n |-> v[k]]
  BY <1>1, <1>2
<1>4. \A k \in 1..n : u[k] = v[k]
  BY <1>1, <1>2, <1>6
<1>5. u = v
  BY <1>3, <1>4
<1> QED
  BY <1>5 DEF u, v

\* The two bytes WriteShort puts into a packet for n: high byte first.
LEMMA ShortBytes ==
  ASSUME NEW n \in Int
  PROVE  /\ Bytes(n, 2) \in Seq(Octet) /\ Len(Bytes(n, 2)) = 2
         /\ Bytes(n, 2)[1] = (n \div 256) % 256 /\ Bytes(n, 2)[2] = n % 256
<1> DEFINE at == <<n, n \div 256, (n \div 256) \div 256, ((n \div 256) \div 256) \div 256>>
           b == [i \in 1..2 |-> at[2 + 1 - i] % 256]
<1>1. at[2] = n \div 256 /\ at[1] = n
  OBVIOUS
<1>2. 2 + 1 - 1 = 2 /\ 2 + 1 - 2 = 1
  OBVIOUS
<1>3. Bytes(n, 2) = b
  BY DEF Bytes
<1> HIDE DEF at
<1>4. b[1] = (n \div 256) % 256 /\ b[2] = n % 256
  BY <1>1, <1>2
<1>5. (n \div 256) % 256 \in Octet /\ n % 256 \in Octet
  BY DEF Octet
<1>6. b = [i \in 1..2 |-> b[i]] /\ \A i \in 1..2 : b[i] \in Octet
  <2>1. \A i \in 1..2 : i = 1 \/ i = 2
    OBVIOUS
  <2> QED
    BY <1>4, <1>5, <2>1
<1> HIDE DEF b
<1>7. b \in Seq(Octet) /\ Len(b) = 2
  BY <1>6
<1> QED
  BY <1>3, <1>4, <1>7

\* The four bytes WriteInt puts into a packet for n, high byte first.
LEMMA IntBytes ==
  ASSUME NEW n \in Int
  PROVE  LET b == Bytes(n, 4)
         IN /\ b \in Seq(Octet) /\ Len(b) = 4
            /\ b[1] = (((n \div 256) \div 256) \div 256) % 256 /\ b[2] = ((n \div 256) \div 256) % 256
            /\ b[3] = (n \div 256) % 256 /\ b[4] = n % 256
<1> DEFINE at == <<n, n \div 256, (n \div 256) \div 256, ((n \div 256) \div 256) \div 256>>
           b == [i \in 1..4 |-> at[4 + 1 - i] % 256]
<1>1. at[1] = n /\ at[2] = n \div 256 /\ at[3] = (n \div 256) \div 256 /\ at[4] = ((n \div 256) \div 256) \div 256
  OBVIOUS
<1>2. 4 + 1 - 1 = 4 /\ 4 + 1 - 2 = 3 /\ 4 + 1 - 3 = 2 /\ 4 + 1 - 4 = 1
  OBVIOUS
<1>3. Bytes(n, 4) = b
  BY DEF Bytes
<1>4. at[1] \in Int /\ at[2] \in Int /\ at[3] \in Int /\ at[4] \in Int
  <2>1. n \div 256 \in Int
    OBVIOUS
  <2>2. (n \div 256) \div 256 \in Int
    BY <2>1
  <2>3. ((n \div 256) \div 256) \div 256 \in Int
    BY <2>2
  <2> HIDE DEF at
  <2> QED
    BY <1>1, <2>1, <2>2, <2>3
<1> HIDE DEF at
<1>5. b[1] = at[4] % 256 /\ b[2] = at[3] % 256 /\ b[3] = at[2] % 256 /\ b[4] = at[1] % 256
  BY <1>2
<1>6. \A m \in Int : m % 256 \in Octet
  BY DEF Octet
<1>7. b = [i \in 1..4 |-> b[i]] /\ \A i \in 1..4 : b[i] \in Octet
  <2>1. \A i \in 1..4 : i = 1 \/ i = 2 \/ i = 3 \/ i = 4
    OBVIOUS
  <2>2. b = [i \in 1..4 |-> b[i]]
    OBVIOUS
  <2>3. b[1] \in Octet /\ b[2] \in Octet /\ b[3] \in Octet /\ b[4] \in Octet
    <3> HIDE DEF b
    <3> QED
      BY <1>4, <1>5, <1>6
  <2> HIDE DEF b
  <2>4. \A i \in 1..4 : b[i] \in Octet
    BY <2>1, <2>3
  <2> QED
    BY <2>2, <2>4
<1> HIDE DEF b
<1>8. b \in Seq(Octet) /\ Len(b) = 4
  BY <1>7
<1> QED
  BY <1>1, <1>3, <1>5, <1>8

\* Two bytes read with the sign of the first make a 16-bit number.
LEMMA TwoOctets ==
  ASSUME NEW a \in Octet, NEW b \in Octet
  PROVE  256 * (IF a < 128 THEN a ELSE a - 256) + b \in Int16
BY DEF Octet, Int16

\* Four bytes read with the sign of the first make a 32-bit number.
LEMMA FourOctets ==
  ASSUME NEW a \in Octet, NEW b \in Octet, NEW c \in Octet, NEW d \in Octet
  PROVE  256 * (256 * (256 * (IF a < 128 THEN a ELSE a - 256) + b) + c) + d \in Int32
BY DEF Octet, Int32

\* What ReadShort makes of two bytes.
LEMMA ShortNumber ==
  ASSUME NEW s \in Seq(Octet), Len(s) = 2
  PROVE  /\ Number(s) = 256 * (IF s[1] < 128 THEN s[1] ELSE s[1] - 256) + s[2]
         /\ Number(s) \in Int16
<1>1. s[1] \in Octet /\ s[2] \in Octet
  OBVIOUS
<1>2. Number(s) = 256 * (IF s[1] < 128 THEN s[1] ELSE s[1] - 256) + s[2]
  BY DEF Number
<1> QED
  BY <1>1, <1>2, TwoOctets

\* What ReadInt makes of four bytes.
LEMMA IntNumber ==
  ASSUME NEW s \in Seq(Octet), Len(s) = 4
  PROVE  /\ Number(s) = 256 * (256 * (256 * (IF s[1] < 128 THEN s[1] ELSE s[1] - 256) + s[2]) + s[3]) + s[4]
         /\ Number(s) \in Int32
<1>1. s[1] \in Octet /\ s[2] \in Octet /\ s[3] \in Octet /\ s[4] \in Octet
  OBVIOUS
<1>2. Number(s) = 256 * (256 * (256 * (IF s[1] < 128 THEN s[1] ELSE s[1] - 256) + s[2]) + s[3]) + s[4]
  BY DEF Number
<1> QED
  BY <1>1, <1>2, FourOctets

\* A number is read as it was written if it has the width.
LEMMA ShortReadsBack == ASSUME NEW n \in Int16 PROVE Number(Bytes(n, 2)) = n
<1> DEFINE b == Bytes(n, 2)
           q == n \div 256
           r == n % 256
<1>1. n = 256 * q + r /\ r \in 0..255 /\ q \in Int /\ -128 <= q /\ q <= 127
  BY DEF Int16
<1>2. q % 256 = IF q >= 0 THEN q ELSE q + 256
  BY <1>1
<1>3. b \in Seq(Octet) /\ Len(b) = 2 /\ b[1] = q % 256 /\ b[2] = r
  BY ShortBytes DEF Int16
<1> HIDE DEF b, q, r
<1>4. Number(b) = 256 * (IF b[1] < 128 THEN b[1] ELSE b[1] - 256) + b[2]
  BY <1>3, ShortNumber
<1>5. (IF b[1] < 128 THEN b[1] ELSE b[1] - 256) = q
  BY <1>1, <1>2, <1>3
<1>6. Number(b) = n
  BY <1>1, <1>3, <1>4, <1>5
<1> QED
  BY <1>6 DEF b

\* A 32-bit number written by WriteInt is the one ReadInt reads.
LEMMA IntReadsBack == ASSUME NEW n \in Int32 PROVE Number(Bytes(n, 4)) = n
<1> DEFINE b == Bytes(n, 4)
           q1 == n \div 256
           q2 == (n \div 256) \div 256
           q3 == ((n \div 256) \div 256) \div 256
<1>0. n \in Int
  BY DEF Int32
<1>1. /\ n = 256 * q1 + (n % 256) /\ q1 = 256 * q2 + (q1 % 256) /\ q2 = 256 * q3 + (q2 % 256)
      /\ q3 \in Int /\ -128 <= q3 /\ q3 <= 127
  BY DEF Int32
<1>3. q3 % 256 = IF q3 >= 0 THEN q3 ELSE q3 + 256
  BY <1>1
<1>4. b \in Seq(Octet) /\ Len(b) = 4 /\ b[1] = q3 % 256 /\ b[2] = q2 % 256 /\ b[3] = q1 % 256 /\ b[4] = n % 256
  BY <1>0, IntBytes
<1> HIDE DEF b, q1, q2, q3
<1>5. Number(b) = 256 * (256 * (256 * (IF b[1] < 128 THEN b[1] ELSE b[1] - 256) + b[2]) + b[3]) + b[4]
  BY <1>4, IntNumber
<1>6. (IF b[1] < 128 THEN b[1] ELSE b[1] - 256) = q3
  BY <1>1, <1>3, <1>4
<1>7. Number(b) = 256 * (256 * (256 * q3 + b[2]) + b[3]) + b[4]
  BY <1>5, <1>6
<1>8. n = 256 * q1 + b[4] /\ q1 = 256 * q2 + b[3] /\ q2 = 256 * q3 + b[2]
  BY <1>1, <1>4
<1>9. Number(b) = n
  <2>1. 256 * q3 + b[2] = q2
    BY <1>8
  <2>2. 256 * q2 + b[3] = q1
    BY <1>8
  <2> QED
    BY <1>7, <1>8, <2>1, <2>2
<1> QED
  BY <1>9 DEF b

-----------------------------------------------------------------------------
(* Building packets. *)

\* The packet q is p and more behind it.
Grown(q, p) ==
  /\ q \in Packet /\ q.pos = p.pos /\ q.checked = p.checked
  /\ Len(p.buf) <= Len(q.buf) /\ \A i \in 1..Len(p.buf) : q.buf[i] = p.buf[i]
  /\ Len(p.buf) <= PACKET_BUFFER_SIZE => Len(q.buf) <= PACKET_BUFFER_SIZE

\* The buffer of a packet has room for the nine bytes of its header.
LEMMA Sizes == PACKET_BUFFER_SIZE \in Nat /\ PACKET_BUFFER_SIZE >= 9 /\ PACKET_HEADER_SIZE = 9
BY CapacityAssumption DEF PACKET_HEADER_SIZE

\* A packet object is its bytes, its read position and its "already ciphered" mark.
LEMMA PacketParts ==
  ASSUME NEW p \in Packet
  PROVE  /\ p.buf \in Seq(Octet) /\ p.pos \in Nat /\ p.checked \in BOOLEAN /\ Len(p.buf) \in Nat
         /\ p = [buf |-> p.buf, pos |-> p.pos, checked |-> p.checked]
         /\ \A b \in Seq(Octet) : [p EXCEPT !.buf = b] = [buf |-> b, pos |-> p.pos, checked |-> p.checked]
         /\ \A n \in Nat : [p EXCEPT !.pos = n] = [buf |-> p.buf, pos |-> n, checked |-> p.checked]
         /\ \A c \in BOOLEAN : [p EXCEPT !.checked = c] = [buf |-> p.buf, pos |-> p.pos, checked |-> c]
BY DEF Packet

\* A packet grown twice is a grown packet.
LEMMA GrownTrans ==
  ASSUME NEW p \in Packet, NEW q, NEW r, Grown(q, p), Grown(r, q)
  PROVE  Grown(r, p)
<1>1. q \in Packet /\ r \in Packet
  BY DEF Grown
<1>2. Len(p.buf) \in Nat /\ Len(q.buf) \in Nat /\ Len(r.buf) \in Nat
  BY <1>1, PacketParts
<1>3. \A i \in 1..Len(p.buf) : i \in 1..Len(q.buf)
  BY <1>2 DEF Grown
<1> QED
  BY <1>1, <1>2, <1>3 DEF Grown

\* The bytes of two sequences put one behind the other.
LEMMA Concat ==
  ASSUME NEW S, NEW s \in Seq(S), NEW t \in Seq(S)
  PROVE  /\ s \o t \in Seq(S) /\ Len(s \o t) = Len(s) + Len(t)
         /\ \A i \in 1..Len(s) : (s \o t)[i] = s[i]
         /\ \A i \in 1..Len(t) : (s \o t)[Len(s) + i] = t[i]
OBVIOUS

\* An empty packet object given the bytes b.
LEMMA BlankWith ==
  ASSUME NEW b
  PROVE  [Blank EXCEPT !.buf = b] = [buf |-> b, pos |-> 9, checked |-> FALSE]
<1> DEFINE z == [i \in 1..PACKET_HEADER_SIZE |-> 0]
<1>1. Blank = [buf |-> z, pos |-> 9, checked |-> FALSE]
  BY DEF Blank, PACKET_HEADER_SIZE
<1> HIDE DEF z
<1> QED
  BY <1>1

\* NETInputPacket::Copy puts the bytes in and stands behind the header.
LEMMA CopyIs ==
  ASSUME NEW b \in Seq(Octet)
  PROVE  Copy(b) \in Packet /\ Copy(b) = [buf |-> b, pos |-> 9, checked |-> FALSE]
<1>1. Copy(b) = [buf |-> b, pos |-> 9, checked |-> FALSE]
  BY BlankWith DEF Copy
<1> QED
  BY <1>1 DEF Packet

\* NETOutputPacket::Begin writes a header of nine bytes that holds the command.
LEMMA BeginIs ==
  ASSUME NEW cmd \in Int16
  PROVE  LET p == Begin(cmd)
         IN /\ p \in Packet /\ Len(p.buf) = 9 /\ p.pos = 9 /\ p.checked = FALSE
            /\ p.buf[7] = Bytes(cmd, 2)[1] /\ p.buf[8] = Bytes(cmd, 2)[2]
<1> DEFINE b == Bytes(cmd, 2)
           h == <<0, 0, 66, 89, 1, 1>>
           buf == h \o b \o <<0>>
           z == <<0>>
<1>1. b \in Seq(Octet) /\ h \in Seq(Octet) /\ z \in Seq(Octet)
  BY ShortBytes DEF Int16, Octet
<1>2. Len(b) = 2 /\ Len(h) = 6 /\ Len(z) = 1
  BY ShortBytes DEF Int16
<1> HIDE DEF b, h, z
<1>3. h \o b \in Seq(Octet) /\ Len(h \o b) = 8 /\ (h \o b)[7] = b[1] /\ (h \o b)[8] = b[2]
  <2>3. h \o b \in Seq(Octet) /\ Len(h \o b) = Len(h) + Len(b) /\ \A i \in 1..Len(b) : (h \o b)[Len(h) + i] = b[i]
    BY ONLY <1>1, Concat
  <2>1. h \o b \in Seq(Octet) /\ Len(h \o b) = 6 + 2 /\ \A i \in 1..2 : (h \o b)[6 + i] = b[i]
    BY ONLY <1>2, <2>3
  <2>2. 1 \in 1..2 /\ 2 \in 1..2 /\ 6 + 1 = 7 /\ 6 + 2 = 8
    OBVIOUS
  <2> QED
    BY <2>1, <2>2
<1>4. buf \in Seq(Octet) /\ Len(buf) = 9 /\ buf[7] = b[1] /\ buf[8] = b[2]
  <2> DEFINE hb == h \o b
  <2>1. Len(hb) = 8 /\ buf = hb \o z
    BY <1>3 DEF z
  <2>6. hb \in Seq(Octet) /\ z \in Seq(Octet)
    BY <1>1, <1>3
  <2> HIDE DEF hb
  <2>7. hb \o z \in Seq(Octet) /\ Len(hb \o z) = Len(hb) + Len(z) /\ \A i \in 1..Len(hb) : (hb \o z)[i] = hb[i]
    BY ONLY <2>6, Concat
  <2>2. hb \o z \in Seq(Octet) /\ Len(hb \o z) = 8 + 1 /\ \A i \in 1..8 : (hb \o z)[i] = hb[i]
    BY ONLY <1>2, <2>1, <2>7
  <2>3. 7 \in 1..8 /\ 8 \in 1..8 /\ 8 + 1 = 9
    OBVIOUS
  <2>4. (hb \o z)[7] = hb[7] /\ (hb \o z)[8] = hb[8]
    BY <2>2, <2>3
  <2>5. hb[7] = b[1] /\ hb[8] = b[2]
    BY <1>3 DEF hb
  <2> HIDE DEF buf
  <2> QED
    BY <2>1, <2>2, <2>3, <2>4, <2>5
<1>5. Begin(cmd) = [buf |-> buf, pos |-> 9, checked |-> FALSE]
  BY BlankWith DEF Begin, h, b
<1> HIDE DEF buf
<1>6. Begin(cmd) \in Packet
  BY <1>4, <1>5 DEF Packet
<1> QED
  BY <1>4, <1>5, <1>6 DEF b

\* A write keeps every byte there is and, when there is room, adds its own behind them.
LEMMA WriteIs ==
  ASSUME NEW p \in Packet, NEW s \in Seq(Octet)
  PROVE  /\ Grown(Write(p, s), p)
         /\ Len(p.buf) + Len(s) <= PACKET_BUFFER_SIZE =>
              /\ Len(Write(p, s).buf) = Len(p.buf) + Len(s)
              /\ \A i \in 1..Len(s) : Write(p, s).buf[Len(p.buf) + i] = s[i]
<1>1. p.buf \in Seq(Octet) /\ Len(p.buf) \in Nat /\ Len(s) \in Nat
  BY PacketParts
<1>2. CASE Fits(p, Len(s))
  <2> DEFINE b == p.buf \o s
  <2>1. /\ b \in Seq(Octet) /\ Len(b) = Len(p.buf) + Len(s)
        /\ \A i \in 1..Len(p.buf) : b[i] = p.buf[i]
        /\ \A i \in 1..Len(s) : b[Len(p.buf) + i] = s[i]
    BY <1>1
  <2>2. Write(p, s) = [p EXCEPT !.buf = b]
    BY <1>2 DEF Write
  <2> HIDE DEF b
  <2>3. Write(p, s) = [buf |-> b, pos |-> p.pos, checked |-> p.checked]
    BY <2>1, <2>2, PacketParts
  <2>4. Write(p, s) \in Packet
    BY <2>1, <2>3, PacketParts DEF Packet
  <2>5. Len(b) <= PACKET_BUFFER_SIZE
    BY <1>2, <2>1 DEF Fits
  <2>6. Write(p, s).buf = b /\ Write(p, s).pos = p.pos /\ Write(p, s).checked = p.checked
    BY <2>3
  <2> QED
    BY <1>1, <2>1, <2>4, <2>5, <2>6 DEF Grown
<1>3. CASE ~ Fits(p, Len(s))
  <2>1. Write(p, s) = p
    BY <1>3 DEF Write
  <2> QED
    BY <1>1, <1>3, <2>1 DEF Fits, Grown
<1> QED
  BY <1>2, <1>3

\* A packet is its own growth by nothing.
LEMMA GrownRefl == ASSUME NEW p \in Packet PROVE Grown(p, p)
BY PacketParts DEF Grown

\* WriteInt adds four bytes when there is room, and nothing else changes.
LEMMA WriteIntIs ==
  ASSUME NEW p \in Packet, NEW n \in Int
  PROVE  /\ Grown(WriteInt(p, n), p)
         /\ Len(p.buf) + 4 <= PACKET_BUFFER_SIZE =>
              /\ Len(WriteInt(p, n).buf) = Len(p.buf) + 4
              /\ \A i \in 1..4 : WriteInt(p, n).buf[Len(p.buf) + i] = Bytes(n, 4)[i]
<1> DEFINE b == Bytes(n, 4)
<1>1. b \in Seq(Octet) /\ Len(b) = 4
  BY IntBytes
<1>2. WriteInt(p, n) = Write(p, b)
  BY DEF WriteInt
<1> HIDE DEF b
<1>3. /\ Grown(Write(p, b), p)
      /\ Len(p.buf) + Len(b) <= PACKET_BUFFER_SIZE =>
           /\ Len(Write(p, b).buf) = Len(p.buf) + Len(b)
           /\ \A i \in 1..Len(b) : Write(p, b).buf[Len(p.buf) + i] = b[i]
  BY <1>1, WriteIs
<1>4. /\ Grown(Write(p, b), p)
      /\ Len(p.buf) + 4 <= PACKET_BUFFER_SIZE =>
           /\ Len(Write(p, b).buf) = Len(p.buf) + 4
           /\ \A i \in 1..4 : Write(p, b).buf[Len(p.buf) + i] = b[i]
  BY <1>1, <1>3
<1> QED
  BY <1>2, <1>4 DEF b

\* WriteShort adds two bytes when there is room, and nothing else changes.
LEMMA WriteShortIs ==
  ASSUME NEW p \in Packet, NEW n \in Int
  PROVE  /\ Grown(WriteShort(p, n), p)
         /\ Len(p.buf) + 2 <= PACKET_BUFFER_SIZE =>
              /\ Len(WriteShort(p, n).buf) = Len(p.buf) + 2
              /\ \A i \in 1..2 : WriteShort(p, n).buf[Len(p.buf) + i] = Bytes(n, 2)[i]
<1> DEFINE b == Bytes(n, 2)
<1>1. b \in Seq(Octet) /\ Len(b) = 2
  BY ShortBytes
<1>2. WriteShort(p, n) = Write(p, b)
  BY DEF WriteShort
<1> HIDE DEF b
<1>3. /\ Grown(Write(p, b), p)
      /\ Len(p.buf) + Len(b) <= PACKET_BUFFER_SIZE =>
           /\ Len(Write(p, b).buf) = Len(p.buf) + Len(b)
           /\ \A i \in 1..Len(b) : Write(p, b).buf[Len(p.buf) + i] = b[i]
  BY <1>1, WriteIs
<1>4. /\ Grown(Write(p, b), p)
      /\ Len(p.buf) + 2 <= PACKET_BUFFER_SIZE =>
           /\ Len(Write(p, b).buf) = Len(p.buf) + 2
           /\ \A i \in 1..2 : Write(p, b).buf[Len(p.buf) + i] = b[i]
  BY <1>1, <1>3
<1> QED
  BY <1>2, <1>4 DEF b

\* WriteBinary adds a length and that many bytes when there is room.
LEMMA WriteBinaryIs ==
  ASSUME NEW p \in Packet, NEW s \in Seq(Octet)
  PROVE  /\ Grown(WriteBinary(p, s), p)
         /\ Len(p.buf) + 4 + Len(s) <= PACKET_BUFFER_SIZE =>
              /\ Len(WriteBinary(p, s).buf) = Len(p.buf) + 4 + Len(s)
              /\ \A i \in 1..4 : WriteBinary(p, s).buf[Len(p.buf) + i] = Bytes(Len(s), 4)[i]
              /\ \A i \in 1..Len(s) : WriteBinary(p, s).buf[Len(p.buf) + 4 + i] = s[i]
<1> DEFINE q == WriteInt(p, Len(s))
           r == Write(q, s)
<1>1. Len(s) \in Nat /\ Len(p.buf) \in Nat /\ WriteBinary(p, s) = r
  BY PacketParts DEF WriteBinary
<1>2. Grown(q, p)
  BY <1>1, WriteIntIs
<1>3. q \in Packet
  BY <1>2 DEF Grown
<1>4. Grown(r, q)
  BY <1>3, WriteIs
<1>5. Grown(r, p)
  BY <1>2, <1>4, GrownTrans
<1>6. ASSUME Len(p.buf) + 4 + Len(s) <= PACKET_BUFFER_SIZE
      PROVE  /\ Len(r.buf) = Len(p.buf) + 4 + Len(s)
             /\ \A i \in 1..4 : r.buf[Len(p.buf) + i] = Bytes(Len(s), 4)[i]
             /\ \A i \in 1..Len(s) : r.buf[Len(p.buf) + 4 + i] = s[i]
  <2>1. Len(p.buf) + 4 <= PACKET_BUFFER_SIZE
    BY <1>1, <1>6, Sizes
  <2>2. Len(q.buf) = Len(p.buf) + 4 /\ \A i \in 1..4 : q.buf[Len(p.buf) + i] = Bytes(Len(s), 4)[i]
    BY <1>1, <2>1, WriteIntIs
  <2>3. Len(q.buf) + Len(s) <= PACKET_BUFFER_SIZE
    BY <1>6, <2>2
  <2>4. Len(r.buf) = Len(q.buf) + Len(s) /\ \A i \in 1..Len(s) : r.buf[Len(q.buf) + i] = s[i]
    BY <1>3, <2>3, WriteIs
  <2> HIDE DEF q, r
  <2>5. \A i \in 1..Len(q.buf) : r.buf[i] = q.buf[i]
    BY <1>4 DEF Grown
  <2>6. \A i \in 1..4 : Len(p.buf) + i \in 1..Len(q.buf)
    BY <1>1, <2>2
  <2>7. \A i \in 1..4 : r.buf[Len(p.buf) + i] = Bytes(Len(s), 4)[i]
    BY <2>2, <2>5, <2>6
  <2> QED
    BY <2>2, <2>4, <2>7
<1> QED
  BY <1>1, <1>5, <1>6

\* A string has its length and a zero.
LEMMA WriteStringIs ==
  ASSUME NEW p \in Packet, NEW s \in Seq(Octet)
  PROVE  /\ Grown(WriteString(p, s), p)
         /\ Len(p.buf) + 5 + Len(s) <= PACKET_BUFFER_SIZE =>
              /\ Len(WriteString(p, s).buf) = Len(p.buf) + 5 + Len(s)
              /\ \A i \in 1..4 : WriteString(p, s).buf[Len(p.buf) + i] = Bytes(Len(s) + 1, 4)[i]
              /\ \A i \in 1..Len(s) : WriteString(p, s).buf[Len(p.buf) + 4 + i] = s[i]
              /\ WriteString(p, s).buf[Len(p.buf) + 5 + Len(s)] = 0
<1> DEFINE n == WriteInt(p, Len(s) + 1)
           q == Write(n, s)
           r == Write(q, <<0>>)
<1>1. Len(s) \in Nat /\ Len(s) + 1 \in Int /\ Len(p.buf) \in Nat
  BY PacketParts
<1>2. Grown(n, p)
  BY <1>1, WriteIntIs
<1>3. n \in Packet
  BY <1>2 DEF Grown
<1>4. Grown(q, n)
  BY <1>3, WriteIs
<1>5. q \in Packet
  BY <1>4 DEF Grown
<1>6. <<0>> \in Seq(Octet) /\ Len(<<0>>) = 1 /\ <<0>>[1] = 0
  BY DEF Octet
<1>7. Grown(r, q)
  BY <1>5, <1>6, WriteIs
<1>8. Grown(q, p)
  BY <1>2, <1>4, GrownTrans
<1>9. Grown(r, p)
  BY <1>7, <1>8, GrownTrans
<1>10. WriteString(p, s) = IF Fits(n, Len(s)) THEN r ELSE q
  BY DEF WriteString
<1>11. Grown(WriteString(p, s), p)
  BY <1>8, <1>9, <1>10
<1>12. ASSUME Len(p.buf) + 5 + Len(s) <= PACKET_BUFFER_SIZE
       PROVE  /\ WriteString(p, s) = r
              /\ Len(r.buf) = Len(p.buf) + 5 + Len(s)
              /\ \A i \in 1..4 : r.buf[Len(p.buf) + i] = Bytes(Len(s) + 1, 4)[i]
              /\ \A i \in 1..Len(s) : r.buf[Len(p.buf) + 4 + i] = s[i]
              /\ r.buf[Len(p.buf) + 5 + Len(s)] = 0
  <2>1. Len(p.buf) + 4 <= PACKET_BUFFER_SIZE
    BY <1>1, <1>12, Sizes
  <2>2. Len(n.buf) = Len(p.buf) + 4 /\ \A i \in 1..4 : n.buf[Len(p.buf) + i] = Bytes(Len(s) + 1, 4)[i]
    BY <1>1, <2>1, WriteIntIs
  <2>3. Len(n.buf) + Len(s) <= PACKET_BUFFER_SIZE
    BY <1>1, <1>12, <2>2, Sizes, SMTT(30)
  <2>4. Len(q.buf) = Len(n.buf) + Len(s) /\ \A i \in 1..Len(s) : q.buf[Len(n.buf) + i] = s[i]
    BY <1>3, <2>3, WriteIs
  <2>5. Fits(n, Len(s))
    BY <2>3 DEF Fits
  <2>6. Len(q.buf) + 1 <= PACKET_BUFFER_SIZE
    <3>1. Len(q.buf) = Len(p.buf) + 4 + Len(s)
      BY <2>2, <2>4
    <3> HIDE DEF q
    <3> QED
      BY <1>1, <1>12, <3>1, Sizes
  <2>7. Len(r.buf) = Len(q.buf) + 1 /\ r.buf[Len(q.buf) + 1] = 0
    <3>1. Len(q.buf) + Len(<<0>>) <= PACKET_BUFFER_SIZE
      BY <1>6, <2>6
    <3>2. Len(r.buf) = Len(q.buf) + Len(<<0>>) /\ \A i \in 1..Len(<<0>>) : r.buf[Len(q.buf) + i] = <<0>>[i]
      BY <1>5, <1>6, <3>1, WriteIs
    <3>3. 1 \in 1..Len(<<0>>)
      BY <1>6
    <3> QED
      BY <1>6, <3>2, <3>3
  <2>0. WriteString(p, s) = r
    BY <1>10, <2>5
  <2> HIDE DEF n, q, r
  <2>8. \A i \in 1..Len(n.buf) : q.buf[i] = n.buf[i]
    BY <1>4 DEF Grown
  <2>9. \A i \in 1..Len(q.buf) : r.buf[i] = q.buf[i]
    BY <1>7 DEF Grown
  <2>10. \A i \in 1..4 : Len(p.buf) + i \in 1..Len(n.buf) /\ Len(p.buf) + i \in 1..Len(q.buf)
    BY <1>1, <2>2, <2>4, SMTT(30)
  <2>11. \A i \in 1..4 : r.buf[Len(p.buf) + i] = Bytes(Len(s) + 1, 4)[i]
    BY <2>2, <2>8, <2>9, <2>10
  <2>12. \A i \in 1..Len(s) : Len(p.buf) + 4 + i \in 1..Len(q.buf)
    BY <1>1, <2>2, <2>4
  <2>13. \A i \in 1..Len(s) : r.buf[Len(p.buf) + 4 + i] = s[i]
    BY <2>2, <2>4, <2>9, <2>12
  <2>14. Len(r.buf) = Len(p.buf) + 5 + Len(s) /\ Len(q.buf) + 1 = Len(p.buf) + 5 + Len(s)
    BY <1>1, <2>2, <2>4, <2>7
  <2> QED
    BY <2>0, <2>7, <2>11, <2>13, <2>14
<1> QED
  BY <1>11, <1>12

-----------------------------------------------------------------------------
(* Induction. *)

\* A set of numbers with 0 and with the successor of each of its numbers is all of them.
LEMMA AllNumbers ==
  ASSUME NEW G, 0 \in G, \A n \in Nat : n \in G => n + 1 \in G
  PROVE  \A n \in Nat : n \in G
<1> SUFFICES ASSUME Nat \ G # {} PROVE FALSE
  OBVIOUS
<1>1. PICK n \in Nat \ G : \A m \in Nat \ G : ~ (<<m, n>> \in OpToRel(<, Nat))
  BY NatLessThanWellFounded, WFMin
<1>2. n \in Nat /\ n \notin G /\ \A m \in Nat \ G : ~ (m < n)
  <2> SUFFICES ASSUME NEW m \in Nat \ G PROVE ~ (m < n)
    OBVIOUS
  <2>1. m \in Nat /\ n \in Nat
    OBVIOUS
  <2> QED
    BY <1>1, <2>1 DEF OpToRel
<1>3. n # 0
  BY <1>2
<1>4. n - 1 \in Nat /\ (n - 1) + 1 = n /\ n - 1 < n
  BY <1>2, <1>3
<1>5. n - 1 \in G
  BY <1>2, <1>4
<1> QED
  BY <1>2, <1>4, <1>5

\* The same up to a bound.
LEMMA Rounds ==
  ASSUME NEW N \in Nat, NEW T, 0 \in T, \A i \in 1..N : i - 1 \in T => i \in T
  PROVE  \A i \in 0..N : i \in T
<1> DEFINE G == {n \in Nat : n <= N => n \in T}
<1>1. 0 \in G
  OBVIOUS
<1>2. ASSUME NEW n \in Nat, n \in G PROVE n + 1 \in G
  <2> SUFFICES ASSUME n + 1 <= N PROVE n + 1 \in T
    OBVIOUS
  <2>1. n \in T /\ n + 1 \in 1..N /\ (n + 1) - 1 = n
    BY <1>2
  <2> QED
    BY <2>1
<1> HIDE DEF G
<1>3. \A n \in Nat : n \in G
  BY <1>1, <1>2, AllNumbers
<1>4. \A i \in 0..N : i \in Nat /\ i <= N
  OBVIOUS
<1> QED
  BY <1>3, <1>4 DEF G

-----------------------------------------------------------------------------
(* The header. *)

\* WriteHeader changes only the bytes it names, inside the packet.
LEMMA WriteHeaderIs ==
  ASSUME NEW p \in Packet, NEW s \in Seq(Octet), NEW at \in Nat
  PROVE  LET q == WriteHeader(p, s, at)
         IN /\ q \in Packet /\ Len(q.buf) = Len(p.buf) /\ q.pos = p.pos /\ q.checked = p.checked
            /\ \A i \in 1..Len(p.buf) : q.buf[i] = IF i - at \in 1..Len(s) THEN s[i - at] ELSE p.buf[i]
<1> DEFINE b == [i \in 1..Len(p.buf) |-> IF i - at \in 1..Len(s) THEN s[i - at] ELSE p.buf[i]]
           n == Len(p.buf)
<1>1. n \in Nat /\ p.buf \in Seq(Octet) /\ DOMAIN p.buf = 1..n /\ DOMAIN s = 1..Len(s)
  BY PacketParts
<1>2. WriteHeader(p, s, at) = [p EXCEPT !.buf = b]
  BY <1>1 DEF WriteHeader
<1>3. \A i \in 1..n : b[i] \in Octet /\ b[i] = IF i - at \in 1..Len(s) THEN s[i - at] ELSE p.buf[i]
  BY <1>1
<1>4. b = [i \in 1..n |-> b[i]]
  OBVIOUS
<1> HIDE DEF b, n
<1>5. b \in Seq(Octet) /\ Len(b) = n
  BY <1>1, <1>3, <1>4
<1>6. WriteHeader(p, s, at) = [buf |-> b, pos |-> p.pos, checked |-> p.checked]
  BY <1>2, <1>5, PacketParts
<1>7. WriteHeader(p, s, at) \in Packet
  BY <1>5, <1>6, PacketParts DEF Packet
<1> QED
  BY <1>3, <1>5, <1>6, <1>7 DEF n

\* Two numbers of the same bytes.
LEMMA TwoSame ==
  ASSUME NEW b \in Seq(Octet), NEW c \in Seq(Octet), NEW i \in Nat, NEW j \in Nat,
         i + 2 <= Len(b), j + 2 <= Len(c), b[i + 1] = c[j + 1], b[i + 2] = c[j + 2]
  PROVE  Slice(b, i, 2) = Slice(c, j, 2)
<1> DEFINE n == 2
<1>1. n \in Nat /\ i + n <= Len(b) /\ j + n <= Len(c)
  OBVIOUS
<1>2. Alike(b, i, c, j, n)
  <2>1. \A k \in 1..2 : k = 1 \/ k = 2
    OBVIOUS
  <2> QED
    BY <2>1 DEF Alike
<1> HIDE DEF n
<1>4. b \in Seq(Octet) /\ c \in Seq(Octet) /\ i \in Nat /\ j \in Nat
  OBVIOUS
<1>3. Slice(b, i, n) = Slice(c, j, n)
  BY ONLY <1>1, <1>2, <1>4, SliceSame
<1> QED
  BY <1>3 DEF n

\* A slice of two bytes that lie inside the sequence.
LEMMA TwoIs ==
  ASSUME NEW b \in Seq(Octet), NEW i \in Nat, i + 2 <= Len(b)
  PROVE  Slice(b, i, 2) \in Seq(Octet) /\ Len(Slice(b, i, 2)) = 2
<1> DEFINE n == 2
<1>1. n \in Nat /\ i + n <= Len(b) /\ b \in Seq(Octet) /\ i \in Nat
  OBVIOUS
<1> HIDE DEF n
<1>2. Slice(b, i, n) \in Seq(Octet) /\ Len(Slice(b, i, n)) = n
  BY ONLY <1>1, SliceIs
<1> QED
  BY <1>2 DEF n

\* A slice of four bytes that lie inside the sequence.
LEMMA FourIs ==
  ASSUME NEW b \in Seq(Octet), NEW i \in Nat, i + 4 <= Len(b)
  PROVE  Slice(b, i, 4) \in Seq(Octet) /\ Len(Slice(b, i, 4)) = 4
<1> DEFINE n == 4
<1>1. n \in Nat /\ i + n <= Len(b) /\ b \in Seq(Octet) /\ i \in Nat
  OBVIOUS
<1> HIDE DEF n
<1>2. Slice(b, i, n) \in Seq(Octet) /\ Len(Slice(b, i, n)) = n
  BY ONLY <1>1, SliceIs
<1> QED
  BY <1>2 DEF n

\* Sequences alike over four bytes have the same slice there.
LEMMA FourSame ==
  ASSUME NEW b \in Seq(Octet), NEW c \in Seq(Octet), NEW i \in Nat, NEW j \in Nat,
         i + 4 <= Len(b), j + 4 <= Len(c), Alike(b, i, c, j, 4)
  PROVE  Slice(b, i, 4) = Slice(c, j, 4)
<1> DEFINE n == 4
<1>1. n \in Nat /\ i + n <= Len(b) /\ j + n <= Len(c) /\ Alike(b, i, c, j, n)
  OBVIOUS
<1> HIDE DEF n
<1>4. b \in Seq(Octet) /\ c \in Seq(Octet) /\ i \in Nat /\ j \in Nat
  OBVIOUS
<1>2. Slice(b, i, n) = Slice(c, j, n)
  BY ONLY <1>1, <1>4, SliceSame
<1> QED
  BY <1>2 DEF n

\* _end writes the length and clears the check code.
LEMMA EndIs ==
  ASSUME NEW p \in Packet, Len(p.buf) >= 9
  PROVE  LET q == End(p)
         IN /\ q \in Packet /\ Len(q.buf) = Len(p.buf) /\ q.pos = p.pos /\ q.checked = FALSE
            /\ \A i \in 1..Len(p.buf) : i # 1 /\ i # 2 /\ i # 9 => q.buf[i] = p.buf[i]
            /\ q.buf[1] = Bytes(Len(p.buf) - 2, 2)[1] /\ q.buf[2] = Bytes(Len(p.buf) - 2, 2)[2]
<1> DEFINE b == Bytes(Len(p.buf) - 2, 2)
           z == <<0>>
           u == WriteHeader(p, b, 0)
           v == WriteHeader(u, z, 8)
<1>1. Len(p.buf) \in Nat /\ Len(p.buf) - 2 \in Int
  BY PacketParts
<1>2. b \in Seq(Octet) /\ Len(b) = 2 /\ z \in Seq(Octet) /\ Len(z) = 1
  <2>1. z \in Seq(Octet) /\ Len(z) = 1
    BY DEF Octet
  <2>2. b \in Seq(Octet) /\ Len(b) = 2
    <3> HIDE DEF z
    <3> QED
      BY <1>1, ShortBytes
  <2> QED
    BY <2>1, <2>2
<1>3. End(p) = [v EXCEPT !.checked = FALSE]
  BY DEF End
<1> HIDE DEF b, z
<1>4. /\ u \in Packet /\ Len(u.buf) = Len(p.buf) /\ u.pos = p.pos
      /\ \A i \in 1..Len(p.buf) : u.buf[i] = IF i - 0 \in 1..Len(b) THEN b[i - 0] ELSE p.buf[i]
  BY <1>2, WriteHeaderIs, SMTT(30)
<1> HIDE DEF u
<1>5. /\ v \in Packet /\ Len(v.buf) = Len(p.buf) /\ v.pos = p.pos
      /\ \A i \in 1..Len(p.buf) : v.buf[i] = IF i - 8 \in 1..Len(z) THEN z[i - 8] ELSE u.buf[i]
  BY <1>2, <1>4, WriteHeaderIs, SMTT(30)
<1> HIDE DEF v
<1>6. End(p) = [buf |-> v.buf, pos |-> v.pos, checked |-> FALSE] /\ End(p) \in Packet
  BY <1>3, <1>5, PacketParts DEF Packet
<1>7. End(p).buf = v.buf /\ End(p).pos = v.pos /\ End(p).checked = FALSE
  BY <1>6
<1>8. /\ \A i \in 1..Len(p.buf) : i - 8 \in 1..1 <=> i = 9
      /\ \A i \in 1..Len(p.buf) : i - 0 = i /\ (i \in 1..2 <=> i = 1 \/ i = 2)
      /\ 1 \in 1..Len(p.buf) /\ 2 \in 1..Len(p.buf)
  BY <1>1
<1>9. \A i \in 1..Len(p.buf) : i # 9 => v.buf[i] = u.buf[i]
  BY <1>2, <1>5, <1>8
<1>10. \A i \in 1..Len(p.buf) : i # 9 => v.buf[i] = IF i = 1 \/ i = 2 THEN b[i] ELSE p.buf[i]
  BY <1>2, <1>4, <1>8, <1>9, SMTT(30)
<1>11. v.buf[1] = b[1] /\ v.buf[2] = b[2]
  BY <1>8, <1>10
<1> QED
  BY <1>5, <1>6, <1>7, <1>10, <1>11 DEF b

\* What the header says depends on its bytes alone.
LEMMA SameHeader ==
  ASSUME NEW p \in Packet, NEW q \in Packet, Len(p.buf) >= 9, Len(q.buf) >= 9
  PROVE  /\ GetCmdType(p) \in Int16 /\ GetBodyLength(p) \in Int16
         /\ p.buf[7] = q.buf[7] /\ p.buf[8] = q.buf[8] => GetCmdType(p) = GetCmdType(q)
         /\ p.buf[1] = q.buf[1] /\ p.buf[2] = q.buf[2] => GetBodyLength(p) = GetBodyLength(q)
<1>1. /\ p.buf \in Seq(Octet) /\ q.buf \in Seq(Octet) /\ Len(p.buf) \in Nat /\ Len(q.buf) \in Nat
  BY PacketParts
<1> DEFINE o == 0
           six == 6
<1>3. /\ o \in Nat /\ o + 2 <= Len(p.buf) /\ o + 2 <= Len(q.buf) /\ o + 1 = 1 /\ o + 2 = 2
      /\ six \in Nat /\ six + 2 <= Len(p.buf) /\ six + 2 <= Len(q.buf) /\ six + 1 = 7 /\ six + 2 = 8
  BY <1>1
<1>4. /\ GetCmdType(p) = Number(Slice(p.buf, six, 2)) /\ GetCmdType(q) = Number(Slice(q.buf, six, 2))
      /\ GetBodyLength(p) = Number(Slice(p.buf, o, 2)) /\ GetBodyLength(q) = Number(Slice(q.buf, o, 2))
  BY DEF GetCmdType, GetBodyLength
<1> HIDE DEF o, six
<1>5. ASSUME p.buf[7] = q.buf[7], p.buf[8] = q.buf[8] PROVE GetCmdType(p) = GetCmdType(q)
  <2>1. Slice(p.buf, six, 2) = Slice(q.buf, six, 2)
    BY <1>1, <1>3, <1>5, TwoSame
  <2> QED
    BY <1>4, <2>1
<1>6. ASSUME p.buf[1] = q.buf[1], p.buf[2] = q.buf[2] PROVE GetBodyLength(p) = GetBodyLength(q)
  <2>1. Slice(p.buf, o, 2) = Slice(q.buf, o, 2)
    BY <1>1, <1>3, <1>6, TwoSame
  <2> QED
    BY <1>4, <2>1
<1>7. GetCmdType(p) \in Int16 /\ GetBodyLength(p) \in Int16
  <2>1. Slice(p.buf, six, 2) \in Seq(Octet) /\ Len(Slice(p.buf, six, 2)) = 2
    BY ONLY <1>1, <1>3, TwoIs
  <2>2. Slice(p.buf, o, 2) \in Seq(Octet) /\ Len(Slice(p.buf, o, 2)) = 2
    BY ONLY <1>1, <1>3, TwoIs
  <2> QED
    BY <1>4, <2>1, <2>2, ShortNumber
<1> QED
  BY <1>5, <1>6, <1>7

\* Two bytes of a packet as a number of the width.
LEMMA ShortAt ==
  ASSUME NEW p \in Packet, NEW i \in Nat, i + 2 <= Len(p.buf), NEW n \in Int16,
         p.buf[i + 1] = Bytes(n, 2)[1], p.buf[i + 2] = Bytes(n, 2)[2]
  PROVE  Number(Slice(p.buf, i, 2)) = n
<1> DEFINE b == Bytes(n, 2)
<1>1. b \in Seq(Octet) /\ Len(b) = 2
  BY ShortBytes DEF Int16
<1>2. Number(b) = n
  BY ShortReadsBack
<1>3. p.buf[i + 1] = b[1] /\ p.buf[i + 2] = b[2]
  OBVIOUS
<1> HIDE DEF b
<1> DEFINE o == 0
<1>4. o \in Nat /\ o + 1 = 1 /\ o + 2 = 2 /\ o + 2 <= Len(b) /\ p.buf \in Seq(Octet)
  BY <1>1, PacketParts
<1> HIDE DEF o
<1>5. Slice(p.buf, i, 2) = Slice(b, o, 2)
  BY <1>1, <1>3, <1>4, TwoSame
<1>6. Slice(b, o, 2) = b
  <2>1. SubSeq(b, 1, 2) = b
    BY <1>1
  <2> QED
    BY <1>4, <2>1 DEF Slice
<1> QED
  BY <1>2, <1>5, <1>6

\* The number whose four bytes stand behind position i is the one read there.
LEMMA IntAt ==
  ASSUME NEW p \in Packet, NEW i \in Nat, i + 4 <= Len(p.buf), NEW n \in Int32,
         \A k \in 1..4 : p.buf[i + k] = Bytes(n, 4)[k]
  PROVE  Number(Slice(p.buf, i, 4)) = n
<1> DEFINE b == Bytes(n, 4)
<1>1. b \in Seq(Octet) /\ Len(b) = 4
  BY IntBytes DEF Int32
<1>2. Number(b) = n
  BY IntReadsBack
<1>3. \A k \in 1..4 : p.buf[i + k] = b[k]
  OBVIOUS
<1> HIDE DEF b
<1> DEFINE o == 0
<1>4. /\ o \in Nat /\ o + 1 = 1 /\ o + 4 = 4 /\ o + 4 <= Len(b) /\ p.buf \in Seq(Octet)
      /\ Alike(p.buf, i, b, o, 4)
  BY <1>1, <1>3, PacketParts DEF Alike
<1> HIDE DEF o
<1>7. p.buf \in Seq(Octet) /\ i \in Nat /\ i + 4 <= Len(p.buf)
  BY PacketParts
<1>5. Slice(p.buf, i, 4) = Slice(b, o, 4)
  BY ONLY <1>1, <1>4, <1>7, FourSame, ZenonT(30)
<1>6. Slice(b, o, 4) = b
  <2>1. SubSeq(b, 1, 4) = b
    BY <1>1
  <2> QED
    BY <1>4, <2>1 DEF Slice
<1> QED
  BY <1>2, <1>5, <1>6

-----------------------------------------------------------------------------
(* The cipher. *)

\* The tables of EncryptDecrypt.cpp are inverse to each other.
LEMMA TablesInverse == \A b \in Octet : MapSendByte(b) \in Octet /\ MapRecvByte(MapSendByte(b)) = b
BY SMTT(60) DEF MapRecvByte, MapSendByte, m_SendByteMap, m_RecvByteMap, Octet

\* The two substitution tables undo each other, the receiving one applied first.
LEMMA TablesInverseBack == \A b \in Octet : MapRecvByte(b) \in Octet /\ MapSendByte(MapRecvByte(b)) = b
BY SMTT(60) DEF MapRecvByte, MapSendByte, m_SendByteMap, m_RecvByteMap, Octet

\* The sum of bytes is a byte.
LEMMA ByteSumIs ==
  ASSUME NEW s \in Seq(Octet)
  PROVE  ByteSum(s) \in Octet
<1> DEFINE N == Len(s)
           P(g) == [i \in 0..N |-> IF i = 0 THEN 0 ELSE (g[i-1] + s[i]) % 256]
           Sum == CHOOSE g : g = P(g)
           G == {n \in Nat : n <= N => \E f : DOMAIN f = 0..n /\ f[0] = 0 /\ \A i \in 1..n : f[i] = (f[i-1] + s[i]) % 256}
<1>0. N \in Nat /\ \A i \in 1..N : s[i] \in Octet
  OBVIOUS
<1>1. 0 \in G
  <2> DEFINE f == [i \in 0..0 |-> 0]
  <2>1. DOMAIN f = 0..0 /\ f[0] = 0 /\ \A i \in 1..0 : f[i] = (f[i-1] + s[i]) % 256
    OBVIOUS
  <2> QED
    BY <2>1
<1>2. ASSUME NEW n \in Nat, n \in G PROVE n + 1 \in G
  <2> SUFFICES ASSUME n + 1 <= N
               PROVE  \E f : DOMAIN f = 0..n+1 /\ f[0] = 0 /\ \A i \in 1..n+1 : f[i] = (f[i-1] + s[i]) % 256
    OBVIOUS
  <2>1. PICK f : DOMAIN f = 0..n /\ f[0] = 0 /\ \A i \in 1..n : f[i] = (f[i-1] + s[i]) % 256
    BY <1>0, <1>2
  <2> DEFINE g == [i \in 0..n+1 |-> IF i = n + 1 THEN (f[n] + s[n + 1]) % 256 ELSE f[i]]
  <2>2. DOMAIN g = 0..n+1 /\ g[0] = 0
    BY <2>1
  <2>3. ASSUME NEW i \in 1..n+1 PROVE g[i] = (g[i-1] + s[i]) % 256
    BY <2>1
  <2> QED
    BY <2>2, <2>3, ZenonT(30)
<1> HIDE DEF G
<1>3. N \in G
  BY <1>0, <1>1, <1>2, AllNumbers
<1>4. PICK f : DOMAIN f = 0..N /\ f[0] = 0 /\ \A i \in 1..N : f[i] = (f[i-1] + s[i]) % 256
  BY <1>0, <1>3 DEF G
<1>5. \E g : g = P(g)
  <2> DEFINE h == [i \in 0..N |-> f[i]]
  <2>1. \A i \in 0..N : i = 0 \/ (i \in 1..N /\ i - 1 \in 0..N)
    BY <1>0
  <2>2. h = P(h)
    BY <1>4, <2>1
  <2> QED
    BY <2>2
<1>6. Sum = P(Sum)
  BY <1>5
<1>7. ByteSum(s) = Sum[N]
  BY DEF ByteSum
<1> HIDE DEF Sum
<1> DEFINE T == {i \in 0..N : Sum[i] \in Octet}
<1>8. \A i \in 0..N : i \in T
  <2>1. 0 \in T
    BY <1>0, <1>6 DEF Octet
  <2>2. \A i \in 1..N : i - 1 \in T => i \in T
    <3> SUFFICES ASSUME NEW i \in 1..N, i - 1 \in T PROVE i \in T
      OBVIOUS
    <3>1. Sum[i - 1] \in Octet /\ s[i] \in Octet /\ i \in 0..N /\ i # 0
      BY <1>0
    <3>2. Sum[i] = (Sum[i-1] + s[i]) % 256
      BY <1>6, <3>1
    <3>3. \A a, b \in Octet : (a + b) % 256 \in Octet
      BY DEF Octet
    <3>4. Sum[i] \in Octet
      BY <3>1, <3>2, <3>3
    <3> QED
      BY <3>1, <3>4
  <2> HIDE DEF T
  <2> QED
    BY <1>0, <2>1, <2>2, Rounds
<1> QED
  BY <1>0, <1>7, <1>8

\* A packet whose header tells its length.
Whole(p) == Len(p.buf) >= 9 /\ Len(p.buf) <= 32768 /\ GetBodyLength(p) = Len(p.buf) - 2

\* The ciphered bytes of a packet are those behind its header.
LEMMA BodyIs ==
  ASSUME NEW p \in Packet, Len(p.buf) >= 9
  PROVE  /\ \A i \in InBody(p) : i \in Int /\ i > 9
         /\ Whole(p) => DataSize(p) = Len(p.buf) - 9 /\ InBody(p) = 10..Len(p.buf)
<1>1. Len(p.buf) \in Nat /\ GetBodyLength(p) \in Int
  BY PacketParts, SameHeader DEF Int16
<1>2. DataSize(p) \in Nat
  BY <1>1 DEF DataSize
<1>3. \A i \in InBody(p) : i \in Int /\ i > 9
  BY <1>2 DEF InBody, PACKET_HEADER_SIZE
<1>4. ASSUME Whole(p) PROVE DataSize(p) = Len(p.buf) - 9
  <2> DEFINE n == Len(p.buf)
             g == GetBodyLength(p)
  <2>1. n \in Nat /\ g \in Int /\ n >= 9 /\ n <= 32768 /\ g = n - 2
    BY <1>1, <1>4 DEF Whole
  <2>2. DataSize(p) = (g - 7) % 65536
    BY DEF DataSize
  <2> HIDE DEF n, g
  <2>3. (g - 7) % 65536 = n - 9
    BY ONLY <2>1
  <2> QED
    BY <2>2, <2>3 DEF n
<1>5. ASSUME Whole(p) PROVE InBody(p) = 10..Len(p.buf)
  <2>1. PACKET_HEADER_SIZE + 1 = 10 /\ PACKET_HEADER_SIZE + DataSize(p) = Len(p.buf)
    BY <1>1, <1>4, <1>5 DEF PACKET_HEADER_SIZE
  <2> QED
    BY <2>1 DEF InBody
<1> QED
  BY <1>3, <1>4, <1>5

\* DecryptBuffer replaces each byte of the body by the table's and keeps the header.
LEMMA DecryptIs ==
  ASSUME NEW p \in Packet, Len(p.buf) >= 9
  PROVE  LET d == Decrypt(p)
         IN /\ d \in Packet /\ Len(d.buf) = Len(p.buf) /\ d.pos = p.pos /\ d.checked = p.checked
            /\ \A i \in 1..Len(p.buf) : d.buf[i] = IF i \in InBody(p) THEN MapRecvByte(p.buf[i]) ELSE p.buf[i]
            /\ \A i \in 1..9 : d.buf[i] = p.buf[i]
<1> DEFINE n == Len(p.buf)
           body == InBody(p)
           b == [i \in 1..n |-> IF i \in body THEN MapRecvByte(p.buf[i]) ELSE p.buf[i]]
<1>1. n \in Nat /\ p.buf \in Seq(Octet) /\ DOMAIN p.buf = 1..n /\ \A i \in 1..n : p.buf[i] \in Octet
  BY PacketParts
<1>2. Decrypt(p) = [p EXCEPT !.buf = b]
  BY <1>1 DEF Decrypt
<1>7. \A i \in 1..9 : i \in 1..n /\ i \notin body
  BY <1>1, BodyIs
<1> HIDE DEF n, body
<1>3. \A i \in 1..n : b[i] = IF i \in body THEN MapRecvByte(p.buf[i]) ELSE p.buf[i]
  OBVIOUS
<1>4. \A i \in 1..n : b[i] \in Octet
  BY <1>1, <1>3, TablesInverseBack
<1>5. b = [i \in 1..n |-> b[i]]
  OBVIOUS
<1> HIDE DEF b
<1>6. b \in Seq(Octet) /\ Len(b) = n
  BY <1>1, <1>4, <1>5
<1>8. Decrypt(p) = [buf |-> b, pos |-> p.pos, checked |-> p.checked]
  BY <1>2, <1>6, PacketParts
<1>9. Decrypt(p) \in Packet
  BY <1>6, <1>8, PacketParts DEF Packet
<1>10. Decrypt(p).buf = b /\ Decrypt(p).pos = p.pos /\ Decrypt(p).checked = p.checked
  BY <1>8
<1>11. \A i \in 1..9 : b[i] = p.buf[i]
  BY <1>3, <1>7
<1> QED
  BY <1>3, <1>6, <1>9, <1>10, <1>11 DEF n, body

\* The sum the check code is made of is the sum of the body's bytes.
LEMMA BodySumIs ==
  ASSUME NEW p \in Packet, Whole(p)
  PROVE  BodySum(p) \in Octet /\ BodySum(p) = ByteSum(Slice(p.buf, 9, Len(p.buf) - 9))
<1> DEFINE n == Len(p.buf) - 9
           nine == 9
<1>1. Len(p.buf) >= 9 /\ Len(p.buf) \in Nat
  BY PacketParts DEF Whole
<1>2. DataSize(p) = n
  BY <1>1, BodyIs
<1>3. BodySum(p) = ByteSum(Slice(p.buf, nine, n))
  BY <1>2 DEF BodySum, PACKET_HEADER_SIZE
<1>4. n \in Nat /\ nine \in Nat /\ nine + n <= Len(p.buf) /\ p.buf \in Seq(Octet)
  BY <1>1, PacketParts
<1> HIDE DEF n, nine
<1>5. Slice(p.buf, nine, n) \in Seq(Octet)
  BY <1>4, SliceIs
<1>6. ByteSum(Slice(p.buf, nine, n)) \in Octet
  BY <1>5, ByteSumIs
<1> QED
  BY <1>3, <1>6 DEF n, nine

\* Whole packets with the same body have the same sum.
LEMMA SameSum ==
  ASSUME NEW p \in Packet, NEW q \in Packet, Whole(p), Whole(q), Len(p.buf) = Len(q.buf),
         \A i \in 10..Len(p.buf) : p.buf[i] = q.buf[i]
  PROVE  BodySum(p) = BodySum(q)
<1> DEFINE n == Len(p.buf) - 9
           nine == 9
<1>1. Len(p.buf) >= 9 /\ Len(p.buf) \in Nat
  BY PacketParts DEF Whole
<1>2. n \in Nat /\ nine \in Nat /\ nine + n <= Len(p.buf) /\ nine + n <= Len(q.buf)
  BY <1>1
<1>3. Alike(p.buf, nine, q.buf, nine, n)
  <2>1. \A k \in 1..n : nine + k \in 10..Len(p.buf)
    BY <1>1
  <2> QED
    BY <2>1 DEF Alike
<1>4. BodySum(p) = ByteSum(Slice(p.buf, nine, n)) /\ BodySum(q) = ByteSum(Slice(q.buf, nine, n))
  BY BodySumIs
<1> HIDE DEF n, nine
<1>5. p.buf \in Seq(Octet) /\ q.buf \in Seq(Octet)
  BY PacketParts
<1>6. Slice(p.buf, nine, n) = Slice(q.buf, nine, n)
  BY ONLY <1>2, <1>3, <1>5, SliceSame
<1> QED
  BY <1>4, <1>6

\* What EncryptBuffer does to each byte, and where it puts the check code.
LEMMA EncryptIs ==
  ASSUME NEW p \in Packet, Whole(p), p.checked = FALSE
  PROVE  LET q == Encrypt(p)
         IN /\ q \in Packet /\ Len(q.buf) = Len(p.buf) /\ q.pos = p.pos
            /\ q.buf[9] = (-BodySum(p)) % 256
            /\ \A i \in 1..8 : q.buf[i] = p.buf[i]
            /\ \A i \in 10..Len(p.buf) : q.buf[i] = MapSendByte(p.buf[i])
<1> DEFINE n == Len(p.buf)
           body == InBody(p)
           b == [i \in 1..n |-> IF i \in body THEN MapSendByte(p.buf[i]) ELSE p.buf[i]]
           c == (-BodySum(p)) % 256
           z == <<c>>
           q == [p EXCEPT !.buf = b]
           w == WriteHeader(q, z, 8)
<1>1. n \in Nat /\ n >= 9 /\ p.buf \in Seq(Octet) /\ DOMAIN p.buf = 1..n /\ \A i \in 1..n : p.buf[i] \in Octet
  BY PacketParts DEF Whole
<1>2. body = 10..n
  BY <1>1, BodyIs
<1>3. Encrypt(p) = [w EXCEPT !.checked = TRUE]
  <2>1. ~ p.checked
    OBVIOUS
  <2> QED
    BY <1>1, <2>1 DEF Encrypt
<1>4. z \in Seq(Octet) /\ Len(z) = 1 /\ z[1] = c
  <2>3. BodySum(p) \in Octet
    BY BodySumIs
  <2>1. BodySum(p) \in Int
    BY <2>3 DEF Octet
  <2>2. c \in Octet
    BY <2>1 DEF Octet
  <2> HIDE DEF c
  <2> QED
    BY <2>2
<1> HIDE DEF z, c
<1>5. \A i \in 1..n : b[i] = IF i \in body THEN MapSendByte(p.buf[i]) ELSE p.buf[i]
  OBVIOUS
<1>6. \A i \in 1..n : b[i] \in Octet
  BY <1>1, <1>5, TablesInverse
<1>7. b = [i \in 1..n |-> b[i]]
  OBVIOUS
<1> HIDE DEF b, n, body
<1>8. b \in Seq(Octet) /\ Len(b) = n
  BY <1>1, <1>6, <1>7
<1>9. q = [buf |-> b, pos |-> p.pos, checked |-> p.checked]
  BY <1>8, PacketParts
<1>10. q \in Packet /\ q.buf = b /\ q.pos = p.pos
  BY <1>8, <1>9, PacketParts DEF Packet
<1> HIDE DEF q
<1>11. /\ w \in Packet /\ Len(w.buf) = Len(q.buf) /\ w.pos = q.pos
       /\ \A i \in 1..Len(q.buf) : w.buf[i] = IF i - 8 \in 1..Len(z) THEN z[i - 8] ELSE q.buf[i]
  BY <1>4, <1>10, WriteHeaderIs
<1> HIDE DEF w
<1>12. Encrypt(p) = [buf |-> w.buf, pos |-> w.pos, checked |-> TRUE] /\ Encrypt(p) \in Packet
  BY <1>3, <1>11, PacketParts DEF Packet
<1>13. Encrypt(p).buf = w.buf /\ Encrypt(p).pos = p.pos
  BY <1>10, <1>11, <1>12
<1>14. \A i \in 1..n : (i - 8 \in 1..1 <=> i = 9) /\ (i = 9 => i - 8 = 1)
  BY <1>1
<1>15. \A i \in 1..n : w.buf[i] = IF i = 9 THEN c ELSE b[i]
  BY <1>4, <1>8, <1>10, <1>11, <1>14
<1>16. \A i \in 1..8 : i \in 1..n /\ i # 9 /\ i \notin body
  BY <1>1, <1>2
<1>17. \A i \in 10..n : i \in 1..n /\ i # 9 /\ i \in body
  BY <1>1, <1>2
<1>18. 9 \in 1..n
  BY <1>1
<1>19. Len(w.buf) = n /\ w.buf[9] = c /\ (\A i \in 1..8 : w.buf[i] = p.buf[i]) /\ (\A i \in 10..n : w.buf[i] = MapSendByte(p.buf[i]))
  BY <1>5, <1>8, <1>10, <1>11, <1>15, <1>16, <1>17, <1>18
<1> QED
  BY <1>12, <1>13, <1>19 DEF c, n

-----------------------------------------------------------------------------
(* Sealing: what is built, ended and encrypted is whole and opens to what was built. *)

\* After End the length the header states is the length of the packet.
LEMMA EndWhole ==
  ASSUME NEW p \in Packet, Len(p.buf) >= 9, Len(p.buf) <= PACKET_BUFFER_SIZE
  PROVE  Whole(End(p))
<1> DEFINE q == End(p)
           n == Len(p.buf)
<1>1. n \in Nat /\ n - 2 \in Int16 /\ n <= 32768
  <2>1. n \in Nat
    BY PacketParts
  <2>2. n >= 9 /\ n <= 32768
    BY <2>1, LimitsAssumption, CapacityAssumption
  <2> HIDE DEF n
  <2> QED
    BY ONLY <2>1, <2>2 DEF Int16
<1>2. q \in Packet /\ Len(q.buf) = n /\ q.buf[1] = Bytes(n - 2, 2)[1] /\ q.buf[2] = Bytes(n - 2, 2)[2]
  BY EndIs
<1> DEFINE o == 0
<1>3. o \in Nat /\ o + 2 <= n /\ o + 1 = 1 /\ o + 2 = 2
  BY <1>1
<1>4. GetBodyLength(q) = Number(Slice(q.buf, o, 2))
  BY DEF GetBodyLength
<1> HIDE DEF q, n, o
<1>5. Number(Slice(q.buf, o, 2)) = n - 2
  BY <1>1, <1>2, <1>3, ShortAt
<1>6. n >= 9
  BY DEF n
<1>7. Whole(q)
  BY <1>1, <1>2, <1>4, <1>5, <1>6 DEF Whole
<1> QED
  BY <1>7 DEF q

\* DecryptBuffer undoes EncryptBuffer, and the check code fits.
THEOREM SealOpens ==
  ASSUME NEW p \in Packet, Len(p.buf) >= 9, Len(p.buf) <= PACKET_BUFFER_SIZE
  PROVE  LET b == Encrypt(End(p)).buf
             d == Decrypt(Copy(b))
         IN /\ b \in Seq(Octet) /\ Len(b) = Len(p.buf) /\ Whole(Copy(b)) /\ Verifies(Copy(b))
            /\ d \in Packet /\ d.pos = 9 /\ Len(d.buf) = Len(p.buf)
            /\ \A i \in 10..Len(p.buf) : d.buf[i] = p.buf[i]
            /\ GetCmdType(Copy(b)) = GetCmdType(p) /\ GetCmdType(d) = GetCmdType(p)
<1> DEFINE n == Len(p.buf)
           e == End(p)
           b == Encrypt(e).buf
           q == Copy(b)
           d == Decrypt(q)
<1>1. n \in Nat /\ n >= 9
  BY PacketParts
<1>2. /\ e \in Packet /\ Len(e.buf) = n /\ e.checked = FALSE /\ Whole(e)
      /\ \A i \in 1..n : i # 1 /\ i # 2 /\ i # 9 => e.buf[i] = p.buf[i]
  BY EndIs, EndWhole
<1> HIDE DEF e
<1>3. /\ Encrypt(e) \in Packet /\ Len(b) = n /\ b[9] = (-BodySum(e)) % 256
      /\ \A i \in 1..8 : b[i] = e.buf[i]
      /\ \A i \in 10..n : b[i] = MapSendByte(e.buf[i])
  BY <1>2, EncryptIs, ZenonT(30)
<1>4. b \in Seq(Octet)
  BY <1>3, PacketParts
<1> HIDE DEF b
<1>5. q \in Packet /\ q.buf = b /\ q.pos = 9 /\ q.checked = FALSE
  <2>1. q \in Packet /\ q = [buf |-> b, pos |-> 9, checked |-> FALSE]
    BY <1>4, CopyIs
  <2> HIDE DEF q
  <2> QED
    BY <2>1
<1> HIDE DEF q
<1>6. Whole(q)
  <2>1. 1 \in 1..8 /\ 2 \in 1..8
    OBVIOUS
  <2>2. q.buf[1] = e.buf[1] /\ q.buf[2] = e.buf[2]
    BY <1>3, <1>5, <2>1
  <2>3. Len(e.buf) >= 9 /\ Len(q.buf) >= 9
    BY <1>1, <1>2, <1>3, <1>5
  <2>4. GetBodyLength(q) = GetBodyLength(e)
    BY <1>2, <1>5, <2>2, <2>3, SameHeader
  <2> QED
    BY <1>2, <1>3, <1>5, <2>4 DEF Whole
<1>7. /\ d \in Packet /\ Len(d.buf) = n /\ d.pos = 9
      /\ \A i \in 1..n : d.buf[i] = IF i \in 10..n THEN MapRecvByte(b[i]) ELSE b[i]
      /\ \A i \in 1..9 : d.buf[i] = b[i]
  <2>1. Len(q.buf) >= 9 /\ Len(q.buf) = n
    BY <1>1, <1>3, <1>5
  <2>2. InBody(q) = 10..n
    BY <1>5, <1>6, <2>1, BodyIs
  <2> QED
    BY <1>5, <2>1, <2>2, DecryptIs
<1> HIDE DEF d
<1>8. \A i \in 10..n : d.buf[i] = e.buf[i]
  <2> TAKE i \in 10..n
  <2>1. i \in 1..n
    BY <1>1
  <2>2. e.buf[i] \in Octet
    BY <1>2, <2>1, PacketParts
  <2>3. d.buf[i] = MapRecvByte(MapSendByte(e.buf[i]))
    BY <1>3, <1>7, <2>1, ZenonT(30)
  <2> QED
    BY <2>2, <2>3, TablesInverse
<1>9. \A i \in 10..n : d.buf[i] = p.buf[i]
  <2>1. \A i \in 10..n : i \in 1..n /\ i # 1 /\ i # 2 /\ i # 9
    BY <1>1
  <2> QED
    BY <1>2, <1>8, <2>1
<1>10. Verifies(q)
  <2>1. 1 \in 1..9 /\ 2 \in 1..9 /\ 1 \in 1..8 /\ 2 \in 1..8
    OBVIOUS
  <2>2. d.buf[1] = e.buf[1] /\ d.buf[2] = e.buf[2]
    BY <1>3, <1>7, <2>1
  <2>3. Len(e.buf) >= 9 /\ Len(d.buf) >= 9
    BY <1>1, <1>2, <1>7
  <2>4. Whole(d)
    <3>1. GetBodyLength(d) = GetBodyLength(e)
      BY <1>2, <1>7, <2>2, <2>3, SameHeader
    <3> QED
      BY <1>2, <1>7, <3>1 DEF Whole
  <2>5. BodySum(d) = BodySum(e)
    BY <1>2, <1>7, <1>8, <2>4, SameSum
  <2>6. BodySum(e) \in Octet
    BY <1>2, BodySumIs
  <2>7. \A s \in Octet : (((-s) % 256) + s) % 256 = 0
    BY DEF Octet
  <2>8. GetcbCheckCode(q) = (-BodySum(e)) % 256
    BY <1>3, <1>5 DEF GetcbCheckCode
  <2>9. BodySum(Decrypt(q)) = BodySum(e)
    BY <2>5 DEF d
  <2> QED
    BY <2>6, <2>7, <2>8, <2>9 DEF Verifies
<1>11. GetCmdType(q) = GetCmdType(p) /\ GetCmdType(d) = GetCmdType(p)
  <2>1. /\ 7 \in 1..8 /\ 8 \in 1..8 /\ 7 \in 1..9 /\ 8 \in 1..9 /\ 7 \in 1..n /\ 8 \in 1..n
        /\ 7 # 1 /\ 7 # 2 /\ 7 # 9 /\ 8 # 1 /\ 8 # 2 /\ 8 # 9
    BY <1>1
  <2>2. q.buf[7] = p.buf[7] /\ q.buf[8] = p.buf[8] /\ d.buf[7] = p.buf[7] /\ d.buf[8] = p.buf[8]
    BY <1>2, <1>3, <1>5, <1>7, <2>1
  <2>3. Len(p.buf) >= 9 /\ Len(q.buf) >= 9 /\ Len(d.buf) >= 9
    BY <1>1, <1>3, <1>5, <1>7
  <2> QED
    BY <1>5, <1>7, <2>2, <2>3, SameHeader
<1> QED
  BY <1>3, <1>4, <1>6, <1>7, <1>9, <1>10, <1>11 DEF d, q, b, e, n

\* A byte that brings a sum to zero modulo 256 is the sum's complement.
LEMMA Complement ==
  ASSUME NEW x \in Int, NEW s \in Int, 0 <= x, x <= 255, 0 <= s, s <= 255, (x + s) % 256 = 0
  PROVE  x = (-s) % 256
OBVIOUS

\* Sequences with the same elements are the same sequence.
LEMMA SeqSame ==
  ASSUME NEW S, NEW s \in Seq(S), NEW t \in Seq(S), Len(s) = Len(t), \A i \in 1..Len(s) : s[i] = t[i]
  PROVE  s = t
OBVIOUS

\* A request that is decrypted and encrypted again is what it was.
LEMMA SealedAgain ==
  ASSUME NEW pkg \in Seq(Octet), Whole(Copy(pkg)), Verifies(Copy(pkg))
  PROVE  Encrypt(Copy(Decrypt(Copy(pkg)).buf)).buf = pkg
<1> DEFINE n == Len(pkg)
           q == Copy(pkg)
           d == Decrypt(q)
           c == Copy(d.buf)
           e == Encrypt(c)
<1>1. q \in Packet /\ q = [buf |-> pkg, pos |-> 9, checked |-> FALSE]
  BY CopyIs
<1>2. Whole(q) /\ Verifies(q)
  OBVIOUS
<1> HIDE DEF q
<1>3. q.buf = pkg
  BY <1>1
<1>4. n \in Nat /\ n >= 9 /\ Len(q.buf) = n /\ Len(q.buf) >= 9 /\ \A i \in 1..n : pkg[i] \in Octet
  BY <1>2, <1>3 DEF Whole
<1>5. /\ d \in Packet /\ Len(d.buf) = n
      /\ \A i \in 10..n : d.buf[i] = MapRecvByte(pkg[i])
      /\ \A i \in 1..9 : d.buf[i] = pkg[i]
  <2>1. InBody(q) = 10..n
    BY <1>1, <1>2, <1>4, BodyIs
  <2>2. \A i \in 10..n : i \in 1..n
    BY <1>4
  <2> QED
    BY <1>1, <1>3, <1>4, <2>1, <2>2, DecryptIs
<1>6. BodySum(d) \in Octet => pkg[9] = (-BodySum(d)) % 256
  <2>1. 9 \in 1..n
    BY <1>4
  <2>2. pkg[9] \in Octet
    BY <1>4, <2>1
  <2>3. (pkg[9] + BodySum(d)) % 256 = 0
    BY <1>2, <1>3 DEF Verifies, GetcbCheckCode
  <2>4. \A x, s \in Octet : (x + s) % 256 = 0 => x = (-s) % 256
    <3> SUFFICES ASSUME NEW x \in Octet, NEW s \in Octet, (x + s) % 256 = 0 PROVE x = (-s) % 256
      OBVIOUS
    <3>1. x \in Int /\ s \in Int /\ 0 <= x /\ x <= 255 /\ 0 <= s /\ s <= 255
      BY DEF Octet
    <3> QED
      BY <3>1, Complement, ZenonT(30)
  <2> QED
    BY <2>2, <2>3, <2>4
<1> HIDE DEF d
<1>7. c \in Packet /\ c = [buf |-> d.buf, pos |-> 9, checked |-> FALSE]
  BY <1>5, CopyIs, PacketParts
<1> HIDE DEF c
<1>8. c.buf = d.buf /\ c.checked = FALSE
  BY <1>7
<1>9. Whole(d) /\ Whole(c)
  <2>1. 1 \in 1..9 /\ 2 \in 1..9
    OBVIOUS
  <2>2. d.buf[1] = q.buf[1] /\ d.buf[2] = q.buf[2] /\ c.buf[1] = q.buf[1] /\ c.buf[2] = q.buf[2]
    BY <1>3, <1>5, <1>8, <2>1
  <2>3. Len(d.buf) >= 9 /\ Len(c.buf) >= 9
    BY <1>4, <1>5, <1>8
  <2>4. GetBodyLength(d) = GetBodyLength(q) /\ GetBodyLength(c) = GetBodyLength(q)
    BY <1>1, <1>4, <1>5, <1>7, <2>2, <2>3, SameHeader
  <2> QED
    BY <1>2, <1>4, <1>5, <1>8, <2>4 DEF Whole
<1>10. /\ e \in Packet /\ Len(e.buf) = n /\ e.buf[9] = (-BodySum(c)) % 256
       /\ \A i \in 1..8 : e.buf[i] = d.buf[i]
       /\ \A i \in 10..n : e.buf[i] = MapSendByte(d.buf[i])
  BY <1>5, <1>7, <1>8, <1>9, EncryptIs, ZenonT(30)
<1> HIDE DEF e
<1>11. BodySum(c) = BodySum(d) /\ BodySum(d) \in Octet
  BY <1>5, <1>7, <1>8, <1>9, SameSum, BodySumIs
<1>12. \A i \in 1..n : e.buf[i] = pkg[i]
  <2> TAKE i \in 1..n
  <2>1. CASE i \in 1..8
    <3>1. i \in 1..9
      BY <2>1
    <3> QED
      BY <1>5, <1>10, <2>1, <3>1
  <2>2. CASE i = 9
    BY <1>6, <1>10, <1>11, <2>2
  <2>3. CASE i \in 10..n
    <3>1. pkg[i] \in Octet
      BY <1>4
    <3>2. e.buf[i] = MapSendByte(MapRecvByte(pkg[i]))
      BY <1>5, <1>10, <2>3
    <3> QED
      BY <3>1, <3>2, TablesInverseBack
  <2>4. i \in 1..8 \/ i = 9 \/ i \in 10..n
    BY <1>4
  <2> QED
    BY <2>1, <2>2, <2>3, <2>4
<1>13. e.buf = pkg
  <2>1. e.buf \in Seq(Octet)
    BY <1>10, PacketParts
  <2> QED
    BY <1>10, <1>12, <2>1, SeqSame
<1> QED
  BY <1>13 DEF e, c, d, q

-----------------------------------------------------------------------------
(* Reading what was written. *)

\* A packet to be read from behind byte i on.
At(b, i) == [buf |-> b, pos |-> i, checked |-> FALSE]

\* The buffer b has the bytes s behind byte i.
Holds(b, i, s) == \A k \in 1..Len(s) : b[i + k] = s[k]

\* A packet object with given bytes and a given read position.
LEMMA AtIs ==
  ASSUME NEW b \in Seq(Octet), NEW i \in Nat
  PROVE  At(b, i) \in Packet /\ At(b, i).buf = b /\ At(b, i).pos = i /\ At(b, i).checked = FALSE
BY DEF At, Packet

\* A copied packet stands behind its header.
LEMMA CopyAt ==
  ASSUME NEW b \in Seq(Octet)
  PROVE  Copy(b) = At(b, 9)
BY CopyIs DEF At

\* A packet object that is not marked is its bytes and its position.
LEMMA PacketAt ==
  ASSUME NEW p \in Packet, p.checked = FALSE
  PROVE  p = At(p.buf, p.pos)
BY PacketParts DEF At

\* What is held stays when a packet grows.
LEMMA HoldsGrown ==
  ASSUME NEW p \in Packet, NEW q, Grown(q, p), NEW s \in Seq(Octet), NEW i \in Nat,
         Holds(p.buf, i, s), i + Len(s) <= Len(p.buf)
  PROVE  Holds(q.buf, i, s)
<1>1. Len(p.buf) \in Nat /\ Len(s) \in Nat
  BY PacketParts
<1>2. \A k \in 1..Len(s) : i + k \in 1..Len(p.buf)
  BY <1>1
<1> QED
  BY <1>2 DEF Grown, Holds

\* WriteInt with room leaves the number's bytes at the end.
LEMMA PutInt ==
  ASSUME NEW p \in Packet, NEW n \in Int, Len(p.buf) + 4 <= PACKET_BUFFER_SIZE
  PROVE  /\ Grown(WriteInt(p, n), p) /\ Len(WriteInt(p, n).buf) = Len(p.buf) + 4
         /\ Holds(WriteInt(p, n).buf, Len(p.buf), Bytes(n, 4))
<1> DEFINE q == WriteInt(p, n)
           b == Bytes(n, 4)
<1>1. Grown(q, p) /\ Len(q.buf) = Len(p.buf) + 4 /\ \A i \in 1..4 : q.buf[Len(p.buf) + i] = b[i]
  BY WriteIntIs
<1>2. Len(b) = 4
  BY IntBytes
<1> HIDE DEF q, b
<1>3. Holds(q.buf, Len(p.buf), b)
  BY <1>1, <1>2 DEF Holds
<1> QED
  BY <1>1, <1>3 DEF q, b

\* WriteShort with room leaves the number's bytes at the end.
LEMMA PutShort ==
  ASSUME NEW p \in Packet, NEW n \in Int, Len(p.buf) + 2 <= PACKET_BUFFER_SIZE
  PROVE  /\ Grown(WriteShort(p, n), p) /\ Len(WriteShort(p, n).buf) = Len(p.buf) + 2
         /\ Holds(WriteShort(p, n).buf, Len(p.buf), Bytes(n, 2))
<1> DEFINE q == WriteShort(p, n)
           b == Bytes(n, 2)
<1>1. Grown(q, p) /\ Len(q.buf) = Len(p.buf) + 2 /\ \A i \in 1..2 : q.buf[Len(p.buf) + i] = b[i]
  BY WriteShortIs
<1>2. Len(b) = 2
  BY ShortBytes
<1> HIDE DEF q, b
<1>3. Holds(q.buf, Len(p.buf), b)
  BY <1>1, <1>2 DEF Holds
<1> QED
  BY <1>1, <1>3 DEF q, b

\* WriteBinary with room leaves the length and then the bytes at the end.
LEMMA PutBinary ==
  ASSUME NEW p \in Packet, NEW s \in Seq(Octet), Len(p.buf) + 4 + Len(s) <= PACKET_BUFFER_SIZE
  PROVE  LET q == WriteBinary(p, s)
         IN /\ Grown(q, p) /\ Len(q.buf) = Len(p.buf) + 4 + Len(s)
            /\ Holds(q.buf, Len(p.buf), Bytes(Len(s), 4)) /\ Holds(q.buf, Len(p.buf) + 4, s)
<1> DEFINE q == WriteBinary(p, s)
           b == Bytes(Len(s), 4)
<1>1. /\ Grown(q, p) /\ Len(q.buf) = Len(p.buf) + 4 + Len(s)
      /\ \A i \in 1..4 : q.buf[Len(p.buf) + i] = b[i]
      /\ \A i \in 1..Len(s) : q.buf[Len(p.buf) + 4 + i] = s[i]
  BY WriteBinaryIs
<1>2. Len(b) = 4
  BY IntBytes
<1> HIDE DEF q, b
<1>3. Holds(q.buf, Len(p.buf), b)
  BY <1>1, <1>2 DEF Holds
<1>4. Holds(q.buf, Len(p.buf) + 4, s)
  BY <1>1 DEF Holds
<1> QED
  BY <1>1, <1>3, <1>4 DEF q, b

\* WriteString with room leaves the length, the text and a zero byte at the end.
LEMMA PutString ==
  ASSUME NEW p \in Packet, NEW s \in Seq(Octet), Len(p.buf) + 5 + Len(s) <= PACKET_BUFFER_SIZE
  PROVE  LET q == WriteString(p, s)
         IN /\ Grown(q, p) /\ Len(q.buf) = Len(p.buf) + 5 + Len(s)
            /\ Holds(q.buf, Len(p.buf), Bytes(Len(s) + 1, 4)) /\ Holds(q.buf, Len(p.buf) + 4, s)
            /\ q.buf[Len(p.buf) + 5 + Len(s)] = 0
<1> DEFINE q == WriteString(p, s)
           b == Bytes(Len(s) + 1, 4)
<1>1. /\ Grown(q, p) /\ Len(q.buf) = Len(p.buf) + 5 + Len(s)
      /\ \A i \in 1..4 : q.buf[Len(p.buf) + i] = b[i]
      /\ \A i \in 1..Len(s) : q.buf[Len(p.buf) + 4 + i] = s[i]
      /\ q.buf[Len(p.buf) + 5 + Len(s)] = 0
  BY WriteStringIs
<1>2. Len(b) = 4
  BY IntBytes
<1> HIDE DEF q, b
<1>3. Holds(q.buf, Len(p.buf), b)
  BY <1>1, <1>2 DEF Holds
<1>4. Holds(q.buf, Len(p.buf) + 4, s)
  BY <1>1 DEF Holds
<1> QED
  BY <1>1, <1>3, <1>4 DEF q, b

\* Reading never leaves the packet and gives numbers of the width.
LEMMA ReadIs ==
  ASSUME NEW p \in Packet, NEW n \in Nat
  PROVE  /\ Skipped(p, n) \in Packet /\ Skipped(p, n).buf = p.buf /\ Skipped(p, n).checked = p.checked
         /\ p.pos + n <= Len(p.buf) => Skipped(p, n).pos = p.pos + n
<1>1. Len(p.buf) \in Nat /\ p.pos \in Nat
  BY PacketParts
<1>2. CASE Readable(p, n)
  <2>1. Skipped(p, n) = [buf |-> p.buf, pos |-> p.pos + n, checked |-> p.checked]
    BY <1>1, <1>2, PacketParts DEF Skipped
  <2> QED
    BY <1>1, <2>1, PacketParts DEF Packet
<1>3. CASE ~ Readable(p, n)
  BY <1>1, <1>3 DEF Skipped, Readable
<1> QED
  BY <1>2, <1>3

\* ReadInt returns a 32-bit number and moves only the read position.
LEMMA ReadIntIs ==
  ASSUME NEW p \in Packet
  PROVE  /\ ReadInt(p).val \in Int32 /\ ReadInt(p).p \in Packet /\ ReadInt(p).p.buf = p.buf
         /\ ReadInt(p).p.checked = p.checked
<1> DEFINE k == 4
<1>1. ReadInt(p).val = ReadNumber(p, 4) /\ ReadInt(p).p = Skipped(p, k)
  BY DEF ReadInt
<1>2. k \in Nat
  OBVIOUS
<1> HIDE DEF k
<1>3. Skipped(p, k) \in Packet /\ Skipped(p, k).buf = p.buf /\ Skipped(p, k).checked = p.checked
  BY <1>2, ReadIs
<1>4. ReadNumber(p, 4) \in Int32
  <2>1. CASE Readable(p, 4)
    <3>1. p.buf \in Seq(Octet) /\ p.pos \in Nat /\ p.pos + 4 <= Len(p.buf)
      BY <2>1, PacketParts DEF Readable
    <3>2. Slice(p.buf, p.pos, 4) \in Seq(Octet) /\ Len(Slice(p.buf, p.pos, 4)) = 4
      BY ONLY <3>1, FourIs
    <3> QED
      BY <2>1, <3>2, IntNumber DEF ReadNumber
  <2>2. CASE ~ Readable(p, 4)
    BY <2>2 DEF ReadNumber, Int32
  <2> QED
    BY <2>1, <2>2
<1> QED
  BY <1>1, <1>3, <1>4

\* ReadShort returns a 16-bit number and moves only the read position.
LEMMA ReadShortIs ==
  ASSUME NEW p \in Packet
  PROVE  /\ ReadShort(p).val \in Int16 /\ ReadShort(p).p \in Packet /\ ReadShort(p).p.buf = p.buf
         /\ ReadShort(p).p.checked = p.checked
<1> DEFINE k == 2
<1>1. ReadShort(p).val = ReadNumber(p, 2) /\ ReadShort(p).p = Skipped(p, k)
  BY DEF ReadShort
<1>2. k \in Nat
  OBVIOUS
<1> HIDE DEF k
<1>3. Skipped(p, k) \in Packet /\ Skipped(p, k).buf = p.buf /\ Skipped(p, k).checked = p.checked
  BY <1>2, ReadIs
<1>4. ReadNumber(p, 2) \in Int16
  <2>1. CASE Readable(p, 2)
    <3>1. p.buf \in Seq(Octet) /\ p.pos \in Nat /\ p.pos + 2 <= Len(p.buf)
      BY <2>1, PacketParts DEF Readable
    <3>2. Slice(p.buf, p.pos, 2) \in Seq(Octet) /\ Len(Slice(p.buf, p.pos, 2)) = 2
      BY ONLY <3>1, TwoIs
    <3> QED
      BY <2>1, <3>2, ShortNumber DEF ReadNumber
  <2>2. CASE ~ Readable(p, 2)
    BY <2>2 DEF ReadNumber, Int16
  <2> QED
    BY <2>1, <2>2
<1> QED
  BY <1>1, <1>3, <1>4

\* A number is read where it was written.
LEMMA TakeInt ==
  ASSUME NEW b \in Seq(Octet), NEW i \in Nat, NEW n \in Int32, i + 4 <= Len(b), Holds(b, i, Bytes(n, 4))
  PROVE  ReadInt(At(b, i)) = [val |-> n, p |-> At(b, i + 4)]
<1> DEFINE p == At(b, i)
           c == Bytes(n, 4)
<1>1. p \in Packet /\ p.buf = b /\ p.pos = i /\ p.checked = FALSE
  BY AtIs
<1>2. Readable(p, 4)
  BY <1>1 DEF Readable
<1>3. Skipped(p, 4) = At(b, i + 4)
  BY <1>2 DEF Skipped, At
<1>4. \A k \in 1..4 : b[i + k] = c[k]
  <2>1. Len(c) = 4
    BY IntBytes DEF Int32
  <2> HIDE DEF c
  <2> QED
    BY <2>1 DEF Holds, c
<1>5. Number(Slice(p.buf, i, 4)) = n
  <2>1. i + 4 <= Len(p.buf) /\ \A k \in 1..4 : p.buf[i + k] = Bytes(n, 4)[k]
    BY <1>1, <1>4
  <2> HIDE DEF p
  <2> QED
    BY <1>1, <2>1, IntAt
<1>6. ReadNumber(p, 4) = n
  BY <1>1, <1>2, <1>5 DEF ReadNumber
<1> QED
  BY <1>3, <1>6 DEF ReadInt

\* ReadShort returns the number whose bytes stand at the read position.
LEMMA TakeShort ==
  ASSUME NEW b \in Seq(Octet), NEW i \in Nat, NEW n \in Int16, i + 2 <= Len(b), Holds(b, i, Bytes(n, 2))
  PROVE  ReadShort(At(b, i)) = [val |-> n, p |-> At(b, i + 2)]
<1> DEFINE p == At(b, i)
           c == Bytes(n, 2)
<1>1. p \in Packet /\ p.buf = b /\ p.pos = i /\ p.checked = FALSE
  BY AtIs
<1>2. Readable(p, 2)
  BY <1>1 DEF Readable
<1>3. Skipped(p, 2) = At(b, i + 2)
  BY <1>2 DEF Skipped, At
<1>4. b[i + 1] = c[1] /\ b[i + 2] = c[2]
  <2>1. Len(c) = 2
    BY ShortBytes DEF Int16
  <2>2. Holds(b, i, c)
    OBVIOUS
  <2> HIDE DEF c
  <2>3. \A k \in 1..2 : b[i + k] = c[k]
    BY <2>1, <2>2 DEF Holds
  <2> QED
    BY <2>3
<1>5. Number(Slice(p.buf, i, 2)) = n
  <2>1. i + 2 <= Len(p.buf) /\ p.buf[i + 1] = Bytes(n, 2)[1] /\ p.buf[i + 2] = Bytes(n, 2)[2]
    BY <1>1, <1>4
  <2> HIDE DEF p
  <2> QED
    BY <1>1, <2>1, ShortAt
<1>6. ReadNumber(p, 2) = n
  BY <1>1, <1>2, <1>5 DEF ReadNumber
<1> QED
  BY <1>3, <1>6 DEF ReadShort

\* A set of numbers has a least one.
LEMMA Least ==
  ASSUME NEW S \in SUBSET Nat, S # {}
  PROVE  LET m == CHOOSE i \in S : \A j \in S : i <= j
         IN m \in S /\ \A j \in S : m <= j
<1>1. PICK n \in S : \A m \in S : ~ (<<m, n>> \in OpToRel(<, Nat))
  BY NatLessThanWellFounded, WFMin
<1>2. \A m \in S : n <= m
  <2> TAKE m \in S
  <2>1. m \in Nat /\ n \in Nat /\ ~ (<<m, n>> \in OpToRel(<, Nat))
    BY <1>1
  <2>2. ~ (m < n)
    BY <2>1 DEF OpToRel
  <2>3. m \in Nat /\ n \in Nat
    BY <2>1
  <2> QED
    BY ONLY <2>2, <2>3
<1> QED
  BY <1>2

\* How many bytes stand before the first zero.
UpToZero(s) ==
  LET zeros == {i \in DOMAIN s : s[i] = 0}
  IN IF zeros = {} THEN Len(s) ELSE (CHOOSE i \in zeros : \A j \in zeros : i <= j) - 1

\* The first zero of s is behind n others.
EndsAt(s, n) == s[n + 1] = 0 /\ \A i \in 1..n : s[i] # 0

\* The length of a text read from bytes is where their first zero is.
LEMMA UpToZeroIs ==
  ASSUME NEW s \in Seq(Octet)
  PROVE  /\ UpToZero(s) \in 0..Len(s)
         /\ \A n \in 0..Len(s)-1 : EndsAt(s, n) => UpToZero(s) = n
<1> DEFINE zeros == {i \in DOMAIN s : s[i] = 0}
           m == CHOOSE i \in zeros : \A j \in zeros : i <= j
<1>1. DOMAIN s = 1..Len(s) /\ Len(s) \in Nat /\ zeros \in SUBSET Nat /\ zeros \subseteq 1..Len(s)
  OBVIOUS
<1>2. UpToZero(s) = IF zeros = {} THEN Len(s) ELSE m - 1
  BY DEF UpToZero
<1>6. \A i \in 1..Len(s) : i \in zeros <=> s[i] = 0
  BY <1>1
<1> HIDE DEF zeros
<1>3. zeros # {} => m \in zeros /\ \A j \in zeros : m <= j
  BY <1>1, Least
<1> HIDE DEF m
<1>4. UpToZero(s) \in 0..Len(s)
  <2>1. CASE zeros = {}
    BY <1>1, <1>2, <2>1
  <2>2. CASE zeros # {}
    <3>1. m \in 1..Len(s)
      BY <1>1, <1>3, <2>2
    <3>2. UpToZero(s) = m - 1
      BY <1>2, <2>2
    <3> QED
      BY <1>1, <3>1, <3>2
  <2> QED
    BY <2>1, <2>2
<1>5. ASSUME NEW n \in 0..Len(s)-1, EndsAt(s, n) PROVE UpToZero(s) = n
  <2>1. n + 1 \in 1..Len(s)
    BY <1>1
  <2>2. n + 1 \in zeros
    BY <1>5, <1>6, <2>1 DEF EndsAt
  <2>3. m \in zeros /\ m <= n + 1 /\ m \in 1..Len(s) /\ s[m] = 0
    BY <1>1, <1>3, <1>6, <2>2
  <2>4. ~ (m \in 1..n)
    BY <1>5, <2>3 DEF EndsAt
  <2>5. m = n + 1
    BY <1>1, <2>3, <2>4
  <2> QED
    BY <1>2, <2>2, <2>5
<1> QED
  BY <1>4, <1>5

\* What a string is read from.
TextOf(p) == SubSeq(p.buf, ReadInt(p).p.pos + 1, Len(p.buf))
NoText(p) == ReadInt(p).val = -1 \/ ~ Readable(ReadInt(p).p, ReadInt(p).val)

\* The two outcomes of ReadString: no text, or the bytes up to the first zero.
LEMMA ReadStringExpanded ==
  ASSUME NEW p
  PROVE  ReadString(p) = IF NoText(p) THEN [val |-> <<>>, p |-> ReadInt(p).p]
                         ELSE [val |-> SubSeq(TextOf(p), 1, UpToZero(TextOf(p))), p |-> Skipped(ReadInt(p).p, ReadInt(p).val)]
BY Zenon DEF ReadString, UpToZero, NoText, TextOf

\* The text ReadString returns when the stated length fits the packet.
LEMMA ReadStringSome ==
  ASSUME NEW p, ~ NoText(p)
  PROVE  ReadString(p).val = SubSeq(TextOf(p), 1, UpToZero(TextOf(p)))
<1> DEFINE v == SubSeq(TextOf(p), 1, UpToZero(TextOf(p)))
           q == Skipped(ReadInt(p).p, ReadInt(p).val)
           r == ReadString(p)
<1>1. r = [val |-> v, p |-> q]
  BY ReadStringExpanded
<1> HIDE DEF v, q, r
<1>2. r.val = v
  BY <1>1
<1> QED
  BY <1>2 DEF v, r

\* Part of a sequence is a sequence of the same kind.
LEMMA SubSeqIs ==
  ASSUME NEW S, NEW s \in Seq(S), NEW m \in Nat, NEW n \in Nat, m >= 1, n <= Len(s)
  PROVE  SubSeq(s, m, n) \in Seq(S)
OBVIOUS

\* A string is bytes; the position behind it is in the packet if it has no negative length.
LEMMA ReadStringIs ==
  ASSUME NEW p \in Packet
  PROVE  /\ ReadString(p).val \in Seq(Octet)
         /\ ReadInt(p).val >= -1 =>
              ReadString(p).p \in Packet /\ ReadString(p).p.buf = p.buf /\ ReadString(p).p.checked = p.checked
<1> DEFINE n == ReadInt(p)
           q == n.p
           v == n.val
           rest == TextOf(p)
           k == UpToZero(rest)
           val == SubSeq(rest, 1, k)
<1>1. v \in Int32 /\ q \in Packet /\ q.buf = p.buf /\ q.checked = p.checked
  BY ReadIntIs
<1>2. ReadString(p) = IF NoText(p) THEN [val |-> <<>>, p |-> q] ELSE [val |-> val, p |-> Skipped(q, v)]
  BY ReadStringExpanded
<1>9. NoText(p) <=> v = -1 \/ ~ Readable(q, v)
  BY DEF NoText
<1>10. rest = SubSeq(p.buf, q.pos + 1, Len(p.buf))
  BY DEF TextOf
<1> HIDE DEF q, v, rest
<1>3. rest \in Seq(Octet)
  <2>1. p.buf \in Seq(Octet) /\ Len(p.buf) \in Nat /\ q.pos + 1 \in Nat /\ q.pos + 1 >= 1
    BY <1>1, PacketParts
  <2>2. SubSeq(p.buf, q.pos + 1, Len(p.buf)) \in Seq(Octet)
    BY ONLY <2>1, SubSeqIs
  <2> QED
    BY <1>10, <2>2
<1>4. k \in 0..Len(rest)
  BY <1>3, UpToZeroIs
<1> HIDE DEF k
<1>5. val \in Seq(Octet)
  BY <1>3, <1>4
<1> HIDE DEF val
<1>6. v \in Int
  BY <1>1 DEF Int32
<1>7. CASE NoText(p)
  <2>1. ReadString(p) = [val |-> <<>>, p |-> q]
    BY <1>2, <1>7
  <2> QED
    BY <1>1, <2>1
<1>8. CASE ~ NoText(p)
  <2>1. ReadString(p) = [val |-> val, p |-> Skipped(q, v)]
    BY <1>2, <1>8
  <2>2. ReadString(p).val = val /\ ReadString(p).p = Skipped(q, v)
    BY <2>1
  <2>3. ASSUME v >= -1
        PROVE  Skipped(q, v) \in Packet /\ Skipped(q, v).buf = p.buf /\ Skipped(q, v).checked = p.checked
    <3>1. v \in Nat
      BY <1>6, <1>8, <1>9, <2>3
    <3> QED
      BY <1>1, <3>1, ReadIs
  <2> QED
    BY <1>5, <2>2, <2>3 DEF v
<1> QED
  BY <1>7, <1>8

\* Bytes but zero.
Letter == 1..255

\* A text holds no zero byte.
LEMMA LettersAre == ASSUME NEW s \in Seq(Letter) PROVE s \in Seq(Octet) /\ \A k \in 1..Len(s) : s[k] # 0
<1>1. \A k \in 1..Len(s) : s[k] \in Letter
  OBVIOUS
<1>2. \A x \in Letter : x \in Octet /\ x # 0
  BY DEF Letter, Octet
<1>3. s \in Seq(Octet)
  BY <1>2
<1> QED
  BY <1>1, <1>2, <1>3

\* A string is read as it was written.
LEMMA TakeString ==
  ASSUME NEW b \in Seq(Octet), NEW i \in Nat, NEW s \in Seq(Letter), i + 5 + Len(s) <= Len(b), Len(b) <= 32768,
         Holds(b, i, Bytes(Len(s) + 1, 4)), Holds(b, i + 4, s), b[i + 5 + Len(s)] = 0
  PROVE  ReadString(At(b, i)).val = s
<1> DEFINE n == Len(s)
           m == n + 1
           p == At(b, i)
           q == At(b, i + 4)
           rest == SubSeq(b, i + 5, Len(b))
<1>1. n \in Nat /\ Len(b) \in Nat /\ m \in Int32 /\ m = n + 1
  BY DEF Int32
<1>2. ReadInt(p) = [val |-> m, p |-> q]
  <2>1. i + 4 <= Len(b)
    BY <1>1
  <2> QED
    BY <1>1, <2>1, TakeInt
<1>3. q.pos = i + 4 /\ q.buf = b /\ p.buf = b /\ (i + 4) + 1 = i + 5
  BY DEF At
<1>4. Readable(q, m) /\ m # -1
  BY <1>1, <1>3 DEF Readable
<1>5. ReadInt(p).val = m /\ ReadInt(p).p = q
  BY <1>2
<1>6. /\ rest \in Seq(Octet) /\ Len(rest) = Len(b) - i - 4
      /\ \A k \in 1..Len(b)-i-4 : rest[k] = b[i + 4 + k]
  BY <1>1
<1>7. Holds(b, i + 4, s) /\ b[i + 5 + n] = 0 /\ n \in 0..Len(rest)-1 /\ i + 5 + n <= Len(b)
  BY <1>1, <1>6
<1>8. s \in Seq(Octet) /\ \A k \in 1..n : s[k] # 0
  BY LettersAre
<1>9. TextOf(p) = SubSeq(b, (i + 4) + 1, Len(b))
  <2> HIDE DEF p, q
  <2> QED
    BY <1>3, <1>5, SMTT(30) DEF TextOf
<1>10. TextOf(p) = rest
  BY <1>3, <1>9
<1> HIDE DEF p, q, m, rest, n
<1>11. ReadString(p).val = SubSeq(rest, 1, UpToZero(rest))
  <2>1. ~ NoText(p)
    BY <1>4, <1>5 DEF NoText
  <2>2. ReadString(p).val = SubSeq(TextOf(p), 1, UpToZero(TextOf(p)))
    BY <2>1, ReadStringSome
  <2> QED
    BY <1>10, <2>2
<1>12. \A k \in 1..n : rest[k] = s[k]
  <2> TAKE k \in 1..n
  <2>1. k \in 1..Len(b)-i-4
    BY <1>1, <1>7
  <2>2. b[i + 4 + k] = s[k]
    BY <1>7 DEF Holds, n
  <2>3. rest[k] = b[i + 4 + k]
    BY <1>6, <2>1
  <2> QED
    BY <2>2, <2>3
<1>13. rest[n + 1] = 0
  <2>1. n + 1 \in 1..Len(b)-i-4 /\ i + 4 + (n + 1) = i + 5 + n
    BY <1>1, <1>7
  <2> DEFINE z == n + 1
  <2>3. z \in 1..Len(b)-i-4
    BY <2>1
  <2> HIDE DEF z
  <2>4. rest[z] = b[i + 4 + z]
    BY <1>6, <2>3, SMTT(30)
  <2>2. rest[n + 1] = b[i + 4 + (n + 1)]
    BY <2>4 DEF z
  <2> QED
    BY <1>7, <2>1, <2>2
<1>14. EndsAt(rest, n)
  BY <1>8, <1>12, <1>13 DEF EndsAt
<1>15. UpToZero(rest) = n
  BY <1>6, <1>7, <1>14, UpToZeroIs
<1>16. SubSeq(rest, 1, n) = s
  <2>1. n <= Len(rest)
    BY <1>1, <1>6, <1>7
  <2> DEFINE u == SubSeq(rest, 1, n)
  <2>2. u \in Seq(Octet) /\ Len(u) = n /\ \A k \in 1..n : u[k] = rest[k]
    BY <1>1, <1>6, <2>1
  <2> HIDE DEF u
  <2>4. \A k \in 1..Len(u) : u[k] = s[k]
    BY <1>12, <2>2
  <2>5. Len(u) = Len(s) /\ u \in Seq(Octet)
    BY <2>2 DEF n
  <2>6. u = s
    BY ONLY <1>8, <2>4, <2>5, SeqSame
  <2> QED
    BY <2>6 DEF u
<1> QED
  BY <1>11, <1>15, <1>16 DEF p

\* Bytes are read as they were written.
LEMMA TakeBinary ==
  ASSUME NEW b \in Seq(Octet), NEW i \in Nat, NEW s \in Seq(Octet), i + 4 + Len(s) <= Len(b), NEW max \in Nat,
         Len(s) <= max, max <= 32768, Holds(b, i, Bytes(Len(s), 4)), Holds(b, i + 4, s)
  PROVE  ReadBinary(At(b, i), max).val = s
<1> DEFINE n == Len(s)
           q == At(b, i + 4)
           j == i + 4
<1>1. n \in Nat /\ Len(b) \in Nat /\ n \in Int32 /\ j \in Nat /\ j + n <= Len(b)
  BY DEF Int32
<1>2. ReadInt(At(b, i)) = [val |-> n, p |-> q]
  <2>1. i + 4 <= Len(b)
    BY <1>1
  <2> QED
    BY <1>1, <2>1, TakeInt
<1>3. q.pos = j /\ q.buf = b /\ At(b, i).buf = b
  BY DEF At
<1>4. Readable(q, n) /\ n # -1 /\ ~ (n > max)
  BY <1>1, <1>3 DEF Readable
<1>5. ReadBinary(At(b, i), max) = [ok |-> TRUE, val |-> Slice(b, j, n)]
  <2>2. ReadInt(At(b, i)).val = n /\ ReadInt(At(b, i)).p = q
    BY <1>2
  <2> DEFINE p == At(b, i)
  <2>3. ~ (ReadInt(p).val = -1 \/ ReadInt(p).val > max) /\ Readable(ReadInt(p).p, ReadInt(p).val)
    BY <1>4, <2>2
  <2>4. Slice(p.buf, ReadInt(p).p.pos, ReadInt(p).val) = Slice(b, j, n)
    BY <1>3, <2>2
  <2> HIDE DEF q, n, j, p
  <2>5. ReadBinary(p, max) = [ok |-> TRUE, val |-> Slice(p.buf, ReadInt(p).p.pos, ReadInt(p).val)]
    BY <2>3 DEF ReadBinary
  <2> QED
    BY <2>4, <2>5 DEF p
<1> HIDE DEF j
<1>6. Slice(b, j, n) \in Seq(Octet) /\ Len(Slice(b, j, n)) = n /\ \A k \in 1..n : Slice(b, j, n)[k] = b[j + k]
  <2> HIDE DEF n
  <2>1. b \in Seq(Octet) /\ n \in Nat /\ j \in Nat /\ j + n <= Len(b)
    BY <1>1
  <2> QED
    BY ONLY <2>1, SliceIs, ZenonT(30)
<1>7. \A k \in 1..n : b[j + k] = s[k]
  BY DEF Holds, j
<1>8. Slice(b, j, n) = s
  <2> DEFINE u == Slice(b, j, n)
  <2>1. u \in Seq(Octet) /\ s \in Seq(Octet) /\ Len(u) = Len(s) /\ \A k \in 1..Len(u) : u[k] = s[k]
    BY <1>6, <1>7
  <2> HIDE DEF u
  <2>2. u = s
    BY ONLY <2>1, SeqSame
  <2> QED
    BY <2>2 DEF u
<1> QED
  BY <1>5, <1>8

-----------------------------------------------------------------------------
(* Sessions. *)

\* The parts of a copied packet.
LEMMA CopyParts ==
  ASSUME NEW b \in Seq(Octet)
  PROVE  Copy(b) \in Packet /\ Copy(b).buf = b /\ Copy(b).pos = 9 /\ Copy(b).checked = FALSE
<1>1. Copy(b) \in Packet /\ Copy(b) = [buf |-> b, pos |-> 9, checked |-> FALSE]
  BY CopyIs
<1> QED
  BY <1>1

Fields == {"r", "skipped", "uid", "api", "tid", "addr", "port", "count", "ipmap", "users",
           "timer", "debug", "toAlloc", "toGame", "toClient", "policy", "stage"}
IsSession(s) == s = [x \in Fields |-> s[x]]

\* t is s but for some fields.
Kept(t, s, changed) == IsSession(t) /\ \A x \in Fields \ changed : t[x] = s[x]

\* Assigning one field of a session changes that field only.
LEMMA SetField ==
  ASSUME NEW s, IsSession(s), NEW x \in Fields, NEW v
  PROVE  LET t == [s EXCEPT ![x] = v] IN Kept(t, s, {x}) /\ t[x] = v
<1> DEFINE t == [s EXCEPT ![x] = v]
<1>1. DOMAIN s = Fields
  BY DEF IsSession
<1>2. t = [y \in Fields |-> IF y = x THEN v ELSE s[y]]
  BY <1>1
<1> HIDE DEF t
<1>3. t[x] = v /\ \A y \in Fields : y # x => t[y] = s[y]
  BY <1>2
<1>4. IsSession(t)
  BY <1>2 DEF IsSession
<1> QED
  BY <1>3, <1>4 DEF t, Kept

\* Two changes to a session touch the fields either touches.
LEMMA KeptTrans ==
  ASSUME NEW s, NEW t, NEW u, NEW A, NEW B, Kept(t, s, A), Kept(u, t, B)
  PROVE  Kept(u, s, A \cup B)
BY DEF Kept

\* A session that fails changes its stage only.
LEMMA FatalIs ==
  ASSUME NEW s, IsSession(s)
  PROVE  Kept(Fatal(s), s, {"stage"}) /\ Fatal(s).stage = "fatal"
<1> DEFINE x == "stage"
           t == [s EXCEPT ![x] = "fatal"]
<1>1. x \in Fields
  BY DEF Fields
<1>2. Fatal(s) = t
  BY DEF Fatal
<1>3. t.stage = t[x]
  OBVIOUS
<1> HIDE DEF x
<1>4. Kept(t, s, {x}) /\ t[x] = "fatal"
  BY <1>1, SetField
<1> HIDE DEF t
<1> QED
  BY <1>2, <1>3, <1>4 DEF x

\* A reply adds one packet to the client's stream and changes nothing else.
LEMMA ReplyIs ==
  ASSUME NEW s, IsSession(s), NEW p
  PROVE  Kept(Reply(s, p), s, {"toClient"}) /\ Reply(s, p).toClient = Append(s.toClient, p.buf)
<1> DEFINE x == "toClient"
           v == Append(s.toClient, p.buf)
           t == [s EXCEPT ![x] = v]
<1>1. x \in Fields
  BY DEF Fields
<1>2. Reply(s, p) = t
  BY DEF Reply
<1>3. t.toClient = t[x]
  OBVIOUS
<1> HIDE DEF x, v
<1>4. Kept(t, s, {x}) /\ t[x] = v
  BY <1>1, SetField
<1> HIDE DEF t
<1> QED
  BY <1>2, <1>3, <1>4 DEF x, v

-----------------------------------------------------------------------------
(* What is built to be sent. *)

Built(p, cmd) == p \in Packet /\ Len(p.buf) >= 9 /\ Len(p.buf) <= PACKET_BUFFER_SIZE /\ GetCmdType(p) = cmd

\* A packet just begun holds its command and a bare header.
LEMMA Started ==
  ASSUME NEW cmd \in Int16
  PROVE  Built(Begin(cmd), cmd) /\ Len(Begin(cmd).buf) = 9 /\ Begin(cmd).pos = 9 /\ Begin(cmd).checked = FALSE
<1> DEFINE p == Begin(cmd)
           i == 6
<1>1. /\ p \in Packet /\ Len(p.buf) = 9 /\ p.pos = 9 /\ p.checked = FALSE
      /\ p.buf[7] = Bytes(cmd, 2)[1] /\ p.buf[8] = Bytes(cmd, 2)[2]
  BY BeginIs
<1>2. i \in Nat /\ i + 2 <= 9 /\ i + 1 = 7 /\ i + 2 = 8
  OBVIOUS
<1>3. GetCmdType(p) = Number(Slice(p.buf, i, 2))
  BY DEF GetCmdType
<1> HIDE DEF i, p
<1>4. i + 2 <= Len(p.buf) /\ p.buf[i + 1] = Bytes(cmd, 2)[1] /\ p.buf[i + 2] = Bytes(cmd, 2)[2]
  BY <1>1, <1>2
<1>5. Number(Slice(p.buf, i, 2)) = cmd
  BY <1>1, <1>2, <1>4, ShortAt
<1>6. Len(p.buf) >= 9 /\ Len(p.buf) <= PACKET_BUFFER_SIZE
  BY <1>1, Sizes
<1> QED
  BY <1>1, <1>3, <1>5, <1>6 DEF Built, p

\* A packet being built still holds its command after a write.
LEMMA BuiltGrown ==
  ASSUME NEW p, NEW q, NEW cmd, Built(p, cmd), Grown(q, p)
  PROVE  Built(q, cmd) /\ (p.checked = FALSE => q.checked = FALSE)
<1>1. /\ p \in Packet /\ q \in Packet /\ Len(p.buf) \in Nat /\ Len(q.buf) \in Nat /\ Len(p.buf) >= 9
      /\ Len(p.buf) <= Len(q.buf) /\ Len(q.buf) <= PACKET_BUFFER_SIZE /\ q.checked = p.checked
      /\ \A i \in 1..Len(p.buf) : q.buf[i] = p.buf[i]
  BY PacketParts DEF Built, Grown
<1>2. 7 \in 1..Len(p.buf) /\ 8 \in 1..Len(p.buf) /\ Len(q.buf) >= 9
  BY <1>1
<1>3. q.buf[7] = p.buf[7] /\ q.buf[8] = p.buf[8]
  BY <1>1, <1>2
<1>4. GetCmdType(q) = GetCmdType(p)
  BY <1>1, <1>2, <1>3, SameHeader
<1> QED
  BY <1>1, <1>2, <1>4 DEF Built

\* Deciphering leaves the command of a packet alone: it is in the header.
LEMMA DecryptCmd ==
  ASSUME NEW p \in Packet, Len(p.buf) >= 9
  PROVE  GetCmdType(Decrypt(p)) = GetCmdType(p) /\ Decrypt(p) \in Packet /\ Len(Decrypt(p).buf) = Len(p.buf)
<1> DEFINE d == Decrypt(p)
<1>1. d \in Packet /\ Len(d.buf) = Len(p.buf) /\ \A i \in 1..9 : d.buf[i] = p.buf[i]
  BY DecryptIs
<1> HIDE DEF d
<1>2. d.buf[7] = p.buf[7] /\ d.buf[8] = p.buf[8] /\ Len(d.buf) >= 9
  <2>1. 7 \in 1..9 /\ 8 \in 1..9
    OBVIOUS
  <2> QED
    BY <1>1, <2>1
<1>3. GetCmdType(d) = GetCmdType(p)
  BY <1>1, <1>2, SameHeader
<1> QED
  BY <1>1, <1>3 DEF d

\* What can be sent to a client: a proper packet.
Sendable(b) == b \in Seq(Octet) /\ Len(b) >= 9 /\ Proper(b)

Silent == {c \in Int16 : c \notin {SERVER_COMMAND_LOGOUT_SUCCESS, SERVER_COMMAND_CHANGE_GAMESERVER,
                                   CMD_GET_NEW_ROOM, SERVER_CMD_ENTER_ROOM, SERVER_CMD_LOGIN_SUCCESS}}

\* Packets of the silent commands tell the client nothing about its table.
LEMMA SilentTells ==
  ASSUME NEW b \in Seq(Octet), Len(b) >= 9, Command(b) \in Silent
  PROVE  Told(b) = <<>>
<1> DEFINE p == Copy(b)
           cmd == GetCmdType(Decrypt(p))
<1>1. p \in Packet /\ p.buf = b
  BY CopyParts
<1>2. cmd = Command(b)
  BY <1>1, DecryptCmd DEF Command
<1> HIDE DEF p, cmd
<1>3. /\ cmd # SERVER_COMMAND_LOGOUT_SUCCESS /\ cmd # SERVER_COMMAND_CHANGE_GAMESERVER
      /\ cmd # CMD_GET_NEW_ROOM /\ cmd # SERVER_CMD_ENTER_ROOM /\ cmd # SERVER_CMD_LOGIN_SUCCESS
  BY <1>2 DEF Silent
<1> QED
  BY <1>3 DEF Told, p, cmd

\* The client that deciphers a packet sealed by EncryptBuffer finds the body that was
\* written.
LEMMA SealedReply ==
  ASSUME NEW p, NEW cmd, Built(p, cmd)
  PROVE  LET b == Encrypt(End(p)).buf
         IN /\ Sendable(b) /\ Command(b) = cmd /\ Len(b) = Len(p.buf)
            /\ Decrypt(Copy(b)) \in Packet /\ Decrypt(Copy(b)).pos = 9 /\ Decrypt(Copy(b)).checked = FALSE
            /\ Len(Decrypt(Copy(b)).buf) = Len(p.buf)
            /\ \A i \in 10..Len(p.buf) : Decrypt(Copy(b)).buf[i] = p.buf[i]
<1> DEFINE b == Encrypt(End(p)).buf
           q == Copy(b)
           d == Decrypt(q)
<1>1. p \in Packet /\ Len(p.buf) >= 9 /\ Len(p.buf) <= PACKET_BUFFER_SIZE /\ GetCmdType(p) = cmd
  BY DEF Built
<1>2. /\ b \in Seq(Octet) /\ Len(b) = Len(p.buf) /\ Whole(q) /\ Verifies(q)
      /\ d \in Packet /\ d.pos = 9 /\ Len(d.buf) = Len(p.buf)
      /\ \A i \in 10..Len(p.buf) : d.buf[i] = p.buf[i]
      /\ GetCmdType(q) = GetCmdType(p) /\ GetCmdType(d) = GetCmdType(p)
  BY <1>1, SealOpens
<1> HIDE DEF b
<1>3. q \in Packet /\ q.buf = b /\ q.checked = FALSE
  BY <1>2, CopyParts
<1>4. Command(b) = cmd
  BY <1>1, <1>2 DEF Command
<1> HIDE DEF q
<1>5. d.checked = FALSE
  BY <1>1, <1>2, <1>3, DecryptIs
<1> HIDE DEF d
<1>6. Len(b) = 2 + GetBodyLength(q)
  <2>1. Len(p.buf) \in Nat
    BY <1>1, PacketParts
  <2> QED
    BY <1>2, <1>3, <2>1 DEF Whole
<1>7. Sendable(b)
  BY <1>1, <1>2, <1>6 DEF Sendable, Proper, q
<1> QED
  BY <1>2, <1>4, <1>5, <1>7 DEF b, q, d

-----------------------------------------------------------------------------
(* What a handler may do. *)

Address == {a \in Seq(Letter) : Len(a) + 22 <= PACKET_BUFFER_SIZE}
IsCounts(c) == \A l \in DOMAIN c : c[l] \in Nat /\ c[l] <= 32767
IpMaps == {IpStart, Updated(IpStart, IpFile)}

SessionOK(s) ==
  /\ IsSession(s)
  /\ s.uid \in Int32 /\ s.api \in Int16 /\ s.tid \in Int32
  /\ s.tid > 0 => s.addr \in Address /\ s.port \in Int32
  /\ IsCounts(s.count)
  /\ IsFiniteSet(s.users)
  /\ s.ipmap \in IpMaps
  /\ s.stage \in {"open", "fatal"}

\* What a client is sent: a proper packet with true counts that tells it nothing of a
\* table but where it is.
CountsFit(b) == 11 + 4 * LevelsIn(b) <= PACKET_BUFFER_SIZE => CountsTrue(b)
Good(b) == Sendable(b) /\ (Command(b) = CMD_GET_ROOM_LEVER_NUM => CountsFit(b))
Answered(t, s) ==
  \/ t.toClient = s.toClient
  \/ \E b : Good(b) /\ Told(b) \in {<<>>, <<s.tid, s.addr>>} /\ t.toClient = Append(s.toClient, b)

\* The packet append_pkg makes.
WrapOf(uid, api, bytes) ==
  End(WriteBinary(WriteShort(WriteInt(WriteInt(WriteInt(Begin(CLIENT_PACKET2), uid), Self), Ip), api), bytes)).buf

Nothing(t, s, pkg) ==
  /\ t.toAlloc = s.toAlloc /\ t.toGame = s.toGame
  /\ t.stage = "open" =>
       /\ t.uid = s.uid /\ t.api = s.api
       /\ ForGame(pkg) => ByTable(pkg)
       /\ reachable /\ ForAlloc(pkg) => ByTable(pkg)

OneToAlloc(t, s, pkg) ==
  /\ t.stage = "open" /\ reachable /\ ForAlloc(pkg) /\ ~ ForGame(pkg)
  /\ t.uid > 0 /\ t.toAlloc = Append(s.toAlloc, WrapOf(t.uid, t.api, pkg)) /\ t.toGame = s.toGame
  /\ IF Command(pkg) = CLIENT_CMD_CLIENT_LOGIN THEN <<t.uid, t.api>> = Named(pkg)
     ELSE t.uid = s.uid /\ t.api = s.api

OneToGame(t, s, pkg) ==
  /\ t.stage = "open" /\ ForGame(pkg) /\ ~ ForAlloc(pkg)
  /\ t.uid = s.uid /\ t.api = s.api /\ t.toAlloc = s.toAlloc
  /\ \/ t.toGame = Append(s.toGame, pkg)
     \/ \E x \in Seq(Octet) : Command(x) = SERVER_CMD_SET_IP /\ t.toGame = Append(Append(s.toGame, pkg), x)

Same(t, s) == t.r = s.r /\ t.skipped = s.skipped /\ t.tid = s.tid /\ t.addr = s.addr
Effect(t, s, pkg) ==
  /\ SessionOK(t) /\ Same(t, s) /\ Answered(t, s)
  /\ Nothing(t, s, pkg) \/ OneToAlloc(t, s, pkg) \/ OneToGame(t, s, pkg)

\* A whole packet of a client.
Frame(pkg) ==
  /\ pkg \in Seq(Octet) /\ Len(pkg) >= 9 /\ Len(pkg) <= MaxPacket /\ Whole(Copy(pkg))
  /\ Command(pkg) = CMD_GET_NEW_ROOM => Verifies(Copy(pkg))
  /\ Command(pkg) = SERVER_BROADCAST_INFO => TextsForward(pkg)

\* A handler that sends nothing to a server.
Idle == {"timer", "debug", "ipmap", "count", "toClient", "stage"}
\* A command that forwards nothing and answers the client at most keeps the session
\* sound.
LEMMA IdleEffect ==
  ASSUME NEW s, SessionOK(s), NEW t, Kept(t, s, Idle), NEW pkg,
         IsCounts(t.count), t.ipmap \in IpMaps, t.stage \in {"open", "fatal"}, Answered(t, s),
         t.stage = "open" => (ForGame(pkg) => ByTable(pkg)) /\ (ForAlloc(pkg) => ByTable(pkg))
  PROVE  Effect(t, s, pkg)
<1>1. /\ t.r = s.r /\ t.skipped = s.skipped /\ t.uid = s.uid /\ t.api = s.api /\ t.tid = s.tid /\ t.addr = s.addr
      /\ t.port = s.port /\ t.users = s.users /\ t.toAlloc = s.toAlloc /\ t.toGame = s.toGame
  <2>1. \A x \in {"r", "skipped", "uid", "api", "tid", "addr", "port", "users", "toAlloc", "toGame"} : x \in Fields \ Idle
    BY DEF Fields, Idle
  <2>2. \A x \in {"r", "skipped", "uid", "api", "tid", "addr", "port", "users", "toAlloc", "toGame"} : t[x] = s[x]
    BY <2>1 DEF Kept
  <2> QED
    BY <2>2
<1>2. SessionOK(t)
  BY <1>1 DEF SessionOK, Kept
<1>3. Nothing(t, s, pkg)
  BY <1>1 DEF Nothing
<1> QED
  BY <1>1, <1>2, <1>3 DEF Effect, Same

\* A command that ends the session in failure keeps it sound and forwards nothing.
LEMMA FatalEffect ==
  ASSUME NEW s, SessionOK(s), NEW pkg
  PROVE  Effect(Fatal(s), s, pkg)
<1> DEFINE t == Fatal(s)
<1>1. Kept(t, s, {"stage"}) /\ t.stage = "fatal"
  BY FatalIs DEF SessionOK
<1> HIDE DEF t
<1>2. Kept(t, s, Idle)
  BY <1>1 DEF Kept, Idle
<1>3. t.count = s.count /\ t.ipmap = s.ipmap /\ t.toClient = s.toClient
  <2>1. "count" \in Fields \ {"stage"} /\ "ipmap" \in Fields \ {"stage"} /\ "toClient" \in Fields \ {"stage"}
    BY DEF Fields
  <2> QED
    BY <1>1, <2>1 DEF Kept
<1>4. Effect(t, s, pkg)
  BY <1>1, <1>2, <1>3, IdleEffect DEF SessionOK, Answered
<1> QED
  BY <1>4 DEF t

\* A packet of the proxy's own to the client.
LEMMA ReplyEffect ==
  ASSUME NEW s, SessionOK(s), s.stage = "open", NEW p, NEW pkg, Good(p.buf), Told(p.buf) \in {<<>>, <<s.tid, s.addr>>},
         (ForGame(pkg) => ByTable(pkg)) /\ (ForAlloc(pkg) => ByTable(pkg))
  PROVE  Effect(Reply(s, p), s, pkg)
<1> DEFINE t == Reply(s, p)
<1>1. Kept(t, s, {"toClient"}) /\ t.toClient = Append(s.toClient, p.buf)
  BY ReplyIs DEF SessionOK
<1> HIDE DEF t
<1>2. Kept(t, s, Idle)
  BY <1>1 DEF Kept, Idle
<1>3. t.count = s.count /\ t.ipmap = s.ipmap /\ t.stage = s.stage
  <2>1. "count" \in Fields \ {"toClient"} /\ "ipmap" \in Fields \ {"toClient"} /\ "stage" \in Fields \ {"toClient"}
    BY DEF Fields
  <2> QED
    BY <1>1, <2>1 DEF Kept
<1>4. Answered(t, s)
  BY <1>1 DEF Answered
<1>5. Effect(t, s, pkg)
  BY <1>2, <1>3, <1>4, IdleEffect DEF SessionOK
<1> QED
  BY <1>5 DEF t

\* A command the proxy drops keeps the session sound.
LEMMA NoEffect ==
  ASSUME NEW s, SessionOK(s), s.stage = "open", NEW pkg,
         (ForGame(pkg) => ByTable(pkg)) /\ (ForAlloc(pkg) => ByTable(pkg))
  PROVE  Effect(s, s, pkg)
<1>1. Kept(s, s, Idle)
  BY DEF Kept, SessionOK
<1> QED
  BY <1>1, IdleEffect DEF SessionOK, Answered

\* Commands of the proxy are for no server.
LEMMA OwnCommands ==
  ASSUME NEW pkg, Command(pkg) \in Int,
         Command(pkg) \in {CLIENT_COMMAND_BREAK_TIME, SERVER_GET_PLAYER_COUNT, SERVER_BROADCAST_INFO,
                           CLINET_REQUEST_BROADCAST_INFO, SYS_OPEN_DEBUG, SYS_RELOAD_IP_MAP,
                           SYS_RESET_CONNECT_TIMER, CMD_GET_ROOM_LEVER_NUM}
  PROVE  ~ ForGame(pkg) /\ ~ ForAlloc(pkg)
BY DEF ForGame, ForAlloc, CLIENT_COMMAND_BREAK_TIME, SERVER_GET_PLAYER_COUNT, SERVER_BROADCAST_INFO,
       CLINET_REQUEST_BROADCAST_INFO, SYS_OPEN_DEBUG, SYS_RELOAD_IP_MAP, SYS_RESET_CONNECT_TIMER,
       CMD_GET_ROOM_LEVER_NUM, CMD_SEPARATE

-----------------------------------------------------------------------------
(* The handlers. *)

\* The answer to CLIENT_COMMAND_BREAK_TIME keeps the session sound.
LEMMA BreakTimeEffect ==
  ASSUME NEW s, SessionOK(s), s.stage = "open", NEW pkg, ~ ForGame(pkg), ~ ForAlloc(pkg)
  PROVE  Effect(BreakTime(s), s, pkg)
<1> DEFINE c == SERVER_COMMAND_BREAK_TIME
           p == Begin(c)
           e == End(p)
           b == e.buf
           q == Copy(b)
<1>1. c \in Int16 /\ c \in Silent /\ c # CMD_GET_ROOM_LEVER_NUM
  BY DEF Int16, Silent, SERVER_COMMAND_BREAK_TIME, SERVER_COMMAND_LOGOUT_SUCCESS, SERVER_COMMAND_CHANGE_GAMESERVER,
         CMD_GET_NEW_ROOM, SERVER_CMD_ENTER_ROOM, SERVER_CMD_LOGIN_SUCCESS, CMD_GET_ROOM_LEVER_NUM
<1>2. BreakTime(s) = Reply(s, e)
  BY DEF BreakTime
<1>12. \A x : x = SERVER_COMMAND_BREAK_TIME <=> x = c
  OBVIOUS
<1> HIDE DEF c
<1>3. p \in Packet /\ Len(p.buf) >= 9 /\ Len(p.buf) <= PACKET_BUFFER_SIZE /\ GetCmdType(p) = c
  BY <1>1, Started DEF Built
<1> HIDE DEF p
<1>4. /\ e \in Packet /\ Len(e.buf) = Len(p.buf) /\ Whole(e)
      /\ \A i \in 1..Len(p.buf) : i # 1 /\ i # 2 /\ i # 9 => e.buf[i] = p.buf[i]
  BY <1>3, EndIs, EndWhole
<1>5. b \in Seq(Octet) /\ Len(b) >= 9 /\ Len(p.buf) \in Nat
  BY <1>3, <1>4, PacketParts
<1>6. q \in Packet /\ q.buf = b
  BY <1>5, CopyParts
<1> HIDE DEF q, e
<1>7. Command(b) = c
  <2>1. 7 \in 1..Len(p.buf) /\ 8 \in 1..Len(p.buf) /\ 7 # 1 /\ 7 # 2 /\ 7 # 9 /\ 8 # 1 /\ 8 # 2 /\ 8 # 9
    BY <1>3, <1>5
  <2>2. q.buf[7] = p.buf[7] /\ q.buf[8] = p.buf[8]
    BY <1>4, <1>6, <2>1
  <2>3. GetCmdType(q) = GetCmdType(p)
    BY <1>3, <1>5, <1>6, <2>2, SameHeader
  <2> QED
    BY <1>3, <2>3 DEF Command, q
<1>8. Len(b) = 2 + GetBodyLength(q)
  <2>1. GetBodyLength(q) = GetBodyLength(e)
    BY <1>4, <1>5, <1>6, SameHeader
  <2> QED
    BY <1>4, <1>5, <2>1 DEF Whole
<1>9. Sendable(b)
  <2>1. ~ (Command(b) # SERVER_COMMAND_BREAK_TIME)
    BY <1>7, <1>12
  <2> QED
    BY <1>5, <1>8, <2>1 DEF Sendable, Proper, q
<1>10. Told(b) = <<>>
  BY <1>1, <1>5, <1>7, SilentTells
<1>11. Good(b)
  BY <1>1, <1>7, <1>9 DEF Good
<1> QED
  BY <1>2, <1>10, <1>11, ReplyEffect

\* A reply with a command that is not about tables or levels.
LEMMA PlainReply ==
  ASSUME NEW s, SessionOK(s), s.stage = "open", NEW p, NEW cmd \in Silent, cmd # CMD_GET_ROOM_LEVER_NUM, Built(p, cmd),
         NEW pkg, ~ ForGame(pkg), ~ ForAlloc(pkg)
  PROVE  Effect(Reply(s, Encrypt(End(p))), s, pkg)
<1> DEFINE b == Encrypt(End(p)).buf
<1>1. Sendable(b) /\ Command(b) = cmd
  BY SealedReply
<1> HIDE DEF b
<1>2. Told(b) = <<>>
  BY <1>1, SilentTells DEF Sendable
<1>3. Good(b)
  BY <1>1 DEF Good
<1> QED
  BY <1>2, <1>3, ReplyEffect DEF b

\* ProcGetUserCount answers and keeps the session sound.
LEMMA UserCountEffect ==
  ASSUME NEW s, SessionOK(s), s.stage = "open", NEW pkg, ~ ForGame(pkg), ~ ForAlloc(pkg)
  PROVE  Effect(ProcGetUserCount(s, Copy(pkg)), s, pkg)
<1> DEFINE c == SERVER_GET_PLAYER_COUNT
           k == Cardinality(s.users)
           p == WriteInt(Begin(c), k)
           q == WriteInt(p, Self)
<1>1. c \in Int16 /\ c \in Silent /\ c # CMD_GET_ROOM_LEVER_NUM
  BY DEF Int16, Silent, SERVER_GET_PLAYER_COUNT, SERVER_COMMAND_LOGOUT_SUCCESS, SERVER_COMMAND_CHANGE_GAMESERVER,
         CMD_GET_NEW_ROOM, SERVER_CMD_ENTER_ROOM, SERVER_CMD_LOGIN_SUCCESS, CMD_GET_ROOM_LEVER_NUM
<1>2. ProcGetUserCount(s, Copy(pkg)) \in {Fatal(s), Reply(s, Encrypt(End(q)))}
  BY DEF ProcGetUserCount
<1> HIDE DEF c
<1>3. k \in Int /\ Self \in Int
  BY FS_CardinalityType, LimitsAssumption DEF SessionOK, Int32
<1> HIDE DEF k
<1>4. Built(Begin(c), c)
  BY <1>1, Started
<1>5. Built(p, c)
  <2>1. Grown(p, Begin(c))
    BY <1>3, <1>4, WriteIntIs DEF Built
  <2> QED
    BY <1>4, <2>1, BuiltGrown
<1> HIDE DEF p
<1>6. Built(q, c)
  <2>1. Grown(q, p)
    BY <1>3, <1>5, WriteIntIs DEF Built
  <2> QED
    BY <1>5, <2>1, BuiltGrown
<1> HIDE DEF q
<1>7. Effect(Reply(s, Encrypt(End(q))), s, pkg)
  BY <1>1, <1>6, PlainReply
<1> QED
  BY <1>2, <1>7, FatalEffect

\* The object a frame from a client is copied into.
LEMMA FrameIs ==
  ASSUME NEW pkg, Frame(pkg)
  PROVE  /\ Copy(pkg) \in Packet /\ Copy(pkg).buf = pkg /\ Copy(pkg).pos = 9 /\ Copy(pkg).checked = FALSE
         /\ Len(Copy(pkg).buf) >= 9 /\ Len(pkg) \in Nat
         /\ Decrypt(Copy(pkg)) \in Packet /\ Decrypt(Copy(pkg)).checked = FALSE
         /\ Command(pkg) \in Int16
<1> DEFINE q == Copy(pkg)
<1>1. pkg \in Seq(Octet) /\ Len(pkg) >= 9 /\ Len(pkg) \in Nat
  BY DEF Frame
<1>2. q \in Packet /\ q.buf = pkg /\ q.pos = 9 /\ q.checked = FALSE
  BY <1>1, CopyParts
<1>3. Command(pkg) = GetCmdType(q)
  BY DEF Command
<1> HIDE DEF q
<1>4. Decrypt(q) \in Packet /\ Decrypt(q).checked = FALSE
  BY <1>1, <1>2, DecryptIs
<1>5. GetCmdType(q) \in Int16
  BY <1>1, <1>2, SameHeader
<1> QED
  BY <1>1, <1>2, <1>3, <1>4, <1>5 DEF q

\* A broadcast request keeps the session sound.
LEMMA BroadcastEffect ==
  ASSUME NEW s, SessionOK(s), s.stage = "open", NEW pkg, Frame(pkg), ~ ForGame(pkg), ~ ForAlloc(pkg),
         Command(pkg) \in {SERVER_BROADCAST_INFO, CLINET_REQUEST_BROADCAST_INFO}
  PROVE  Effect(Broadcast(s, Copy(pkg), Command(pkg)), s, pkg)
<1> DEFINE d == Decrypt(Copy(pkg))
           key == ReadString(d)
           type == ReadShort(key.p)
           text == ReadString(type.p).val
           one == SERVER_BROADCAST_INFO_NEW
           two == CLINET_REQUEST_BROADCAST_INFO
           p1 == WriteString(WriteShort(Begin(one), type.val), text)
           p2 == WriteString(Begin(two), key.val)
           t == Broadcast(s, Copy(pkg), Command(pkg))
<1>1. /\ one \in Int16 /\ one \in Silent /\ one # CMD_GET_ROOM_LEVER_NUM
      /\ two \in Int16 /\ two \in Silent /\ two # CMD_GET_ROOM_LEVER_NUM
  BY DEF Int16, Silent, SERVER_BROADCAST_INFO_NEW, CLINET_REQUEST_BROADCAST_INFO, SERVER_COMMAND_LOGOUT_SUCCESS,
         SERVER_COMMAND_CHANGE_GAMESERVER, CMD_GET_NEW_ROOM, SERVER_CMD_ENTER_ROOM, SERVER_CMD_LOGIN_SUCCESS,
         CMD_GET_ROOM_LEVER_NUM
<1>2. /\ t \in {Fatal(s), s} \/ (Command(pkg) = SERVER_BROADCAST_INFO /\ t = Reply(s, Encrypt(End(p1))))
         \/ t = Reply(s, Encrypt(End(p2)))
  BY DEF Broadcast
<1>3. d \in Packet
  BY FrameIs
<1>4. key.val \in Seq(Octet)
  BY <1>3, ReadStringIs
<1>5. ASSUME Command(pkg) = SERVER_BROADCAST_INFO PROVE key.p \in Packet
  <2>1. ReadsText(pkg) = d
    <3>1. /\ Command(pkg) \notin {CMD_GET_NEW_ROOM, SERVER_COMMAND_CHANGE_GAMESERVER}
          /\ Command(pkg) # SERVER_CMD_ENTER_ROOM /\ Command(pkg) # SERVER_CMD_LOGIN_SUCCESS
      BY <1>5 DEF SERVER_BROADCAST_INFO, CMD_GET_NEW_ROOM, SERVER_COMMAND_CHANGE_GAMESERVER, SERVER_CMD_ENTER_ROOM,
                  SERVER_CMD_LOGIN_SUCCESS
    <3> QED
      BY <1>5, <3>1 DEF ReadsText
  <2>2. ReadInt(d).val >= -1
    BY <1>5, <2>1 DEF Frame, TextsForward
  <2> QED
    BY <1>3, <2>2, ReadStringIs
<1> HIDE DEF one, two, t, key
<1>6. ASSUME Command(pkg) = SERVER_BROADCAST_INFO PROVE Built(p1, one)
  <2> DEFINE u == WriteShort(Begin(one), type.val)
  <2>1. key.p \in Packet
    BY <1>5, <1>6
  <2>2. type.val \in Int /\ type.p \in Packet
    BY <2>1, ReadShortIs DEF Int16
  <2>3. text \in Seq(Octet)
    BY <2>2, ReadStringIs
  <2> HIDE DEF type, text
  <2>4. Built(Begin(one), one)
    BY <1>1, Started
  <2>5. Built(u, one)
    <3> DEFINE v == type.val
    <3>1. v \in Int
      BY <2>2
    <3> HIDE DEF v
    <3>2. Grown(WriteShort(Begin(one), v), Begin(one))
      BY <2>4, <3>1, WriteShortIs DEF Built
    <3> QED
      BY <2>4, <3>2, BuiltGrown DEF v
  <2> HIDE DEF u
  <2>6. Grown(WriteString(u, text), u)
    BY <2>3, <2>5, WriteStringIs DEF Built
  <2> QED
    BY <2>5, <2>6, BuiltGrown DEF u
<1>7. Built(p2, two)
  <2>1. Built(Begin(two), two)
    BY <1>1, Started
  <2>2. Grown(p2, Begin(two))
    BY <1>4, <2>1, WriteStringIs DEF Built
  <2> QED
    BY <2>1, <2>2, BuiltGrown
<1> HIDE DEF p1, p2, d
<1>8. Effect(Reply(s, Encrypt(End(p2))), s, pkg)
  BY <1>1, <1>7, PlainReply
<1>9. ASSUME Command(pkg) = SERVER_BROADCAST_INFO PROVE Effect(Reply(s, Encrypt(End(p1))), s, pkg)
  BY <1>1, <1>6, <1>9, PlainReply
<1>10. Effect(t, s, pkg)
  BY <1>2, <1>8, <1>9, FatalEffect, NoEffect
<1> QED
  BY <1>10 DEF t

\* The operator's commands change a switch, the timer or the map.
LEMMA MapKept ==
  ASSUME NEW m \in IpMaps
  PROVE  Updated(m, IpFile) \in IpMaps
<1>1. CASE m = IpStart
  BY <1>1 DEF IpMaps
<1>2. CASE m = Updated(IpStart, IpFile)
  <2>2. Updated(Updated(IpStart, IpFile), IpFile) = Updated(IpStart, IpFile)
    BY DEF Updated
  <2> QED
    BY <1>2, <2>2 DEF IpMaps
<1> QED
  BY <1>1, <1>2 DEF IpMaps

\* The administration commands that set a switch keep the session sound.
LEMMA SwitchEffect ==
  ASSUME NEW s, SessionOK(s), s.stage = "open", NEW pkg, ~ ForGame(pkg), ~ ForAlloc(pkg), NEW x \in {"timer", "debug"}, NEW v
  PROVE  Effect([s EXCEPT ![x] = v], s, pkg)
<1> DEFINE t == [s EXCEPT ![x] = v]
<1>1. x \in Fields /\ x \in Idle
  BY DEF Fields, Idle
<1>2. Kept(t, s, {x})
  BY <1>1, SetField DEF SessionOK
<1> HIDE DEF t
<1>3. Kept(t, s, Idle)
  BY <1>1, <1>2 DEF Kept
<1>4. t.count = s.count /\ t.ipmap = s.ipmap /\ t.toClient = s.toClient /\ t.stage = s.stage
  <2>1. \A y \in {"count", "ipmap", "toClient", "stage"} : y \in Fields \ {x}
    BY DEF Fields
  <2>2. \A y \in {"count", "ipmap", "toClient", "stage"} : t[y] = s[y]
    BY <1>2, <2>1 DEF Kept
  <2> QED
    BY <2>2
<1>5. Effect(t, s, pkg)
  BY <1>3, <1>4, IdleEffect DEF SessionOK, Answered
<1> QED
  BY <1>5 DEF t

\* Reloading the address map keeps the session sound.
LEMMA ReloadEffect ==
  ASSUME NEW s, SessionOK(s), s.stage = "open", NEW pkg, ~ ForGame(pkg), ~ ForAlloc(pkg)
  PROVE  Effect(ResetIpMap(s), s, pkg)
<1> DEFINE x == "ipmap"
           v == Updated(s.ipmap, IpFile)
           t == [s EXCEPT ![x] = v]
<1>1. x \in Fields /\ x \in Idle
  BY DEF Fields, Idle
<1>6. ResetIpMap(s) = t
  BY DEF ResetIpMap
<1>7. v \in IpMaps
  BY MapKept DEF SessionOK
<1>8. t.ipmap = t[x]
  OBVIOUS
<1>4a. \A y \in {"count", "toClient", "stage"} : y \in Fields \ {x}
  BY DEF Fields
<1> HIDE DEF x, v
<1>2. Kept(t, s, {x}) /\ t[x] = v
  BY <1>1, SetField DEF SessionOK
<1> HIDE DEF t
<1>3. Kept(t, s, Idle)
  BY <1>1, <1>2 DEF Kept
<1>4. t.count = s.count /\ t.toClient = s.toClient /\ t.stage = s.stage
  <2>2. \A y \in {"count", "toClient", "stage"} : t[y] = s[y]
    BY <1>2, <1>4a DEF Kept
  <2> QED
    BY <2>2
<1>5. Effect(t, s, pkg)
  BY <1>2, <1>3, <1>4, <1>7, <1>8, IdleEffect DEF SessionOK, Answered
<1> QED
  BY <1>5, <1>6

\* An administration command, whichever it is and allowed or not, keeps the session
\* sound.
LEMMA AdminEffect ==
  ASSUME NEW s, SessionOK(s), s.stage = "open", NEW pkg, ~ ForGame(pkg), ~ ForAlloc(pkg), NEW req, NEW cmd
  PROVE  Effect(Admin(s, req, cmd), s, pkg)
<1>1. \E v : Admin(s, req, cmd) \in {Fatal(s), [s EXCEPT !.debug = v], [s EXCEPT !.timer = v], ResetIpMap(s)}
  BY DEF Admin
<1>2. PICK v : Admin(s, req, cmd) \in {Fatal(s), [s EXCEPT !.debug = v], [s EXCEPT !.timer = v], ResetIpMap(s)}
  BY <1>1
<1>3. Effect([s EXCEPT !.debug = v], s, pkg) /\ Effect([s EXCEPT !.timer = v], s, pkg)
  BY SwitchEffect
<1> QED
  BY <1>2, <1>3, FatalEffect, ReloadEffect

-----------------------------------------------------------------------------
(* What append_pkg wraps is unwrapped again. *)

\* The buffer c has the body that b has.
Carries(c, b) == \A k \in 10..Len(b) : c[k] = b[k]

\* Bytes written into a packet are in what is sent of it.
LEMMA HoldsLast ==
  ASSUME NEW q \in Packet, NEW r \in Packet, Grown(r, q), NEW s \in Seq(Octet), NEW i \in Nat, i >= 9,
         Holds(q.buf, i, s), i + Len(s) <= Len(q.buf), NEW c, Carries(c, r.buf)
  PROVE  Holds(c, i, s)
<1>1. Len(q.buf) \in Nat /\ Len(r.buf) \in Nat /\ Len(s) \in Nat /\ Len(q.buf) <= Len(r.buf)
  BY PacketParts DEF Grown
<1>2. Holds(r.buf, i, s)
  BY HoldsGrown
<1>3. \A k \in 1..Len(s) : i + k \in 10..Len(r.buf)
  BY <1>1
<1> QED
  BY <1>2, <1>3 DEF Holds, Carries

\* WriteInt at the end of a packet of known length.
LEMMA AddInt ==
  ASSUME NEW p \in Packet, NEW i \in Nat, Len(p.buf) = i, NEW j \in Nat, j = i + 4, j <= PACKET_BUFFER_SIZE, NEW n \in Int
  PROVE  LET q == WriteInt(p, n) IN q \in Packet /\ Grown(q, p) /\ Len(q.buf) = j /\ Holds(q.buf, i, Bytes(n, 4))
<1> DEFINE q == WriteInt(p, n)
<1>1. Grown(q, p) /\ Len(q.buf) = Len(p.buf) + 4 /\ Holds(q.buf, Len(p.buf), Bytes(n, 4))
  BY PutInt
<1> HIDE DEF q
<1> QED
  BY <1>1 DEF Grown, q

\* WriteShort at the end of a packet of known length.
LEMMA AddShort ==
  ASSUME NEW p \in Packet, NEW i \in Nat, Len(p.buf) = i, NEW j \in Nat, j = i + 2, j <= PACKET_BUFFER_SIZE, NEW n \in Int
  PROVE  LET q == WriteShort(p, n) IN q \in Packet /\ Grown(q, p) /\ Len(q.buf) = j /\ Holds(q.buf, i, Bytes(n, 2))
<1> DEFINE q == WriteShort(p, n)
<1>1. Grown(q, p) /\ Len(q.buf) = Len(p.buf) + 2 /\ Holds(q.buf, Len(p.buf), Bytes(n, 2))
  BY PutShort
<1> HIDE DEF q
<1> QED
  BY <1>1 DEF Grown, q

\* A number written into a packet is in what is sent of it.
LEMMA LastInt ==
  ASSUME NEW q \in Packet, NEW r \in Packet, Grown(r, q), NEW n \in Int, NEW i \in Nat, i >= 9, NEW j \in Nat, j = i + 4,
         Holds(q.buf, i, Bytes(n, 4)), j <= Len(q.buf), NEW c, Carries(c, r.buf)
  PROVE  Holds(c, i, Bytes(n, 4))
<1> DEFINE s == Bytes(n, 4)
<1>1. s \in Seq(Octet) /\ Len(s) = 4
  BY IntBytes
<1> HIDE DEF s
<1>2. Holds(q.buf, i, s) /\ i + Len(s) <= Len(q.buf)
  BY <1>1 DEF s
<1>3. Holds(c, i, s)
  BY <1>1, <1>2, HoldsLast
<1> QED
  BY <1>3 DEF s

\* A short number written into a packet is in what is sent of it.
LEMMA LastShort ==
  ASSUME NEW q \in Packet, NEW r \in Packet, Grown(r, q), NEW n \in Int, NEW i \in Nat, i >= 9, NEW j \in Nat, j = i + 2,
         Holds(q.buf, i, Bytes(n, 2)), j <= Len(q.buf), NEW c, Carries(c, r.buf)
  PROVE  Holds(c, i, Bytes(n, 2))
<1> DEFINE s == Bytes(n, 2)
<1>1. s \in Seq(Octet) /\ Len(s) = 2
  BY ShortBytes
<1> HIDE DEF s
<1>2. Holds(q.buf, i, s) /\ i + Len(s) <= Len(q.buf)
  BY <1>1 DEF s
<1>3. Holds(c, i, s)
  BY <1>1, <1>2, HoldsLast
<1> QED
  BY <1>3 DEF s

\* The packet ToAlloc wraps a client's in unwraps to the same user, address, api and
\* bytes.
LEMMA WrapIs ==
  ASSUME NEW uid \in Int32, NEW api \in Int16, NEW bytes \in Seq(Octet), Len(bytes) <= MaxPacket
  PROVE  LET w == WrapOf(uid, api, bytes)
         IN /\ w \in Seq(Octet) /\ Len(w) >= 9 /\ Command(w) = CLIENT_PACKET2
            /\ Unwrapped(w) = [uid |-> uid, ip |-> Ip, api |-> api, pkg |-> bytes]
<1> DEFINE c == CLIENT_PACKET2
           n == Len(bytes)
           p0 == Begin(c)
           p1 == WriteInt(p0, uid)
           p2 == WriteInt(p1, Self)
           p3 == WriteInt(p2, Ip)
           p4 == WriteShort(p3, api)
           p5 == WriteBinary(p4, bytes)
           e == End(p5)
           w == e.buf
           q == Copy(w)
           i0 == 9
           i1 == 13
           i2 == 17
           i3 == 21
           i4 == 23
           i5 == 27
<1>1. c \in Int16 /\ uid \in Int /\ api \in Int /\ Self \in Int32 /\ Ip \in Int32 /\ Self \in Int /\ Ip \in Int
  BY LimitsAssumption DEF CLIENT_PACKET2, Int16, Int32
<1>2. /\ n \in Nat /\ n + i5 <= PACKET_BUFFER_SIZE /\ PACKET_BUFFER_SIZE <= 32768 /\ n <= MaxPacket /\ MaxPacket \in Nat
      /\ PACKET_BUFFER_SIZE \in Nat /\ MaxPacket <= 32768 /\ n = Len(bytes)
  BY LimitsAssumption, Sizes
<1>3. /\ i0 \in Nat /\ i1 \in Nat /\ i2 \in Nat /\ i3 \in Nat /\ i4 \in Nat /\ i5 \in Nat
      /\ i1 = i0 + 4 /\ i2 = i1 + 4 /\ i3 = i2 + 4 /\ i4 = i3 + 2 /\ i5 = i4 + 4
      /\ i0 >= 9 /\ i1 >= 9 /\ i2 >= 9 /\ i3 >= 9 /\ i4 >= 9 /\ i5 >= 9
      /\ i1 <= PACKET_BUFFER_SIZE /\ i2 <= PACKET_BUFFER_SIZE /\ i3 <= PACKET_BUFFER_SIZE /\ i4 <= PACKET_BUFFER_SIZE
  BY <1>2
<1>4. WrapOf(uid, api, bytes) = w
  BY DEF WrapOf
<1>5. Command(w) = GetCmdType(q)
  BY DEF Command
<1>10. Built(p0, c) /\ Len(p0.buf) = i0 /\ p0 \in Packet
  <2> HIDE DEF c
  <2> QED
    BY <1>1, Started DEF Built
<1>6. Copy(w) = q /\ ReadInt(Copy(w)) = ReadInt(q)
  OBVIOUS
<1> HIDE DEF n, c, p0, i0, i1, i2, i3, i4, i5
<1>11. p1 \in Packet /\ Grown(p1, p0) /\ Len(p1.buf) = i1 /\ Holds(p1.buf, i0, Bytes(uid, 4))
  <2>1. p0 \in Packet /\ i0 \in Nat /\ Len(p0.buf) = i0 /\ i1 \in Nat /\ i1 = i0 + 4 /\ i1 <= PACKET_BUFFER_SIZE /\ uid \in Int
    BY <1>1, <1>3, <1>10
  <2> HIDE DEF p1
  <2> QED
    BY ONLY <2>1, AddInt DEF p1
<1> HIDE DEF p1
<1>12. p2 \in Packet /\ Grown(p2, p1) /\ Len(p2.buf) = i2 /\ Holds(p2.buf, i1, Bytes(Self, 4))
  BY <1>1, <1>3, <1>11, AddInt, SMTT(30)
<1> HIDE DEF p2
<1>13. p3 \in Packet /\ Grown(p3, p2) /\ Len(p3.buf) = i3 /\ Holds(p3.buf, i2, Bytes(Ip, 4))
  BY <1>1, <1>3, <1>12, AddInt
<1> HIDE DEF p3
<1>14. p4 \in Packet /\ Grown(p4, p3) /\ Len(p4.buf) = i4 /\ Holds(p4.buf, i3, Bytes(api, 2))
  BY <1>1, <1>3, <1>13, AddShort, SMTT(30)
<1> HIDE DEF p4
<1>15. p5 \in Packet /\ Grown(p5, p4) /\ Len(p5.buf) = i5 + n /\ Holds(p5.buf, i4, Bytes(n, 4)) /\ Holds(p5.buf, i5, bytes)
  <2>1. Len(p4.buf) + 4 + Len(bytes) <= PACKET_BUFFER_SIZE
    BY <1>2, <1>3, <1>14
  <2>2. /\ Grown(p5, p4) /\ Len(p5.buf) = Len(p4.buf) + 4 + Len(bytes)
        /\ Holds(p5.buf, Len(p4.buf), Bytes(Len(bytes), 4)) /\ Holds(p5.buf, Len(p4.buf) + 4, bytes)
    BY <1>14, <2>1, PutBinary
  <2>3. Len(p4.buf) + 4 + Len(bytes) = i5 + n /\ Len(p4.buf) + 4 = i5
    BY <1>2, <1>3, <1>14
  <2> HIDE DEF p5
  <2> QED
    BY <1>2, <1>14, <2>2, <2>3 DEF Grown
<1> HIDE DEF p5
<1>16. Grown(p5, p3) /\ Grown(p5, p2) /\ Grown(p5, p1) /\ Grown(p5, p0) /\ Grown(p5, p5)
  <2>1. Grown(p5, p3)
    BY <1>13, <1>14, <1>15, GrownTrans
  <2>2. Grown(p5, p2)
    BY <1>12, <1>13, <2>1, GrownTrans
  <2>3. Grown(p5, p1)
    BY <1>11, <1>12, <2>2, GrownTrans
  <2>4. Grown(p5, p0)
    BY <1>10, <1>11, <2>3, GrownTrans
  <2> QED
    BY <1>15, <2>1, <2>2, <2>3, <2>4, GrownRefl
<1>17. Built(p5, c) /\ Len(p5.buf) \in Nat /\ Len(p5.buf) >= 9
  BY <1>10, <1>15, <1>16, BuiltGrown, PacketParts DEF Built
<1>18. /\ e \in Packet /\ Len(w) = i5 + n /\ w \in Seq(Octet) /\ Len(w) >= 9
       /\ \A i \in 1..Len(p5.buf) : i # 1 /\ i # 2 /\ i # 9 => w[i] = p5.buf[i]
  <2>2. /\ e \in Packet /\ Len(w) = Len(p5.buf)
        /\ \A i \in 1..Len(p5.buf) : i # 1 /\ i # 2 /\ i # 9 => w[i] = p5.buf[i]
    BY <1>15, <1>17, EndIs
  <2> QED
    BY <1>15, <1>17, <2>2, PacketParts
<1> HIDE DEF e
<1>19. q \in Packet /\ q.buf = w /\ q = At(w, i0)
  BY <1>18, CopyParts, CopyAt DEF i0
<1>20. GetCmdType(q) = c
  <2> HIDE DEF q
  <2>1. 7 \in 1..Len(p5.buf) /\ 8 \in 1..Len(p5.buf) /\ 7 # 1 /\ 7 # 2 /\ 7 # 9 /\ 8 # 1 /\ 8 # 2 /\ 8 # 9
    BY <1>17
  <2>2. q.buf[7] = p5.buf[7] /\ q.buf[8] = p5.buf[8] /\ Len(q.buf) >= 9
    BY <1>18, <1>19, <2>1
  <2>3. GetCmdType(q) = GetCmdType(p5)
    BY <1>15, <1>17, <1>19, <2>2, SameHeader
  <2> QED
    BY <1>17, <2>3 DEF Built
<1>21. Carries(w, p5.buf)
  <2>1. \A k \in 10..Len(p5.buf) : k \in 1..Len(p5.buf) /\ k # 1 /\ k # 2 /\ k # 9
    BY <1>17
  <2> QED
    BY <1>18, <2>1 DEF Carries
<1> HIDE DEF w, q
<1>22. /\ Holds(w, i0, Bytes(uid, 4)) /\ Holds(w, i1, Bytes(Self, 4)) /\ Holds(w, i2, Bytes(Ip, 4))
       /\ Holds(w, i3, Bytes(api, 2)) /\ Holds(w, i4, Bytes(n, 4)) /\ Holds(w, i5, bytes)
  <2>1. Holds(w, i0, Bytes(uid, 4))
    <3>1. i1 <= Len(p1.buf)
      BY <1>3, <1>11
    <3> QED
      BY <1>1, <1>3, <1>11, <1>15, <1>16, <1>21, <3>1, LastInt
  <2>2. Holds(w, i1, Bytes(Self, 4))
    <3>1. i2 <= Len(p2.buf)
      BY <1>3, <1>12
    <3> QED
      BY <1>1, <1>3, <1>12, <1>15, <1>16, <1>21, <3>1, LastInt
  <2>3. Holds(w, i2, Bytes(Ip, 4))
    <3>1. i3 <= Len(p3.buf)
      BY <1>3, <1>13
    <3> QED
      BY <1>1, <1>3, <1>13, <1>15, <1>16, <1>21, <3>1, LastInt
  <2>4. Holds(w, i3, Bytes(api, 2))
    <3>1. i4 <= Len(p4.buf)
      BY <1>3, <1>14
    <3> QED
      BY <1>1, <1>3, <1>14, <1>15, <1>21, <3>1, LastShort
  <2>5. Holds(w, i4, Bytes(n, 4))
    <3>1. i5 <= Len(p5.buf) /\ n \in Int
      BY <1>2, <1>3, <1>15
    <3> QED
      BY <1>3, <1>15, <1>16, <1>21, <3>1, LastInt
  <2>6. Holds(w, i5, bytes)
    <3>1. i5 + Len(bytes) <= Len(p5.buf)
      BY <1>2, <1>3, <1>15
    <3> QED
      BY <1>3, <1>15, <1>16, <1>21, <3>1, HoldsLast
  <2> QED
    BY <2>1, <2>2, <2>3, <2>4, <2>5, <2>6
<1>23. i0 + 4 <= Len(w) /\ i1 + 4 <= Len(w) /\ i2 + 4 <= Len(w) /\ i3 + 2 <= Len(w) /\ i4 + 4 + Len(bytes) <= Len(w)
  <2>1. Len(w) = i0 + 18 + n /\ i1 = i0 + 4 /\ i2 = i0 + 8 /\ i3 = i0 + 12 /\ i4 = i0 + 14 /\ n = Len(bytes) /\ n \in Nat /\ i0 \in Nat
    BY <1>2, <1>3, <1>18
  <2> QED
    BY ONLY <2>1
<1>30. ReadInt(At(w, i0)) = [val |-> uid, p |-> At(w, i1)]
  <2>2. ReadInt(At(w, i0)) = [val |-> uid, p |-> At(w, i0 + 4)]
    BY <1>3, <1>18, <1>22, <1>23, TakeInt
  <2> QED
    BY <1>3, <2>2
<1>31. ReadInt(At(w, i1)) = [val |-> Self, p |-> At(w, i2)]
  <2>2. ReadInt(At(w, i1)) = [val |-> Self, p |-> At(w, i1 + 4)]
    BY <1>1, <1>3, <1>18, <1>22, <1>23, TakeInt
  <2> QED
    BY <1>3, <2>2
<1>32. ReadInt(At(w, i2)) = [val |-> Ip, p |-> At(w, i3)]
  <2>2. ReadInt(At(w, i2)) = [val |-> Ip, p |-> At(w, i2 + 4)]
    BY <1>1, <1>3, <1>18, <1>22, <1>23, TakeInt
  <2> QED
    BY <1>3, <2>2
<1>33. ReadShort(At(w, i3)) = [val |-> api, p |-> At(w, i4)]
  <2>2. ReadShort(At(w, i3)) = [val |-> api, p |-> At(w, i3 + 2)]
    BY <1>3, <1>18, <1>22, <1>23, TakeShort
  <2> QED
    BY <1>3, <2>2
<1>34. ReadBinary(At(w, i4), MaxPacket).val = bytes
  <2>1. i4 + 4 + Len(bytes) <= Len(w) /\ Len(bytes) <= MaxPacket
    BY <1>2, <1>23
  <2>2. Holds(w, i4, Bytes(Len(bytes), 4)) /\ Holds(w, i4 + 4, bytes)
    BY <1>2, <1>3, <1>22
  <2>3. w \in Seq(Octet) /\ i4 \in Nat /\ bytes \in Seq(Octet) /\ MaxPacket \in Nat /\ MaxPacket <= 32768
    BY <1>2, <1>3, <1>18
  <2> QED
    BY ONLY <2>1, <2>2, <2>3, TakeBinary
<1>35. Unwrapped(w) = [uid |-> uid, ip |-> Ip, api |-> api, pkg |-> bytes]
  <2>1. Copy(w) = At(w, i0)
    BY <1>19 DEF q
  <2> DEFINE u0 == ReadInt(Copy(w))
             u1 == ReadInt(u0.p)
             u2 == ReadInt(u1.p)
             u3 == ReadShort(u2.p)
  <2>2. u0 = [val |-> uid, p |-> At(w, i1)]
    BY <1>30, <2>1
  <2>3. u1 = [val |-> Self, p |-> At(w, i2)]
    BY <1>31, <2>2
  <2>4. u2 = [val |-> Ip, p |-> At(w, i3)]
    BY <1>32, <2>3
  <2>5. u3 = [val |-> api, p |-> At(w, i4)]
    BY <1>33, <2>4
  <2>6. Unwrapped(w) = [uid |-> u0.val, ip |-> u2.val, api |-> u3.val, pkg |-> ReadBinary(u3.p, MaxPacket).val]
    BY DEF Unwrapped
  <2> HIDE DEF u0, u1, u2, u3
  <2>7. u0.val = uid /\ u2.val = Ip /\ u3.val = api /\ u3.p = At(w, i4)
    BY <2>2, <2>4, <2>5
  <2> QED
    BY <1>34, <2>6, <2>7
<1> QED
  BY <1>4, <1>5, <1>18, <1>20, <1>35 DEF c

-----------------------------------------------------------------------------
(* Requests that go on to a server. *)

Streams == {"toAlloc", "toGame", "toClient", "r", "skipped"}
State == {"uid", "api", "tid", "addr", "port", "count", "users", "ipmap", "stage"}

\* Adding to the outgoing streams leaves what a session knows as it was.
LEMMA StreamsOK ==
  ASSUME NEW t, SessionOK(t), NEW u, Kept(u, t, Streams)
  PROVE  /\ SessionOK(u) /\ u.uid = t.uid /\ u.api = t.api /\ u.tid = t.tid /\ u.addr = t.addr /\ u.port = t.port
         /\ u.users = t.users /\ u.stage = t.stage /\ u.count = t.count /\ u.ipmap = t.ipmap
<1>1. \A x \in State : x \in Fields \ Streams
  BY DEF State, Fields, Streams
<1>2. \A x \in State : u[x] = t[x]
  BY <1>1 DEF Kept
<1>3. /\ u.uid = t.uid /\ u.api = t.api /\ u.tid = t.tid /\ u.addr = t.addr /\ u.port = t.port
      /\ u.users = t.users /\ u.stage = t.stage /\ u.count = t.count /\ u.ipmap = t.ipmap
  BY <1>2 DEF State
<1> QED
  BY <1>3 DEF SessionOK, Kept

\* Adding a packet to what goes to the alloc server.
LEMMA Forward ==
  ASSUME NEW s, IsSession(s), NEW b
  PROVE  LET t == [s EXCEPT !.toAlloc = Append(@, b)]
         IN Kept(t, s, {"toAlloc"}) /\ t.toAlloc = Append(s.toAlloc, b)
<1> DEFINE x == "toAlloc"
           v == Append(s.toAlloc, b)
           t == [s EXCEPT ![x] = v]
<1>1. x \in Fields
  BY DEF Fields
<1>2. [s EXCEPT !.toAlloc = Append(@, b)] = t
  OBVIOUS
<1>3. t.toAlloc = t[x]
  OBVIOUS
<1> HIDE DEF x, v
<1>4. Kept(t, s, {x}) /\ t[x] = v
  BY <1>1, SetField
<1> HIDE DEF t
<1> QED
  BY <1>2, <1>3, <1>4 DEF x, v

\* Adding a packet to what goes to the game server.
LEMMA ToGame ==
  ASSUME NEW s, IsSession(s), NEW b
  PROVE  LET t == [s EXCEPT !.toGame = Append(@, b)]
         IN Kept(t, s, {"toGame"}) /\ t.toGame = Append(s.toGame, b)
<1> DEFINE x == "toGame"
           v == Append(s.toGame, b)
           t == [s EXCEPT ![x] = v]
<1>1. x \in Fields
  BY DEF Fields
<1>2. [s EXCEPT !.toGame = Append(@, b)] = t
  OBVIOUS
<1>3. t.toGame = t[x]
  OBVIOUS
<1> HIDE DEF x, v
<1>4. Kept(t, s, {x}) /\ t[x] = v
  BY <1>1, SetField
<1> HIDE DEF t
<1> QED
  BY <1>2, <1>3, <1>4 DEF x, v

\* No packet goes both to the alloc server and to the game server.
LEMMA OneOf ==
  ASSUME NEW pkg, Frame(pkg)
  PROVE  ForGame(pkg) => ~ ForAlloc(pkg)
<1>1. Command(pkg) \in Int
  <2>1. Command(pkg) \in Int16
    BY FrameIs
  <2> QED
    BY <2>1 DEF Int16
<1> QED
  BY <1>1 DEF ForGame, ForAlloc, CMD_SEPARATE

Named3 == {"uid", "api", "users"}
Unnamed == {"r", "skipped", "tid", "addr", "port", "count", "ipmap", "stage", "toAlloc", "toGame", "toClient"}
\* A command forwarded to the alloc server arrives wrapped with the session's own user.
LEMMA ToAllocEffect ==
  ASSUME NEW s, SessionOK(s), s.stage = "open", NEW pkg, Frame(pkg), ForAlloc(pkg),
         NEW t, Kept(t, s, Named3), SessionOK(t), t.uid > 0,
         IF Command(pkg) = CLIENT_CMD_CLIENT_LOGIN THEN <<t.uid, t.api>> = Named(pkg) ELSE t.uid = s.uid /\ t.api = s.api
  PROVE  Effect(ToAlloc(t, Command(pkg), pkg), s, pkg)
<1> DEFINE w == WrapOf(t.uid, t.api, pkg)
           a == [t EXCEPT !.toAlloc = Append(@, w)]
           f == Fatal(t)
           cmd == Command(pkg)
<1>1. /\ ToAlloc(t, cmd, pkg) = IF reachable THEN a ELSE IF cmd = CLIENT_CMD_REQUEST_LIST_ROOM THEN t ELSE f
  BY DEF ToAlloc, WrapOf
<1>2. ~ ForGame(pkg)
  BY OneOf
<1>3. /\ t.r = s.r /\ t.skipped = s.skipped /\ t.tid = s.tid /\ t.addr = s.addr
      /\ t.toAlloc = s.toAlloc /\ t.toGame = s.toGame /\ t.toClient = s.toClient /\ t.stage = s.stage
  <2>1. \A x \in Unnamed : x \in Fields \ Named3
    BY DEF Unnamed, Fields, Named3
  <2>2. \A x \in Unnamed : t[x] = s[x]
    BY <2>1 DEF Kept
  <2> QED
    BY <2>2 DEF Unnamed
<1>4. IsSession(t)
  BY DEF SessionOK
<1>5. CASE reachable
  <2>1. Kept(a, t, {"toAlloc"}) /\ a.toAlloc = Append(t.toAlloc, w)
    BY <1>4, Forward
  <2> HIDE DEF a, w
  <2>2. Kept(a, t, Streams)
    BY <2>1 DEF Kept, Streams
  <2>3. SessionOK(a) /\ a.uid = t.uid /\ a.api = t.api /\ a.tid = t.tid /\ a.addr = t.addr /\ a.stage = t.stage
    BY <2>2, StreamsOK
  <2>4. a.r = t.r /\ a.skipped = t.skipped /\ a.toGame = t.toGame /\ a.toClient = t.toClient
    <3>1. \A x \in {"r", "skipped", "toGame", "toClient"} : x \in Fields \ {"toAlloc"}
      BY DEF Fields
    <3>2. \A x \in {"r", "skipped", "toGame", "toClient"} : a[x] = t[x]
      BY <2>1, <3>1 DEF Kept
    <3> QED
      BY <3>2
  <2>5. OneToAlloc(a, s, pkg)
    BY <1>2, <1>3, <1>5, <2>1, <2>3, <2>4 DEF OneToAlloc, w
  <2>6. Effect(a, s, pkg)
    BY <1>3, <2>3, <2>4, <2>5 DEF Effect, Same, Answered
  <2> QED
    BY <1>1, <1>5, <2>6
<1>6. CASE ~ reachable /\ cmd = CLIENT_CMD_REQUEST_LIST_ROOM
  <2>1. cmd # CLIENT_CMD_CLIENT_LOGIN
    BY <1>6 DEF CLIENT_CMD_REQUEST_LIST_ROOM, CLIENT_CMD_CLIENT_LOGIN
  <2>2. Nothing(t, s, pkg)
    BY <1>2, <1>3, <1>6, <2>1 DEF Nothing
  <2>3. Effect(t, s, pkg)
    BY <1>3, <2>2 DEF Effect, Same, Answered
  <2> QED
    BY <1>1, <1>6, <2>3
<1>7. CASE ~ reachable /\ cmd # CLIENT_CMD_REQUEST_LIST_ROOM
  <2>1. Kept(f, t, {"stage"}) /\ f.stage = "fatal"
    BY <1>4, FatalIs
  <2> HIDE DEF f
  <2>2. /\ f.r = t.r /\ f.skipped = t.skipped /\ f.tid = t.tid /\ f.addr = t.addr
        /\ f.toAlloc = t.toAlloc /\ f.toGame = t.toGame /\ f.toClient = t.toClient
        /\ f.uid = t.uid /\ f.api = t.api /\ f.port = t.port /\ f.count = t.count /\ f.users = t.users /\ f.ipmap = t.ipmap
    <3>1. \A x \in Fields \ {"stage"} : f[x] = t[x]
      BY <2>1 DEF Kept
    <3> QED
      BY <3>1 DEF Fields
  <2>3. SessionOK(f)
    BY <2>1, <2>2 DEF SessionOK, Kept
  <2>4. Nothing(f, s, pkg)
    BY <1>3, <2>1, <2>2 DEF Nothing
  <2>5. Effect(f, s, pkg)
    BY <1>3, <2>2, <2>3, <2>4 DEF Effect, Same, Answered
  <2> QED
    BY <1>1, <1>7, <2>5
<1> QED
  BY <1>5, <1>6, <1>7

\* The commands handed to the alloc server as they are arrive there once and unchanged.
LEMMA PassEffect ==
  ASSUME NEW s, SessionOK(s), s.stage = "open", NEW pkg, Frame(pkg), ForAlloc(pkg),
         Command(pkg) # CLIENT_CMD_CLIENT_LOGIN
  PROVE  Effect(Pass(s, Copy(pkg), Command(pkg)), s, pkg)
<1>1. Copy(pkg).buf = pkg
  BY FrameIs
<1>2. Pass(s, Copy(pkg), Command(pkg)) \in {Fatal(s), ToAlloc(s, Command(pkg), pkg)}
  BY <1>1 DEF Pass
<1>3. s.uid > 0 => Effect(ToAlloc(s, Command(pkg), pkg), s, pkg)
  <2>1. Kept(s, s, Named3)
    BY DEF Kept, SessionOK
  <2> QED
    BY <2>1, ToAllocEffect
<1>4. s.uid <= 0 => Pass(s, Copy(pkg), Command(pkg)) = Fatal(s)
  BY DEF Pass
<1>5. s.uid <= 0 \/ s.uid > 0
  BY DEF SessionOK, Int32
<1> QED
  BY <1>2, <1>3, <1>4, <1>5, FatalEffect

\* The bytes of a number turned round make a number.
LEMMA NtohlIs == ASSUME NEW n \in Int PROVE Ntohl(n) \in Int32
<1>1. PICK b : b \in Seq(Octet) /\ Len(b) = 4 /\ Bytes(n, 4) = b
  BY IntBytes
<1>2. b[1] \in Octet /\ b[2] \in Octet /\ b[3] \in Octet /\ b[4] \in Octet
  <2>1. 1 \in 1..Len(b) /\ 2 \in 1..Len(b) /\ 3 \in 1..Len(b) /\ 4 \in 1..Len(b)
    BY <1>1
  <2> QED
    BY <1>1, <2>1, ElementOfSeq
<1> DEFINE s == <<b[4], b[3], b[2], b[1]>>
<1>3. Ntohl(n) = Number(s)
  BY <1>1 DEF Ntohl
<1>4. s \in Seq(Octet) /\ Len(s) = 4
  BY <1>2
<1> HIDE DEF s
<1> QED
  BY <1>3, <1>4, IntNumber

\* The commands of a seated client arrive at its game server once and unchanged.
LEMMA GameEffect ==
  ASSUME NEW s, SessionOK(s), s.stage = "open", NEW pkg, Frame(pkg), ForGame(pkg)
  PROVE  Effect(GameCommand(s, Copy(pkg), Command(pkg)), s, pkg)
<1> DEFINE req == Copy(pkg)
           cmd == Command(pkg)
           t == [s EXCEPT !.toGame = Append(@, pkg)]
           tid == ReadInt(Decrypt(req))
           uid == ReadInt(tid.p).val
           c == SERVER_CMD_SET_IP
           p1 == WriteInt(Begin(c), tid.val)
           p2 == WriteInt(p1, uid)
           p3 == WriteInt(p2, Ntohl(Ip))
           x == Encrypt(End(p3)).buf
           u == [t EXCEPT !.toGame = Append(@, x)]
<1>1. req.buf = pkg /\ Decrypt(req) \in Packet
  BY FrameIs
<1>2. ~ ForAlloc(pkg)
  BY OneOf
<1>3. \/ GameCommand(s, req, cmd) = Fatal(s)
      \/ cmd \in WhiteCmd /\ GameCommand(s, req, cmd) = s
      \/ GameCommand(s, req, cmd) = t
      \/ GameCommand(s, req, cmd) = u
  <2>1. SendIPSetPacket(t, req) = u
    BY DEF SendIPSetPacket
  <2>2. [s EXCEPT !.toGame = Append(@, req.buf)] = t
    BY <1>1
  <2> HIDE DEF t, u, req
  <2> QED
    BY <2>1, <2>2 DEF GameCommand
<1>4. IsSession(s)
  BY DEF SessionOK
<1>5. Kept(t, s, {"toGame"}) /\ t.toGame = Append(s.toGame, pkg)
  BY <1>4, ToGame
<1>6. IsSession(t)
  BY <1>5 DEF Kept
<1>7. Command(x) = SERVER_CMD_SET_IP /\ x \in Seq(Octet)
  <2>1. c \in Int16
    BY DEF Int16, SERVER_CMD_SET_IP
  <2>2. tid.val \in Int /\ tid.p \in Packet
    BY <1>1, ReadIntIs DEF Int32
  <2>3. uid \in Int
    BY <2>2, ReadIntIs DEF Int32
  <2>4. Ntohl(Ip) \in Int
    BY LimitsAssumption, NtohlIs DEF Int32
  <2> HIDE DEF c, uid, tid
  <2> DEFINE v == tid.val
  <2>5. v \in Int
    BY <2>2
  <2> HIDE DEF v
  <2>6. Built(Begin(c), c)
    BY <2>1, Started
  <2>7. Built(WriteInt(Begin(c), v), c)
    BY <2>5, <2>6, WriteIntIs, BuiltGrown DEF Built
  <2>8. Built(p1, c)
    BY <2>7 DEF v
  <2> HIDE DEF p1
  <2>9. Grown(p2, p1)
    BY <2>3, <2>8, WriteIntIs DEF Built
  <2>10. Built(p2, c)
    BY <2>8, <2>9, BuiltGrown
  <2> HIDE DEF p2
  <2>11. Grown(p3, p2)
    BY <2>4, <2>10, WriteIntIs DEF Built
  <2>12. Built(p3, c)
    BY <2>10, <2>11, BuiltGrown
  <2> HIDE DEF p3
  <2>13. Command(x) = c /\ x \in Seq(Octet)
    BY <2>12, SealedReply DEF Sendable
  <2> QED
    BY <2>13 DEF c
<1> HIDE DEF x
<1>8. Kept(u, t, {"toGame"}) /\ u.toGame = Append(Append(s.toGame, pkg), x)
  <2> HIDE DEF t
  <2> QED
    BY <1>5, <1>6, ToGame
<1> HIDE DEF t, u
<1>9. Kept(u, s, {"toGame"})
  BY <1>5, <1>8 DEF Kept
<1>10. ASSUME NEW v, Kept(v, s, {"toGame"}),
              v.toGame = Append(s.toGame, pkg) \/ v.toGame = Append(Append(s.toGame, pkg), x)
       PROVE  Effect(v, s, pkg)
  <2>1. Kept(v, s, Streams)
    BY <1>10 DEF Kept, Streams
  <2>2. SessionOK(v) /\ v.uid = s.uid /\ v.api = s.api /\ v.tid = s.tid /\ v.addr = s.addr /\ v.stage = s.stage
    BY <2>1, StreamsOK
  <2>3. v.r = s.r /\ v.skipped = s.skipped /\ v.toAlloc = s.toAlloc /\ v.toClient = s.toClient
    <3>1. \A y \in {"r", "skipped", "toAlloc", "toClient"} : y \in Fields \ {"toGame"}
      BY DEF Fields
    <3>2. \A y \in {"r", "skipped", "toAlloc", "toClient"} : v[y] = s[y]
      BY <1>10, <3>1 DEF Kept
    <3> QED
      BY <3>2
  <2>4. OneToGame(v, s, pkg)
    BY <1>2, <1>7, <1>10, <2>2, <2>3 DEF OneToGame
  <2> QED
    BY <2>2, <2>3, <2>4 DEF Effect, Same, Answered
<1>11. cmd \in WhiteCmd => Effect(s, s, pkg)
  BY <1>2, NoEffect DEF ByTable
<1>12. Effect(t, s, pkg) /\ Effect(u, s, pkg)
  BY <1>5, <1>8, <1>9, <1>10
<1> QED
  BY <1>3, <1>11, <1>12, FatalEffect

\* What a client learns of its table from an answer to CMD_GET_NEW_ROOM.
LEMMA NewRoomTold ==
  ASSUME NEW b \in Seq(Octet), Len(b) >= 9, Command(b) = CMD_GET_NEW_ROOM
  PROVE  LET tid == ReadInt(Decrypt(Copy(b))) IN Told(b) = <<tid.val, ReadString(tid.p).val>>
<1> DEFINE p == Copy(b)
           cmd == GetCmdType(Decrypt(p))
<1>1. p \in Packet /\ p.buf = b
  BY CopyParts
<1>2. cmd = Command(b)
  BY <1>1, DecryptCmd DEF Command
<1> HIDE DEF p, cmd
<1>3. cmd = CMD_GET_NEW_ROOM /\ cmd # SERVER_COMMAND_LOGOUT_SUCCESS /\ cmd # SERVER_COMMAND_CHANGE_GAMESERVER
  BY <1>2 DEF CMD_GET_NEW_ROOM, SERVER_COMMAND_LOGOUT_SUCCESS, SERVER_COMMAND_CHANGE_GAMESERVER
<1>4. cmd # SERVER_CMD_ENTER_ROOM /\ cmd # SERVER_CMD_LOGIN_SUCCESS
  BY <1>3 DEF CMD_GET_NEW_ROOM, SERVER_CMD_ENTER_ROOM, SERVER_CMD_LOGIN_SUCCESS
<1> QED
  BY <1>3, <1>4 DEF Told, p, cmd

\* A client at a table is told where it is.
LEMMA TableTold ==
  ASSUME NEW tid \in Int32, NEW addr \in Address, NEW port \in Int32
  PROVE  LET b == Encrypt(End(WriteInt(WriteString(WriteInt(Begin(CMD_GET_NEW_ROOM), tid), addr), port))).buf
         IN Good(b) /\ Told(b) = <<tid, addr>>
<1> DEFINE c == CMD_GET_NEW_ROOM
           n == Len(addr)
           m == n + 1
           p0 == Begin(c)
           p1 == WriteInt(p0, tid)
           p2 == WriteString(p1, addr)
           p3 == WriteInt(p2, port)
           b == Encrypt(End(p3)).buf
           d == Decrypt(Copy(b))
           i0 == 9
           i1 == 13
           z == i1 + 5 + n
<1>1. /\ addr \in Seq(Letter) /\ addr \in Seq(Octet) /\ n \in Nat /\ n + i1 + 9 <= PACKET_BUFFER_SIZE /\ m \in Nat
      /\ PACKET_BUFFER_SIZE \in Nat /\ PACKET_BUFFER_SIZE <= 32768 /\ n = Len(addr) /\ m = Len(addr) + 1
  BY LettersAre, LimitsAssumption, Sizes DEF Address
<1>2. c \in Int16 /\ tid \in Int /\ port \in Int
  BY DEF Int16, CMD_GET_NEW_ROOM, Int32
<1>3. /\ i0 \in Nat /\ i1 \in Nat /\ i1 = i0 + 4 /\ i0 >= 9 /\ i1 >= 9 /\ i1 <= PACKET_BUFFER_SIZE
      /\ z \in Nat /\ z = i1 + 5 + n /\ z >= 18
  BY <1>1
<1>4. Built(p0, c) /\ Len(p0.buf) = i0 /\ p0 \in Packet
  <2> HIDE DEF c
  <2> QED
    BY <1>2, Started DEF Built
<1>5. c = CMD_GET_NEW_ROOM
  OBVIOUS
<1> HIDE DEF c, n, m, p0, i0, i1, z
<1>6. p1 \in Packet /\ Grown(p1, p0) /\ Len(p1.buf) = i1 /\ Holds(p1.buf, i0, Bytes(tid, 4))
  <2>1. p0 \in Packet /\ i0 \in Nat /\ Len(p0.buf) = i0 /\ i1 \in Nat /\ i1 = i0 + 4 /\ i1 <= PACKET_BUFFER_SIZE /\ tid \in Int
    BY <1>2, <1>3, <1>4
  <2> HIDE DEF p1
  <2> QED
    BY ONLY <2>1, AddInt DEF p1
<1> HIDE DEF p1
<1>7. /\ p2 \in Packet /\ Grown(p2, p1) /\ Len(p2.buf) = z
      /\ Holds(p2.buf, i1, Bytes(m, 4)) /\ Holds(p2.buf, i1 + 4, addr) /\ p2.buf[z] = 0
  <2>1. Len(p1.buf) + 5 + Len(addr) <= PACKET_BUFFER_SIZE
    BY <1>1, <1>3, <1>6
  <2>2. /\ Grown(p2, p1) /\ Len(p2.buf) = Len(p1.buf) + 5 + Len(addr)
        /\ Holds(p2.buf, Len(p1.buf), Bytes(Len(addr) + 1, 4)) /\ Holds(p2.buf, Len(p1.buf) + 4, addr)
        /\ p2.buf[Len(p1.buf) + 5 + Len(addr)] = 0
    <3>1. p1 \in Packet /\ addr \in Seq(Octet)
      BY <1>1, <1>6
    <3> QED
      BY ONLY <2>1, <3>1, PutString
  <2> HIDE DEF p2
  <2> QED
    BY <1>1, <1>3, <1>6, <2>2 DEF Grown
<1> HIDE DEF p2
<1>8. p3 \in Packet /\ Grown(p3, p2)
  BY <1>2, <1>7, WriteIntIs DEF Grown
<1> HIDE DEF p3
<1>9. Grown(p3, p1) /\ Grown(p3, p0)
  <2>1. Grown(p3, p1)
    BY <1>6, <1>7, <1>8, GrownTrans
  <2> QED
    BY <1>4, <1>6, <2>1, GrownTrans
<1>10. Built(p3, c)
  BY <1>4, <1>9, BuiltGrown
<1>11. /\ Sendable(b) /\ Command(b) = c /\ Len(b) = Len(p3.buf) /\ b \in Seq(Octet) /\ Len(b) >= 9
       /\ d \in Packet /\ d.pos = 9 /\ d.checked = FALSE /\ Len(d.buf) = Len(p3.buf)
       /\ \A i \in 10..Len(p3.buf) : d.buf[i] = p3.buf[i]
  BY <1>10, SealedReply DEF Sendable
<1> DEFINE e == d.buf
<1>12. d = At(e, i0) /\ e \in Seq(Octet) /\ Len(e) = Len(p3.buf) /\ Carries(e, p3.buf)
  <2> HIDE DEF d
  <2>1. d = At(d.buf, d.pos)
    BY <1>11, PacketAt
  <2> QED
    BY <1>11, <2>1, PacketParts DEF Carries, i0
<1>13. Told(b) = <<ReadInt(d).val, ReadString(ReadInt(d).p).val>>
  BY <1>5, <1>11, NewRoomTold
<1> HIDE DEF b, d, e
<1>14. Holds(e, i0, Bytes(tid, 4)) /\ Holds(e, i1, Bytes(m, 4)) /\ Holds(e, i1 + 4, addr) /\ e[z] = 0 /\ z <= Len(e)
  <2>1. Len(p2.buf) <= Len(p3.buf) /\ Len(p3.buf) \in Nat /\ \A i \in 1..Len(p2.buf) : p3.buf[i] = p2.buf[i]
    BY <1>8, PacketParts DEF Grown
  <2>2. i1 <= Len(p1.buf) /\ i1 + 4 <= Len(p2.buf) /\ i1 + 4 + Len(addr) <= Len(p2.buf) /\ i1 + 4 \in Nat /\ i1 + 4 >= 9
    <3>1. /\ Len(p1.buf) = i1 /\ Len(p2.buf) = z /\ i1 \in Nat /\ z = i1 + 5 + n /\ n = Len(addr) /\ n \in Nat
          /\ i1 >= 9
      BY <1>1, <1>3, <1>6, <1>7
    <3> QED
      BY ONLY <3>1
  <2>3. Holds(e, i0, Bytes(tid, 4))
    BY <1>2, <1>3, <1>6, <1>8, <1>9, <1>12, <2>2, LastInt
  <2>4. Holds(e, i1, Bytes(m, 4))
    <3> DEFINE j == i1 + 4
    <3>1. j \in Nat /\ j = i1 + 4 /\ j <= Len(p2.buf) /\ m \in Int
      BY <1>1, <2>2
    <3> HIDE DEF j
    <3> QED
      BY <1>3, <1>7, <1>8, <1>12, <3>1, LastInt
  <2>5. Holds(e, i1 + 4, addr)
    BY <1>1, <1>7, <1>8, <1>12, <2>2, HoldsLast, SMTT(30)
  <2>6. z \in 1..Len(p2.buf) /\ z \in 10..Len(p3.buf)
    BY <1>3, <1>7, <2>1
  <2>7. e[z] = p3.buf[z] /\ p3.buf[z] = p2.buf[z]
    BY <1>12, <2>1, <2>6 DEF Carries
  <2> QED
    BY <1>7, <1>12, <2>3, <2>4, <2>5, <2>6, <2>7
<1>15. Len(e) <= 32768 /\ Len(e) \in Nat
  BY <1>1, <1>8, <1>10, <1>12, PacketParts DEF Built
<1>16. ReadInt(At(e, i0)) = [val |-> tid, p |-> At(e, i1)]
  <2>1. i0 + 4 <= Len(e)
    BY <1>1, <1>3, <1>14, <1>15
  <2>2. ReadInt(At(e, i0)) = [val |-> tid, p |-> At(e, i0 + 4)]
    BY <1>3, <1>12, <1>14, <2>1, TakeInt
  <2> QED
    BY <1>3, <2>2
<1>17. ReadString(At(e, i1)).val = addr
  <2>1. i1 + 5 + Len(addr) <= Len(e) /\ e[i1 + 5 + Len(addr)] = 0
    BY <1>1, <1>3, <1>14
  <2>2. Holds(e, i1, Bytes(Len(addr) + 1, 4)) /\ Holds(e, i1 + 4, addr) /\ e \in Seq(Octet) /\ i1 \in Nat
    BY <1>1, <1>3, <1>12, <1>14
  <2> QED
    BY ONLY <1>1, <1>15, <2>1, <2>2, TakeString
<1>18. ReadInt(d).val = tid /\ ReadInt(d).p = At(e, i1)
  BY <1>12, <1>16
<1>19. Told(b) = <<tid, addr>>
  BY <1>13, <1>17, <1>18
<1>20. Command(b) # CMD_GET_ROOM_LEVER_NUM
  BY <1>11 DEF c, CMD_GET_NEW_ROOM, CMD_GET_ROOM_LEVER_NUM
<1>21. Good(b)
  BY <1>11, <1>20 DEF Good
<1> QED
  BY <1>19, <1>21 DEF b, p3, p2, p1, p0, c

\* ProcUserGetNewRoom forwards the request for a room.
LEMMA NewRoomEffect ==
  ASSUME NEW s, SessionOK(s), s.stage = "open", NEW pkg, Frame(pkg), ForAlloc(pkg), Command(pkg) = CMD_GET_NEW_ROOM
  PROVE  Effect(ProcUserGetNewRoom(s, Copy(pkg)), s, pkg)
<1> DEFINE t == ProcUserGetNewRoom(s, Copy(pkg))
           d == Decrypt(Copy(pkg))
           p == WriteInt(WriteString(WriteInt(Begin(CMD_GET_NEW_ROOM), s.tid), s.addr), s.port)
           same == Encrypt(Copy(d.buf)).buf
           answer == Reply(s, Encrypt(End(p)))
           on == ToAlloc(s, CMD_GET_NEW_ROOM, same)
<1>1. /\ t \in {Fatal(s), s} \/ (s.tid > 0 /\ t = answer) \/ (~ (s.uid <= 0) /\ t = on)
  BY DEF ProcUserGetNewRoom
<1>2. ByTable(pkg)
  BY DEF ByTable
<1>3. same = pkg
  BY SealedAgain DEF Frame
<1>4. s.uid > 0 => Effect(on, s, pkg)
  <2>1. Kept(s, s, Named3)
    BY DEF Kept, SessionOK
  <2>2. CMD_GET_NEW_ROOM # CLIENT_CMD_CLIENT_LOGIN
    BY DEF CMD_GET_NEW_ROOM, CLIENT_CMD_CLIENT_LOGIN
  <2>3. s.uid > 0 => Effect(ToAlloc(s, Command(pkg), pkg), s, pkg)
    BY <2>1, <2>2, ToAllocEffect
  <2> QED
    BY <1>3, <2>3
<1>5. s.tid > 0 => Effect(answer, s, pkg)
  <2> SUFFICES ASSUME s.tid > 0 PROVE Effect(answer, s, pkg)
    OBVIOUS
  <2> DEFINE e == Encrypt(End(p))
             b == e.buf
  <2>1. s.tid \in Int32 /\ s.addr \in Address /\ s.port \in Int32
    BY DEF SessionOK
  <2>2. Good(b) /\ Told(b) = <<s.tid, s.addr>>
    BY <2>1, TableTold
  <2> HIDE DEF e
  <2>3. Effect(Reply(s, e), s, pkg)
    BY <1>2, <2>2, ReplyEffect
  <2> QED
    BY <2>3 DEF e
<1>6. s.uid > 0 \/ s.uid <= 0
  BY DEF SessionOK, Int32
<1>7. Effect(s, s, pkg)
  BY <1>2, NoEffect
<1> HIDE DEF answer, on
<1> QED
  BY <1>1, <1>4, <1>5, <1>6, <1>7, FatalEffect

\* Login takes the user and the api the packet names before it forwards it.
LEMMA LoginEffect ==
  ASSUME NEW s, SessionOK(s), s.stage = "open", NEW pkg, Frame(pkg), ForAlloc(pkg), Command(pkg) = CLIENT_CMD_CLIENT_LOGIN
  PROVE  Effect(Login(s, Copy(pkg)), s, pkg)
<1> DEFINE d == Decrypt(Copy(pkg))
           uid == ReadInt(d)
           u == uid.val
           a == ReadShort(uid.p).val
           us == s.users \cup {u}
           x == "uid"
           y == "api"
           z == "users"
           t1 == [s EXCEPT ![x] = u]
           t2 == [t1 EXCEPT ![y] = a]
           t == [t2 EXCEPT ![z] = us]
<1>1. Copy(pkg).buf = pkg /\ d \in Packet
  BY FrameIs
<1>2. uid.val \in Int32 /\ uid.p \in Packet
  BY <1>1, ReadIntIs
<1>3. a \in Int16
  BY <1>2, ReadShortIs
<1>4. <<u, a>> = Named(pkg)
  BY DEF Named
<1>5. Login(s, Copy(pkg)) = IF u <= 0 \/ (s.uid > 0 /\ s.uid # u) THEN Fatal(s) ELSE ToAlloc(t, CLIENT_CMD_CLIENT_LOGIN, pkg)
  BY <1>1 DEF Login
<1>6. x \in Fields /\ y \in Fields /\ z \in Fields /\ x # y /\ x # z /\ y # z /\ Named3 = {x, y, z}
  BY DEF Fields, Named3
<1>7. t[x] = t.uid /\ t[y] = t.api /\ t[z] = t.users
  OBVIOUS
<1>8. IsFiniteSet(us)
  BY FS_AddElement DEF SessionOK
<1> HIDE DEF x, y, z, u, a, us
<1>9. Kept(t1, s, {x}) /\ t1[x] = u
  BY <1>6, SetField DEF SessionOK
<1> HIDE DEF t1
<1>10. Kept(t2, t1, {y}) /\ t2[y] = a
  BY <1>6, <1>9, SetField DEF Kept
<1> HIDE DEF t2
<1>11. Kept(t, t2, {z}) /\ t[z] = us
  BY <1>6, <1>10, SetField DEF Kept
<1> HIDE DEF t
<1>12. Kept(t, s, Named3) /\ t[x] = u /\ t[y] = a /\ t[z] = us
  BY <1>6, <1>9, <1>10, <1>11 DEF Kept
<1>13. \A f \in {"tid", "addr", "port", "count", "ipmap", "stage"} : f \in Fields \ Named3
  BY DEF Fields, Named3
<1>14. t.tid = s.tid /\ t.addr = s.addr /\ t.port = s.port /\ t.count = s.count /\ t.ipmap = s.ipmap /\ t.stage = s.stage
  <2>1. \A f \in {"tid", "addr", "port", "count", "ipmap", "stage"} : t[f] = s[f]
    BY <1>12, <1>13 DEF Kept
  <2> QED
    BY <2>1
<1>15. t.uid = u /\ t.api = a /\ t.users = us /\ u \in Int32 /\ a \in Int16
  BY <1>2, <1>3, <1>7, <1>12 DEF u
<1>16. SessionOK(t)
  BY <1>8, <1>12, <1>14, <1>15 DEF SessionOK, Kept
<1>17. u > 0 => Effect(ToAlloc(t, Command(pkg), pkg), s, pkg)
  BY <1>4, <1>12, <1>15, <1>16, ToAllocEffect
<1>18. u > 0 \/ u <= 0
  BY <1>15 DEF Int32
<1> QED
  BY <1>5, <1>17, <1>18, FatalEffect

-----------------------------------------------------------------------------
(* Numbers of users. *)

\* What is computed in N rounds, each a step from S to S, exists.
Steps(N, S) == [1..N -> [S -> S]]
Rounded(f, N, S, a, step) == f \in [0..N -> S] /\ f[0] = a /\ \A i \in 1..N : f[i] = step[i][f[i-1]]

\* A function given by its first value and a step for each later one exists.
LEMMA Recursion ==
  ASSUME NEW N \in Nat, NEW S, NEW a \in S, NEW step \in Steps(N, S)
  PROVE  \E f : Rounded(f, N, S, a, step)
<1> DEFINE G == {n \in Nat : n <= N => \E f \in [0..n -> S] : f[0] = a /\ \A i \in 1..n : f[i] = step[i][f[i-1]]}
<1>0. step \in [1..N -> [S -> S]]
  BY DEF Steps
<1>1. 0 \in G
  <2> DEFINE f == [i \in 0..0 |-> a]
  <2>1. f \in [0..0 -> S] /\ f[0] = a /\ \A i \in 1..0 : f[i] = step[i][f[i-1]]
    OBVIOUS
  <2> QED
    BY <2>1
<1>2. ASSUME NEW n \in Nat, n \in G PROVE n + 1 \in G
  <2> SUFFICES ASSUME n + 1 <= N
               PROVE  \E f \in [0..n+1 -> S] : f[0] = a /\ \A i \in 1..n+1 : f[i] = step[i][f[i-1]]
    OBVIOUS
  <2>1. PICK f \in [0..n -> S] : f[0] = a /\ \A i \in 1..n : f[i] = step[i][f[i-1]]
    BY <1>2
  <2>2. step[n + 1] \in [S -> S] /\ f[n] \in S
    BY <1>0, <2>1
  <2>3. step[n + 1][f[n]] \in S
    BY <2>2
  <2> DEFINE g == [i \in 0..n+1 |-> IF i = n + 1 THEN step[n + 1][f[n]] ELSE f[i]]
  <2>4. g \in [0..n+1 -> S] /\ g[0] = a
    BY <2>1, <2>3
  <2>5. ASSUME NEW i \in 1..n+1 PROVE g[i] = step[i][g[i-1]]
    <3>1. CASE i = n + 1
      <4>1. g[i] = step[n + 1][f[n]] /\ g[i - 1] = f[n] /\ i - 1 = n
        BY <3>1
      <4> QED
        BY <3>1, <4>1
    <3>2. CASE i # n + 1
      <4>1. i \in 1..n /\ i \in 0..n+1 /\ i - 1 \in 0..n+1 /\ i - 1 # n + 1
        BY <3>2
      <4>2. g[i] = f[i] /\ g[i - 1] = f[i - 1]
        BY <3>2, <4>1
      <4> QED
        BY <2>1, <4>1, <4>2
    <3> QED
      BY <3>1, <3>2
  <2> HIDE DEF g
  <2> QED
    BY <2>4, <2>5
<1> HIDE DEF G
<1>3. N \in G
  BY <1>1, <1>2, AllNumbers
<1> QED
  BY <1>3 DEF G, Rounded

\* The users of slot k in a packet about levels.
SlotTrue(b, k) == Number(Slice(b, 9 + 4 * k, 2)) >= 0

\* A true entry of an answer is true in what is sent of it.
LEMMA SlotCarried ==
  ASSUME NEW b \in Seq(Octet), NEW c \in Seq(Octet), NEW k \in Nat, k >= 1, 11 + 4 * k <= Len(b), Len(b) <= Len(c),
         Carries(c, b), SlotTrue(b, k)
  PROVE  SlotTrue(c, k)
<1> DEFINE i == 9 + 4 * k
<1>1. i \in Nat /\ i + 2 <= Len(b) /\ i + 2 <= Len(c) /\ i + 1 \in 10..Len(b) /\ i + 2 \in 10..Len(b)
  OBVIOUS
<1> HIDE DEF i
<1>2. b[i + 1] = c[i + 1] /\ b[i + 2] = c[i + 2]
  BY <1>1 DEF Carries
<1>3. Slice(b, i, 2) = Slice(c, i, 2)
  BY <1>1, <1>2, TwoSame
<1> QED
  BY <1>3 DEF SlotTrue, i

\* The number just written is a true entry of the answer.
LEMMA SlotWritten ==
  ASSUME NEW q \in Packet, NEW k \in Nat, k >= 1, Len(q.buf) = 9 + 4 * k, 11 + 4 * k <= PACKET_BUFFER_SIZE,
         NEW n \in Int16, n >= 0
  PROVE  LET r == WriteShort(q, n)
         IN r \in Packet /\ Grown(r, q) /\ Len(r.buf) = 11 + 4 * k /\ SlotTrue(r.buf, k)
<1> DEFINE r == WriteShort(q, n)
           i == 9 + 4 * k
           j == i + 2
<1>1. i \in Nat /\ j \in Nat /\ j = i + 2 /\ j <= PACKET_BUFFER_SIZE /\ Len(q.buf) = i /\ n \in Int
  BY DEF Int16
<1>2. j = 11 + 4 * k
  OBVIOUS
<1> HIDE DEF i, j
<1>3. r \in Packet /\ Grown(r, q) /\ Len(r.buf) = j /\ Holds(r.buf, i, Bytes(n, 2))
  BY <1>1, AddShort
<1> HIDE DEF r
<1>4. Number(Slice(r.buf, i, 2)) = n
  <2> DEFINE s == Bytes(n, 2)
  <2>1. Len(s) = 2
    BY <1>1, ShortBytes
  <2>2. Holds(r.buf, i, s)
    BY <1>3
  <2> HIDE DEF s
  <2>3. r.buf[i + 1] = s[1] /\ r.buf[i + 2] = s[2]
    BY <2>1, <2>2 DEF Holds
  <2>4. i + 2 <= Len(r.buf)
    BY <1>1, <1>3
  <2> QED
    BY <1>1, <1>3, <2>3, <2>4, ShortAt DEF s
<1> QED
  BY <1>2, <1>3, <1>4 DEF SlotTrue, r, i

\* One more level in the answer.
AnswerMore(s, rnd, i, a) ==
  LET level == ReadShort(a.in)
  IN [in |-> level.p, asked |-> a.asked \cup {level.val},
      out |-> WriteShort(WriteShort(a.out, level.val), Shown(s, level.val, rnd[1 + (i % 2)]))]

\* The number of players shown for a level is never negative and has 16 bits.
LEMMA ShownIs ==
  ASSUME NEW s, IsCounts(s.count), NEW x \in 0..99, NEW level
  PROVE  Shown(s, level, x) \in Nat /\ Shown(s, level, x) <= 32099
<1> DEFINE c == s.count
<1>2. IsCounts(c)
  OBVIOUS
<1>5. Shown(s, level, x) = x + IF level \notin DOMAIN c THEN 0 ELSE IF c[level] > 32000 THEN 32000 ELSE c[level]
  BY DEF Shown
<1> HIDE DEF c
<1>3. level \in DOMAIN c => c[level] \in Nat /\ c[level] <= 32767
  BY <1>2 DEF IsCounts
<1>4. Shown(s, level, x) \in Nat /\ Shown(s, level, x) <= 32099
  <2>1. CASE level \notin DOMAIN c
    BY <1>2, <1>5, <2>1
  <2>2. CASE level \in DOMAIN c
    <3> DEFINE y == c[level]
    <3>1. y \in Nat /\ y <= 32767 /\ Shown(s, level, x) = x + IF y > 32000 THEN 32000 ELSE y
      BY <1>3, <1>5, <2>2
    <3> HIDE DEF y
    <3> QED
      BY <1>2, <3>1
  <2> QED
    BY <2>1, <2>2
<1> QED
  BY <1>4

Answers == [in : Packet, out : Packet, asked : SUBSET Int]

\* One turn of the loop of ProcessGetLevelCount: a level asked for, its number written.
LEMMA AnswerMoreIs ==
  ASSUME NEW s, IsCounts(s.count), NEW rnd \in [1..2 -> 0..99], NEW i \in Nat, NEW a \in Answers
  PROVE  /\ AnswerMore(s, rnd, i, a) \in Answers
         /\ AnswerMore(s, rnd, i, a).out = WriteShort(WriteShort(a.out, ReadShort(a.in).val), Shown(s, ReadShort(a.in).val, rnd[1 + (i % 2)]))
         /\ Grown(AnswerMore(s, rnd, i, a).out, a.out)
<1> DEFINE level == ReadShort(a.in)
           l == level.val
           q == level.p
           x0 == rnd[1 + (i % 2)]
           u == Shown(s, l, x0)
           p1 == WriteShort(a.out, l)
           p2 == WriteShort(p1, u)
           x == AnswerMore(s, rnd, i, a)
<1>1. a.in \in Packet /\ a.out \in Packet /\ a.asked \in SUBSET Int
  BY DEF Answers
<1>2. level.val \in Int16 /\ level.p \in Packet
  BY <1>1, ReadShortIs
<1>3. l \in Int /\ q \in Packet
  BY <1>2 DEF Int16
<1>4. u \in Int
  <2>0. x0 \in 0..99
    <3>1. 1 + (i % 2) \in 1..2
      OBVIOUS
    <3> QED
      BY <3>1 DEF x0
  <2>1. u \in Nat
    BY <2>0, ShownIs DEF u
  <2> QED
    BY <2>1
<1>5. x = [in |-> q, asked |-> a.asked \cup {l}, out |-> p2]
  BY DEF AnswerMore
<1> HIDE DEF l, q, u, x, x0
<1>6. Grown(p1, a.out) /\ p1 \in Packet
  BY <1>1, <1>3, WriteShortIs DEF Grown
<1> HIDE DEF p1
<1>7. Grown(p2, p1) /\ p2 \in Packet
  BY <1>4, <1>6, WriteShortIs DEF Grown
<1>8. Grown(p2, a.out)
  BY <1>1, <1>6, <1>7, GrownTrans
<1> HIDE DEF p2
<1>9. x.out = p2 /\ x \in Answers
  BY <1>1, <1>3, <1>5, <1>7 DEF Answers
<1> QED
  BY <1>8, <1>9 DEF x, p2, p1, l, u, x0

AnswerLength(v) == IF v > 0 THEN v ELSE 0
AnswerStart(n) == [in |-> n.p, out |-> WriteShort(Begin(CMD_GET_ROOM_LEVER_NUM), n.val), asked |-> {}]
Capped(s, asked) ==
  [s EXCEPT !.count = [l \in DOMAIN s.count |-> IF l \in asked /\ s.count[l] > 32000 THEN 32000 ELSE s.count[l]]]

\* The answer is what its rounds make.
LEMMA AnswerIs ==
  ASSUME NEW s, IsCounts(s.count), NEW rnd \in [1..2 -> 0..99], NEW req, Decrypt(req) \in Packet
  PROVE  LET n == ReadShort(Decrypt(req))
             N == AnswerLength(n.val)
         IN \E f : /\ f[0] = AnswerStart(n)
                   /\ \A i \in 1..N : f[i] = AnswerMore(s, rnd, i, f[i-1])
                   /\ ProcessGetLevelCount(s, req, rnd) = Reply(Capped(s, f[N].asked), Encrypt(End(f[N].out)))
<1> DEFINE d == Decrypt(req)
           n == ReadShort(d)
           v == n.val
           N == AnswerLength(v)
           a == AnswerStart(n)
           step == [i \in 1..N |-> [x \in Answers |-> AnswerMore(s, rnd, i, x)]]
           P(g) == [i \in 0..N |-> IF i = 0 THEN a ELSE AnswerMore(s, rnd, i, g[i-1])]
           A == CHOOSE g : g = P(g)
<1>1. v \in Int16 /\ n.p \in Packet
  BY ReadShortIs
<1>2. N \in Nat /\ v \in Int
  BY <1>1 DEF AnswerLength, Int16
<1>3. a \in Answers
  <2> DEFINE c == CMD_GET_ROOM_LEVER_NUM
             p == WriteShort(Begin(c), v)
  <2>1. c \in Int16
    BY DEF CMD_GET_ROOM_LEVER_NUM, Int16
  <2> HIDE DEF c
  <2>2. p \in Packet
    BY <1>2, <2>1, Started, WriteShortIs DEF Built, Grown
  <2>3. a = [in |-> n.p, out |-> p, asked |-> {}]
    BY DEF AnswerStart, c
  <2> HIDE DEF p, a
  <2> QED
    BY <1>1, <2>2, <2>3 DEF Answers
<1>4. ProcessGetLevelCount(s, req, rnd) = Reply(Capped(s, A[N].asked), Encrypt(End(A[N].out)))
  BY DEF ProcessGetLevelCount, AnswerMore, AnswerStart, AnswerLength, Capped
<1> HIDE DEF d, n, v, N, a
<1>5. step \in [1..N -> [Answers -> Answers]]
  <2>1. \A i \in 1..N, x \in Answers : AnswerMore(s, rnd, i, x) \in Answers
    BY <1>2, AnswerMoreIs
  <2> QED
    BY <2>1
<1>6. PICK f \in [0..N -> Answers] : f[0] = a /\ \A i \in 1..N : f[i] = step[i][f[i-1]]
  <2> HIDE DEF step
  <2> QED
    <3>1. step \in Steps(N, Answers)
      BY <1>5 DEF Steps
    <3>2. \E f : Rounded(f, N, Answers, a, step)
      BY ONLY <1>2, <1>3, <3>1, Recursion
    <3> QED
      BY <3>2 DEF Rounded
<1>7. f = P(f)
  <2>1. \A i \in 1..N : f[i-1] \in Answers
    <3>1. \A i \in 1..N : i - 1 \in 0..N
      BY <1>2
    <3> QED
      BY <3>1
  <2>2. \A i \in 1..N : f[i] = AnswerMore(s, rnd, i, f[i-1])
    BY <1>6, <2>1
  <2>3. \A i \in 0..N : f[i] = IF i = 0 THEN a ELSE AnswerMore(s, rnd, i, f[i-1])
    <3>1. \A i \in 0..N : i = 0 \/ i \in 1..N
      BY <1>2
    <3>2. \A i \in 1..N : i # 0
      BY <1>2
    <3> QED
      BY <1>6, <2>2, <3>1, <3>2
  <2> HIDE DEF step
  <2> QED
    BY <2>3
<1>8. A = P(A)
  BY <1>7
<1> HIDE DEF A, step
<1>9. A[0] = a /\ \A i \in 1..N : A[i] = AnswerMore(s, rnd, i, A[i-1])
  <2>1. 0 \in 0..N /\ \A i \in 1..N : i \in 0..N /\ i # 0
    BY <1>2
  <2> QED
    BY <1>8, <2>1
<1> QED
  BY <1>4, <1>9 DEF d, n, v, N, a

\* Capping the numbers kept per level keeps the session sound.
LEMMA CappedIs ==
  ASSUME NEW s, SessionOK(s), NEW asked
  PROVE  /\ Kept(Capped(s, asked), s, {"count"}) /\ IsCounts(Capped(s, asked).count)
         /\ SessionOK(Capped(s, asked))
<1> DEFINE x == "count"
           c == s.count
           v == [l \in DOMAIN c |-> IF l \in asked /\ c[l] > 32000 THEN 32000 ELSE c[l]]
           t == [s EXCEPT ![x] = v]
<1>1. Capped(s, asked) = t
  BY DEF Capped
<1>2. x \in Fields
  BY DEF Fields
<1>3. t.count = t[x]
  OBVIOUS
<1>4. IsCounts(c) /\ IsSession(s)
  BY DEF SessionOK
<1>10. \A y \in State \ {"count"} : y \in Fields \ {x}
  BY DEF State, Fields
<1>11. x = "count"
  OBVIOUS
<1> HIDE DEF x, c
<1>5. IsCounts(v)
  <2>1. \A l \in DOMAIN c : c[l] \in Nat /\ c[l] <= 32767
    BY <1>4 DEF IsCounts
  <2> SUFFICES ASSUME NEW l \in DOMAIN c PROVE v[l] \in Nat /\ v[l] <= 32767
    BY DEF IsCounts
  <2> DEFINE y == c[l]
  <2>2. v[l] = IF l \in asked /\ y > 32000 THEN 32000 ELSE y
    OBVIOUS
  <2>3. y \in Nat /\ y <= 32767
    BY <2>1
  <2> HIDE DEF y, v
  <2> QED
    BY <2>2, <2>3
<1> HIDE DEF v
<1>6. Kept(t, s, {x}) /\ t[x] = v
  BY <1>2, <1>4, SetField
<1> HIDE DEF t
<1>7. t.count = v
  BY <1>3, <1>6
<1>8. \A y \in State \ {"count"} : t[y] = s[y]
  BY <1>6, <1>10 DEF Kept
<1>9. SessionOK(t)
  <2>1. /\ t.uid = s.uid /\ t.api = s.api /\ t.tid = s.tid /\ t.addr = s.addr /\ t.port = s.port
        /\ t.users = s.users /\ t.stage = s.stage /\ t.ipmap = s.ipmap
    BY <1>8 DEF State
  <2> QED
    BY <1>5, <1>6, <1>7, <2>1 DEF SessionOK, Kept
<1> QED
  BY <1>1, <1>5, <1>6, <1>7, <1>9, <1>11

\* Rounds that fit keep their numbers.
LEMMA AnswerFits ==
  ASSUME NEW s, IsCounts(s.count), NEW rnd \in [1..2 -> 0..99], NEW n, n.val \in Int16, n.p \in Packet,
         NEW f, f[0] = AnswerStart(n), NEW N \in Nat, N = AnswerLength(n.val),
         \A i \in 1..N : f[i] = AnswerMore(s, rnd, i, f[i-1])
  PROVE  /\ Built(f[N].out, CMD_GET_ROOM_LEVER_NUM)
         /\ Grown(f[N].out, f[0].out)
         /\ 11 + 4 * N <= PACKET_BUFFER_SIZE =>
              Len(f[N].out.buf) = 11 + 4 * N /\ \A k \in 1..N : SlotTrue(f[N].out.buf, k)
<1> DEFINE c == CMD_GET_ROOM_LEVER_NUM
           p0 == Begin(c)
           v == n.val
           q == WriteShort(p0, v)
           fit == 11 + 4 * N <= PACKET_BUFFER_SIZE
           ok(i) == /\ f[i] \in Answers /\ Built(f[i].out, c) /\ Grown(f[i].out, q)
                    /\ fit => Len(f[i].out.buf) = 11 + 4 * i /\ \A k \in 1..i : SlotTrue(f[i].out.buf, k)
           T == {i \in 0..N : ok(i)}
<1>1. c \in Int16
  BY DEF CMD_GET_ROOM_LEVER_NUM, Int16
<1>2. v \in Int
  BY DEF Int16
<1>3. f[0] = [in |-> n.p, out |-> q, asked |-> {}]
  BY DEF AnswerStart
<1>10. f[0].out = q
  BY <1>3
<1> HIDE DEF c, v
<1>4. Built(p0, c) /\ Len(p0.buf) = 9 /\ p0 \in Packet /\ 11 <= PACKET_BUFFER_SIZE
  <2>1. Built(p0, c) /\ Len(p0.buf) = 9
    BY <1>1, Started
  <2>2. 11 <= PACKET_BUFFER_SIZE
    BY LimitsAssumption, Sizes
  <2> HIDE DEF p0
  <2> QED
    BY <2>1, <2>2 DEF Built
<1>5. q \in Packet /\ Grown(q, p0) /\ Len(q.buf) = 11
  <2> DEFINE i == 9
             j == 11
  <2>1. i \in Nat /\ j \in Nat /\ j = i + 2 /\ j <= PACKET_BUFFER_SIZE /\ Len(p0.buf) = i
    BY <1>4
  <2>2. j = 11
    OBVIOUS
  <2> HIDE DEF i, j, p0
  <2>3. Len(q.buf) = j /\ q \in Packet /\ Grown(q, p0)
    BY <1>2, <1>4, <2>1, AddShort
  <2> QED
    BY <2>2, <2>3
<1>6. Built(q, c)
  BY <1>4, <1>5, BuiltGrown
<1> HIDE DEF q, p0
<1>7. ok(0)
  <2>1. f[0] \in Answers
    BY <1>3, <1>5 DEF Answers
  <2>2. Grown(q, q)
    BY <1>5, GrownRefl
  <2>3. 11 + 4 * 0 = 11 /\ 1..0 = {}
    OBVIOUS
  <2> QED
    BY <1>5, <1>6, <1>10, <2>1, <2>2, <2>3
<1>8. ASSUME NEW i \in 1..N, ok(i - 1) PROVE ok(i)
  <2> DEFINE j == i - 1
             a == f[j]
             lvl == ReadShort(a.in).val
             x == rnd[1 + (i % 2)]
             u == Shown(s, lvl, x)
             p1 == WriteShort(a.out, lvl)
             p2 == WriteShort(p1, u)
  <2>1. j \in Nat /\ i \in Nat /\ i = j + 1 /\ i <= N /\ i >= 1
    OBVIOUS
  <2>2. /\ a \in Answers /\ Built(a.out, c) /\ Grown(a.out, q)
        /\ fit => Len(a.out.buf) = 11 + 4 * j /\ \A k \in 1..j : SlotTrue(a.out.buf, k)
    BY <1>8
  <2>3. f[i] = AnswerMore(s, rnd, i, a)
    OBVIOUS
  <2>4. f[i] \in Answers /\ f[i].out = p2 /\ Grown(p2, a.out)
    <3>1. \A y \in Answers : AnswerMore(s, rnd, i, y) \in Answers /\ Grown(AnswerMore(s, rnd, i, y).out, y.out)
      BY <2>1, AnswerMoreIs
    <3>2. AnswerMore(s, rnd, i, a).out = p2
      BY DEF AnswerMore
    <3> HIDE DEF a, p2
    <3> QED
      BY <2>2, <2>3, <3>1, <3>2
  <2>5. a.in \in Packet /\ a.out \in Packet
    BY <2>2 DEF Answers
  <2>6. lvl \in Int16
    BY <2>5, ReadShortIs
  <2>7. u \in Nat /\ u <= 32099
    <3>1. x \in 0..99
      <4>1. 1 + (i % 2) \in 1..2
        OBVIOUS
      <4> QED
        BY <4>1
    <3> HIDE DEF x
    <3> QED
      BY <3>1, ShownIs
  <2> HIDE DEF a, j, u, lvl
  <2>8. Built(p2, c)
    BY <2>2, <2>4, BuiltGrown
  <2>9. Grown(p2, q)
    BY <1>5, <2>2, <2>4, GrownTrans
  <2>10. ASSUME fit PROVE Len(p2.buf) = 11 + 4 * i /\ \A k \in 1..i : SlotTrue(p2.buf, k)
    <3>1. Len(a.out.buf) = 11 + 4 * j /\ \A k \in 1..j : SlotTrue(a.out.buf, k)
      BY <2>2, <2>10
    <3>2. 11 + 4 * i <= PACKET_BUFFER_SIZE /\ PACKET_BUFFER_SIZE \in Nat
      BY <2>1, <2>10, Sizes
    <3>3. p1 \in Packet /\ Len(p1.buf) = 9 + 4 * i
      <4> DEFINE m == 11 + 4 * j
                 k == m + 2
      <4>1. m \in Nat /\ k \in Nat /\ k = m + 2 /\ k <= PACKET_BUFFER_SIZE /\ Len(a.out.buf) = m /\ k = 9 + 4 * i /\ lvl \in Int
        BY <2>1, <2>6, <3>1, <3>2 DEF Int16
      <4> HIDE DEF m, k
      <4>2. p1 \in Packet /\ Len(p1.buf) = k
        BY ONLY <2>5, <4>1, AddShort
      <4> HIDE DEF p1
      <4> QED
        BY <4>1, <4>2
    <3>4. u \in Int16 /\ u >= 0
      BY <2>7 DEF Int16
    <3> HIDE DEF p1
    <3>5. p2 \in Packet /\ Len(p2.buf) = 11 + 4 * i /\ SlotTrue(p2.buf, i)
      BY <2>1, <3>2, <3>3, <3>4, SlotWritten
    <3> HIDE DEF p2
    <3>6. ASSUME NEW k \in 1..j PROVE SlotTrue(p2.buf, k)
      <4>1. k \in Nat /\ k >= 1 /\ 11 + 4 * k <= Len(a.out.buf) /\ Len(a.out.buf) <= Len(p2.buf)
        BY <2>1, <3>1, <3>5, SMTT(30)
      <4>2. Carries(p2.buf, a.out.buf)
        <5>1. \A m \in 10..Len(a.out.buf) : m \in 1..Len(a.out.buf)
          BY <2>5, PacketParts
        <5> QED
          BY <2>4, <5>1 DEF Grown, Carries
      <4>3. SlotTrue(a.out.buf, k) /\ a.out.buf \in Seq(Octet) /\ p2.buf \in Seq(Octet)
        BY <2>5, <3>1, <3>5, PacketParts
      <4> QED
        BY <4>1, <4>2, <4>3, SlotCarried
    <3>7. \A k \in 1..i : k = i \/ k \in 1..j
      BY <2>1
    <3> QED
      BY <3>5, <3>6, <3>7
  <2> HIDE DEF p2
  <2> QED
    BY <2>4, <2>8, <2>9, <2>10
<1> HIDE DEF ok
<1>9. \A i \in 0..N : i \in T
  <2>1. 0 \in T
    BY <1>7
  <2>2. \A i \in 1..N : i - 1 \in T => i \in T
    BY <1>8
  <2> HIDE DEF T
  <2> QED
    BY <2>1, <2>2, Rounds
<1> QED
  BY <1>9, <1>10 DEF ok, c

\* The number of levels the answer tells, and its counts.
LEMMA AnswerGood ==
  ASSUME NEW v \in Int16, NEW N \in Nat, N = AnswerLength(v), NEW q \in Packet, NEW p0,
         p0 = Begin(CMD_GET_ROOM_LEVER_NUM), q = WriteShort(p0, v),
         NEW p, Built(p, CMD_GET_ROOM_LEVER_NUM), Grown(p, q),
         11 + 4 * N <= PACKET_BUFFER_SIZE => Len(p.buf) = 11 + 4 * N /\ \A k \in 1..N : SlotTrue(p.buf, k)
  PROVE  Good(Encrypt(End(p)).buf) /\ Told(Encrypt(End(p)).buf) = <<>>
<1> DEFINE c == CMD_GET_ROOM_LEVER_NUM
           b == Encrypt(End(p)).buf
           d == Decrypt(Copy(b))
           e == d.buf
           i == 9
           j == i + 2
<1>1. c \in Int16 /\ c \in Silent
  BY DEF CMD_GET_ROOM_LEVER_NUM, Int16, Silent, SERVER_COMMAND_LOGOUT_SUCCESS, SERVER_COMMAND_CHANGE_GAMESERVER,
         CMD_GET_NEW_ROOM, SERVER_CMD_ENTER_ROOM, SERVER_CMD_LOGIN_SUCCESS
<1>2. /\ Sendable(b) /\ Command(b) = c /\ Len(b) = Len(p.buf) /\ d \in Packet /\ d.pos = 9 /\ d.checked = FALSE
      /\ Len(d.buf) = Len(p.buf) /\ \A k \in 10..Len(p.buf) : d.buf[k] = p.buf[k]
  BY SealedReply
<1>3. LevelsIn(b) = ReadShort(d).val
  BY DEF LevelsIn
<1>4. CountsTrue(b) <=> (LevelsIn(b) >= 0 => Len(b) = 11 + 4 * LevelsIn(b) /\ \A k \in 1..LevelsIn(b) : SlotTrue(e, k))
  BY DEF CountsTrue, SlotTrue
<1>5. p \in Packet
  BY DEF Built
<1>21. p0 \in Packet /\ Len(p0.buf) = i
  <2> HIDE DEF c
  <2> QED
    BY <1>1, Started DEF Built, c
<1>6. i \in Nat /\ j \in Nat /\ j = i + 2 /\ i >= 9 /\ j = 11
  OBVIOUS
<1>7. d = At(e, i)
  <2> HIDE DEF d
  <2> QED
    BY <1>2, PacketAt
<1>8. b \in Seq(Octet) /\ Len(b) >= 9
  BY <1>2 DEF Sendable
<1> HIDE DEF b, d, c
<1>9. e \in Seq(Octet) /\ Len(e) = Len(p.buf) /\ Carries(e, p.buf) /\ p.buf \in Seq(Octet) /\ Len(p.buf) \in Nat
  BY <1>2, <1>5, PacketParts DEF Carries
<1> HIDE DEF e, i, j
<1>10. Len(q.buf) = j /\ Holds(q.buf, i, Bytes(v, 2))
  <2>1. j <= PACKET_BUFFER_SIZE
    BY <1>6, LimitsAssumption, Sizes
  <2>2. v \in Int
    BY DEF Int16
  <2> QED
    BY <1>6, <1>21, <2>1, <2>2, AddShort
<1>11. Holds(e, i, Bytes(v, 2)) /\ i + 2 <= Len(e)
  <2>1. v \in Int /\ j <= Len(q.buf)
    BY <1>6, <1>10 DEF Int16
  <2>2. Holds(e, i, Bytes(v, 2))
    BY <1>5, <1>6, <1>9, <1>10, <2>1, LastShort
  <2>3. Len(q.buf) <= Len(p.buf)
    BY DEF Grown
  <2> QED
    BY <1>6, <1>9, <1>10, <2>2, <2>3
<1>12. LevelsIn(b) = v
  <2>1. ReadShort(At(e, i)) = [val |-> v, p |-> At(e, i + 2)]
    BY <1>6, <1>9, <1>11, TakeShort
  <2> QED
    BY <1>3, <1>7, <2>1
<1>13. CountsFit(b)
  <2> SUFFICES ASSUME 11 + 4 * v <= PACKET_BUFFER_SIZE, v >= 0
               PROVE  Len(b) = 11 + 4 * v /\ \A k \in 1..v : SlotTrue(e, k)
    BY <1>4, <1>12 DEF CountsFit
  <2>1. N = v
    BY DEF AnswerLength, Int16
  <2>2. Len(p.buf) = 11 + 4 * N /\ \A k \in 1..N : SlotTrue(p.buf, k)
    BY <2>1
  <2>3. ASSUME NEW k \in 1..v PROVE SlotTrue(e, k)
    <3>1. k \in Nat /\ k >= 1 /\ 11 + 4 * k <= Len(p.buf) /\ Len(p.buf) <= Len(e)
      <4>1. k \in Nat /\ k >= 1 /\ k <= N /\ Len(p.buf) = 11 + 4 * N
        BY <2>1, <2>2
      <4> QED
        BY <1>9, <4>1
    <3>2. SlotTrue(p.buf, k)
      BY <2>1, <2>2
    <3> QED
      BY <1>9, <3>1, <3>2, SlotCarried
  <2> QED
    BY <1>2, <2>1, <2>2, <2>3
<1>14. Told(b) = <<>>
  BY <1>1, <1>2, <1>8, SilentTells
<1> QED
  BY <1>2, <1>13, <1>14 DEF Good, b, c

\* ProcessGetLevelCount answers with true numbers and keeps the session sound.
LEMMA LevelCountEffect ==
  ASSUME NEW s, SessionOK(s), s.stage = "open", NEW rnd \in [1..2 -> 0..99], NEW pkg, Frame(pkg),
         ~ ForGame(pkg), ~ ForAlloc(pkg)
  PROVE  Effect(ProcessGetLevelCount(s, Copy(pkg), rnd), s, pkg)
<1> DEFINE n == ReadShort(Decrypt(Copy(pkg)))
           v == n.val
           N == AnswerLength(v)
           p0 == Begin(CMD_GET_ROOM_LEVER_NUM)
           q == WriteShort(p0, v)
<1>1. Decrypt(Copy(pkg)) \in Packet /\ IsCounts(s.count)
  BY FrameIs DEF SessionOK
<1>2. n.val \in Int16 /\ n.p \in Packet
  BY <1>1, ReadShortIs
<1>3. N \in Nat
  BY <1>2 DEF AnswerLength, Int16
<1>4. PICK f : /\ f[0] = AnswerStart(n)
               /\ \A i \in 1..N : f[i] = AnswerMore(s, rnd, i, f[i-1])
               /\ ProcessGetLevelCount(s, Copy(pkg), rnd) = Reply(Capped(s, f[N].asked), Encrypt(End(f[N].out)))
  BY <1>1, AnswerIs
<1> HIDE DEF n
<1> DEFINE p == f[N].out
           k == Capped(s, f[N].asked)
           e == Encrypt(End(p))
           b == e.buf
           t == Reply(k, e)
<1>5. /\ Built(p, CMD_GET_ROOM_LEVER_NUM) /\ Grown(p, f[0].out)
      /\ 11 + 4 * N <= PACKET_BUFFER_SIZE => Len(p.buf) = 11 + 4 * N /\ \A i \in 1..N : SlotTrue(p.buf, i)
  <2> HIDE DEF N
  <2>1. N = AnswerLength(n.val)
    BY DEF N
  <2> QED
    BY <1>1, <1>2, <1>3, <1>4, <2>1, AnswerFits
<1>6. f[0].out = q
  <2> HIDE DEF p, b, e, k, t, N
  <2>1. f[0] = [in |-> n.p, out |-> q, asked |-> {}]
    BY <1>4 DEF AnswerStart
  <2> HIDE DEF q
  <2> QED
    BY <2>1
<1>7. q \in Packet
  <2> DEFINE c == CMD_GET_ROOM_LEVER_NUM
  <2>1. c \in Int16
    BY DEF CMD_GET_ROOM_LEVER_NUM, Int16
  <2> HIDE DEF c
  <2>2. v \in Int
    BY <1>2 DEF Int16
  <2> HIDE DEF v
  <2>3. WriteShort(Begin(c), v) \in Packet
    BY <2>1, <2>2, Started, WriteShortIs DEF Built, Grown
  <2> QED
    BY <2>3 DEF c
<1>8. Good(b) /\ Told(b) = <<>>
  <2>1. v \in Int16 /\ N = AnswerLength(v) /\ Grown(p, q)
    BY <1>2, <1>5, <1>6
  <2> HIDE DEF p, v, N
  <2> QED
    BY <1>3, <1>5, <1>7, <2>1, AnswerGood
<1>9. Kept(k, s, {"count"}) /\ IsCounts(k.count) /\ SessionOK(k)
  <2> DEFINE asked == f[N].asked
  <2> HIDE DEF asked
  <2>1. Kept(Capped(s, asked), s, {"count"}) /\ IsCounts(Capped(s, asked).count) /\ SessionOK(Capped(s, asked))
    BY CappedIs
  <2> QED
    BY <2>1 DEF asked
<1> HIDE DEF p, k, e
<1>10. Kept(t, k, {"toClient"}) /\ t.toClient = Append(k.toClient, b)
  BY <1>9, ReplyIs DEF SessionOK
<1> HIDE DEF t, b
<1>11. Kept(t, s, Idle)
  <2>1. Kept(t, s, {"count"} \cup {"toClient"})
    BY <1>9, <1>10, KeptTrans
  <2> QED
    BY <2>1 DEF Kept, Idle
<1>12. t.count = k.count /\ t.ipmap = s.ipmap /\ t.stage = s.stage /\ k.toClient = s.toClient
  <2>1. "count" \in Fields \ {"toClient"} /\ "ipmap" \in Fields \ {"toClient"} /\ "stage" \in Fields \ {"toClient"}
        /\ "ipmap" \in Fields \ {"count"} /\ "stage" \in Fields \ {"count"} /\ "toClient" \in Fields \ {"count"}
    BY DEF Fields
  <2> QED
    BY <1>9, <1>10, <2>1 DEF Kept
<1>13. Answered(t, s)
  BY <1>8, <1>10, <1>12 DEF Answered
<1>14. Effect(t, s, pkg)
  BY <1>9, <1>11, <1>12, <1>13, IdleEffect DEF SessionOK
<1> QED
  BY <1>4, <1>14 DEF t, k, e, p

-----------------------------------------------------------------------------
(* A packet of a client. *)

\* Handling a packet answers it, passes it on or does neither.
LEMMA HandleEffect ==
  ASSUME NEW s, SessionOK(s), s.stage = "open", NEW rnd \in [1..2 -> 0..99], NEW pkg, Frame(pkg)
  PROVE  Effect(HandleInputBuf(s, pkg, rnd), s, pkg)
<1> DEFINE req == Copy(pkg)
           cmd == Command(pkg)
           own == {CLIENT_COMMAND_BREAK_TIME, SERVER_GET_PLAYER_COUNT, SERVER_BROADCAST_INFO,
                   CLINET_REQUEST_BROADCAST_INFO, SYS_OPEN_DEBUG, SYS_RELOAD_IP_MAP,
                   SYS_RESET_CONNECT_TIMER, CMD_GET_ROOM_LEVER_NUM}
           t == HandleInputBuf(s, pkg, rnd)
<1>1. cmd \in Int
  <2>1. cmd \in Int16
    BY FrameIs
  <2> QED
    BY <2>1 DEF Int16
<1>2. cmd \in own => ~ ForGame(pkg) /\ ~ ForAlloc(pkg)
  BY <1>1, OwnCommands
<1>3. /\ cmd = CLIENT_COMMAND_BREAK_TIME => t = BreakTime(s)
      /\ cmd # CLIENT_COMMAND_BREAK_TIME /\ cmd = SERVER_GET_PLAYER_COUNT => t = ProcGetUserCount(s, req)
      /\ cmd # CLIENT_COMMAND_BREAK_TIME /\ cmd # SERVER_GET_PLAYER_COUNT =>
           /\ cmd \in {SERVER_BROADCAST_INFO, CLINET_REQUEST_BROADCAST_INFO} => t = Broadcast(s, req, cmd)
           /\ cmd \notin {SERVER_BROADCAST_INFO, CLINET_REQUEST_BROADCAST_INFO} =>
                /\ cmd > CMD_SEPARATE => t = GameCommand(s, req, cmd)
                /\ ~ (cmd > CMD_SEPARATE) =>
                     /\ cmd \in {SYS_OPEN_DEBUG, SYS_RELOAD_IP_MAP, SYS_RESET_CONNECT_TIMER} => t = Admin(s, req, cmd)
                     /\ cmd \notin {SYS_OPEN_DEBUG, SYS_RELOAD_IP_MAP, SYS_RESET_CONNECT_TIMER} =>
                          t = IF cmd \in Cmd THEN HallCommand(s, req, cmd, rnd) ELSE s
  BY DEF HandleInputBuf, Command
<1>4. CASE cmd = CLIENT_COMMAND_BREAK_TIME
  BY <1>2, <1>3, <1>4, BreakTimeEffect
<1>5. CASE cmd # CLIENT_COMMAND_BREAK_TIME /\ cmd = SERVER_GET_PLAYER_COUNT
  BY <1>2, <1>3, <1>5, UserCountEffect
<1>6. CASE cmd # CLIENT_COMMAND_BREAK_TIME /\ cmd # SERVER_GET_PLAYER_COUNT
           /\ cmd \in {SERVER_BROADCAST_INFO, CLINET_REQUEST_BROADCAST_INFO}
  BY <1>2, <1>3, <1>6, BroadcastEffect
<1>7. CASE /\ cmd # CLIENT_COMMAND_BREAK_TIME /\ cmd # SERVER_GET_PLAYER_COUNT
           /\ cmd \notin {SERVER_BROADCAST_INFO, CLINET_REQUEST_BROADCAST_INFO} /\ cmd > CMD_SEPARATE
  <2>1. ForGame(pkg)
    BY <1>7 DEF ForGame
  <2> QED
    BY <1>3, <1>7, <2>1, GameEffect
<1>8. CASE /\ cmd # CLIENT_COMMAND_BREAK_TIME /\ cmd # SERVER_GET_PLAYER_COUNT
           /\ cmd \notin {SERVER_BROADCAST_INFO, CLINET_REQUEST_BROADCAST_INFO} /\ ~ (cmd > CMD_SEPARATE)
           /\ cmd \in {SYS_OPEN_DEBUG, SYS_RELOAD_IP_MAP, SYS_RESET_CONNECT_TIMER}
  BY <1>2, <1>3, <1>8, AdminEffect
<1>9. CASE /\ cmd # CLIENT_COMMAND_BREAK_TIME /\ cmd # SERVER_GET_PLAYER_COUNT
           /\ cmd \notin {SERVER_BROADCAST_INFO, CLINET_REQUEST_BROADCAST_INFO} /\ ~ (cmd > CMD_SEPARATE)
           /\ cmd \notin {SYS_OPEN_DEBUG, SYS_RELOAD_IP_MAP, SYS_RESET_CONNECT_TIMER}
  <2>0. ~ ForGame(pkg)
    BY <1>9 DEF ForGame
  <2>1. CASE cmd \notin Cmd
    <3>1. ~ ForAlloc(pkg)
      BY <2>1 DEF ForAlloc
    <3> QED
      BY <1>3, <1>9, <2>0, <2>1, <3>1, NoEffect
  <2>2. CASE cmd \in Cmd /\ cmd = CMD_GET_ROOM_LEVER_NUM
    <3>1. t = HallCommand(s, req, cmd, rnd)
      BY <1>3, <1>9, <2>2
    <3>2. cmd # CMD_GET_NEW_ROOM
      BY <2>2 DEF CMD_GET_NEW_ROOM, CMD_GET_ROOM_LEVER_NUM
    <3>3. cmd # CLIENT_CMD_CLIENT_LOGIN
      BY <2>2 DEF CLIENT_CMD_CLIENT_LOGIN, CMD_GET_ROOM_LEVER_NUM
    <3>4. HallCommand(s, req, cmd, rnd) = ProcessGetLevelCount(s, req, rnd)
      BY <2>2, <3>2, <3>3 DEF HallCommand
    <3> QED
      BY <1>2, <2>2, <3>1, <3>4, LevelCountEffect
  <2>3. CASE cmd \in Cmd /\ cmd # CMD_GET_ROOM_LEVER_NUM
    <3>1. t = HallCommand(s, req, cmd, rnd)
      BY <1>3, <1>9, <2>3
    <3>2. ForAlloc(pkg)
      <4>1. cmd <= CMD_SEPARATE
        BY <1>1, <1>9 DEF CMD_SEPARATE
      <4> QED
        BY <1>9, <2>3, <4>1 DEF ForAlloc
    <3>3. CMD_GET_NEW_ROOM # CLIENT_CMD_CLIENT_LOGIN
      BY DEF CMD_GET_NEW_ROOM, CLIENT_CMD_CLIENT_LOGIN
    <3>4. HallCommand(s, req, cmd, rnd) = IF cmd = CMD_GET_NEW_ROOM THEN ProcUserGetNewRoom(s, req)
                                          ELSE IF cmd = CLIENT_CMD_CLIENT_LOGIN THEN Login(s, req) ELSE Pass(s, req, cmd)
      BY <2>3, <3>3 DEF HallCommand
    <3>5. cmd = CMD_GET_NEW_ROOM => Effect(ProcUserGetNewRoom(s, req), s, pkg)
      BY <3>2, NewRoomEffect
    <3>6. cmd = CLIENT_CMD_CLIENT_LOGIN => Effect(Login(s, req), s, pkg)
      BY <3>2, LoginEffect
    <3>7. cmd # CLIENT_CMD_CLIENT_LOGIN => Effect(Pass(s, req, cmd), s, pkg)
      BY <3>2, PassEffect
    <3> QED
      BY <3>1, <3>4, <3>5, <3>6, <3>7
  <2> QED
    BY <2>1, <2>2, <2>3
<1> QED
  BY <1>4, <1>5, <1>6, <1>7, <1>8, <1>9

-----------------------------------------------------------------------------
(* Packets of servers. *)

\* What the address in a packet may become, the table numbers of the map beside it.
Mapped(a) == {a, <<>>} \cup {m[a] : m \in {f \in IpMaps : a \in DOMAIN f}}

\* CHelperUnit::IpMap gives an address, or "" for one that is not in the map.
LEMMA IpMapIs ==
  ASSUME MapsAddresses, NEW s, s.ipmap \in IpMaps, NEW ip
  PROVE  IpMap(s, ip) \in Address /\ IpMap(s, ip) \in Mapped(ip)
<1>1. <<>> \in Address
  <2>1. Len(<<>>) + 22 <= PACKET_BUFFER_SIZE
    BY Sizes, LimitsAssumption
  <2> QED
    BY <2>1 DEF Address
<1>2. \A f \in {IpStart, IpFile} : \A x \in DOMAIN f : f[x] \in Address
  BY DEF MapsAddresses, Address, Letter
<1>3. \A m \in IpMaps : \A x \in DOMAIN m : m[x] \in Address
  BY <1>2 DEF IpMaps, Updated
<1>4. ip \in DOMAIN s.ipmap => s.ipmap[ip] \in {m[ip] : m \in {f \in IpMaps : ip \in DOMAIN f}}
  OBVIOUS
<1> QED
  BY <1>1, <1>3, <1>4 DEF IpMap, Mapped

Seat == {"tid", "addr", "port"}
\* Taking a table keeps the session sound when the table has an address.
LEMMA SeatFields ==
  ASSUME NEW s, SessionOK(s), NEW tid \in Int32, NEW addr, NEW port, tid > 0 => addr \in Address /\ port \in Int32
  PROVE  LET t == [s EXCEPT !.tid = tid, !.addr = addr, !.port = port]
         IN Kept(t, s, Seat) /\ t.tid = tid /\ t.addr = addr /\ SessionOK(t)
<1> DEFINE x == "tid"
           y == "addr"
           z == "port"
           t1 == [s EXCEPT ![x] = tid]
           t2 == [t1 EXCEPT ![y] = addr]
           t == [t2 EXCEPT ![z] = port]
<1>1. x \in Fields /\ y \in Fields /\ z \in Fields /\ x # y /\ x # z /\ y # z /\ Seat = {x, y, z}
  BY DEF Fields, Seat
<1>2. t[x] = t.tid /\ t[y] = t.addr /\ t[z] = t.port
  OBVIOUS
<1>3. [s EXCEPT !.tid = tid, !.addr = addr, !.port = port] = t
  OBVIOUS
<1> HIDE DEF x, y, z
<1>4. Kept(t1, s, {x}) /\ t1[x] = tid
  BY <1>1, SetField DEF SessionOK
<1> HIDE DEF t1
<1>5. Kept(t2, t1, {y}) /\ t2[y] = addr
  BY <1>1, <1>4, SetField DEF Kept
<1> HIDE DEF t2
<1>6. Kept(t, t2, {z}) /\ t[z] = port
  BY <1>1, <1>5, SetField DEF Kept
<1> HIDE DEF t
<1>7. Kept(t, s, Seat) /\ t[x] = tid /\ t[y] = addr /\ t[z] = port
  BY <1>1, <1>4, <1>5, <1>6 DEF Kept
<1>8. \A f \in {"uid", "api", "users", "count", "ipmap", "stage"} : f \in Fields \ Seat
  BY DEF Fields, Seat
<1>9. t.uid = s.uid /\ t.api = s.api /\ t.users = s.users /\ t.count = s.count /\ t.ipmap = s.ipmap /\ t.stage = s.stage
  <2>1. \A f \in {"uid", "api", "users", "count", "ipmap", "stage"} : t[f] = s[f]
    BY <1>7, <1>8 DEF Kept
  <2> QED
    BY <2>1
<1>10. SessionOK(t)
  BY <1>2, <1>7, <1>9 DEF SessionOK, Kept
<1> QED
  BY <1>2, <1>3, <1>7, <1>10

\* helper_unit.cpp's handling of a table announced: the id, and the address mapped if
\* it has to be.
LEMMA SeatedIs ==
  ASSUME MapsAddresses, NEW s, SessionOK(s), NEW tid \in Int32, NEW ip, NEW port \in Int32
  PROVE  LET t == Seated(s, tid, ip, port)
         IN Kept(t, s, Seat) /\ t.tid = tid /\ t.addr \in Mapped(ip) /\ SessionOK(t)
<1> DEFINE a == IpMap(s, ip)
<1>1. a \in Address /\ a \in Mapped(ip)
  BY IpMapIs DEF SessionOK
<1>2. Seated(s, tid, ip, port) = [s EXCEPT !.tid = tid, !.addr = a, !.port = port]
  BY DEF Seated
<1> HIDE DEF a
<1> DEFINE t == [s EXCEPT !.tid = tid, !.addr = a, !.port = port]
<1>3. Kept(t, s, Seat) /\ t.tid = tid /\ t.addr = a /\ SessionOK(t)
  BY <1>1, SeatFields
<1> HIDE DEF t
<1> QED
  BY <1>1, <1>2, <1>3 DEF t

\* What is read behind the levels of a reply to a login is the same packet.
LEMMA BehindLevelsIs ==
  ASSUME NEW p \in Packet
  PROVE  BehindLevels(p) \in Packet
<1> DEFINE n == ReadInt(p)
           v == n.val
           N == AnswerLength(v)
           a == n.p
           step == [i \in 1..N |-> [x \in Packet |-> ReadInt(x).p]]
           P(g) == [i \in 0..N |-> IF i = 0 THEN a ELSE ReadInt(g[i-1]).p]
           A == CHOOSE g : g = P(g)
<1>1. v \in Int32 /\ a \in Packet
  BY ReadIntIs
<1>2. N \in Nat
  BY <1>1 DEF AnswerLength, Int32
<1>3. BehindLevels(p) = A[N]
  BY DEF BehindLevels, AnswerLength
<1> HIDE DEF n, v, N, a
<1>4. step \in Steps(N, Packet)
  <2>1. \A x \in Packet : ReadInt(x).p \in Packet
    BY ReadIntIs
  <2> QED
    BY <2>1 DEF Steps
<1>5. PICK f : Rounded(f, N, Packet, a, step)
  <2> HIDE DEF step
  <2> QED
    BY ONLY <1>1, <1>2, <1>4, Recursion
<1>6. f = P(f)
  <2>1. f \in [0..N -> Packet] /\ f[0] = a /\ \A i \in 1..N : f[i] = step[i][f[i-1]]
    BY <1>5 DEF Rounded
  <2>2. \A i \in 1..N : i - 1 \in 0..N /\ i # 0
    BY <1>2
  <2>3. \A i \in 1..N : f[i-1] \in Packet
    BY <2>1, <2>2
  <2>4. \A i \in 1..N : f[i] = ReadInt(f[i-1]).p
    BY <2>1, <2>3
  <2>5. \A i \in 0..N : i = 0 \/ i \in 1..N
    BY <1>2
  <2>6. \A i \in 0..N : f[i] = IF i = 0 THEN a ELSE ReadInt(f[i-1]).p
    BY <2>1, <2>2, <2>4, <2>5
  <2> HIDE DEF step
  <2> QED
    BY <2>1, <2>6
<1>7. A = P(A)
  BY <1>6
<1> HIDE DEF A, step
<1>8. A[0] = a /\ \A i \in 1..N : A[i] = ReadInt(A[i-1]).p
  <2>1. 0 \in 0..N /\ \A i \in 1..N : i \in 0..N /\ i # 0
    BY <1>2
  <2> QED
    BY <1>7, <2>1
<1> DEFINE T == {i \in 0..N : A[i] \in Packet}
<1>9. 0 \in T
  BY <1>1, <1>2, <1>8
<1>10. \A i \in 1..N : i - 1 \in T => i \in T
  <2>1. \A i \in 1..N : i \in 0..N
    OBVIOUS
  <2> QED
    BY <1>8, <2>1, ReadIntIs
<1> HIDE DEF T
<1>11. N \in T
  BY <1>2, <1>9, <1>10, Rounds
<1> QED
  BY <1>3, <1>11 DEF T

\* The client's table after it was sent a packet, or not, is what the packet says.
Follows(t, s, b) ==
  \/ Told(b) = <<>> /\ t.tid = s.tid /\ t.addr = s.addr
  \/ \E x, y : Told(b) = <<x, y>> /\ t.tid = x /\ t.addr \in Mapped(y)
Informed(t, s) ==
  \/ t.toClient = s.toClient /\ t.tid = s.tid /\ t.addr = s.addr
  \/ \E b : Good(b) /\ t.toClient = Append(s.toClient, b) /\ Follows(t, s, b)

ServerEffect(t, s) ==
  /\ SessionOK(t) /\ t.r = s.r /\ t.skipped = s.skipped /\ t.uid = s.uid /\ t.api = s.api /\ t.toGame = s.toGame
  /\ t.toAlloc = s.toAlloc \/ (reachable /\ \E x \in Seq(Octet) : Command(x) # CLIENT_PACKET2 /\ t.toAlloc = Append(s.toAlloc, x))
  /\ Informed(t, s)

\* What each kind of packet tells the client of its table.
LEMMA ToldIs ==
  ASSUME NEW b \in Seq(Octet), Len(b) >= 9
  PROVE  LET p == Decrypt(Copy(b))
             room == ReadString(ReadShort(p).p)
             behind == ReadInt(BehindLevels(p))
         IN /\ Command(b) = SERVER_COMMAND_LOGOUT_SUCCESS => Told(b) = <<0, NoAddr>>
            /\ Command(b) = SERVER_COMMAND_CHANGE_GAMESERVER => Told(b) = <<0, ReadString(ReadInt(p).p).val>>
            /\ Command(b) = SERVER_CMD_ENTER_ROOM =>
                 Told(b) = IF ReadShort(p).val # 0 THEN <<ReadInt(ReadInt(room.p).p).val, room.val>> ELSE <<>>
            /\ Command(b) = SERVER_CMD_LOGIN_SUCCESS =>
                 Told(b) = IF behind.val > 0 THEN <<behind.val, ReadString(behind.p).val>> ELSE <<>>
<1> DEFINE q == Copy(b)
           p == Decrypt(q)
           cmd == GetCmdType(p)
           first == ReadInt(p)
           flag == ReadShort(p)
           ip == ReadString(flag.p)
           behind == ReadInt(BehindLevels(p))
<1>1. q \in Packet /\ q.buf = b
  BY CopyParts
<1>2. cmd = Command(b)
  BY <1>1, DecryptCmd DEF Command
<1>3. Told(b) =
        CASE cmd = SERVER_COMMAND_LOGOUT_SUCCESS -> <<0, NoAddr>>
          [] cmd = SERVER_COMMAND_CHANGE_GAMESERVER -> <<0, ReadString(first.p).val>>
          [] cmd = CMD_GET_NEW_ROOM -> <<first.val, ReadString(first.p).val>>
          [] cmd = SERVER_CMD_ENTER_ROOM /\ flag.val # 0 -> <<ReadInt(ReadInt(ip.p).p).val, ip.val>>
          [] cmd = SERVER_CMD_LOGIN_SUCCESS /\ behind.val > 0 -> <<behind.val, ReadString(behind.p).val>>
          [] OTHER -> <<>>
  BY DEF Told
<1> HIDE DEF cmd, first, flag, ip, behind
<1>4. cmd = SERVER_COMMAND_LOGOUT_SUCCESS => Told(b) = <<0, NoAddr>>
  BY <1>3 DEF SERVER_COMMAND_LOGOUT_SUCCESS, SERVER_COMMAND_CHANGE_GAMESERVER, CMD_GET_NEW_ROOM, SERVER_CMD_ENTER_ROOM, SERVER_CMD_LOGIN_SUCCESS
<1>5. cmd = SERVER_COMMAND_CHANGE_GAMESERVER => Told(b) = <<0, ReadString(first.p).val>>
  BY <1>3 DEF SERVER_COMMAND_LOGOUT_SUCCESS, SERVER_COMMAND_CHANGE_GAMESERVER, CMD_GET_NEW_ROOM, SERVER_CMD_ENTER_ROOM, SERVER_CMD_LOGIN_SUCCESS
<1>6. cmd = SERVER_CMD_ENTER_ROOM => Told(b) = IF flag.val # 0 THEN <<ReadInt(ReadInt(ip.p).p).val, ip.val>> ELSE <<>>
  BY <1>3 DEF SERVER_COMMAND_LOGOUT_SUCCESS, SERVER_COMMAND_CHANGE_GAMESERVER, CMD_GET_NEW_ROOM, SERVER_CMD_ENTER_ROOM, SERVER_CMD_LOGIN_SUCCESS
<1>7. cmd = SERVER_CMD_LOGIN_SUCCESS => Told(b) = IF behind.val > 0 THEN <<behind.val, ReadString(behind.p).val>> ELSE <<>>
  BY <1>3 DEF SERVER_COMMAND_LOGOUT_SUCCESS, SERVER_COMMAND_CHANGE_GAMESERVER, CMD_GET_NEW_ROOM, SERVER_CMD_ENTER_ROOM, SERVER_CMD_LOGIN_SUCCESS
<1> QED
  BY <1>2, <1>4, <1>5, <1>6, <1>7 DEF first, flag, ip, behind

\* What every packet a server sends is: complete, and readable by the client.
LEMMA IsPacketIs ==
  ASSUME NEW b, IsPacket(b)
  PROVE  /\ b \in Seq(Octet) /\ Len(b) >= 9 /\ Good(b)
         /\ Copy(b) \in Packet /\ Copy(b).buf = b /\ Decrypt(Copy(b)) \in Packet /\ Command(b) \in Int16
         /\ GetCmdType(Decrypt(Copy(b))) = Command(b)
         /\ ReadInt(ReadsText(b)).val >= -1
<1>1. b \in Seq(Octet) /\ Len(b) >= 9
  <2>1. b \in Seq(Octet) /\ Len(b) \in PACKET_HEADER_SIZE..PACKET_BUFFER_SIZE
    BY DEF IsPacket, Octet
  <2> QED
    BY <2>1, Sizes
<1>2. Copy(b) \in Packet /\ Copy(b).buf = b
  BY <1>1, CopyParts
<1>3. Decrypt(Copy(b)) \in Packet /\ GetCmdType(Decrypt(Copy(b))) = GetCmdType(Copy(b))
  BY <1>1, <1>2, DecryptCmd
<1>4. GetCmdType(Copy(b)) \in Int16
  BY <1>1, <1>2, SameHeader
<1>5. Good(b)
  BY <1>1 DEF IsPacket, Good, CountsFit, Sendable
<1> QED
  BY <1>1, <1>2, <1>3, <1>4, <1>5 DEF Command, IsPacket, TextsForward

\* Text that has no negative length is read within the packet.
LEMMA Behind ==
  ASSUME NEW p \in Packet, ReadInt(p).val >= -1
  PROVE  /\ ReadString(p).p \in Packet /\ ReadInt(ReadString(p).p).val \in Int32 /\ ReadInt(ReadString(p).p).p \in Packet
         /\ ReadInt(ReadInt(ReadString(p).p).p).val \in Int32
<1>1. ReadString(p).p \in Packet
  BY ReadStringIs
<1> QED
  BY <1>1, ReadIntIs

\* ProcessGetNewRoom
LEMMA NewRoomSeat ==
  ASSUME MapsAddresses, NEW s, SessionOK(s), NEW b, IsPacket(b), Command(b) = CMD_GET_NEW_ROOM
  PROVE  LET t == NewRoom(s, Copy(b)) IN Kept(t, s, Seat) /\ SessionOK(t) /\ Follows(t, s, b)
<1> DEFINE p == Decrypt(Copy(b))
           tid == ReadInt(p)
           ip == ReadString(tid.p)
           port == ReadInt(ip.p).val
           n == tid.val
           a == ip.val
<1>1. p \in Packet /\ ReadsText(b) = tid.p /\ ReadInt(tid.p).val >= -1
  <2>1. ReadsText(b) = tid.p
    BY DEF ReadsText, CMD_GET_NEW_ROOM, SERVER_BROADCAST_INFO, SERVER_COMMAND_CHANGE_GAMESERVER, SERVER_CMD_ENTER_ROOM,
           SERVER_CMD_LOGIN_SUCCESS
  <2> QED
    BY <2>1, IsPacketIs
<1>2. n \in Int32 /\ tid.p \in Packet
  BY <1>1, ReadIntIs
<1>3. port \in Int32
  BY <1>1, <1>2, Behind
<1>4. Told(b) = <<n, a>>
  BY IsPacketIs, NewRoomTold
<1>5. NewRoom(s, Copy(b)) = Seated(s, n, a, port)
  BY DEF NewRoom
<1> HIDE DEF n, a, port
<1> QED
  BY <1>2, <1>3, <1>4, <1>5, SeatedIs DEF Follows

\* ProcessEnterRoom
LEMMA EnterRoomSeat ==
  ASSUME MapsAddresses, NEW s, SessionOK(s), NEW b, IsPacket(b), Command(b) = SERVER_CMD_ENTER_ROOM
  PROVE  LET t == EnterRoom(s, Copy(b)) IN Kept(t, s, Seat) /\ SessionOK(t) /\ Follows(t, s, b)
<1> DEFINE p == Decrypt(Copy(b))
           res == ReadShort(p)
           ip == ReadString(res.p)
           port == ReadInt(ip.p)
           n == ReadInt(port.p).val
           a == ip.val
           v == port.val
<1>1. p \in Packet /\ ReadsText(b) = res.p /\ ReadInt(res.p).val >= -1
  <2>1. ReadsText(b) = res.p
    BY DEF ReadsText, CMD_GET_NEW_ROOM, SERVER_BROADCAST_INFO, SERVER_COMMAND_CHANGE_GAMESERVER, SERVER_CMD_ENTER_ROOM,
           SERVER_CMD_LOGIN_SUCCESS
  <2> QED
    BY <2>1, IsPacketIs
<1>2. res.p \in Packet
  BY <1>1, ReadShortIs
<1>3. v \in Int32 /\ n \in Int32
  BY <1>1, <1>2, Behind
<1>4. Told(b) = IF res.val # 0 THEN <<n, a>> ELSE <<>>
  BY IsPacketIs, ToldIs
<1>5. EnterRoom(s, Copy(b)) = IF res.val # 0 THEN Seated(s, n, a, v) ELSE s
  BY DEF EnterRoom
<1> HIDE DEF n, a, v, res
<1>6. Kept(s, s, Seat)
  BY DEF Kept, SessionOK
<1> QED
  BY <1>3, <1>4, <1>5, <1>6, SeatedIs DEF Follows

\* ProcessUserLoginSuccess
LEMMA LoginSuccessSeat ==
  ASSUME MapsAddresses, NEW s, SessionOK(s), NEW b, IsPacket(b), Command(b) = SERVER_CMD_LOGIN_SUCCESS
  PROVE  LET t == LoginSuccess(s, Copy(b)) IN Kept(t, s, Seat) /\ SessionOK(t) /\ Follows(t, s, b)
<1> DEFINE p == Decrypt(Copy(b))
           q == BehindLevels(p)
           tid == ReadInt(q)
           ip == ReadString(tid.p)
           n == tid.val
           a == ip.val
           v == ReadInt(ip.p).val
<1>1. p \in Packet /\ ReadsText(b) = tid.p /\ ReadInt(tid.p).val >= -1
  <2>1. ReadsText(b) = tid.p
    BY DEF ReadsText, CMD_GET_NEW_ROOM, SERVER_BROADCAST_INFO, SERVER_COMMAND_CHANGE_GAMESERVER, SERVER_CMD_ENTER_ROOM,
           SERVER_CMD_LOGIN_SUCCESS
  <2> QED
    BY <2>1, IsPacketIs
<1>2. q \in Packet
  BY <1>1, BehindLevelsIs
<1>3. n \in Int32 /\ tid.p \in Packet
  BY <1>2, ReadIntIs
<1>4. v \in Int32
  BY <1>1, <1>3, Behind
<1>5. Told(b) = IF n > 0 THEN <<n, a>> ELSE <<>>
  BY IsPacketIs, ToldIs
<1>6. LoginSuccess(s, Copy(b)) = IF n > 0 THEN Seated(s, n, a, v) ELSE s
  BY DEF LoginSuccess
<1> HIDE DEF n, a, v, q
<1>7. Kept(s, s, Seat)
  BY DEF Kept, SessionOK
<1> QED
  BY <1>3, <1>4, <1>5, <1>6, <1>7, SeatedIs DEF Follows

\* The reports of alloc servers: each round takes a level and its number of users.
LevelMore(a) ==
  LET level == ReadShort(a.in)
      users == ReadShort(level.p)
  IN [in |-> users.p, count |-> Updated(a.count, [l \in {level.val} |-> users.val])]
Reported(f, N, a) == DOMAIN f = 0..N /\ f[0] = a /\ \A i \in 1..N : f[i] = LevelMore(f[i-1])

\* A report of the levels has a value after each number of turns.
LEMMA ReportExists ==
  ASSUME NEW N \in Nat, NEW a
  PROVE  \E f : Reported(f, N, a)
<1> DEFINE G == {n \in Nat : \E f : Reported(f, n, a)}
<1>1. 0 \in G
  <2> DEFINE f == [i \in 0..0 |-> a]
  <2>1. Reported(f, 0, a)
    BY DEF Reported
  <2> QED
    BY <2>1
<1>2. ASSUME NEW n \in Nat, n \in G PROVE n + 1 \in G
  <2>1. PICK f : Reported(f, n, a)
    BY <1>2
  <2> DEFINE x == LevelMore(f[n])
             g == [i \in 0..n+1 |-> IF i = n + 1 THEN x ELSE f[i]]
  <2>2. DOMAIN g = 0..n+1 /\ g[0] = a
    BY <2>1 DEF Reported
  <2>3. ASSUME NEW i \in 1..n+1 PROVE g[i] = LevelMore(g[i-1])
    <3>1. CASE i = n + 1
      <4>1. g[i] = x /\ i - 1 = n /\ g[n] = f[n]
        BY <3>1
      <4> HIDE DEF g
      <4> QED
        BY <4>1
    <3>2. CASE i # n + 1
      <4>1. i \in 1..n /\ g[i] = f[i] /\ g[i-1] = f[i-1]
        BY <3>2
      <4> QED
        BY <2>1, <4>1 DEF Reported
    <3> QED
      BY <3>1, <3>2
  <2> HIDE DEF g
  <2>4. Reported(g, n + 1, a)
    BY <2>2, <2>3 DEF Reported
  <2> QED
    BY <2>4
<1> HIDE DEF G
<1>3. N \in G
  BY <1>1, <1>2, AllNumbers
<1> QED
  BY <1>3 DEF G

\* The loop of the level report ends with its last turn.
LEMMA LevelReportIs ==
  ASSUME NEW s, NEW p, Decrypt(p) \in Packet
  PROVE  LET n == ReadShort(Decrypt(p))
             N == AnswerLength(n.val)
         IN \E f : /\ Reported(f, N, [in |-> n.p, count |-> s.count])
                   /\ LevelReport(s, p) = [s EXCEPT !.count = f[N].count]
<1> DEFINE n == ReadShort(Decrypt(p))
           v == n.val
           N == AnswerLength(v)
           a == [in |-> n.p, count |-> s.count]
           P(g) == [i \in 0..N |-> IF i = 0 THEN a ELSE LevelMore(g[i-1])]
           A == CHOOSE g : g = P(g)
<1>1. v \in Int16
  BY ReadShortIs
<1>2. N \in Nat
  BY <1>1 DEF AnswerLength, Int16
<1>3. LevelReport(s, p) = [s EXCEPT !.count = A[N].count]
  BY DEF LevelReport, LevelMore, AnswerLength
<1> HIDE DEF v, N, a
<1>4. PICK f : Reported(f, N, a)
  BY <1>2, ReportExists
<1>5. f[0] = a /\ \A i \in 1..N : f[i] = LevelMore(f[i-1])
  BY <1>4 DEF Reported
<1> DEFINE h == [i \in 0..N |-> f[i]]
<1>6. h = P(h)
  <2>1. \A i \in 0..N : i = 0 \/ (i \in 1..N /\ i - 1 \in 0..N)
    BY <1>2
  <2>2. \A i \in 0..N : h[i] = IF i = 0 THEN a ELSE LevelMore(h[i-1])
    <3> SUFFICES ASSUME NEW i \in 0..N PROVE h[i] = IF i = 0 THEN a ELSE LevelMore(h[i-1])
      OBVIOUS
    <3>1. CASE i = 0
      BY <1>5, <3>1
    <3>2. CASE i # 0
      <4>1. i \in 1..N /\ i - 1 \in 0..N
        BY <2>1, <3>2
      <4>2. h[i] = f[i] /\ h[i-1] = f[i-1]
        BY <4>1
      <4> HIDE DEF h
      <4> QED
        BY <1>5, <3>2, <4>1, <4>2
    <3> QED
      BY <3>1, <3>2
  <2> QED
    BY <2>2
<1> HIDE DEF h
<1>7. A = P(A)
  BY <1>6
<1> HIDE DEF A
<1>8. Reported(A, N, a)
  <2>1. 0 \in 0..N /\ \A i \in 1..N : i \in 0..N /\ i # 0
    BY <1>2
  <2>2. DOMAIN A = 0..N
    BY <1>7
  <2>3. A[0] = a
    BY <1>7, <2>1
  <2>4. \A i \in 1..N : A[i] = LevelMore(A[i-1])
    BY <1>7, <2>1
  <2> QED
    BY <2>2, <2>3, <2>4 DEF Reported
<1> QED
  BY <1>3, <1>8 DEF v, N, a

\* ReadShort where two bytes are left.
LEMMA ReadShortAt ==
  ASSUME NEW b \in Seq(Octet), NEW i \in Nat, i + 2 <= Len(b)
  PROVE  ReadShort(At(b, i)) = [val |-> Number(Slice(b, i, 2)), p |-> At(b, i + 2)] /\ Number(Slice(b, i, 2)) \in Int16
<1> DEFINE p == At(b, i)
<1>1. p \in Packet /\ p.buf = b /\ p.pos = i /\ p.checked = FALSE
  BY AtIs
<1>2. Readable(p, 2)
  BY <1>1 DEF Readable
<1>3. Skipped(p, 2) = At(b, i + 2)
  BY <1>2 DEF Skipped, At
<1>4. ReadNumber(p, 2) = Number(Slice(b, i, 2))
  BY <1>1, <1>2 DEF ReadNumber
<1>5. Number(Slice(b, i, 2)) \in Int16
  BY TwoIs, ShortNumber
<1> QED
  BY <1>3, <1>4, <1>5 DEF ReadShort

\* A level's number replaced by one that is not negative.
LEMMA CountsUpdated ==
  ASSUME NEW c, IsCounts(c), NEW v, NEW u \in Int16, u >= 0
  PROVE  IsCounts(Updated(c, [l \in {v} |-> u]))
<1>1. u \in Nat /\ u <= 32767
  BY DEF Int16
<1> QED
  BY <1>1 DEF IsCounts, Updated

\* A true report leaves true counts.
LEMMA ReportTrue ==
  ASSUME NEW b \in Seq(Octet), Len(b) >= 9, CountsTrue(b), NEW c, IsCounts(c),
         NEW n, n = ReadShort(Decrypt(Copy(b))), NEW N \in Nat, N = AnswerLength(n.val),
         NEW f, Reported(f, N, [in |-> n.p, count |-> c])
  PROVE  IsCounts(f[N].count)
<1> DEFINE d == Decrypt(Copy(b))
           e == d.buf
           i0 == 9
           i1 == 11
<1>1. Copy(b) \in Packet /\ Copy(b).buf = b /\ Copy(b).pos = 9 /\ Copy(b).checked = FALSE
  BY CopyParts
<1>2. d \in Packet /\ d.pos = i0 /\ d.checked = FALSE /\ e \in Seq(Octet) /\ Len(e) = Len(b) /\ Len(e) \in Nat
  <2> DEFINE q == Copy(b)
  <2>1. q \in Packet /\ Len(q.buf) >= 9 /\ q.buf = b /\ q.pos = 9 /\ q.checked = FALSE
    BY <1>1
  <2> HIDE DEF q
  <2>2. Decrypt(q) \in Packet /\ Len(Decrypt(q).buf) = Len(q.buf) /\ Decrypt(q).pos = q.pos /\ Decrypt(q).checked = q.checked
    BY <2>1, DecryptIs
  <2> QED
    BY <2>1, <2>2, PacketParts DEF q
<1>3. d = At(e, i0)
  <2> HIDE DEF d
  <2> QED
    BY <1>2, PacketAt
<1>4. f[0] = [in |-> n.p, count |-> c] /\ \A i \in 1..N : f[i] = LevelMore(f[i-1])
  BY DEF Reported
<1>5. n.val >= 0 => Len(b) = 11 + 4 * n.val /\ \A k \in 1..n.val : SlotTrue(e, k)
  BY DEF CountsTrue, LevelsIn, SlotTrue
<1>6. n.val \in Int16
  BY <1>2, ReadShortIs
<1>7. CASE n.val < 0
  <2>1. N = 0
    BY <1>6, <1>7 DEF AnswerLength, Int16
  <2> QED
    BY <1>4, <2>1
<1>8. CASE n.val >= 0
  <2>1. N = n.val
    BY <1>6, <1>8 DEF AnswerLength, Int16
  <2>2. Len(e) = i1 + 4 * N /\ i0 \in Nat /\ i1 \in Nat /\ i1 = i0 + 2
    BY <1>2, <1>5, <1>8, <2>1
  <2>3. \A k \in 1..N : SlotTrue(e, k)
    BY <1>5, <1>8, <2>1
  <2>4. i1 = 11
    OBVIOUS
  <2> HIDE DEF i0, i1, d, e
  <2>5. n.p = At(e, i1)
    <3>1. i0 + 2 <= Len(e)
      BY <2>2
    <3>2. ReadShort(At(e, i0)) = [val |-> Number(Slice(e, i0, 2)), p |-> At(e, i0 + 2)]
      BY <1>2, <2>2, <3>1, ReadShortAt
    <3> QED
      BY <1>3, <2>2, <3>2 DEF d
  <2> DEFINE T == {i \in 0..N : f[i].in = At(e, i1 + 4 * i) /\ IsCounts(f[i].count)}
  <2>6. 0 \in T
    BY <1>4, <2>2, <2>5
  <2>7. ASSUME NEW i \in 1..N, i - 1 \in T PROVE i \in T
    <3> DEFINE j == i1 + 4 * (i - 1)
               k == j + 2
               m == k + 2
               v == Number(Slice(e, j, 2))
               u == Number(Slice(e, k, 2))
               old == f[i-1].count
    <3>1. j \in Nat /\ k \in Nat /\ k = j + 2 /\ m = k + 2 /\ m = i1 + 4 * i /\ m <= Len(e) /\ k = 9 + 4 * i /\ k <= Len(e)
      BY <2>2, <2>4
    <3>2. f[i-1].in = At(e, j) /\ IsCounts(old)
      BY <2>7
    <3>3. f[i] = LevelMore(f[i-1])
      BY <1>4
    <3>4. u >= 0
      BY <2>3, <3>1 DEF SlotTrue
    <3> HIDE DEF j, k, m
    <3>5. ReadShort(At(e, j)) = [val |-> v, p |-> At(e, k)]
      BY <1>2, <3>1, ReadShortAt
    <3>6. ReadShort(At(e, k)) = [val |-> u, p |-> At(e, m)] /\ u \in Int16
      BY <1>2, <3>1, ReadShortAt
    <3> HIDE DEF u, v, old
    <3>7. f[i] = [in |-> At(e, m), count |-> Updated(old, [l \in {v} |-> u])]
      BY <3>2, <3>3, <3>5, <3>6 DEF LevelMore, old
    <3>8. IsCounts(Updated(old, [l \in {v} |-> u]))
      BY <3>2, <3>4, <3>6, CountsUpdated
    <3>9. i \in 0..N
      OBVIOUS
    <3> QED
      BY <3>1, <3>7, <3>8, <3>9
  <2> HIDE DEF T
  <2>8. \A i \in 1..N : i - 1 \in T => i \in T
    BY <2>7
  <2>9. N \in T
    <3>1. N \in Nat
      OBVIOUS
    <3>2. \A i \in 0..N : i \in T
      BY ONLY <2>6, <2>8, <3>1, Rounds
    <3> QED
      BY <3>1, <3>2
  <2> QED
    BY <2>9 DEF T
<1> QED
  BY <1>6, <1>7, <1>8 DEF Int16

\* A level report changes the numbers per level only.
LEMMA LevelReportEffect ==
  ASSUME NEW s, SessionOK(s), NEW b, IsPacket(b), Command(b) = CMD_GET_ROOM_LEVER_NUM
  PROVE  ServerEffect(LevelReport(s, Copy(b)), s)
<1> DEFINE d == Decrypt(Copy(b))
           n == ReadShort(d)
           N == AnswerLength(n.val)
           a == [in |-> n.p, count |-> s.count]
           x == "count"
<1>1. b \in Seq(Octet) /\ Len(b) >= 9 /\ CountsTrue(b) /\ d \in Packet
  BY IsPacketIs DEF IsPacket
<1>2. PICK f : Reported(f, N, a) /\ LevelReport(s, Copy(b)) = [s EXCEPT !.count = f[N].count]
  BY <1>1, LevelReportIs
<1>3. n.val \in Int16
  BY <1>1, ReadShortIs
<1>4. N \in Nat
  BY <1>3 DEF AnswerLength, Int16
<1> DEFINE v == f[N].count
           t == [s EXCEPT ![x] = v]
<1>5. IsCounts(v)
  <2>1. IsCounts(s.count)
    BY DEF SessionOK
  <2> HIDE DEF N
  <2> QED
    BY <1>1, <1>2, <1>4, <2>1, ReportTrue DEF N
<1>6. x \in Fields /\ x = "count" /\ t.count = t[x] /\ LevelReport(s, Copy(b)) = t
  BY <1>2 DEF Fields
<1> HIDE DEF x, v
<1>7. Kept(t, s, {x}) /\ t[x] = v
  BY <1>6, SetField, ZenonT(30) DEF SessionOK
<1> HIDE DEF t
<1>8. \A y \in {"uid", "api", "users", "tid", "addr", "port", "ipmap", "stage", "r", "skipped", "toAlloc", "toGame", "toClient"} :
        y \in Fields \ {x}
  BY DEF Fields, x
<1>9. /\ t.uid = s.uid /\ t.api = s.api /\ t.users = s.users /\ t.tid = s.tid /\ t.addr = s.addr /\ t.port = s.port
      /\ t.ipmap = s.ipmap /\ t.stage = s.stage /\ t.r = s.r /\ t.skipped = s.skipped /\ t.toAlloc = s.toAlloc
      /\ t.toGame = s.toGame /\ t.toClient = s.toClient
  <2>1. \A y \in {"uid", "api", "users", "tid", "addr", "port", "ipmap", "stage", "r", "skipped", "toAlloc", "toGame", "toClient"} :
          t[y] = s[y]
    BY <1>7, <1>8 DEF Kept
  <2> QED
    BY <2>1
<1>10. SessionOK(t)
  BY <1>5, <1>6, <1>7, <1>9 DEF SessionOK, Kept
<1> QED
  BY <1>6, <1>9, <1>10 DEF ServerEffect, Informed

\* A server's packet that the client gets, and its table with it.
Remaining == {"uid", "api", "users", "count", "ipmap", "stage", "r", "skipped", "toAlloc", "toGame"}
\* A packet relayed to the client leaves session and client agreed on the table.
LEMMA ClientToldEffect ==
  ASSUME NEW s, SessionOK(s), NEW b, Good(b), NEW t, Kept(t, s, Seat), SessionOK(t), Follows(t, s, b)
  PROVE  ServerEffect([t EXCEPT !.toClient = Append(@, b)], s)
<1> DEFINE x == "toClient"
           v == Append(t.toClient, b)
           u == [t EXCEPT ![x] = v]
<1>1. x \in Fields /\ u.toClient = u[x] /\ [t EXCEPT !.toClient = Append(@, b)] = u /\ x = "toClient"
  BY DEF Fields
<1> HIDE DEF x, v
<1>2. Kept(u, t, {x}) /\ u[x] = v
  <2>1. IsSession(t) /\ x \in Fields
    BY <1>1 DEF Kept
  <2> QED
    BY ONLY <2>1, SetField
<1> HIDE DEF u
<1>3. \A y \in Remaining \cup {"tid", "addr", "port"} : y \in Fields \ {x}
  BY DEF Fields, x, Remaining
<1>4. \A y \in Remaining \cup {"toClient"} : y \in Fields \ Seat
  BY DEF Fields, Remaining, Seat
<1>5. \A y \in Remaining : u[y] = s[y] /\ t[y] = s[y]
  BY <1>2, <1>3, <1>4 DEF Kept
<1>6. t.toClient = s.toClient
  BY <1>4 DEF Kept
<1>7. u.tid = t.tid /\ u.addr = t.addr /\ u.port = t.port
  BY <1>2, <1>3 DEF Kept
<1>8. /\ u.uid = t.uid /\ u.api = t.api /\ u.users = t.users /\ u.count = t.count /\ u.ipmap = t.ipmap
      /\ u.stage = t.stage
  BY <1>5 DEF Remaining
<1>9. /\ u.uid = s.uid /\ u.api = s.api /\ u.r = s.r /\ u.skipped = s.skipped /\ u.toAlloc = s.toAlloc
      /\ u.toGame = s.toGame
  BY <1>5 DEF Remaining
<1>10. SessionOK(u)
  BY <1>2, <1>7, <1>8 DEF SessionOK, Kept
<1>11. u.toClient = Append(s.toClient, b)
  BY <1>1, <1>2, <1>6 DEF v
<1>12. Follows(u, s, b)
  BY <1>7 DEF Follows
<1> QED
  BY <1>1, <1>9, <1>10, <1>11, <1>12 DEF ServerEffect, Informed

\* SendClientClose answers without a table and keeps the session sound.
LEMMA SendClientCloseEffect ==
  ASSUME NEW s, SessionOK(s), NEW uid \in Int32
  PROVE  ServerEffect(SendClientClose(s, uid), s)
<1> DEFINE c == CLIENT_CLOSE_PACKET
           p == WriteInt(Begin(c), uid)
           q == WriteInt(p, Self)
           b == End(q).buf
           t == [s EXCEPT !.toAlloc = Append(@, b)]
<1>1. c \in Int16 /\ uid \in Int /\ Self \in Int /\ CLIENT_CLOSE_PACKET = c
  BY LimitsAssumption DEF Int16, CLIENT_CLOSE_PACKET, Int32
<1>2. c # CLIENT_PACKET2
  BY DEF CLIENT_CLOSE_PACKET, CLIENT_PACKET2
<1>3. SendClientClose(s, uid) = IF reachable THEN t ELSE s
  BY DEF SendClientClose
<1> HIDE DEF c
<1>4. Built(Begin(c), c)
  BY <1>1, Started
<1>5. Built(p, c)
  <2>1. Grown(p, Begin(c))
    BY <1>1, <1>4, WriteIntIs DEF Built
  <2> QED
    BY <1>4, <2>1, BuiltGrown
<1> HIDE DEF p
<1>6. Built(q, c)
  <2>1. Grown(q, p)
    BY <1>1, <1>5, WriteIntIs DEF Built
  <2> QED
    BY <1>5, <2>1, BuiltGrown
<1> HIDE DEF q
<1>7. Command(b) = c /\ b \in Seq(Octet)
  <2> DEFINE e == End(q)
             k == Copy(b)
  <2>1. q \in Packet /\ Len(q.buf) >= 9 /\ Len(q.buf) \in Nat /\ GetCmdType(q) = c
    BY <1>6, PacketParts DEF Built
  <2>2. e \in Packet /\ Len(e.buf) = Len(q.buf) /\ \A i \in 1..Len(q.buf) : i # 1 /\ i # 2 /\ i # 9 => e.buf[i] = q.buf[i]
    BY <2>1, EndIs
  <2>3. k \in Packet /\ k.buf = b /\ e.buf = b /\ b \in Seq(Octet)
    <3>1. b \in Seq(Octet)
      BY <2>2, PacketParts
    <3> QED
      BY <3>1, CopyParts
  <2> HIDE DEF e, k
  <2>4. 7 \in 1..Len(q.buf) /\ 8 \in 1..Len(q.buf) /\ 7 # 1 /\ 7 # 2 /\ 7 # 9 /\ 8 # 1 /\ 8 # 2 /\ 8 # 9
    BY <2>1
  <2>5. k.buf[7] = q.buf[7] /\ k.buf[8] = q.buf[8] /\ Len(k.buf) >= 9
    BY <2>1, <2>2, <2>3, <2>4
  <2>6. GetCmdType(k) = GetCmdType(q)
    BY <2>1, <2>3, <2>5, SameHeader
  <2> QED
    BY <2>1, <2>3, <2>6 DEF Command, k
<1> HIDE DEF b
<1>8. Kept(t, s, {"toAlloc"}) /\ t.toAlloc = Append(s.toAlloc, b)
  BY Forward DEF SessionOK
<1> HIDE DEF t
<1>9. Kept(t, s, Streams)
  BY <1>8 DEF Kept, Streams
<1>10. SessionOK(t) /\ t.uid = s.uid /\ t.api = s.api /\ t.tid = s.tid /\ t.addr = s.addr
  BY <1>9, StreamsOK
<1>11. t.r = s.r /\ t.skipped = s.skipped /\ t.toGame = s.toGame /\ t.toClient = s.toClient
  <2>1. \A y \in {"r", "skipped", "toGame", "toClient"} : y \in Fields \ {"toAlloc"}
    BY DEF Fields
  <2>2. \A y \in {"r", "skipped", "toGame", "toClient"} : t[y] = s[y]
    BY <1>8, <2>1 DEF Kept
  <2> QED
    BY <2>2
<1>12. reachable => ServerEffect(t, s)
  BY <1>2, <1>7, <1>8, <1>10, <1>11 DEF ServerEffect, Informed
<1>13. ServerEffect(s, s)
  BY DEF ServerEffect, Informed
<1> QED
  BY <1>3, <1>12, <1>13

\* A server that sends what the proxy refuses, or says nothing, keeps the session
\* sound.
LEMMA StoppedEffect ==
  ASSUME NEW s, SessionOK(s)
  PROVE  ServerEffect(Fatal(s), s) /\ ServerEffect(s, s)
<1> DEFINE t == Fatal(s)
<1>1. Kept(t, s, {"stage"}) /\ t.stage = "fatal"
  BY FatalIs DEF SessionOK
<1> HIDE DEF t
<1> DEFINE Others == {"uid", "api", "users", "tid", "addr", "port", "count", "ipmap", "r", "skipped", "toAlloc", "toGame", "toClient"}
<1>2. \A y \in Others : y \in Fields \ {"stage"}
  BY DEF Fields
<1>3. \A y \in Others : t[y] = s[y]
  BY <1>1, <1>2 DEF Kept
<1>4. /\ t.uid = s.uid /\ t.api = s.api /\ t.users = s.users /\ t.tid = s.tid /\ t.addr = s.addr /\ t.port = s.port
      /\ t.count = s.count /\ t.ipmap = s.ipmap /\ t.r = s.r /\ t.skipped = s.skipped /\ t.toAlloc = s.toAlloc
      /\ t.toGame = s.toGame /\ t.toClient = s.toClient
  BY <1>3
<1>5. SessionOK(t)
  BY <1>1, <1>4 DEF SessionOK, Kept
<1> QED
  BY <1>4, <1>5 DEF ServerEffect, Informed, t

\* CHelperUnit::process_pkg, of a packet for the client.
LEMMA ClientPacketEffect ==
  ASSUME MapsAddresses, NEW s, SessionOK(s), NEW uid \in Int32, NEW b, IsPacket(b),
         Command(b) \notin {SERVER_COMMAND_LOGOUT_SUCCESS, SERVER_COMMAND_CHANGE_GAMESERVER}
  PROVE  ServerEffect(ClientPacket(s, uid, b), s)
<1> DEFINE p == Copy(b)
           cmd == GetCmdType(p)
           t == CASE cmd = SERVER_CMD_LOGIN_SUCCESS -> LoginSuccess(s, p)
                  [] cmd = SERVER_CMD_ENTER_ROOM -> EnterRoom(s, p)
                  [] cmd = CMD_GET_NEW_ROOM -> NewRoom(s, p)
                  [] OTHER -> s
           u == [t EXCEPT !.toClient = Append(@, b)]
<1>1. ClientPacket(s, uid, b) =
        IF cmd = CMD_GET_ROOM_LEVER_NUM THEN LevelReport(s, p)
        ELSE IF uid \notin s.users THEN SendClientClose(s, uid)
        ELSE u
  BY DEF ClientPacket
<1>2. cmd = Command(b)
  BY DEF Command
<1> HIDE DEF u
<1>3. Good(b) /\ b \in Seq(Octet) /\ Len(b) >= 9 /\ Command(b) \in Int16
  BY IsPacketIs
<1>4. cmd = CMD_GET_ROOM_LEVER_NUM => ServerEffect(LevelReport(s, p), s)
  BY <1>2, LevelReportEffect
<1>5. ServerEffect(SendClientClose(s, uid), s)
  BY SendClientCloseEffect
<1>6. ServerEffect(u, s)
  <2> HIDE DEF cmd
  <2>1. Kept(t, s, Seat) /\ SessionOK(t) /\ Follows(t, s, b)
    <3>1. CASE cmd = SERVER_CMD_LOGIN_SUCCESS
      <4>1. t = LoginSuccess(s, p)
        BY <3>1 DEF SERVER_CMD_ENTER_ROOM, SERVER_CMD_LOGIN_SUCCESS, CMD_GET_NEW_ROOM
      <4> QED
        BY <1>2, <3>1, <4>1, LoginSuccessSeat
    <3>2. CASE cmd = SERVER_CMD_ENTER_ROOM
      <4>1. t = EnterRoom(s, p)
        BY <3>2 DEF SERVER_CMD_ENTER_ROOM, SERVER_CMD_LOGIN_SUCCESS, CMD_GET_NEW_ROOM
      <4> QED
        BY <1>2, <3>2, <4>1, EnterRoomSeat
    <3>3. CASE cmd = CMD_GET_NEW_ROOM
      <4>1. t = NewRoom(s, p)
        BY <3>3 DEF SERVER_CMD_ENTER_ROOM, SERVER_CMD_LOGIN_SUCCESS, CMD_GET_NEW_ROOM
      <4> QED
        BY <1>2, <3>3, <4>1, NewRoomSeat
    <3>4. CASE cmd \notin {SERVER_CMD_LOGIN_SUCCESS, SERVER_CMD_ENTER_ROOM, CMD_GET_NEW_ROOM}
      <4>1. t = s
        BY <3>4
      <4>2. Command(b) \in Silent
        BY <1>2, <1>3, <3>4 DEF Silent
      <4>3. Told(b) = <<>>
        BY <1>3, <4>2, SilentTells
      <4>4. Kept(s, s, Seat)
        BY DEF Kept, SessionOK
      <4> QED
        BY <4>1, <4>3, <4>4 DEF Follows
    <3> QED
      BY <3>1, <3>2, <3>3, <3>4
  <2> HIDE DEF t
  <2> QED
    BY <1>3, <2>1, ClientToldEffect DEF u
<1> QED
  BY <1>1, <1>4, <1>5, <1>6

\* CHelperUnit::process_pkg
LEMMA AllocEffect ==
  ASSUME MapsAddresses, ServersSend, NEW s, SessionOK(s), NEW w \in FromAlloc
  PROVE  ServerEffect(AllocPacket(s, w), s)
<1> DEFINE uid == ReadInt(Copy(w)).val
           inner == Enclosed(w)
           t == ClientPacket(s, uid, inner.val)
<1>1. w \in Seq(Octet)
  BY DEF ServersSend, Octet
<1>2. uid \in Int32
  BY <1>1, CopyParts, ReadIntIs
<1>3. AllocPacket(s, w) = IF Command(w) = CLIENT_PACKET /\ inner.ok THEN t
                          ELSE IF Command(w) = SERVER_CLOSE_PACKET /\ uid \in s.users THEN Fatal(s) ELSE s
  BY DEF AllocPacket, Command
<1>4. Command(w) = CLIENT_PACKET /\ inner.ok => ServerEffect(t, s)
  <2>1. Command(w) = CLIENT_PACKET /\ inner.ok =>
          /\ IsPacket(inner.val)
          /\ Command(inner.val) \notin {SERVER_COMMAND_LOGOUT_SUCCESS, SERVER_COMMAND_CHANGE_GAMESERVER}
    BY DEF ServersSend
  <2> HIDE DEF inner, uid
  <2> QED
    BY <1>2, <2>1, ClientPacketEffect
<1>5. ServerEffect(Fatal(s), s) /\ ServerEffect(s, s)
  BY StoppedEffect
<1> HIDE DEF inner, uid, t
<1> QED
  BY <1>3, <1>4, <1>5

\* CGameUnit::process_pkg
LEMMA GameServerEffect ==
  ASSUME ServersSend, NEW s, SessionOK(s), NEW w \in FromGame
  PROVE  ServerEffect(GamePacket(s, w), s)
<1> DEFINE p == Decrypt(Copy(w))
           cmd == GetCmdType(p)
           uid == ReadInt(p)
           ip == ReadString(uid.p)
           a == ip.val
           v == ReadInt(ip.p).val
           z == 0
           none == NoAddr
           left == [s EXCEPT !.tid = z, !.addr = none, !.port = z]
           moved == [s EXCEPT !.tid = z, !.addr = a, !.port = v]
           With(t) == [t EXCEPT !.toClient = Append(@, w)]
<1>1. IsPacket(w) /\ Command(w) \notin {CMD_GET_NEW_ROOM, SERVER_CMD_ENTER_ROOM, SERVER_CMD_LOGIN_SUCCESS}
  BY DEF ServersSend
<1>2. w \in Seq(Octet) /\ Len(w) >= 9 /\ Good(w) /\ cmd = Command(w) /\ Command(w) \in Int16
  BY <1>1, IsPacketIs
<1>3. GamePacket(s, w) =
        CASE cmd = SERVER_COMMAND_LOGOUT_SUCCESS -> With(left)
          [] cmd = SERVER_COMMAND_CHANGE_GAMESERVER -> With(moved)
          [] OTHER -> With(s)
  BY DEF GamePacket
<1>4. cmd = SERVER_COMMAND_LOGOUT_SUCCESS => Told(w) = <<z, none>>
  BY <1>2, ToldIs
<1>5. cmd = SERVER_COMMAND_CHANGE_GAMESERVER => Told(w) = <<z, a>>
  BY <1>2, ToldIs
<1>6. cmd \notin {SERVER_COMMAND_LOGOUT_SUCCESS, SERVER_COMMAND_CHANGE_GAMESERVER} => Told(w) = <<>>
  <2>1. cmd \notin {SERVER_COMMAND_LOGOUT_SUCCESS, SERVER_COMMAND_CHANGE_GAMESERVER} => Command(w) \in Silent
    BY <1>1, <1>2 DEF Silent
  <2> QED
    BY <1>2, <2>1, SilentTells
<1>7. z \in Int32 /\ ~ (z > 0)
  BY DEF Int32
<1> HIDE DEF cmd, z, none, a, v, p
<1>8. Kept(left, s, Seat) /\ left.tid = z /\ left.addr = none /\ SessionOK(left)
  BY <1>7, SeatFields
<1>9. Kept(moved, s, Seat) /\ moved.tid = z /\ moved.addr = a /\ SessionOK(moved)
  BY <1>7, SeatFields
<1>10. none \in Mapped(none) /\ a \in Mapped(a)
  BY DEF Mapped
<1>11. Kept(s, s, Seat)
  BY DEF Kept, SessionOK
<1> HIDE DEF left, moved
<1>12. cmd = SERVER_COMMAND_LOGOUT_SUCCESS => ServerEffect(With(left), s)
  <2>1. cmd = SERVER_COMMAND_LOGOUT_SUCCESS => Follows(left, s, w)
    BY <1>4, <1>8, <1>10 DEF Follows
  <2> QED
    BY <1>2, <1>8, <2>1, ClientToldEffect
<1>13. cmd = SERVER_COMMAND_CHANGE_GAMESERVER => ServerEffect(With(moved), s)
  <2>1. cmd = SERVER_COMMAND_CHANGE_GAMESERVER => Follows(moved, s, w)
    BY <1>5, <1>9, <1>10 DEF Follows
  <2> QED
    BY <1>2, <1>9, <2>1, ClientToldEffect
<1>14. cmd \notin {SERVER_COMMAND_LOGOUT_SUCCESS, SERVER_COMMAND_CHANGE_GAMESERVER} => ServerEffect(With(s), s)
  <2>1. cmd \notin {SERVER_COMMAND_LOGOUT_SUCCESS, SERVER_COMMAND_CHANGE_GAMESERVER} => Follows(s, s, w)
    BY <1>6 DEF Follows
  <2> QED
    BY <1>2, <1>11, <2>1, ClientToldEffect
<1> HIDE DEF With
<1>15. CASE cmd = SERVER_COMMAND_LOGOUT_SUCCESS
  <2>1. GamePacket(s, w) = With(left)
    BY <1>3, <1>15 DEF SERVER_COMMAND_LOGOUT_SUCCESS, SERVER_COMMAND_CHANGE_GAMESERVER
  <2> QED
    BY <1>12, <1>15, <2>1
<1>16. CASE cmd = SERVER_COMMAND_CHANGE_GAMESERVER
  <2>1. GamePacket(s, w) = With(moved)
    BY <1>3, <1>16 DEF SERVER_COMMAND_LOGOUT_SUCCESS, SERVER_COMMAND_CHANGE_GAMESERVER
  <2> QED
    BY <1>13, <1>16, <2>1
<1>17. CASE cmd \notin {SERVER_COMMAND_LOGOUT_SUCCESS, SERVER_COMMAND_CHANGE_GAMESERVER}
  <2>1. GamePacket(s, w) = With(s)
    BY <1>3, <1>17
  <2> QED
    BY <1>14, <1>17, <2>1
<1> QED
  BY <1>15, <1>16, <1>17

-----------------------------------------------------------------------------
(* The client's packets in the stream of their bytes. *)

Flattens(f, seqs, n) == DOMAIN f = 1..n /\ f[1] = seqs[1] /\ \A i \in 2..n : f[i] = f[i-1] \o seqs[i]

\* Packets put one behind the other have a value after each number of them.
LEMMA FlattenExists ==
  ASSUME NEW seqs, NEW n \in Nat, n >= 1
  PROVE  \E f : Flattens(f, seqs, n)
<1> DEFINE G == {m \in Nat : m >= 1 => \E f : Flattens(f, seqs, m)}
<1>1. 0 \in G
  OBVIOUS
<1>2. ASSUME NEW m \in Nat, m \in G PROVE m + 1 \in G
  <2>1. CASE m = 0
    <3> DEFINE f == [i \in 1..1 |-> seqs[1]]
    <3>1. Flattens(f, seqs, 1)
      BY DEF Flattens
    <3> QED
      BY <2>1, <3>1
  <2>2. CASE m # 0
    <3>1. PICK f : Flattens(f, seqs, m)
      BY <1>2, <2>2
    <3> DEFINE x == f[m] \o seqs[m + 1]
    <3>5. x = f[m] \o seqs[m + 1]
      OBVIOUS
    <3> HIDE DEF x
    <3> DEFINE g == [i \in 1..m+1 |-> IF i = m + 1 THEN x ELSE f[i]]
    <3>2. DOMAIN g = 1..m+1 /\ g[1] = seqs[1]
      BY <2>2, <3>1 DEF Flattens
    <3>3. ASSUME NEW i \in 2..m+1 PROVE g[i] = g[i-1] \o seqs[i]
      <4>1. CASE i = m + 1
        <5>1. g[i] = x /\ i - 1 = m /\ g[m] = f[m]
          BY <2>2, <4>1
        <5> HIDE DEF g
        <5> QED
          BY <3>5, <4>1, <5>1
      <4>2. CASE i # m + 1
        <5>1. i \in 2..m /\ g[i] = f[i] /\ g[i-1] = f[i-1]
          BY <4>2
        <5> QED
          BY <3>1, <5>1 DEF Flattens
      <4> QED
        BY <4>1, <4>2
    <3> HIDE DEF g
    <3>4. Flattens(g, seqs, m + 1)
      BY <3>2, <3>3 DEF Flattens
    <3> QED
      BY <3>4
  <2> QED
    BY <2>1, <2>2
<1> HIDE DEF G
<1>3. n \in G
  BY <1>1, <1>2, AllNumbers
<1> QED
  BY <1>3 DEF G

\* FlattenSeq is its recursive function's last value.
LEMMA FlattenIs ==
  ASSUME NEW seqs, Len(seqs) \in Nat, Len(seqs) >= 1
  PROVE  \E f : Flattens(f, seqs, Len(seqs)) /\ FlattenSeq(seqs) = f[Len(seqs)]
<1> DEFINE N == Len(seqs)
           P(g) == [i \in 1..N |-> IF i = 1 THEN seqs[i] ELSE g[i-1] \o seqs[i]]
           A == CHOOSE g : g = P(g)
<1>1. FlattenSeq(seqs) = A[N]
  BY DEF FlattenSeq
<1>2. PICK f : Flattens(f, seqs, N)
  BY FlattenExists
<1> DEFINE h == [i \in 1..N |-> f[i]]
<1>3. N \in Nat /\ N >= 1
  OBVIOUS
<1> HIDE DEF N
<1>4. h = P(h)
  <2>1. \A i \in 1..N : h[i] = IF i = 1 THEN seqs[i] ELSE h[i-1] \o seqs[i]
    <3> SUFFICES ASSUME NEW i \in 1..N PROVE h[i] = IF i = 1 THEN seqs[i] ELSE h[i-1] \o seqs[i]
      OBVIOUS
    <3>1. CASE i = 1
      BY <1>2, <3>1 DEF Flattens
    <3>2. CASE i # 1
      <4>1. i \in 2..N /\ i - 1 \in 1..N
        BY <1>3, <3>2
      <4>2. h[i] = f[i] /\ h[i-1] = f[i-1]
        BY <4>1
      <4> HIDE DEF h
      <4> QED
        BY <1>2, <3>2, <4>1, <4>2 DEF Flattens
    <3> QED
      BY <3>1, <3>2
  <2> QED
    BY <2>1
<1> HIDE DEF h
<1>5. A = P(A)
  BY <1>4
<1> HIDE DEF A
<1>6. Flattens(A, seqs, N)
  <2>1. 1 \in 1..N /\ \A i \in 2..N : i \in 1..N /\ i # 1
    BY <1>3
  <2>2. DOMAIN A = 1..N
    BY <1>5
  <2>3. A[1] = seqs[1]
    BY <1>5, <2>1
  <2>4. \A i \in 2..N : A[i] = A[i-1] \o seqs[i]
    BY <1>5, <2>1
  <2> QED
    BY <2>2, <2>3, <2>4 DEF Flattens
<1> QED
  BY <1>1, <1>6 DEF N

\* Packets in common give the same bytes.
LEMMA FlattensSame ==
  ASSUME NEW f, NEW g, NEW s, NEW t, NEW n \in Nat, NEW m \in Nat, Flattens(f, s, n), Flattens(g, t, m),
         n <= m, \A i \in 1..n : s[i] = t[i]
  PROVE  \A i \in 1..n : f[i] = g[i]
<1> DEFINE T == {i \in 0..n : i = 0 \/ f[i] = g[i]}
<1>1. 0 \in T
  OBVIOUS
<1>2. ASSUME NEW i \in 1..n, i - 1 \in T PROVE i \in T
  <2>1. CASE i = 1
    BY <2>1 DEF Flattens
  <2>2. CASE i # 1
    <3>1. i \in 2..n /\ i \in 2..m /\ f[i-1] = g[i-1] /\ s[i] = t[i] /\ i \in 0..n
      BY <1>2, <2>2
    <3>2. f[i] = f[i-1] \o s[i] /\ g[i] = g[i-1] \o t[i]
      BY <3>1 DEF Flattens
    <3>3. f[i] = g[i]
      BY <3>1, <3>2
    <3> QED
      BY <3>1, <3>3
  <2> QED
    BY <2>1, <2>2
<1> HIDE DEF T
<1>3. \A i \in 1..n : i - 1 \in T => i \in T
  BY <1>2
<1>4. \A i \in 0..n : i \in T
  BY ONLY n \in Nat, <1>1, <1>3, Rounds
<1> QED
  BY <1>4 DEF T

\* No packets, no bytes.
LEMMA FlattenNone == FlattenSeq(<<>>) = <<>>
BY DEF FlattenSeq

\* One packet more.
LEMMA FlattenMore ==
  ASSUME NEW S, NEW s \in Seq(Seq(S)), NEW t \in Seq(Seq(S)), Len(t) = Len(s) + 1, \A i \in 1..Len(s) : t[i] = s[i]
  PROVE  FlattenSeq(t) = FlattenSeq(s) \o t[Len(t)]
<1> DEFINE n == Len(s)
           m == Len(t)
<1>1. n \in Nat /\ m \in Nat /\ m = n + 1 /\ m >= 1
  OBVIOUS
<1>2. PICK g : Flattens(g, t, m) /\ FlattenSeq(t) = g[m]
  BY <1>1, FlattenIs
<1>3. CASE n = 0
  <2>1. s = <<>>
    BY <1>3
  <2>2. m = 1 /\ t[m] \in Seq(S)
    BY <1>1, <1>3
  <2>3. FlattenSeq(t) = t[m]
    BY <1>2, <2>2 DEF Flattens
  <2>4. <<>> \o t[m] = t[m]
    BY <2>2
  <2> QED
    BY <2>1, <2>3, <2>4, FlattenNone
<1>4. CASE n # 0
  <2>0. n >= 1
    BY <1>1, <1>4
  <2>1. PICK f : Flattens(f, s, n) /\ FlattenSeq(s) = f[n]
    BY <1>1, <2>0, FlattenIs
  <2>2. \A i \in 1..n : s[i] = t[i]
    OBVIOUS
  <2> HIDE DEF n, m
  <2>3. n <= n /\ n <= m
    BY <1>1
  <2>4. \A i \in 1..n : f[i] = g[i]
    BY ONLY <1>1, <1>2, <2>1, <2>2, <2>3, FlattensSame, SMTT(30)
  <2>5. f[n] = g[n]
    BY <1>1, <2>0, <2>4
  <2>6. m \in 2..m /\ m - 1 = n
    BY <1>1, <1>4
  <2>7. g[m] = g[n] \o t[m]
    BY <1>2, <2>6 DEF Flattens
  <2> QED
    BY <1>2, <2>1, <2>5, <2>7 DEF m
<1> QED
  BY <1>3, <1>4

Scripts == Seq(Seq(Octet))
\* The bytes of the first k packets, and how many they are.
Flat(p, k) == FlattenSeq(SubSeq(p, 1, k))
Upto(p, k) == Len(Flat(p, k))

\* The first k elements of a sequence.
LEMMA FirstIs ==
  ASSUME NEW S, NEW p \in Seq(S), NEW k \in 0..Len(p)
  PROVE  SubSeq(p, 1, k) \in Seq(S) /\ Len(SubSeq(p, 1, k)) = k /\ \A i \in 1..k : SubSeq(p, 1, k)[i] = p[i]
<1>1. k \in Nat /\ k <= Len(p)
  OBVIOUS
<1> QED
  BY <1>1

\* The stream up to the next packet is the stream so far and that packet.
LEMMA FlatNext ==
  ASSUME NEW p \in Scripts, NEW k \in 0..Len(p)-1
  PROVE  Flat(p, k + 1) = Flat(p, k) \o p[k + 1]
<1> DEFINE s == SubSeq(p, 1, k)
           t == SubSeq(p, 1, k + 1)
<1>1. k \in 0..Len(p) /\ k + 1 \in 0..Len(p) /\ k \in Nat
  BY DEF Scripts
<1>2. s \in Seq(Seq(Octet)) /\ Len(s) = k /\ \A i \in 1..k : s[i] = p[i]
  BY <1>1, FirstIs DEF Scripts
<1>3. t \in Seq(Seq(Octet)) /\ Len(t) = k + 1 /\ \A i \in 1..k+1 : t[i] = p[i]
  BY <1>1, FirstIs DEF Scripts
<1>4. Flat(p, k) = FlattenSeq(s) /\ Flat(p, k + 1) = FlattenSeq(t)
  BY DEF Flat
<1> HIDE DEF s, t
<1>5. Len(t) = Len(s) + 1 /\ \A i \in 1..Len(s) : t[i] = s[i]
  BY <1>1, <1>2, <1>3
<1>6. FlattenSeq(t) = FlattenSeq(s) \o t[Len(t)]
  BY <1>2, <1>3, <1>5, FlattenMore
<1>7. t[Len(t)] = p[k + 1]
  BY <1>1, <1>3
<1> QED
  BY <1>4, <1>6, <1>7

\* No packets, an empty stream.
LEMMA FlatNone ==
  ASSUME NEW p \in Scripts
  PROVE  Flat(p, 0) = <<>>
<1> DEFINE s == SubSeq(p, 1, 0)
<1>1. 0 \in 0..Len(p)
  BY DEF Scripts
<1>2. s \in Seq(Seq(Octet)) /\ Len(s) = 0
  BY <1>1, FirstIs DEF Scripts
<1>3. s = <<>>
  BY <1>2
<1> HIDE DEF s
<1> QED
  BY <1>3, FlattenNone DEF Flat, s

\* A stream of packets is bytes.
LEMMA FlatIs ==
  ASSUME NEW p \in Scripts
  PROVE  \A k \in 0..Len(p) : Flat(p, k) \in Seq(Octet)
<1> DEFINE N == Len(p)
           T == {k \in 0..N : Flat(p, k) \in Seq(Octet)}
<1>1. N \in Nat /\ \A i \in 1..N : p[i] \in Seq(Octet)
  BY DEF Scripts
<1>2. 0 \in T
  <2>1. <<>> \in Seq(Octet) /\ 0 \in 0..N
    BY <1>1
  <2>2. Flat(p, 0) = <<>>
    BY FlatNone
  <2> QED
    BY <2>1, <2>2
<1>3. ASSUME NEW k \in 1..N, k - 1 \in T PROVE k \in T
  <2>1. k - 1 \in 0..N-1 /\ k \in 0..N /\ (k - 1) + 1 = k
    BY <1>1
  <2>2. Flat(p, k) = Flat(p, k - 1) \o p[k]
    BY <2>1, FlatNext
  <2>3. Flat(p, k) \in Seq(Octet)
    BY <1>1, <1>3, <2>2
  <2> QED
    BY <2>1, <2>3
<1> HIDE DEF T
<1>4. \A k \in 1..N : k - 1 \in T => k \in T
  BY <1>3
<1> HIDE DEF N
<1>5. \A k \in 0..N : k \in T
  BY ONLY <1>1, <1>2, <1>4, Rounds
<1> QED
  BY <1>5 DEF T, N

\* The stream of all packets is the whole stream.
LEMMA FlatAll ==
  ASSUME NEW p \in Scripts
  PROVE  Flat(p, Len(p)) = FlattenSeq(p)
<1>1. Len(p) \in 0..Len(p)
  BY DEF Scripts
<1> DEFINE s == SubSeq(p, 1, Len(p))
<1>2. s \in Seq(Seq(Octet)) /\ Len(s) = Len(p) /\ \A i \in 1..Len(p) : s[i] = p[i]
  BY <1>1, FirstIs DEF Scripts
<1> HIDE DEF s
<1>3. s = p
  BY <1>2, SeqSame DEF Scripts
<1> QED
  BY <1>3 DEF Flat, s

\* Where the next packet of a stream begins and ends, and its bytes.
LEMMA UptoNext ==
  ASSUME NEW p \in Scripts, NEW k \in 0..Len(p)-1
  PROVE  /\ Upto(p, k) \in Nat /\ Upto(p, k + 1) \in Nat /\ Upto(p, k + 1) = Upto(p, k) + Len(p[k + 1])
         /\ p[k + 1] \in Seq(Octet) /\ Len(p[k + 1]) \in Nat
         /\ \A i \in 1..Upto(p, k) : Flat(p, k + 1)[i] = Flat(p, k)[i]
         /\ \A i \in 1..Len(p[k + 1]) : Flat(p, k + 1)[Upto(p, k) + i] = p[k + 1][i]
<1>1. Flat(p, k) \in Seq(Octet) /\ p[k + 1] \in Seq(Octet)
  <2>1. k \in 0..Len(p) /\ k + 1 \in 1..Len(p)
    BY DEF Scripts
  <2>2. p[k + 1] \in Seq(Octet)
    BY <2>1 DEF Scripts
  <2> QED
    BY <2>1, <2>2, FlatIs
<1>2. Flat(p, k + 1) = Flat(p, k) \o p[k + 1]
  BY FlatNext
<1> DEFINE a == Flat(p, k)
           c == p[k + 1]
           d == Flat(p, k + 1)
<1>3. a \in Seq(Octet) /\ c \in Seq(Octet) /\ d = a \o c
  BY <1>1, <1>2
<1> HIDE DEF a, c, d
<1>4. /\ Len(a) \in Nat /\ Len(c) \in Nat /\ Len(d) = Len(a) + Len(c)
      /\ \A i \in 1..Len(a) : d[i] = a[i]
      /\ \A i \in 1..Len(c) : d[Len(a) + i] = c[i]
  BY <1>3, Concat
<1> QED
  BY <1>3, <1>4 DEF a, c, d, Upto

\* Where the first k packets of a stream end.
LEMMA UptoIs ==
  ASSUME NEW p \in Scripts, NEW k \in 0..Len(p)
  PROVE  Upto(p, k) \in Nat /\ (k = Len(p) => Upto(p, k) = Len(FlattenSeq(p)))
<1>1. Flat(p, k) \in Seq(Octet)
  BY FlatIs
<1> QED
  BY <1>1, FlatAll DEF Upto

\* The bytes of more packets begin with those of fewer.
LEMMA Prefix ==
  ASSUME NEW p \in Scripts, NEW k \in 0..Len(p)
  PROVE  \A j \in 0..Len(p) :
           j >= k => Upto(p, k) <= Upto(p, j) /\ \A i \in 1..Upto(p, k) : Flat(p, j)[i] = Flat(p, k)[i]
<1> DEFINE N == Len(p)
           a == Flat(p, k)
           Has(d) == Len(a) <= Len(d) /\ \A i \in 1..Len(a) : d[i] = a[i]
           T == {j \in 0..N : j >= k => Has(Flat(p, j))}
<1>1. N \in Nat /\ k \in Nat /\ N >= k
  BY DEF Scripts
<1>9. Len(a) \in Nat
  BY UptoIs DEF Upto
<1>2. 0 \in T
  <2>1. CASE k = 0
    BY <1>1, <1>9, <2>1
  <2>2. CASE k # 0
    BY <1>1, <2>2
  <2> QED
    BY <2>1, <2>2
<1>3. ASSUME NEW j \in 1..N, j - 1 \in T PROVE j \in T
  <2> SUFFICES ASSUME j >= k PROVE Has(Flat(p, j))
    OBVIOUS
  <2>1. j \in 0..N /\ j - 1 \in 0..N-1 /\ (j - 1) + 1 = j /\ j \in Nat
    BY <1>1
  <2>2. CASE j = k
    BY <1>9, <2>2
  <2>3. CASE j # k
    <3>1. Has(Flat(p, j - 1))
      BY <1>1, <1>3, <2>1, <2>3
    <3>2. /\ Upto(p, j - 1) \in Nat /\ Upto(p, j) = Upto(p, j - 1) + Len(p[j]) /\ Len(p[j]) \in Nat
          /\ \A i \in 1..Upto(p, j - 1) : Flat(p, j)[i] = Flat(p, j - 1)[i]
      <4> DEFINE m == j - 1
      <4>1. m \in 0..Len(p)-1 /\ m + 1 = j
        BY <2>1
      <4> HIDE DEF m
      <4>2. /\ Upto(p, m) \in Nat /\ Upto(p, m + 1) = Upto(p, m) + Len(p[m + 1]) /\ Len(p[m + 1]) \in Nat
            /\ \A i \in 1..Upto(p, m) : Flat(p, m + 1)[i] = Flat(p, m)[i]
        BY <4>1, UptoNext
      <4> QED
        BY <4>1, <4>2 DEF m
    <3> HIDE DEF a
    <3>3. Len(a) \in Nat
      BY <1>9
    <3> DEFINE b == Flat(p, j - 1)
               d == Flat(p, j)
    <3>4. Len(b) \in Nat /\ Len(d) >= Len(b) /\ \A i \in 1..Len(b) : d[i] = b[i]
      <4>1. Upto(p, j - 1) = Len(b) /\ Upto(p, j) = Len(d)
        BY DEF Upto
      <4>2. \A i \in 1..Upto(p, j - 1) : d[i] = b[i]
        BY <3>2
      <4> DEFINE x == Upto(p, j - 1)
                 y == Upto(p, j)
                 z == Len(p[j])
      <4>3. x \in Nat /\ y = x + z /\ z \in Nat
        BY <3>2
      <4> HIDE DEF b, d, x, y, z
      <4>4. y >= x
        BY <4>3
      <4> QED
        BY <4>1, <4>2, <4>3, <4>4 DEF x, y
    <3>5. Has(b)
      BY <3>1
    <3> HIDE DEF b, d
    <3>6. Len(a) <= Len(d) /\ \A i \in 1..Len(a) : i \in 1..Len(b)
      BY <3>3, <3>4, <3>5
    <3>7. \A i \in 1..Len(a) : d[i] = a[i]
      BY <3>4, <3>5, <3>6
    <3> QED
      BY <3>6, <3>7 DEF d
  <2> QED
    BY <2>2, <2>3
<1> HIDE DEF T
<1>4. \A j \in 1..N : j - 1 \in T => j \in T
  BY <1>3
<1> HIDE DEF N
<1>5. \A j \in 0..N : j \in T
  BY ONLY <1>1, <1>2, <1>4, Rounds
<1>6. \A j \in 0..N : j >= k => Has(Flat(p, j))
  BY <1>5 DEF T
<1> QED
  BY <1>6 DEF N, Upto

\* Where the bytes of packet k + 1 are in the stream.
LEMMA InStream ==
  ASSUME NEW p \in Scripts, NEW k \in 0..Len(p)-1
  PROVE  /\ Upto(p, k + 1) <= Len(FlattenSeq(p))
         /\ \A i \in 1..Len(p[k + 1]) : FlattenSeq(p)[Upto(p, k) + i] = p[k + 1][i]
<1> DEFINE a == Flat(p, k + 1)
           all == FlattenSeq(p)
<1>1. k + 1 \in 0..Len(p) /\ Len(p) \in 0..Len(p) /\ Len(p) >= k + 1
  BY DEF Scripts
<1>2. Upto(p, k + 1) <= Upto(p, Len(p)) /\ \A i \in 1..Upto(p, k + 1) : Flat(p, Len(p))[i] = Flat(p, k + 1)[i]
  BY <1>1, Prefix
<1>3. Flat(p, Len(p)) = all
  BY FlatAll
<1>4. Len(a) <= Len(all) /\ \A i \in 1..Len(a) : all[i] = a[i]
  BY <1>2, <1>3 DEF Upto
<1>8. /\ Upto(p, k) \in Nat /\ Len(a) = Upto(p, k) + Len(p[k + 1]) /\ Len(p[k + 1]) \in Nat
      /\ \A i \in 1..Len(p[k + 1]) : a[Upto(p, k) + i] = p[k + 1][i]
  BY UptoNext DEF Upto
<1> HIDE DEF a, all
<1>9. \A i \in 1..Len(p[k + 1]) : Upto(p, k) + i \in 1..Len(a)
  BY <1>8
<1> QED
  BY <1>4, <1>8, <1>9 DEF Upto, a, all

-----------------------------------------------------------------------------
(* Cutting. *)

\* The two bytes of a slice of two.
LEMMA TwoAt ==
  ASSUME NEW b \in Seq(Octet), NEW i \in Nat, i + 2 <= Len(b)
  PROVE  Slice(b, i, 2)[1] = b[i + 1] /\ Slice(b, i, 2)[2] = b[i + 2]
<1> DEFINE n == 2
           s == Slice(b, i, n)
<1>1. n \in Nat /\ i + n <= Len(b) /\ 1 \in 1..n /\ 2 \in 1..n
  OBVIOUS
<1>2. n = 2
  OBVIOUS
<1> HIDE DEF n
<1>3. \A k \in 1..n : s[k] = b[i + k]
  BY <1>1, SliceIs
<1> HIDE DEF s
<1>4. s[1] = b[i + 1] /\ s[2] = b[i + 2]
  BY <1>1, <1>3
<1> QED
  BY <1>2, <1>4 DEF s

\* The length that two bytes state, and the bytes of a length.
LEMMA TwoBytes ==
  ASSUME NEW a \in Octet, NEW b \in Octet
  PROVE  /\ 256 * a + b \in Nat /\ 256 * (256 * 0 + 0) + a = a
         /\ \A n \in Int : n <= 32741 /\ n = 2 + (256 * a + b) => a < 128 /\ 256 * a + b = n - 2
BY DEF Octet

\* The length HandleInput takes from the first two bytes received.
LEMMA PkglenIs ==
  ASSUME NEW r \in Seq(Octet), Len(r) >= 9
  PROVE  /\ r[1] \in Octet /\ r[2] \in Octet
         /\ Pkglen(r) = 2 + (256 * r[1] + r[2]) /\ Pkglen(r) \in Nat
         /\ BeginsBY(r) <=> r[3] = 66 /\ r[4] = 89
<1> DEFINE s == Slice(r, 0, 2)
           t == Slice(r, 2, 2)
           z == <<0, 0>> \o s
<1>1. s \in Seq(Octet) /\ Len(s) = 2 /\ t \in Seq(Octet) /\ Len(t) = 2
  BY TwoIs
<1>2. s[1] = r[1] /\ s[2] = r[2] /\ t[1] = r[3] /\ t[2] = r[4]
  <2>1. s[1] = r[0 + 1] /\ s[2] = r[0 + 2]
    BY TwoAt
  <2>2. t[1] = r[2 + 1] /\ t[2] = r[2 + 2]
    BY TwoAt
  <2> HIDE DEF s, t
  <2> QED
    BY <2>1, <2>2
<1>3. r[1] \in Octet /\ r[2] \in Octet
  OBVIOUS
<1>4. Pkglen(r) = 2 + Number(z) /\ (BeginsBY(r) <=> t = <<66, 89>>)
  BY DEF Pkglen, BeginsBY
<1> HIDE DEF s, t
<1>5. z \in Seq(Octet) /\ Len(z) = 4 /\ z[1] = 0 /\ z[2] = 0 /\ z[3] = r[1] /\ z[4] = r[2]
  <2> DEFINE y == <<0, 0>>
  <2>1. y \in Seq(Octet) /\ Len(y) = 2 /\ y[1] = 0 /\ y[2] = 0
    BY DEF Octet
  <2> HIDE DEF y
  <2>2. /\ z \in Seq(Octet) /\ Len(z) = Len(y) + Len(s) /\ \A i \in 1..Len(y) : z[i] = y[i]
        /\ \A i \in 1..Len(s) : z[Len(y) + i] = s[i]
    <3>1. z = y \o s
      BY DEF y
    <3> HIDE DEF z
    <3>2. y \in Seq(Octet) /\ s \in Seq(Octet)
      BY <1>1, <2>1
    <3> QED
      BY ONLY <3>1, <3>2, Concat
  <2> HIDE DEF z
  <2>3. z[1] = y[1] /\ z[2] = y[2] /\ z[2 + 1] = s[1] /\ z[2 + 2] = s[2]
    BY <1>1, <2>1, <2>2
  <2> QED
    BY <1>1, <1>2, <2>1, <2>2, <2>3
<1> HIDE DEF z
<1>6. Number(z) = 256 * (256 * (256 * (IF z[1] < 128 THEN z[1] ELSE z[1] - 256) + z[2]) + z[3]) + z[4]
  BY <1>5, IntNumber
<1>7. Number(z) = 256 * r[1] + r[2]
  <2>1. (IF z[1] < 128 THEN z[1] ELSE z[1] - 256) = 0
    BY <1>5
  <2>2. 256 * (256 * 0 + z[2]) + z[3] = z[3]
    BY <1>3, <1>5, TwoBytes
  <2> QED
    BY <1>5, <1>6, <2>1, <2>2
<1>8. t = <<66, 89>> <=> r[3] = 66 /\ r[4] = 89
  BY <1>1, <1>2
<1>9. 2 + (256 * r[1] + r[2]) \in Nat
  <2>1. 256 * r[1] + r[2] \in Nat
    BY ONLY <1>3, TwoBytes
  <2> QED
    BY <2>1
<1> QED
  BY <1>3, <1>4, <1>7, <1>8, <1>9

\* What a client may put between the packets of its script.
Sent(c) ==
  /\ c \in Seq(Octet) /\ Len(c) >= 9
  /\ BeginsBY(c) =>
       /\ Len(c) = Pkglen(c)
       /\ Command(c) = CMD_GET_NEW_ROOM => Verifies(Copy(c))
       /\ Command(c) = SERVER_BROADCAST_INFO => TextsForward(c)
Sending(p) == p \in Scripts /\ \A i \in 1..Len(p) : Sent(p[i])

\* A packet that HandleInput accepts is a frame a client may send.
LEMMA FrameOf ==
  ASSUME NEW c, Sent(c), BeginsBY(c), Pkglen(c) <= MaxPacket
  PROVE  Frame(c)
<1> DEFINE q == Copy(c)
<1>1. c \in Seq(Octet) /\ Len(c) >= 9 /\ Len(c) \in Nat /\ Len(c) = Pkglen(c)
  BY DEF Sent
<1>2. c[1] \in Octet /\ c[2] \in Octet /\ Pkglen(c) = 2 + (256 * c[1] + c[2])
  BY <1>1, PkglenIs
<1>3. q \in Packet /\ q.buf = c
  BY <1>1, CopyParts
<1>4. MaxPacket \in Nat /\ MaxPacket <= 32741
  BY Sizes, LimitsAssumption
<1> DEFINE n == Len(c)
<1>5. c[1] < 128 /\ 256 * c[1] + c[2] = n - 2
  <2>1. n \in Int /\ n <= 32741 /\ n = 2 + (256 * c[1] + c[2])
    BY <1>1, <1>2, <1>4
  <2> HIDE DEF n
  <2> QED
    BY <1>2, <2>1, TwoBytes
<1>6. GetBodyLength(q) = 256 * c[1] + c[2]
  <2> DEFINE s == Slice(c, 0, 2)
  <2>1. s \in Seq(Octet) /\ Len(s) = 2
    BY <1>1, TwoIs
  <2>2. s[1] = c[1] /\ s[2] = c[2]
    <3>1. s[1] = c[0 + 1] /\ s[2] = c[0 + 2]
      BY <1>1, TwoAt
    <3> HIDE DEF s
    <3> QED
      BY <3>1
  <2>3. GetBodyLength(q) = Number(s)
    BY <1>3 DEF GetBodyLength
  <2> HIDE DEF s
  <2>4. Number(s) = 256 * (IF s[1] < 128 THEN s[1] ELSE s[1] - 256) + s[2]
    BY <2>1, ShortNumber
  <2> QED
    BY <1>5, <2>2, <2>3, <2>4
<1>7. Whole(q)
  <2>1. GetBodyLength(q) = Len(c) - 2
    BY <1>5, <1>6
  <2> QED
    BY <1>1, <1>3, <1>4, <2>1 DEF Whole
<1> QED
  BY <1>1, <1>7 DEF Frame, Sent

\* Where the session is in the stream: behind k packets, with bytes of the next ones.
Cut(s, p, k) ==
  /\ k \in 0..Len(p) /\ s.skipped = Upto(p, k)
  /\ s.r \in Seq(Octet) /\ Upto(p, k) + Len(s.r) <= Len(FlattenSeq(p))
  /\ Alike(FlattenSeq(p), Upto(p, k), s.r, 0, Len(s.r))

\* The bytes at hand and the next packet agree.
LEMMA HeadAlike ==
  ASSUME NEW p, Sending(p), NEW s, NEW k, Cut(s, p, k), Len(s.r) > 0
  PROVE  /\ k \in 0..Len(p)-1 /\ Sent(p[k + 1])
         /\ \A i \in 1..Len(s.r) : i <= Len(p[k + 1]) => s.r[i] = p[k + 1][i]
<1> DEFINE all == FlattenSeq(p)
           r == s.r
           x == Upto(p, k)
           c == p[k + 1]
<1>1. p \in Scripts /\ Len(p) \in Nat /\ k \in 0..Len(p) /\ r \in Seq(Octet) /\ x + Len(r) <= Len(all)
  BY DEF Sending, Cut, Scripts
<1>2. x \in Nat /\ (k = Len(p) => x = Len(all))
  BY <1>1, UptoIs
<1>3. k # Len(p)
  <2> HIDE DEF r, x, all
  <2>1. Len(r) \in Nat /\ Len(r) > 0
    BY <1>1 DEF r
  <2> QED
    BY <1>1, <1>2, <2>1
<1>4. k \in 0..Len(p)-1 /\ k + 1 \in 1..Len(p)
  BY <1>1, <1>3
<1>5. Sent(c)
  BY <1>4 DEF Sending
<1>6. \A i \in 1..Len(c) : all[x + i] = c[i]
  BY <1>1, <1>4, InStream
<1>7. \A i \in 1..Len(r) : all[x + i] = r[i]
  <2>1. \A i \in 1..Len(r) : all[x + i] = r[0 + i]
    BY DEF Cut, Alike
  <2> HIDE DEF r, x, all
  <2> QED
    BY <2>1
<1>8. Len(r) \in Nat /\ Len(c) \in Nat
  BY <1>1, <1>5 DEF Sent
<1> HIDE DEF all, r, x, c
<1>9. \A i \in 1..Len(r) : i <= Len(c) => r[i] = c[i]
  <2>1. \A i \in 1..Len(r) : i <= Len(c) => i \in 1..Len(c)
    BY <1>8
  <2> QED
    BY <1>6, <1>7, <2>1
<1> QED
  BY <1>4, <1>5, <1>9 DEF r, c

\* HandleInput finds the next packet or nothing.
LEMMA HeadIs ==
  ASSUME NEW p, Sending(p), NEW s, NEW k, Cut(s, p, k), HandleInput(s.r) > 0
  PROVE  /\ k \in 0..Len(p)-1 /\ Frame(p[k + 1]) /\ HandleInput(s.r) = Len(p[k + 1])
         /\ Len(p[k + 1]) <= Len(s.r) /\ Slice(s.r, 0, Len(p[k + 1])) = p[k + 1]
<1> DEFINE r == s.r
           c == p[k + 1]
           n == HandleInput(r)
<1>1. r \in Seq(Octet) /\ Len(r) \in Nat
  BY DEF Cut
<1>2. Len(r) >= 9 /\ BeginsBY(r) /\ Pkglen(r) <= MaxPacket /\ Pkglen(r) <= Len(r) /\ n = Pkglen(r)
  <2>1. PACKET_HEADER_SIZE = 9 /\ MaxPacket \in Nat
    BY Sizes, LimitsAssumption
  <2>2. Len(r) >= 9 => Pkglen(r) \in Nat
    BY <1>1, PkglenIs
  <2> HIDE DEF r
  <2>3. Len(r) >= 9 \/ n = 0
    BY <1>1, <2>1 DEF HandleInput
  <2>4. n > 0
    BY DEF r
  <2>5. Len(r) >= 9
    BY <2>3, <2>4
  <2>6. n = IF ~ BeginsBY(r) \/ Pkglen(r) > MaxPacket THEN -1 ELSE IF Len(r) < Pkglen(r) THEN 0 ELSE Pkglen(r)
    BY <1>1, <2>1, <2>5 DEF HandleInput
  <2> HIDE DEF n
  <2> QED
    BY <1>1, <2>1, <2>2, <2>4, <2>5, <2>6
<1>3. /\ k \in 0..Len(p)-1 /\ Sent(c)
      /\ \A i \in 1..Len(r) : i <= Len(c) => r[i] = c[i]
  <2>1. Len(s.r) > 0
    BY <1>1, <1>2
  <2> QED
    BY <2>1, HeadAlike
<1>4. c \in Seq(Octet) /\ Len(c) >= 9 /\ Len(c) \in Nat
  BY <1>3 DEF Sent
<1> HIDE DEF r, c, n
<1>5. r[1] = c[1] /\ r[2] = c[2] /\ r[3] = c[3] /\ r[4] = c[4]
  <2>1. 1 \in 1..Len(r) /\ 2 \in 1..Len(r) /\ 3 \in 1..Len(r) /\ 4 \in 1..Len(r)
    BY <1>1, <1>2
  <2>2. 1 <= Len(c) /\ 2 <= Len(c) /\ 3 <= Len(c) /\ 4 <= Len(c)
    BY <1>4
  <2> QED
    BY <1>3, <2>1, <2>2
<1>6. Pkglen(c) = Pkglen(r) /\ BeginsBY(c)
  <2>1. Pkglen(r) = 2 + (256 * r[1] + r[2]) /\ (BeginsBY(r) <=> r[3] = 66 /\ r[4] = 89)
    BY <1>1, <1>2, PkglenIs
  <2>2. Pkglen(c) = 2 + (256 * c[1] + c[2]) /\ (BeginsBY(c) <=> c[3] = 66 /\ c[4] = 89)
    BY <1>4, PkglenIs
  <2> QED
    BY <1>2, <1>5, <2>1, <2>2
<1>7. Len(c) = n /\ n <= Len(r)
  BY <1>2, <1>3, <1>6 DEF Sent
<1>8. Frame(c)
  BY <1>2, <1>3, <1>6, FrameOf
<1>9. Slice(r, 0, n) = c
  <2>1. n \in Nat /\ 0 + n <= Len(r)
    BY <1>4, <1>7
  <2>2. Slice(r, 0, n) \in Seq(Octet) /\ Len(Slice(r, 0, n)) = n /\ \A i \in 1..n : Slice(r, 0, n)[i] = r[0 + i]
    BY <1>1, <2>1, SliceIs
  <2>3. \A i \in 1..n : Slice(r, 0, n)[i] = c[i]
    <3> SUFFICES ASSUME NEW i \in 1..n PROVE Slice(r, 0, n)[i] = c[i]
      OBVIOUS
    <3>1. i \in 1..Len(r) /\ i <= Len(c) /\ 0 + i = i
      BY <1>1, <1>7, <2>1
    <3>2. r[i] = c[i]
      BY <1>3, <3>1
    <3> QED
      BY <2>2, <3>1, <3>2
  <2> QED
    BY <1>4, <1>7, <2>2, <2>3, SeqSame
<1> QED
  BY <1>3, <1>7, <1>8, <1>9 DEF r, c, n

-----------------------------------------------------------------------------
(* What the client was told, and the seat. *)

\* A sequence with one element more.
LEMMA OneMore ==
  ASSUME NEW S, NEW c \in Seq(S), NEW b \in S
  PROVE  /\ Append(c, b) \in Seq(S) /\ Len(Append(c, b)) = Len(c) + 1 /\ Len(c) \in Nat
         /\ \A i \in 1..Len(c) : Append(c, b)[i] = c[i]
         /\ Append(c, b)[Len(c) + 1] = b
OBVIOUS

\* Where the last packet is that tells the client of its table.
TellsLast(c, i) ==
  /\ i \in 1..Len(c) /\ Told(c[i]) # <<>>
  /\ \A j \in 1..Len(c) : j > i => Told(c[j]) = <<>>
SeatTold(s) ==
  \/ s.tid = 0 /\ s.addr = NoAddr /\ \A i \in 1..Len(s.toClient) : Told(s.toClient[i]) = <<>>
  \/ \E i, x, y : TellsLast(s.toClient, i) /\ Told(s.toClient[i]) = <<x, y>> /\ s.tid = x /\ s.addr \in Mapped(y)
ClientOK(s) ==
  /\ s.toClient \in Scripts /\ \A i \in 1..Len(s.toClient) : Good(s.toClient[i])
  /\ SeatTold(s)

\* Telling the client keeps its view of its table and the session's agreed.
LEMMA InformedOK ==
  ASSUME NEW s, ClientOK(s), NEW t, Informed(t, s)
  PROVE  ClientOK(t)
<1>1. CASE t.toClient = s.toClient /\ t.tid = s.tid /\ t.addr = s.addr
  BY <1>1 DEF ClientOK, SeatTold
<1>2. CASE \E b : Good(b) /\ t.toClient = Append(s.toClient, b) /\ Follows(t, s, b)
  <2>1. PICK b : Good(b) /\ t.toClient = Append(s.toClient, b) /\ Follows(t, s, b)
    BY <1>2
  <2> DEFINE c == s.toClient
             d == t.toClient
             n == Len(c)
  <2>2. c \in Seq(Seq(Octet)) /\ b \in Seq(Octet)
    BY <2>1 DEF ClientOK, Scripts, Good, Sendable
  <2>3. /\ d \in Seq(Seq(Octet)) /\ Len(d) = n + 1 /\ n \in Nat
        /\ (\A i \in 1..n : d[i] = c[i]) /\ d[n + 1] = b
    BY <2>1, <2>2, OneMore
  <2>4. \A i \in 1..n : Good(c[i])
    BY DEF ClientOK
  <2>5. SeatTold(s)
    BY DEF ClientOK
  <2>6. SeatTold(s) <=> \/ s.tid = 0 /\ s.addr = NoAddr /\ \A i \in 1..n : Told(c[i]) = <<>>
                        \/ \E i, x, y : TellsLast(c, i) /\ Told(c[i]) = <<x, y>> /\ s.tid = x /\ s.addr \in Mapped(y)
    BY DEF SeatTold
  <2>7. SeatTold(t) <=> \/ t.tid = 0 /\ t.addr = NoAddr /\ \A i \in 1..Len(d) : Told(d[i]) = <<>>
                        \/ \E i, x, y : TellsLast(d, i) /\ Told(d[i]) = <<x, y>> /\ t.tid = x /\ t.addr \in Mapped(y)
    BY DEF SeatTold
  <2>8. ClientOK(t) <=> d \in Scripts /\ (\A i \in 1..Len(d) : Good(d[i])) /\ SeatTold(t)
    BY DEF ClientOK
  <2> HIDE DEF c, d
  <2>9. \A i \in 1..Len(d) : i \in 1..n \/ i = n + 1
    BY <2>3
  <2>10. \A i \in 1..Len(d) : Good(d[i])
    BY <2>1, <2>3, <2>4, <2>9
  <2>11. ASSUME NEW x, NEW y, Told(b) = <<x, y>>, t.tid = x, t.addr \in Mapped(y)
         PROVE  SeatTold(t)
    <3>1. <<x, y>> # <<>>
      OBVIOUS
    <3>2. TellsLast(d, n + 1) /\ Told(d[n + 1]) = <<x, y>>
      BY <2>3, <2>11, <3>1 DEF TellsLast
    <3> QED
      BY <2>7, <2>11, <3>2
  <2>12. ASSUME Told(b) = <<>>, t.tid = s.tid, t.addr = s.addr
         PROVE  SeatTold(t)
    <3>1. CASE s.tid = 0 /\ s.addr = NoAddr /\ \A i \in 1..n : Told(c[i]) = <<>>
      <4>1. \A i \in 1..Len(d) : Told(d[i]) = <<>>
        BY <2>3, <2>9, <2>12, <3>1
      <4> QED
        BY <2>7, <2>12, <3>1, <4>1
    <3>2. CASE \E i, x, y : TellsLast(c, i) /\ Told(c[i]) = <<x, y>> /\ s.tid = x /\ s.addr \in Mapped(y)
      <4>1. PICK i, x, y : TellsLast(c, i) /\ Told(c[i]) = <<x, y>> /\ s.tid = x /\ s.addr \in Mapped(y)
        BY <3>2
      <4>2. i \in 1..n /\ Told(c[i]) # <<>> /\ \A j \in 1..n : j > i => Told(c[j]) = <<>>
        BY <4>1 DEF TellsLast
      <4>3. i \in 1..Len(d) /\ d[i] = c[i]
        BY <2>3, <4>2
      <4>4. ASSUME NEW j \in 1..Len(d), j > i PROVE Told(d[j]) = <<>>
        BY <2>3, <2>9, <2>12, <4>2, <4>4
      <4>5. TellsLast(d, i)
        BY <4>2, <4>3, <4>4 DEF TellsLast
      <4> QED
        BY <2>7, <2>12, <4>1, <4>3, <4>5
    <3> QED
      BY <2>5, <2>6, <3>1, <3>2
  <2>13. SeatTold(t)
    BY <2>1, <2>11, <2>12 DEF Follows
  <2> QED
    BY <2>3, <2>8, <2>10, <2>13 DEF Scripts
<1> QED
  BY <1>1, <1>2 DEF Informed

\* An answer tells the client where it is.
LEMMA AnsweredInforms ==
  ASSUME NEW s, NEW t, Answered(t, s), Same(t, s)
  PROVE  Informed(t, s)
<1>1. CASE t.toClient = s.toClient
  BY <1>1 DEF Informed, Same
<1>2. CASE \E b : Good(b) /\ Told(b) \in {<<>>, <<s.tid, s.addr>>} /\ t.toClient = Append(s.toClient, b)
  <2>1. PICK b : Good(b) /\ Told(b) \in {<<>>, <<s.tid, s.addr>>} /\ t.toClient = Append(s.toClient, b)
    BY <1>2
  <2>2. t.tid = s.tid /\ t.addr = s.addr
    BY DEF Same
  <2>3. s.addr \in Mapped(s.addr)
    BY DEF Mapped
  <2>4. Follows(t, s, b)
    BY <2>1, <2>2, <2>3 DEF Follows
  <2> QED
    BY <2>1, <2>4 DEF Informed
<1> QED
  BY <1>1, <1>2 DEF Answered

\* The largest of a set.
LEMMA MaxIs ==
  ASSUME NEW S \in SUBSET Int, NEW m \in S, \A x \in S : m >= x
  PROVE  Max(S) = m
<1>1. \A z \in S : (\A x \in S : z >= x) => z = m
  <2> SUFFICES ASSUME NEW z \in S, \A x \in S : z >= x PROVE z = m
    OBVIOUS
  <2>1. z >= m /\ m >= z
    OBVIOUS
  <2> QED
    BY <2>1
<1> DEFINE P(z) == \A x \in S : z >= x
<1>2. P(m) /\ \A z \in S : P(z) => z = m
  BY <1>1
<1>3. Max(S) = CHOOSE z \in S : P(z)
  BY DEF Max
<1> HIDE DEF P
<1> QED
  BY <1>2, <1>3

\* When the client's view agrees with the session's, SeatAsTold holds.
LEMMA SeatIsTold ==
  ASSUME ClientOK(session)
  PROVE  SeatAsTold
<1> DEFINE c == session.toClient
           about == {i \in DOMAIN c : Told(c[i]) # <<>>}
           last == IF about = {} THEN <<0, NoAddr>> ELSE Told(c[Max(about)])
           mapped == {m[last[2]] : m \in {f \in {IpStart, Updated(IpStart, IpFile)} : last[2] \in DOMAIN f}}
<1>1. c \in Seq(Seq(Octet)) /\ DOMAIN c = 1..Len(c) /\ Len(c) \in Nat
  BY DEF ClientOK, Scripts
<1>2. SeatAsTold <=> session.tid = last[1] /\ session.addr \in {last[2], <<>>} \cup mapped
  BY DEF SeatAsTold
<1>3. {last[2], <<>>} \cup mapped = Mapped(last[2])
  BY DEF Mapped, IpMaps
<1>4. SeatTold(session)
  BY DEF ClientOK
<1>5. CASE session.tid = 0 /\ session.addr = NoAddr /\ \A i \in 1..Len(c) : Told(c[i]) = <<>>
  <2>1. about = {}
    BY <1>1, <1>5
  <2>2. last = <<0, NoAddr>>
    BY <2>1
  <2> HIDE DEF last
  <2>3. last[1] = 0 /\ last[2] = NoAddr
    BY <2>2
  <2> QED
    BY <1>2, <1>5, <2>3
<1>6. CASE \E i, x, y : TellsLast(c, i) /\ Told(c[i]) = <<x, y>> /\ session.tid = x /\ session.addr \in Mapped(y)
  <2>1. PICK i, x, y : TellsLast(c, i) /\ Told(c[i]) = <<x, y>> /\ session.tid = x /\ session.addr \in Mapped(y)
    BY <1>6
  <2> HIDE DEF c
  <2>2. i \in 1..Len(c) /\ Told(c[i]) # <<>> /\ \A j \in 1..Len(c) : j > i => Told(c[j]) = <<>>
    BY <2>1 DEF TellsLast
  <2>3. about \in SUBSET Int /\ i \in about
    BY <1>1, <2>2
  <2>4. \A j \in about : i >= j
    BY <1>1, <2>2
  <2> HIDE DEF about
  <2>5. Max(about) = i
    BY <2>3, <2>4, MaxIs
  <2>6. last = <<x, y>>
    BY <2>1, <2>3, <2>5
  <2> HIDE DEF last
  <2>7. last[1] = x /\ last[2] = y
    BY <2>6
  <2> QED
    BY <1>2, <1>3, <2>1, <2>7
<1> QED
  BY <1>4, <1>5, <1>6 DEF SeatTold

\* When the packets sent are good ones, RepliesTrue holds.
LEMMA RepliesAreTrue ==
  ASSUME ClientOK(session)
  PROVE  RepliesTrue
<1>1. session.toClient \in Seq(Seq(Octet)) /\ \A i \in 1..Len(session.toClient) : Good(session.toClient[i])
  BY DEF ClientOK, Scripts
<1>2. \A b \in Range(session.toClient) : Good(b)
  <2>1. DOMAIN session.toClient = 1..Len(session.toClient)
    BY <1>1
  <2> QED
    BY <1>1, <2>1 DEF Range
<1> QED
  BY <1>2 DEF RepliesTrue, Good, Sendable, CountsFit

-----------------------------------------------------------------------------
(* What the servers get. *)

\* A packet more that is due to a server or not, and that it need not get if it is.
LEMMA ConveysSkip ==
  ASSUME NEW h \in Scripts, NEW pkg \in Seq(Octet), NEW got, NEW due \in SUBSET (1..Len(h)), Conveys(got, due, h),
         NEW extra \in SUBSET {Len(h) + 1}, extra # {} => ByTable(pkg)
  PROVE  Conveys(got, due \cup extra, Append(h, pkg))
<1> DEFINE g == Append(h, pkg)
           n == Len(h)
<1>1. n \in Nat /\ (\A i \in 1..n : g[i] = h[i]) /\ g[n + 1] = pkg
  BY OneMore DEF Scripts
<1>2. PICK of \in [DOMAIN got -> due] :
        /\ \A i, j \in DOMAIN got : i < j => of[i] < of[j]
        /\ \A i \in DOMAIN got : got[i] = h[of[i]]
        /\ \A k \in due : ByTable(h[k]) \/ \E i \in DOMAIN got : of[i] = k
  BY DEF Conveys
<1> HIDE DEF g, n
<1>3. due \subseteq 1..n /\ extra \subseteq {n + 1}
  BY DEF n
<1>4. of \in [DOMAIN got -> due \cup extra]
  BY <1>2
<1>5. \A i \in DOMAIN got : got[i] = g[of[i]]
  BY <1>1, <1>2, <1>3
<1>6. \A k \in due \cup extra : ByTable(g[k]) \/ \E i \in DOMAIN got : of[i] = k
  <2>1. \A k \in due : ByTable(g[k]) \/ \E i \in DOMAIN got : of[i] = k
    BY <1>1, <1>2, <1>3
  <2>2. \A k \in extra : ByTable(g[k])
    BY <1>1, <1>3
  <2> QED
    BY <2>1, <2>2
<1> QED
  BY <1>2, <1>4, <1>5, <1>6 DEF Conveys, g

\* A packet more that is due and that it gets.
LEMMA ConveysMore ==
  ASSUME NEW h \in Scripts, NEW pkg \in Seq(Octet), NEW got, NEW due \in SUBSET (1..Len(h)), Conveys(got, due, h),
         DOMAIN got \subseteq Int, NEW m \in Int, \A i \in DOMAIN got : i < m,
         NEW more, DOMAIN more = DOMAIN got \cup {m}, \A i \in DOMAIN got : more[i] = got[i], more[m] = pkg
  PROVE  Conveys(more, due \cup {Len(h) + 1}, Append(h, pkg))
<1> DEFINE g == Append(h, pkg)
           n == Len(h)
<1>1. n \in Nat /\ (\A i \in 1..n : g[i] = h[i]) /\ g[n + 1] = pkg
  BY OneMore DEF Scripts
<1>2. PICK of \in [DOMAIN got -> due] :
        /\ \A i, j \in DOMAIN got : i < j => of[i] < of[j]
        /\ \A i \in DOMAIN got : got[i] = h[of[i]]
        /\ \A k \in due : ByTable(h[k]) \/ \E i \in DOMAIN got : of[i] = k
  BY DEF Conveys
<1> HIDE DEF g, n
<1>3. due \subseteq 1..n
  BY DEF n
<1> DEFINE D == DOMAIN got
           E == DOMAIN more
           to == [i \in E |-> IF i = m THEN n + 1 ELSE of[i]]
<1>4. E = D \cup {m} /\ m \notin D
  OBVIOUS
<1>5. /\ to[m] = n + 1 /\ \A i \in D : to[i] = of[i] /\ of[i] \in due /\ to[i] < n + 1
  <2>1. \A i \in D : of[i] \in due
    BY <1>2
  <2>2. \A k \in due : k < n + 1
    BY <1>1, <1>3
  <2> QED
    BY <1>4, <2>1, <2>2
<1>6. to \in [E -> due \cup {n + 1}]
  BY <1>4, <1>5
<1> HIDE DEF to
<1>7. ASSUME NEW i \in E, NEW j \in E, i < j PROVE to[i] < to[j]
  <2>1. CASE j = m
    <3>1. i # m /\ i \in D
      BY <1>4, <1>7, <2>1
    <3> QED
      BY <1>5, <2>1, <3>1
  <2>2. CASE j # m
    <3>1. j \in D /\ j < m
      BY <1>4, <2>2
    <3>2. i \in D
      <4>1. i # m
        BY <1>7, <3>1
      <4> QED
        BY <1>4, <4>1
    <3> QED
      BY <1>2, <1>5, <1>7, <3>1, <3>2
  <2> QED
    BY <2>1, <2>2
<1>8. ASSUME NEW i \in E PROVE more[i] = g[to[i]]
  <2>1. CASE i = m
    BY <1>1, <1>5, <2>1
  <2>2. CASE i \in D
    <3>1. more[i] = h[of[i]] /\ of[i] \in 1..n /\ to[i] = of[i]
      BY <1>2, <1>3, <1>5, <2>2
    <3> QED
      BY <1>1, <3>1
  <2> QED
    BY <1>4, <2>1, <2>2
<1>9. ASSUME NEW k \in due \cup {n + 1} PROVE ByTable(g[k]) \/ \E i \in E : to[i] = k
  <2>1. CASE k = n + 1
    BY <1>4, <1>5, <2>1
  <2>2. CASE k \in due
    <3>1. g[k] = h[k]
      BY <1>1, <1>3, <2>2
    <3>2. ByTable(h[k]) \/ \E i \in D : of[i] = k
      BY <1>2, <2>2
    <3> QED
      BY <1>4, <1>5, <3>1, <3>2
  <2> QED
    BY <2>1, <2>2
<1>10. Conveys(more, due \cup {n + 1}, g)
  BY <1>6, <1>7, <1>8, <1>9 DEF Conveys
<1> QED
  BY <1>10 DEF g, n

\* Which packets are due when there is one more.
LEMMA DueMore ==
  ASSUME NEW h \in Scripts, NEW pkg \in Seq(Octet)
  PROVE  /\ DueToAlloc(h) \in SUBSET (1..Len(h)) /\ DueToGame(h) \in SUBSET (1..Len(h))
         /\ DueToAlloc(Append(h, pkg)) = DueToAlloc(h) \cup {k \in {Len(h) + 1} : ForAlloc(pkg)}
         /\ DueToGame(Append(h, pkg)) = DueToGame(h) \cup {k \in {Len(h) + 1} : ForGame(pkg)}
<1> DEFINE g == Append(h, pkg)
           n == Len(h)
<1>1. n \in Nat /\ Len(g) = n + 1 /\ g \in Scripts /\ (\A i \in 1..n : g[i] = h[i]) /\ g[n + 1] = pkg
  BY OneMore DEF Scripts
<1>2. DOMAIN h = 1..n /\ DOMAIN g = 1..(n + 1)
  <2>1. DOMAIN h = 1..n /\ DOMAIN g = 1..Len(g)
    BY <1>1 DEF Scripts
  <2> QED
    BY <1>1, <2>1
<1>3. DueToAlloc(h) = {k \in 1..n : ForAlloc(h[k])} /\ DueToGame(h) = {k \in 1..n : ForGame(h[k])}
  BY <1>2 DEF DueToAlloc, DueToGame
<1>4. DueToAlloc(g) = {k \in 1..(n + 1) : ForAlloc(g[k])} /\ DueToGame(g) = {k \in 1..(n + 1) : ForGame(g[k])}
  BY <1>2 DEF DueToAlloc, DueToGame
<1> HIDE DEF g, n
<1>5. 1..(n + 1) = 1..n \cup {n + 1}
  BY <1>1
<1>6. DueToAlloc(g) = DueToAlloc(h) \cup {k \in {n + 1} : ForAlloc(pkg)}
  BY <1>1, <1>3, <1>4, <1>5
<1>7. DueToGame(g) = DueToGame(h) \cup {k \in {n + 1} : ForGame(pkg)}
  BY <1>1, <1>3, <1>4, <1>5
<1> QED
  BY <1>3, <1>6, <1>7 DEF g, n

\* A packet more on a stream, of the kind or not.
LEMMA InnerMore ==
  ASSUME NEW c \in Scripts, NEW b \in Seq(Octet)
  PROVE  /\ DOMAIN Inner(c) \subseteq 1..Len(c) /\ Len(c) \in Nat
         /\ \A i \in DOMAIN Inner(c) : Append(c, b)[i] = c[i]
         /\ Command(b) # CLIENT_PACKET2 => Inner(Append(c, b)) = Inner(c)
         /\ Command(b) = CLIENT_PACKET2 =>
              /\ DOMAIN Inner(Append(c, b)) = DOMAIN Inner(c) \cup {Len(c) + 1}
              /\ Inner(Append(c, b))[Len(c) + 1] = Unwrapped(b).pkg
              /\ \A i \in DOMAIN Inner(c) : Inner(Append(c, b))[i] = Inner(c)[i]
<1> DEFINE d == Append(c, b)
           n == Len(c)
<1>1. n \in Nat /\ (\A i \in 1..n : d[i] = c[i]) /\ d[n + 1] = b /\ Len(d) = n + 1 /\ d \in Scripts
  BY OneMore DEF Scripts
<1>2. DOMAIN c = 1..n /\ DOMAIN d = 1..(n + 1)
  <2>1. DOMAIN c = 1..n /\ DOMAIN d = 1..Len(d)
    BY <1>1 DEF Scripts
  <2> QED
    BY <1>1, <2>1
<1> DEFINE C == {j \in 1..n : Command(c[j]) = CLIENT_PACKET2}
           D == {j \in 1..(n + 1) : Command(d[j]) = CLIENT_PACKET2}
<1>3. Inner(c) = [i \in C |-> Unwrapped(c[i]).pkg]
  BY <1>2 DEF Inner
<1>4. Inner(d) = [i \in D |-> Unwrapped(d[i]).pkg]
  BY <1>2 DEF Inner
<1> HIDE DEF d, n
<1>5. C \subseteq 1..n /\ \A i \in C : d[i] = c[i]
  BY <1>1
<1>6. Command(b) # CLIENT_PACKET2 => D = C
  BY <1>1
<1>7. Command(b) = CLIENT_PACKET2 => D = C \cup {n + 1}
  BY <1>1
<1> HIDE DEF C, D
<1>8. Command(b) # CLIENT_PACKET2 => Inner(d) = Inner(c)
  BY <1>3, <1>4, <1>5, <1>6
<1>9. Command(b) = CLIENT_PACKET2 =>
        /\ DOMAIN Inner(d) = DOMAIN Inner(c) \cup {n + 1}
        /\ Inner(d)[n + 1] = Unwrapped(b).pkg
        /\ \A i \in DOMAIN Inner(c) : Inner(d)[i] = Inner(c)[i]
  BY <1>1, <1>3, <1>4, <1>5, <1>7, SMTT(30)
<1> QED
  BY <1>1, <1>3, <1>5, <1>8, <1>9 DEF d, n

\* The packets sent bare to the game server, with one packet more.
LEMMA BareMore ==
  ASSUME NEW c \in Scripts, NEW b \in Seq(Octet)
  PROVE  /\ DOMAIN Bare(c) \subseteq 1..Len(c) /\ Len(c) \in Nat
         /\ Command(b) = SERVER_CMD_SET_IP => Bare(Append(c, b)) = Bare(c)
         /\ Command(b) # SERVER_CMD_SET_IP =>
              /\ DOMAIN Bare(Append(c, b)) = DOMAIN Bare(c) \cup {Len(c) + 1}
              /\ Bare(Append(c, b))[Len(c) + 1] = b
              /\ \A i \in DOMAIN Bare(c) : Bare(Append(c, b))[i] = Bare(c)[i]
<1> DEFINE d == Append(c, b)
           n == Len(c)
<1>1. n \in Nat /\ (\A i \in 1..n : d[i] = c[i]) /\ d[n + 1] = b /\ Len(d) = n + 1 /\ d \in Scripts
  BY OneMore DEF Scripts
<1>2. DOMAIN c = 1..n /\ DOMAIN d = 1..(n + 1)
  <2>1. DOMAIN c = 1..n /\ DOMAIN d = 1..Len(d)
    BY <1>1 DEF Scripts
  <2> QED
    BY <1>1, <2>1
<1> DEFINE C == {j \in 1..n : Command(c[j]) # SERVER_CMD_SET_IP}
           D == {j \in 1..(n + 1) : Command(d[j]) # SERVER_CMD_SET_IP}
<1>3. Bare(c) = [i \in C |-> c[i]]
  BY <1>2 DEF Bare
<1>4. Bare(d) = [i \in D |-> d[i]]
  BY <1>2 DEF Bare
<1> HIDE DEF d, n
<1>5. C \subseteq 1..n /\ \A i \in C : d[i] = c[i]
  BY <1>1
<1>6. Command(b) = SERVER_CMD_SET_IP => D = C
  BY <1>1
<1>7. Command(b) # SERVER_CMD_SET_IP => D = C \cup {n + 1}
  BY <1>1
<1> HIDE DEF C, D
<1>8. Command(b) = SERVER_CMD_SET_IP => Bare(d) = Bare(c)
  BY <1>3, <1>4, <1>5, <1>6
<1>9. Command(b) # SERVER_CMD_SET_IP =>
        /\ DOMAIN Bare(d) = DOMAIN Bare(c) \cup {n + 1}
        /\ Bare(d)[n + 1] = b
        /\ \A i \in DOMAIN Bare(c) : Bare(d)[i] = Bare(c)[i]
  BY <1>1, <1>3, <1>4, <1>5, <1>7
<1> QED
  BY <1>1, <1>3, <1>5, <1>8, <1>9 DEF d, n

\* The last LOGIN a server has got when it gets packet i.
LastLogin(got, j, i) ==
  /\ j \in LoginsTo(got, i)
  /\ \A k \in LoginsTo(got, i) : k <= j
NamedBy(got, i, name) == \E j : LastLogin(got, j, i) /\ name = Named(got[j])

\* What an alloc server has got of the packets h: in their order, under the names of the
\* LOGINs; the next one comes under the name of the last.
AllocNames(s) ==
  \A i \in DOMAIN Inner(s.toAlloc) :
    LET u == Unwrapped(s.toAlloc[i]) IN NamedBy(Inner(s.toAlloc), i, <<u.uid, u.api>>) /\ u.ip = Ip
NextName(s) == s.uid > 0 => NamedBy(Inner(s.toAlloc), Len(s.toAlloc), <<s.uid, s.api>>)
AllocTrue(s, h) ==
  /\ s.toAlloc \in Scripts
  /\ IF reachable THEN Conveys(Inner(s.toAlloc), DueToAlloc(h), h) ELSE DOMAIN Inner(s.toAlloc) = {}
  /\ AllocNames(s)
  /\ s.stage = "open" => NextName(s)
GameTrue(s, h) == s.toGame \in Scripts /\ Conveys(Bare(s.toGame), DueToGame(h), h)

\* A packet on the stream that is not a client's.
LEMMA AllocOther ==
  ASSUME NEW s, NEW h, AllocTrue(s, h), NEW t, t.stage = s.stage \/ t.stage # "open", t.uid = s.uid, t.api = s.api,
         t.toAlloc = s.toAlloc \/ \E x \in Seq(Octet) : Command(x) # CLIENT_PACKET2 /\ t.toAlloc = Append(s.toAlloc, x)
  PROVE  AllocTrue(t, h)
<1>1. CASE t.toAlloc = s.toAlloc
  BY <1>1 DEF AllocTrue, AllocNames, NextName
<1>2. CASE \E x \in Seq(Octet) : Command(x) # CLIENT_PACKET2 /\ t.toAlloc = Append(s.toAlloc, x)
  <2>1. PICK x \in Seq(Octet) : Command(x) # CLIENT_PACKET2 /\ t.toAlloc = Append(s.toAlloc, x)
    BY <1>2
  <2> DEFINE c == s.toAlloc
             d == t.toAlloc
             n == Len(c)
  <2>2. c \in Scripts
    BY DEF AllocTrue
  <2>3. d \in Scripts /\ Len(d) = n + 1 /\ n \in Nat
    BY <2>1, <2>2, OneMore DEF Scripts
  <2>4. /\ DOMAIN Inner(c) \subseteq 1..n /\ Inner(d) = Inner(c)
        /\ \A i \in DOMAIN Inner(c) : d[i] = c[i]
    BY <2>1, <2>2, InnerMore, ZenonT(30)
  <2>5. AllocNames(t)
    <3>1. AllocNames(s)
      BY DEF AllocTrue
    <3> QED
      BY <2>4, <3>1 DEF AllocNames
  <2>6. ASSUME NextName(s) PROVE NextName(t)
    <3>1. LoginsTo(Inner(d), n + 1) = LoginsTo(Inner(c), n)
      <4> HIDE DEF c, d, n
      <4> QED
        BY <2>3, <2>4 DEF LoginsTo
    <3> HIDE DEF n
    <3>2. \A j : LastLogin(Inner(d), j, n + 1) <=> LastLogin(Inner(c), j, n)
      BY <3>1 DEF LastLogin
    <3> QED
      BY <2>3, <2>4, <2>6, <3>2 DEF NextName, NamedBy, n
  <2> HIDE DEF c, d
  <2>7. IF reachable THEN Conveys(Inner(d), DueToAlloc(h), h) ELSE DOMAIN Inner(d) = {}
    BY <2>4 DEF AllocTrue, c
  <2>8. t.stage = "open" => NextName(t)
    BY <2>6 DEF AllocTrue
  <2> QED
    BY <2>3, <2>5, <2>7, <2>8 DEF AllocTrue, d
<1> QED
  BY <1>1, <1>2

\* A packet of the client on the stream to an alloc server.
LEMMA AllocOne ==
  ASSUME NEW s, SessionOK(s), s.stage = "open", NEW h \in Scripts, AllocTrue(s, h), NEW pkg, Frame(pkg),
         NEW t, SessionOK(t), OneToAlloc(t, s, pkg)
  PROVE  AllocTrue(t, Append(h, pkg))
<1> DEFINE c == s.toAlloc
           d == t.toAlloc
           n == Len(c)
           b == WrapOf(t.uid, t.api, pkg)
           g == Append(h, pkg)
           got == Inner(c)
           more == Inner(d)
<1>1. /\ pkg \in Seq(Octet) /\ t.uid \in Int32 /\ t.api \in Int16 /\ Len(pkg) <= MaxPacket
      /\ reachable /\ ForAlloc(pkg) /\ t.stage = "open" /\ t.uid > 0 /\ d = Append(c, b)
  BY DEF Frame, SessionOK, OneToAlloc
<1>2. b \in Seq(Octet) /\ Command(b) = CLIENT_PACKET2
      /\ Unwrapped(b) = [uid |-> t.uid, ip |-> Ip, api |-> t.api, pkg |-> pkg]
  BY <1>1, WrapIs
<1>3. /\ Unwrapped(b).pkg = pkg /\ Unwrapped(b).uid = t.uid /\ Unwrapped(b).api = t.api /\ Unwrapped(b).ip = Ip
  BY <1>2
<1>4. c \in Scripts /\ Conveys(got, DueToAlloc(h), h) /\ AllocNames(s) /\ NextName(s)
  BY <1>1 DEF AllocTrue
<1> HIDE DEF b
<1>5. d \in Scripts /\ Len(d) = n + 1 /\ n \in Nat /\ d[n + 1] = b
  BY <1>1, <1>2, <1>4, OneMore DEF Scripts
<1>6. /\ DOMAIN got \subseteq 1..n /\ DOMAIN more = DOMAIN got \cup {n + 1} /\ more[n + 1] = pkg
      /\ \A i \in DOMAIN got : more[i] = got[i] /\ d[i] = c[i]
  <2> DEFINE e == Append(c, b)
  <2>1. /\ DOMAIN Inner(c) \subseteq 1..n
        /\ DOMAIN Inner(e) = DOMAIN Inner(c) \cup {n + 1} /\ Inner(e)[n + 1] = Unwrapped(b).pkg
        /\ \A i \in DOMAIN Inner(c) : Inner(e)[i] = Inner(c)[i]
        /\ \A i \in DOMAIN Inner(c) : e[i] = c[i]
    BY <1>2, <1>4, InnerMore
  <2>2. e = d
    BY <1>1
  <2> HIDE DEF e, c, d, n
  <2> QED
    BY <1>3, <2>1, <2>2
<1>7. AllocNames(s) <=> \A i \in DOMAIN got : NamedBy(got, i, <<Unwrapped(c[i]).uid, Unwrapped(c[i]).api>>) /\ Unwrapped(c[i]).ip = Ip
  BY DEF AllocNames
<1>8. AllocNames(t) <=> \A i \in DOMAIN more : NamedBy(more, i, <<Unwrapped(d[i]).uid, Unwrapped(d[i]).api>>) /\ Unwrapped(d[i]).ip = Ip
  BY DEF AllocNames
<1>9. NextName(s) <=> (s.uid > 0 => NamedBy(got, n, <<s.uid, s.api>>))
  BY DEF NextName
<1>10. NextName(t) <=> (t.uid > 0 => NamedBy(more, Len(d), <<t.uid, t.api>>))
  BY DEF NextName
<1>11. Conveys(more, DueToAlloc(g), g)
  <2>1. DueToAlloc(h) \in SUBSET (1..Len(h)) /\ DueToAlloc(g) = DueToAlloc(h) \cup {Len(h) + 1}
    BY <1>1, DueMore
  <2>2. DOMAIN got \subseteq Int /\ n + 1 \in Int /\ \A i \in DOMAIN got : i < n + 1
    BY <1>5, <1>6
  <2> HIDE DEF got, more, n, c, d
  <2>3. Conveys(more, DueToAlloc(h) \cup {Len(h) + 1}, Append(h, pkg))
    BY <1>1, <1>4, <1>6, <2>1, <2>2, ConveysMore
  <2> QED
    BY <2>1, <2>3
<1> HIDE DEF c, d, n, got, more, g
<1>12. ASSUME NEW i \in DOMAIN got, NEW x, NamedBy(got, i, x) PROVE NamedBy(more, i, x)
  <2>1. LoginsTo(more, i) = LoginsTo(got, i)
    BY <1>5, <1>6 DEF LoginsTo
  <2>2. PICK j : LastLogin(got, j, i) /\ x = Named(got[j])
    BY <1>12 DEF NamedBy
  <2>3. LastLogin(more, j, i) /\ j \in DOMAIN got
    BY <2>1, <2>2 DEF LastLogin, LoginsTo
  <2> QED
    BY <1>6, <2>2, <2>3 DEF NamedBy
<1>13. NamedBy(more, n + 1, <<t.uid, t.api>>)
  <2>1. CASE Command(pkg) = CLIENT_CMD_CLIENT_LOGIN
    <3>1. <<t.uid, t.api>> = Named(pkg)
      BY <2>1 DEF OneToAlloc
    <3>2. n + 1 \in LoginsTo(more, n + 1) /\ \A k \in LoginsTo(more, n + 1) : k <= n + 1
      BY <1>5, <1>6, <2>1 DEF LoginsTo
    <3> QED
      BY <1>6, <3>1, <3>2 DEF NamedBy, LastLogin
  <2>2. CASE Command(pkg) # CLIENT_CMD_CLIENT_LOGIN
    <3>1. t.uid = s.uid /\ t.api = s.api
      BY <2>2 DEF OneToAlloc
    <3>2. LoginsTo(more, n + 1) = LoginsTo(got, n)
      BY <1>5, <1>6, <2>2 DEF LoginsTo
    <3>3. NamedBy(got, n, <<s.uid, s.api>>)
      BY <1>1, <1>4, <1>9, <3>1
    <3>4. PICK j : LastLogin(got, j, n) /\ <<s.uid, s.api>> = Named(got[j])
      BY <3>3 DEF NamedBy
    <3>5. LastLogin(more, j, n + 1) /\ j \in DOMAIN got
      BY <3>2, <3>4 DEF LastLogin, LoginsTo
    <3> QED
      BY <1>6, <3>1, <3>4, <3>5 DEF NamedBy
  <2> QED
    BY <2>1, <2>2
<1>14. ASSUME NEW i \in DOMAIN more
       PROVE  NamedBy(more, i, <<Unwrapped(d[i]).uid, Unwrapped(d[i]).api>>) /\ Unwrapped(d[i]).ip = Ip
  <2>1. CASE i = n + 1
    BY <1>3, <1>5, <1>13, <2>1
  <2>2. CASE i \in DOMAIN got
    <3>1. NamedBy(got, i, <<Unwrapped(d[i]).uid, Unwrapped(d[i]).api>>) /\ Unwrapped(d[i]).ip = Ip
      BY <1>4, <1>6, <1>7, <2>2
    <3> QED
      BY <1>12, <2>2, <3>1
  <2> QED
    BY <1>6, <2>1, <2>2
<1>15. NextName(t)
  BY <1>5, <1>10, <1>13
<1>16. AllocNames(t)
  BY <1>8, <1>14
<1> QED
  BY <1>1, <1>5, <1>11, <1>15, <1>16 DEF AllocTrue, d, more, g

\* A packet handled that no alloc server gets.
LEMMA AllocSkip ==
  ASSUME NEW s, s.stage = "open", NEW h \in Scripts, AllocTrue(s, h), NEW pkg \in Seq(Octet),
         reachable /\ ForAlloc(pkg) => ByTable(pkg),
         NEW t, t.stage = "open", t.toAlloc = s.toAlloc, t.uid = s.uid, t.api = s.api
  PROVE  AllocTrue(t, Append(h, pkg))
<1>1. AllocTrue(t, h)
  BY AllocOther
<1> DEFINE extra == {k \in {Len(h) + 1} : ForAlloc(pkg)}
<1>2. DueToAlloc(h) \in SUBSET (1..Len(h)) /\ DueToAlloc(Append(h, pkg)) = DueToAlloc(h) \cup extra
  BY DueMore
<1>3. extra \in SUBSET {Len(h) + 1} /\ (reachable /\ extra # {} => ByTable(pkg))
  OBVIOUS
<1> HIDE DEF extra
<1>4. ASSUME reachable PROVE Conveys(Inner(t.toAlloc), DueToAlloc(Append(h, pkg)), Append(h, pkg))
  <2>1. Conveys(Inner(t.toAlloc), DueToAlloc(h), h)
    BY <1>1, <1>4 DEF AllocTrue
  <2>2. Conveys(Inner(t.toAlloc), DueToAlloc(h) \cup extra, Append(h, pkg))
    BY <1>2, <1>3, <1>4, <2>1, ConveysSkip
  <2> QED
    BY <1>2, <2>2
<1> QED
  BY <1>1, <1>4 DEF AllocTrue

\* A packet not meant for the game server leaves what that server got in order.
LEMMA GameSkip ==
  ASSUME NEW s, NEW h \in Scripts, GameTrue(s, h), NEW pkg \in Seq(Octet), ForGame(pkg) => ByTable(pkg),
         NEW t, t.toGame = s.toGame
  PROVE  GameTrue(t, Append(h, pkg))
<1> DEFINE extra == {k \in {Len(h) + 1} : ForGame(pkg)}
<1>2. DueToGame(h) \in SUBSET (1..Len(h)) /\ DueToGame(Append(h, pkg)) = DueToGame(h) \cup extra
  BY DueMore
<1>3. extra \in SUBSET {Len(h) + 1} /\ (extra # {} => ByTable(pkg))
  OBVIOUS
<1> HIDE DEF extra
<1>4. s.toGame \in Scripts /\ Conveys(Bare(s.toGame), DueToGame(h), h)
  BY DEF GameTrue
<1>5. Conveys(Bare(s.toGame), DueToGame(h) \cup extra, Append(h, pkg))
  BY <1>2, <1>3, <1>4, ConveysSkip
<1> QED
  BY <1>2, <1>4, <1>5 DEF GameTrue

\* A packet meant for the game server arrives behind those before it.
LEMMA GameOne ==
  ASSUME NEW s, NEW h \in Scripts, GameTrue(s, h), NEW pkg, Frame(pkg), NEW t, OneToGame(t, s, pkg)
  PROVE  GameTrue(t, Append(h, pkg))
<1> DEFINE c == s.toGame
           d == Append(c, pkg)
           n == Len(c)
           g == Append(h, pkg)
           got == Bare(c)
           more == Bare(d)
<1>1. pkg \in Seq(Octet) /\ ForGame(pkg)
  BY DEF Frame, OneToGame
<1>2. Command(pkg) # SERVER_CMD_SET_IP
  BY <1>1 DEF ForGame, SERVER_CMD_SET_IP, CMD_SEPARATE
<1>3. c \in Scripts /\ Conveys(got, DueToGame(h), h)
  BY DEF GameTrue
<1>4. d \in Scripts
  BY <1>1, <1>3, OneMore DEF Scripts
<1>5. /\ DOMAIN got \subseteq 1..n /\ n \in Nat /\ DOMAIN more = DOMAIN got \cup {n + 1} /\ more[n + 1] = pkg
      /\ \A i \in DOMAIN got : more[i] = got[i]
  BY <1>1, <1>2, <1>3, BareMore
<1>6. Conveys(more, DueToGame(g), g)
  <2>1. DueToGame(h) \in SUBSET (1..Len(h)) /\ DueToGame(g) = DueToGame(h) \cup {Len(h) + 1}
    BY <1>1, DueMore
  <2> HIDE DEF got, more, n, c, d
  <2>2. DOMAIN got \subseteq Int /\ n + 1 \in Int /\ \A i \in DOMAIN got : i < n + 1
    BY <1>5
  <2>3. Conveys(more, DueToGame(h) \cup {Len(h) + 1}, Append(h, pkg))
    BY <1>1, <1>3, <1>5, <2>1, <2>2, ConveysMore
  <2> QED
    BY <2>1, <2>3
<1>7. CASE t.toGame = d
  BY <1>4, <1>6, <1>7 DEF GameTrue
<1>8. CASE \E x \in Seq(Octet) : Command(x) = SERVER_CMD_SET_IP /\ t.toGame = Append(d, x)
  <2>1. PICK x \in Seq(Octet) : Command(x) = SERVER_CMD_SET_IP /\ t.toGame = Append(d, x)
    BY <1>8
  <2> HIDE DEF d, g
  <2>2. Bare(Append(d, x)) = Bare(d) /\ Append(d, x) \in Scripts
    BY <1>4, <2>1, BareMore, OneMore DEF Scripts
  <2>3. GameTrue(t, g)
    BY <1>6, <2>1, <2>2 DEF GameTrue
  <2> QED
    BY <2>3 DEF g
<1> QED
  BY <1>7, <1>8 DEF OneToGame

\* What the servers have got stays true of what was handled.
LEMMA EffectStreams ==
  ASSUME NEW s, SessionOK(s), s.stage = "open", NEW h \in Scripts, AllocTrue(s, h), GameTrue(s, h), NEW pkg, Frame(pkg),
         NEW t, Effect(t, s, pkg)
  PROVE  IF t.stage = "fatal" THEN AllocTrue(t, h) /\ GameTrue(t, h)
         ELSE AllocTrue(t, Append(h, pkg)) /\ GameTrue(t, Append(h, pkg))
<1>1. SessionOK(t) /\ pkg \in Seq(Octet) /\ (t.stage # "fatal" => t.stage = "open")
  BY DEF Effect, SessionOK, Frame
<1>2. CASE Nothing(t, s, pkg) /\ t.stage = "fatal"
  <2>1. t.toAlloc = s.toAlloc /\ t.toGame = s.toGame
    BY <1>2 DEF Nothing
  <2>2. AllocTrue(t, h)
    BY <1>2, <2>1 DEF AllocTrue, AllocNames
  <2> QED
    BY <1>2, <2>1, <2>2 DEF GameTrue
<1>3. CASE Nothing(t, s, pkg) /\ t.stage = "open"
  <2>1. /\ t.toAlloc = s.toAlloc /\ t.toGame = s.toGame /\ t.uid = s.uid /\ t.api = s.api
        /\ (ForGame(pkg) => ByTable(pkg)) /\ (reachable /\ ForAlloc(pkg) => ByTable(pkg))
    BY <1>3 DEF Nothing
  <2>2. AllocTrue(t, Append(h, pkg))
    BY <1>1, <1>3, <2>1, AllocSkip
  <2>3. GameTrue(t, Append(h, pkg))
    BY <1>1, <2>1, GameSkip
  <2> QED
    BY <1>3, <2>2, <2>3
<1>4. CASE OneToAlloc(t, s, pkg)
  <2>1. t.stage = "open" /\ ~ ForGame(pkg) /\ t.toGame = s.toGame
    BY <1>4 DEF OneToAlloc
  <2>2. AllocTrue(t, Append(h, pkg))
    BY <1>1, <1>4, AllocOne
  <2>3. GameTrue(t, Append(h, pkg))
    BY <1>1, <2>1, GameSkip
  <2> QED
    BY <2>1, <2>2, <2>3
<1>5. CASE OneToGame(t, s, pkg)
  <2>1. t.stage = "open" /\ ~ ForAlloc(pkg) /\ t.toAlloc = s.toAlloc /\ t.uid = s.uid /\ t.api = s.api
    BY <1>5 DEF OneToGame
  <2>2. AllocTrue(t, Append(h, pkg))
    BY <1>1, <2>1, AllocSkip
  <2>3. GameTrue(t, Append(h, pkg))
    BY <1>5, GameOne
  <2> QED
    BY <2>1, <2>2, <2>3
<1> QED
  BY <1>1, <1>2, <1>3, <1>4, <1>5 DEF Effect

-----------------------------------------------------------------------------
(* The loop of proc_pkg. *)

First(p, k) == SubSeq(p, 1, k)

\* The first k+1 packets are the first k and the next one.
LEMMA FirstNext ==
  ASSUME NEW p \in Scripts, NEW k \in 0..Len(p)-1
  PROVE  First(p, k) \in Scripts /\ p[k + 1] \in Seq(Octet) /\ First(p, k + 1) = Append(First(p, k), p[k + 1])
<1> DEFINE S == Seq(Octet)
           h == First(p, k)
           g == First(p, k + 1)
           b == p[k + 1]
<1>1. p \in Seq(S) /\ k \in 0..Len(p) /\ k + 1 \in 0..Len(p) /\ k \in Nat /\ Len(p) \in Nat /\ k + 1 \in 1..Len(p)
  BY DEF Scripts
<1>2. b \in S
  BY <1>1
<1> HIDE DEF S
<1>3. h \in Seq(S) /\ Len(h) = k /\ \A i \in 1..k : h[i] = p[i]
  BY <1>1, FirstIs DEF First
<1>4. g \in Seq(S) /\ Len(g) = k + 1 /\ \A i \in 1..(k + 1) : g[i] = p[i]
  <2> DEFINE m == k + 1
  <2>1. m \in 0..Len(p)
    BY <1>1
  <2> HIDE DEF m
  <2>2. First(p, m) \in Seq(S) /\ Len(First(p, m)) = m /\ \A i \in 1..m : First(p, m)[i] = p[i]
    BY <1>1, <2>1, FirstIs DEF First
  <2> QED
    BY <2>2 DEF m
<1> HIDE DEF h, g, b
<1>5. /\ Append(h, b) \in Seq(S) /\ Len(Append(h, b)) = k + 1 /\ (\A i \in 1..k : Append(h, b)[i] = h[i])
      /\ Append(h, b)[k + 1] = b
  BY <1>2, <1>3, OneMore
<1>6. \A i \in 1..(k + 1) : g[i] = Append(h, b)[i]
  <2>1. \A i \in 1..(k + 1) : i \in 1..k \/ i = k + 1
    BY <1>1
  <2>2. g[k + 1] = b
    BY <1>1, <1>4 DEF b
  <2> QED
    BY <1>3, <1>4, <1>5, <2>1, <2>2
<1>7. g = Append(h, b)
  BY <1>4, <1>5, <1>6, SeqSame
<1> QED
  BY <1>2, <1>3, <1>7 DEF h, g, b, S, Scripts

\* A packet is taken from the bytes at hand.
LEMMA CutMore ==
  ASSUME NEW p, Sending(p), NEW s, NEW k, Cut(s, p, k), HandleInput(s.r) > 0,
         NEW t, t.skipped = s.skipped + HandleInput(s.r),
         t.r = Slice(s.r, HandleInput(s.r), Len(s.r) - HandleInput(s.r))
  PROVE  Cut(t, p, k + 1) /\ t.skipped + Len(t.r) = s.skipped + Len(s.r) /\ Len(t.r) < Len(s.r)
<1> DEFINE all == FlattenSeq(p)
           r == s.r
           x == Upto(p, k)
           n == HandleInput(r)
           m == Len(r) - n
<1>1. /\ k \in 0..Len(p)-1 /\ n = Len(p[k + 1]) /\ n <= Len(r) /\ p[k + 1] \in Seq(Octet) /\ Len(p[k + 1]) >= 9
  BY HeadIs DEF Frame
<1>2. p \in Scripts /\ r \in Seq(Octet) /\ s.skipped = x /\ x + Len(r) <= Len(all) /\ Len(r) \in Nat
  BY DEF Sending, Cut
<1>3. x \in Nat /\ Upto(p, k + 1) = x + n
  BY <1>1, <1>2, UptoNext
<1>4. n \in Nat /\ n >= 9 /\ m \in Nat /\ n + m = Len(r)
  <2>1. n \in Nat /\ n >= 9
    BY <1>1
  <2> HIDE DEF n, r
  <2> QED
    BY <1>1, <1>2, <2>1
<1>5. \A i \in 1..Len(r) : all[x + i] = r[i]
  <2>1. \A i \in 1..Len(r) : all[x + i] = r[0 + i]
    BY DEF Cut, Alike
  <2> HIDE DEF r, x, all
  <2> QED
    BY <2>1
<1>6. t.r = Slice(r, n, m) /\ t.skipped = x + n
  BY <1>2
<1>7. k + 1 \in 0..Len(p)
  <2>1. Len(p) \in Nat
    BY <1>2 DEF Scripts
  <2> QED
    BY <1>1, <2>1
<1> HIDE DEF all, r, x, n, m
<1>8. t.r \in Seq(Octet) /\ Len(t.r) = m /\ \A i \in 1..m : t.r[i] = r[n + i]
  <2>1. n + m <= Len(r)
    BY <1>2, <1>4
  <2>2. Slice(r, n, m) \in Seq(Octet) /\ Len(Slice(r, n, m)) = m /\ \A i \in 1..m : Slice(r, n, m)[i] = r[n + i]
    BY ONLY <1>2, <1>4, <2>1, SliceIs, ZenonT(30)
  <2> QED
    BY ONLY <1>6, <2>2
<1>9. \A i \in 1..m : all[(x + n) + i] = t.r[0 + i]
  <2> SUFFICES ASSUME NEW i \in 1..m PROVE all[(x + n) + i] = t.r[0 + i]
    OBVIOUS
  <2>1. n + i \in 1..Len(r) /\ x + (n + i) = (x + n) + i /\ 0 + i = i
    BY <1>2, <1>3, <1>4
  <2>2. all[x + (n + i)] = r[n + i]
    BY <1>5, <2>1
  <2> QED
    BY <1>8, <2>1, <2>2
<1>10. (x + n) + m = x + Len(r) /\ m < Len(r) /\ (x + n) + m <= Len(all)
  BY <1>2, <1>3, <1>4
<1>11. Cut(t, p, k + 1)
  BY <1>3, <1>6, <1>7, <1>8, <1>9, <1>10 DEF Cut, Alike, all
<1> QED
  BY <1>2, <1>6, <1>8, <1>10, <1>11 DEF r

\* What holds of the session behind k packets, and behind some.
BehindPackets(s, p, k) ==
  /\ SessionOK(s) /\ ClientOK(s) /\ Cut(s, p, k)
  /\ AllocTrue(s, First(p, k)) /\ GameTrue(s, First(p, k))
Handling(s, p) == \E k : BehindPackets(s, p, k)

\* A session that fails stays behind the packets it has handled.
LEMMA FatalBehind ==
  ASSUME NEW p, NEW s, NEW k, BehindPackets(s, p, k)
  PROVE  /\ BehindPackets(Fatal(s), p, k) /\ Fatal(s).stage = "fatal"
         /\ Fatal(s).r = s.r /\ Fatal(s).skipped = s.skipped
<1> DEFINE t == Fatal(s)
           Kinds == {"uid", "api", "users", "tid", "addr", "port", "count", "ipmap", "r", "skipped", "toAlloc", "toGame", "toClient"}
<1>1. Kept(t, s, {"stage"}) /\ t.stage = "fatal"
  BY FatalIs DEF BehindPackets, SessionOK
<1> HIDE DEF t
<1>2. \A y \in Kinds : y \in Fields \ {"stage"}
  BY DEF Fields
<1>3. /\ t.uid = s.uid /\ t.api = s.api /\ t.users = s.users /\ t.tid = s.tid /\ t.addr = s.addr /\ t.port = s.port
      /\ t.count = s.count /\ t.ipmap = s.ipmap /\ t.r = s.r /\ t.skipped = s.skipped /\ t.toAlloc = s.toAlloc
      /\ t.toGame = s.toGame /\ t.toClient = s.toClient
  <2>1. \A y \in Kinds : t[y] = s[y]
    BY <1>1, <1>2 DEF Kept
  <2> QED
    BY <2>1
<1>4. SessionOK(t)
  BY <1>1, <1>3 DEF BehindPackets, SessionOK, Kept
<1>5. ClientOK(t)
  BY <1>3 DEF BehindPackets, ClientOK, SeatTold
<1>6. Cut(t, p, k)
  BY <1>3 DEF BehindPackets, Cut
<1>7. AllocTrue(t, First(p, k))
  BY <1>1, <1>3, AllocOther DEF BehindPackets
<1>8. GameTrue(t, First(p, k))
  BY <1>3 DEF BehindPackets, GameTrue
<1> QED
  BY <1>1, <1>3, <1>4, <1>5, <1>6, <1>7, <1>8 DEF BehindPackets, t

Taken(u, r, n) == [u EXCEPT !.r = r, !.skipped = n]
\* Taking bytes off the receive buffer changes the buffer and the count of bytes only.
LEMMA TakenFields ==
  ASSUME NEW u, SessionOK(u), NEW r, NEW n
  PROVE  LET t == Taken(u, r, n) IN Kept(t, u, {"r", "skipped"}) /\ t.r = r /\ t.skipped = n
<1> DEFINE t == Taken(u, r, n)
           x == "r"
           y == "skipped"
           v == [u EXCEPT ![x] = r]
<1>1. x \in Fields /\ y \in Fields /\ x # y /\ t = [v EXCEPT ![y] = n]
  BY DEF Fields, Taken
<1>2. t.r = t[x] /\ t.skipped = t[y] /\ {"r", "skipped"} = {x, y}
  OBVIOUS
<1> HIDE DEF x, y
<1>3. Kept(v, u, {x}) /\ v[x] = r
  BY <1>1, SetField DEF SessionOK
<1> HIDE DEF v
<1> HIDE DEF t
<1>4. Kept(t, v, {y}) /\ t[y] = n
  <2> DEFINE w == [v EXCEPT ![y] = n]
  <2>3. IsSession(v) /\ y \in Fields
    BY <1>1, <1>3 DEF Kept
  <2>1. Kept(w, v, {y}) /\ w[y] = n
    BY ONLY <2>3, SetField
  <2>2. t = w
    BY <1>1
  <2> HIDE DEF w
  <2> QED
    BY <2>1, <2>2
<1>5. Kept(t, u, {x, y}) /\ t[x] = r
  BY <1>1, <1>3, <1>4 DEF Kept
<1> QED
  BY <1>2, <1>4, <1>5 DEF t

\* One turn of the loop of proc_pkg handles the next whole packet or stops; bytes are
\* taken, never made up or lost.
LEMMA RoundIs ==
  ASSUME NEW p, Sending(p), NEW s, Handling(s, p), NEW rnd \in [1..2 -> 0..99]
  PROVE  LET t == Round(s, rnd)
         IN /\ Handling(t, p) /\ t.skipped + Len(t.r) = s.skipped + Len(s.r) /\ Len(t.r) \in Nat /\ Len(s.r) \in Nat
            /\ t = s \/ t.stage = "fatal" \/ Len(t.r) < Len(s.r)
            /\ t = s => s.stage = "fatal" \/ HandleInput(s.r) = 0
<1> DEFINE n == HandleInput(s.r)
           w == Slice(s.r, 0, n)
           u == HandleInputBuf(s, w, rnd)
           v == [u EXCEPT !.r = Slice(u.r, n, Len(u.r) - n), !.skipped = u.skipped + n]
           t == Round(s, rnd)
<1>1. PICK k : BehindPackets(s, p, k)
  BY DEF Handling
<1>2. SessionOK(s) /\ ClientOK(s) /\ Cut(s, p, k) /\ AllocTrue(s, First(p, k)) /\ GameTrue(s, First(p, k))
  BY <1>1 DEF BehindPackets
<1>3. s.r \in Seq(Octet) /\ Len(s.r) \in Nat /\ p \in Scripts
  BY <1>2 DEF Cut, Sending
<1>4. n \in Int /\ (n = 0 \/ n < 0 \/ n > 0)
  <2>1. Len(s.r) >= 9 => Pkglen(s.r) \in Nat
    BY <1>3, PkglenIs
  <2>2. PACKET_HEADER_SIZE = 9
    BY Sizes
  <2>3. Len(s.r) < 9 => n = 0
    BY <2>2 DEF HandleInput
  <2>4. Len(s.r) >= 9 => n \in {-1, 0, Pkglen(s.r)}
    BY <1>3, <2>2 DEF HandleInput
  <2> HIDE DEF n
  <2>5. n \in Int
    BY <1>3, <2>1, <2>3, <2>4
  <2> QED
    BY <2>5
<1>5. s.r = <<>> => n = 0
  <2>1. PACKET_HEADER_SIZE = 9 /\ (s.r = <<>> => Len(s.r) = 0)
    BY Sizes
  <2> QED
    BY <2>1 DEF HandleInput
<1>6. t = IF s.stage = "fatal" \/ s.r = <<>> \/ n = 0 THEN s
          ELSE IF n < 0 THEN Fatal(s) ELSE IF u.stage = "fatal" THEN u ELSE v
  BY DEF Round
<1>7. CASE s.stage = "fatal" \/ s.r = <<>> \/ n = 0
  <2> HIDE DEF n, u, v, t
  <2>1. t = s
    BY <1>6, <1>7
  <2> QED
    BY <1>3, <1>5, <1>7, <2>1 DEF n, t
<1>8. CASE ~ (s.stage = "fatal" \/ s.r = <<>> \/ n = 0) /\ n < 0
  <2>1. t = Fatal(s)
    <3> HIDE DEF n, u, v, t
    <3> QED
      BY <1>6, <1>8
  <2>2. BehindPackets(t, p, k) /\ t.stage = "fatal" /\ t.r = s.r /\ t.skipped = s.skipped
    BY <1>1, <2>1, FatalBehind
  <2>3. t # s
    BY <1>8, <2>2
  <2> HIDE DEF t
  <2> QED
    BY <1>3, <2>2, <2>3 DEF Handling, t
<1>9. CASE ~ (s.stage = "fatal" \/ s.r = <<>> \/ n = 0) /\ n > 0
  <2> DEFINE pkg == p[k + 1]
             h == First(p, k)
  <2>1. s.stage = "open"
    BY <1>2, <1>9 DEF SessionOK
  <2>2. k \in 0..Len(p)-1 /\ Frame(pkg) /\ w = pkg
    BY <1>2, <1>9, HeadIs
  <2>3. Effect(u, s, pkg)
    BY <1>2, <2>1, <2>2, HandleEffect
  <2>4. h \in Scripts /\ First(p, k + 1) = Append(h, pkg)
    BY <1>3, <2>2, FirstNext
  <2> HIDE DEF u, n
  <2>5. SessionOK(u) /\ Same(u, s) /\ u.r = s.r /\ u.skipped = s.skipped /\ ClientOK(u)
    <3>1. SessionOK(u) /\ Same(u, s) /\ Answered(u, s)
      BY <2>3 DEF Effect
    <3> QED
      BY <1>2, <3>1, AnsweredInforms, InformedOK DEF Same
  <2> HIDE DEF h, pkg
  <2>6. IF u.stage = "fatal" THEN AllocTrue(u, h) /\ GameTrue(u, h)
        ELSE AllocTrue(u, Append(h, pkg)) /\ GameTrue(u, Append(h, pkg))
    BY <1>2, <2>1, <2>2, <2>3, <2>4, EffectStreams DEF h
  <2>7. CASE u.stage = "fatal"
    <3>1. t = u
      <4> HIDE DEF v, t
      <4> QED
        BY <1>4, <1>6, <1>9, <2>7
    <3>2. Cut(u, p, k)
      BY <1>2, <2>5 DEF Cut
    <3>3. BehindPackets(u, p, k)
      BY <2>5, <2>6, <2>7, <3>2 DEF BehindPackets, h
    <3> HIDE DEF t
    <3> QED
      BY <1>3, <1>9, <2>5, <2>7, <3>1, <3>3 DEF Handling, t
  <2>8. CASE u.stage # "fatal"
    <3>1. t = v
      <4> HIDE DEF v, t
      <4> QED
        BY <1>4, <1>6, <1>9, <2>8
    <3>2. Kept(v, u, {"r", "skipped"}) /\ v.r = Slice(u.r, n, Len(u.r) - n) /\ v.skipped = u.skipped + n
      <4> DEFINE r == Slice(u.r, n, Len(u.r) - n)
                 m == u.skipped + n
      <4>1. v = Taken(u, r, m)
        BY DEF Taken
      <4> HIDE DEF r, m, v
      <4>2. Kept(v, u, {"r", "skipped"}) /\ v.r = r /\ v.skipped = m
        BY <2>5, <4>1, TakenFields
      <4> QED
        BY <4>2 DEF r, m
    <3> HIDE DEF v
    <3>3. \A y \in {"uid", "api", "tid", "addr", "toAlloc", "toGame", "toClient", "stage"} : y \in Fields \ {"r", "skipped"}
      BY DEF Fields
    <3>4. /\ v.uid = u.uid /\ v.api = u.api /\ v.tid = u.tid /\ v.addr = u.addr /\ v.toAlloc = u.toAlloc
          /\ v.toGame = u.toGame /\ v.toClient = u.toClient /\ v.stage = u.stage
      <4>1. \A y \in {"uid", "api", "tid", "addr", "toAlloc", "toGame", "toClient", "stage"} : v[y] = u[y]
        BY <3>2, <3>3 DEF Kept
      <4> QED
        BY <4>1
    <3>5. SessionOK(v)
      <4>1. Kept(v, u, Streams)
        BY <3>2 DEF Kept, Streams
      <4> QED
        BY <2>5, <4>1, StreamsOK
    <3>6. ClientOK(v)
      BY <2>5, <3>4 DEF ClientOK, SeatTold
    <3>7. Cut(v, p, k + 1) /\ v.skipped + Len(v.r) = s.skipped + Len(s.r) /\ Len(v.r) < Len(s.r)
      BY <1>2, <1>9, <2>5, <3>2, CutMore DEF n
    <3>8. AllocTrue(v, First(p, k + 1)) /\ GameTrue(v, First(p, k + 1))
      <4>1. AllocTrue(u, First(p, k + 1)) /\ GameTrue(u, First(p, k + 1))
        BY <2>4, <2>6, <2>8
      <4> QED
        BY <3>4, <4>1, AllocOther DEF GameTrue
    <3>9. BehindPackets(v, p, k + 1)
      BY <3>5, <3>6, <3>7, <3>8 DEF BehindPackets
    <3>10. Len(v.r) \in Nat
      BY <3>7 DEF Cut
    <3>11. v # s
      BY <1>3, <3>7
    <3> HIDE DEF t
    <3> QED
      BY <1>3, <3>1, <3>7, <3>9, <3>10, <3>11 DEF Handling, t
  <2> QED
    BY <2>7, <2>8
<1> QED
  BY <1>4, <1>7, <1>8, <1>9

Circling(f, N, a, rnd) == DOMAIN f = 0..N /\ f[0] = a /\ \A i \in 1..N : f[i] = Round(f[i-1], rnd)

\* The loop has a state after each number of turns.
LEMMA RoundsExist ==
  ASSUME NEW N \in Nat, NEW a, NEW rnd
  PROVE  \E f : Circling(f, N, a, rnd)
<1> DEFINE G == {n \in Nat : \E f : Circling(f, n, a, rnd)}
<1>1. 0 \in G
  <2> DEFINE f == [i \in 0..0 |-> a]
  <2>1. Circling(f, 0, a, rnd)
    BY DEF Circling
  <2> QED
    BY <2>1
<1>2. ASSUME NEW n \in Nat, n \in G PROVE n + 1 \in G
  <2>1. PICK f : Circling(f, n, a, rnd)
    BY <1>2
  <2> DEFINE x == Round(f[n], rnd)
             g == [i \in 0..n+1 |-> IF i = n + 1 THEN x ELSE f[i]]
  <2>2. DOMAIN g = 0..n+1 /\ g[0] = a
    BY <2>1 DEF Circling
  <2>3. ASSUME NEW i \in 1..n+1 PROVE g[i] = Round(g[i-1], rnd)
    <3>1. CASE i = n + 1
      <4>1. g[i] = x /\ i - 1 = n /\ g[n] = f[n]
        BY <3>1
      <4> HIDE DEF g
      <4> QED
        BY <4>1
    <3>2. CASE i # n + 1
      <4>1. i \in 1..n /\ g[i] = f[i] /\ g[i-1] = f[i-1]
        BY <3>2
      <4> QED
        BY <2>1, <4>1 DEF Circling
    <3> QED
      BY <3>1, <3>2
  <2> HIDE DEF g
  <2>4. Circling(g, n + 1, a, rnd)
    BY <2>2, <2>3 DEF Circling
  <2> QED
    BY <2>4
<1> HIDE DEF G
<1>3. N \in G
  BY <1>1, <1>2, AllNumbers
<1> QED
  BY <1>3 DEF G

\* The loop ends within as many turns as there are bytes.
LEMMA DrainedRounds ==
  ASSUME NEW s, NEW rnd, Len(s.r) \in Nat
  PROVE  \E f : Circling(f, Len(s.r), s, rnd) /\ Drained(s, rnd) = f[Len(s.r)]
<1> DEFINE N == Len(s.r)
           a == s
           P(g) == [i \in 0..N |-> IF i = 0 THEN a ELSE Round(g[i-1], rnd)]
           A == CHOOSE g : g = P(g)
<1>2. N \in Nat
  OBVIOUS
<1>3. Drained(s, rnd) = A[N]
  BY DEF Drained
<1> HIDE DEF N, a
<1>4. PICK f : Circling(f, N, a, rnd)
  BY <1>2, RoundsExist
<1>5. f[0] = a /\ \A i \in 1..N : f[i] = Round(f[i-1], rnd)
  BY <1>4 DEF Circling
<1> DEFINE h == [i \in 0..N |-> f[i]]
<1>6. h = P(h)
  <2>1. \A i \in 0..N : i = 0 \/ (i \in 1..N /\ i - 1 \in 0..N)
    BY <1>2
  <2>2. \A i \in 0..N : h[i] = IF i = 0 THEN a ELSE Round(h[i-1], rnd)
    <3> SUFFICES ASSUME NEW i \in 0..N PROVE h[i] = IF i = 0 THEN a ELSE Round(h[i-1], rnd)
      OBVIOUS
    <3>1. CASE i = 0
      BY <1>5, <3>1
    <3>2. CASE i # 0
      <4>1. i \in 1..N /\ i - 1 \in 0..N
        BY <2>1, <3>2
      <4>2. h[i] = f[i] /\ h[i-1] = f[i-1]
        BY <4>1
      <4> HIDE DEF h
      <4> QED
        BY <1>5, <3>2, <4>1, <4>2
    <3> QED
      BY <3>1, <3>2
  <2> QED
    BY <2>2
<1> HIDE DEF h
<1>7. A = P(A)
  BY <1>6
<1> HIDE DEF A
<1>8. Circling(A, N, a, rnd)
  <2>1. 0 \in 0..N /\ \A i \in 1..N : i \in 0..N /\ i # 0
    BY <1>2
  <2>2. DOMAIN A = 0..N
    BY <1>7
  <2>3. A[0] = a
    BY <1>7, <2>1
  <2>4. \A i \in 1..N : A[i] = Round(A[i-1], rnd)
    BY <1>7, <2>1
  <2> QED
    BY <2>2, <2>3, <2>4 DEF Circling
<1> QED
  BY <1>3, <1>8 DEF N, a


\* The loop ends where no whole packet is at hand, or a handler failed.
LEMMA DrainedIs ==
  ASSUME NEW p, Sending(p), NEW s, Handling(s, p), NEW rnd \in [1..2 -> 0..99]
  PROVE  LET t == Drained(s, rnd)
         IN /\ Handling(t, p) /\ t.skipped + Len(t.r) = s.skipped + Len(s.r)
            /\ t.stage # "fatal" => HandleInput(t.r) = 0
<1> DEFINE N == Len(s.r)
           all == s.skipped + N
<1>1. N \in Nat
  BY RoundIs
<1>2. PICK f : Circling(f, N, s, rnd) /\ Drained(s, rnd) = f[N]
  BY <1>1, DrainedRounds
<1>3. f[0] = s /\ \A i \in 1..N : f[i] = Round(f[i-1], rnd)
  BY <1>2 DEF Circling
<1> DEFINE Still(t) == t.stage = "fatal" \/ HandleInput(t.r) = 0
           T == {i \in 0..N : /\ Handling(f[i], p) /\ f[i].skipped + Len(f[i].r) = all /\ Len(f[i].r) \in Nat
                              /\ Still(f[i]) \/ Len(f[i].r) + i <= N}
<1>4. 0 \in T
  <2>1. N + 0 <= N /\ 0 \in 0..N
    BY <1>1
  <2> QED
    BY <1>1, <1>3, <2>1
<1>5. ASSUME NEW i \in 1..N, i - 1 \in T PROVE i \in T
  <2> DEFINE u == f[i-1]
             t == Round(u, rnd)
  <2>1. Handling(u, p) /\ u.skipped + Len(u.r) = all /\ Len(u.r) \in Nat /\ (Still(u) \/ Len(u.r) + (i - 1) <= N)
    BY <1>5
  <2>2. t = f[i]
    BY <1>3
  <2>3. /\ Handling(t, p) /\ t.skipped + Len(t.r) = u.skipped + Len(u.r) /\ Len(t.r) \in Nat
        /\ (t = u \/ t.stage = "fatal" \/ Len(t.r) < Len(u.r))
        /\ (t = u => u.stage = "fatal" \/ HandleInput(u.r) = 0)
    BY <2>1, RoundIs
  <2>4. Still(u) => t = u
    BY DEF Round
  <2> HIDE DEF t, u, all, N
  <2>5. Still(t) \/ Len(t.r) < Len(u.r)
    BY <2>3
  <2>6. Still(t) \/ Len(t.r) + i <= N
    <3>1. CASE Still(u)
      BY <2>4, <3>1
    <3>2. CASE ~ Still(u)
      <4> HIDE DEF Still
      <4> QED
        BY <1>1, <2>1, <2>3, <2>5, <3>2
    <3> QED
      BY <3>1, <3>2
  <2>7. i \in 0..N
    BY <1>1
  <2> HIDE DEF Still
  <2> QED
    BY <2>1, <2>2, <2>3, <2>6, <2>7
<1>6. \A i \in 0..N : i \in T
  <2> HIDE DEF T, N
  <2> QED
    BY <1>1, <1>4, <1>5, Rounds
<1>7. N \in T
  BY <1>1, <1>6
<1> DEFINE e == f[N]
<1>8. Handling(e, p) /\ e.skipped + Len(e.r) = all /\ Len(e.r) \in Nat /\ (Still(e) \/ Len(e.r) + N <= N)
  BY <1>7
<1> HIDE DEF e, all
<1>9. Len(e.r) + N <= N => HandleInput(e.r) = 0
  <2>1. PACKET_HEADER_SIZE = 9
    BY Sizes
  <2>2. Len(e.r) + N <= N => Len(e.r) < 9
    <3> DEFINE m == Len(e.r)
    <3>1. m \in Nat
      BY <1>8
    <3> HIDE DEF m, N
    <3>2. m + N <= N => m < 9
      BY <1>1, <3>1
    <3> QED
      BY <3>2 DEF m
  <2> QED
    BY <2>1, <2>2 DEF HandleInput
<1>10. e.stage # "fatal" => HandleInput(e.r) = 0
  BY <1>8, <1>9
<1> QED
  BY <1>2, <1>8, <1>10 DEF e, all

-----------------------------------------------------------------------------
(* The steps. *)

\* What holds of the session behind k packets does when other fields change.
Watched == {"uid", "api", "users", "tid", "addr", "port", "count", "ipmap", "skipped", "toAlloc", "toGame", "toClient", "stage"}
\* A change to other fields leaves what the properties watch.
LEMMA WatchedIs ==
  ASSUME NEW s, NEW t, NEW f, Kept(t, s, f), \A y \in Watched : y \notin f
  PROVE  /\ t.uid = s.uid /\ t.api = s.api /\ t.users = s.users /\ t.tid = s.tid /\ t.addr = s.addr /\ t.port = s.port
         /\ t.count = s.count /\ t.ipmap = s.ipmap /\ t.skipped = s.skipped /\ t.toAlloc = s.toAlloc
         /\ t.toGame = s.toGame /\ t.toClient = s.toClient /\ t.stage = s.stage
<1>1. \A y \in Watched : y \in Fields \ f
  BY DEF Fields, Watched
<1>2. \A y \in Watched : t[y] = s[y]
  BY <1>1 DEF Kept
<1> QED
  BY <1>2 DEF Watched

\* A change to other fields leaves a session behind the packets it has handled.
LEMMA WatchedBehind ==
  ASSUME NEW p, NEW s, NEW k, BehindPackets(s, p, k), NEW t, NEW f, Kept(t, s, f), \A y \in Watched : y \notin f,
         Cut(t, p, k)
  PROVE  BehindPackets(t, p, k)
<1>1. /\ t.uid = s.uid /\ t.api = s.api /\ t.users = s.users /\ t.tid = s.tid /\ t.addr = s.addr /\ t.port = s.port
      /\ t.count = s.count /\ t.ipmap = s.ipmap /\ t.toAlloc = s.toAlloc
      /\ t.toGame = s.toGame /\ t.toClient = s.toClient /\ t.stage = s.stage
  BY WatchedIs
<1>2. SessionOK(t)
  BY <1>1 DEF BehindPackets, SessionOK, Kept
<1>3. ClientOK(t)
  BY <1>1 DEF BehindPackets, ClientOK, SeatTold
<1>4. AllocTrue(t, First(p, k))
  BY <1>1, AllocOther DEF BehindPackets
<1>5. GameTrue(t, First(p, k))
  BY <1>1 DEF BehindPackets, GameTrue
<1> QED
  BY <1>2, <1>3, <1>4, <1>5 DEF BehindPackets

\* A packet of a server.
LEMMA ServerBehind ==
  ASSUME NEW p, NEW s, NEW k, BehindPackets(s, p, k), s.stage = "open", NEW t, ServerEffect(t, s)
  PROVE  BehindPackets(t, p, k) /\ t.r = s.r /\ t.skipped = s.skipped
<1>1. /\ SessionOK(t) /\ t.r = s.r /\ t.skipped = s.skipped /\ t.uid = s.uid /\ t.api = s.api /\ t.toGame = s.toGame
      /\ t.toAlloc = s.toAlloc \/ \E x \in Seq(Octet) : Command(x) # CLIENT_PACKET2 /\ t.toAlloc = Append(s.toAlloc, x)
      /\ Informed(t, s)
  BY DEF ServerEffect
<1>2. ClientOK(t)
  BY <1>1, InformedOK DEF BehindPackets
<1>3. Cut(t, p, k)
  BY <1>1 DEF BehindPackets, Cut
<1>4. AllocTrue(t, First(p, k))
  <2>1. t.stage = s.stage \/ t.stage # "open"
    OBVIOUS
  <2> QED
    BY <1>1, <2>1, AllocOther DEF BehindPackets
<1>5. GameTrue(t, First(p, k))
  BY <1>1 DEF BehindPackets, GameTrue
<1> QED
  BY <1>1, <1>2, <1>3, <1>4, <1>5 DEF BehindPackets

\* What is still to come of the stream.
Coming(s, c, all) ==
  /\ c \in Seq(Octet) /\ s.skipped + Len(s.r) + Len(c) = Len(all)
  /\ \A i \in 1..Len(c) : all[(s.skipped + Len(s.r)) + i] = c[i]

\* A piece of it arrives.
LEMMA PieceCut ==
  ASSUME NEW p, p \in Scripts, NEW s, NEW k, Cut(s, p, k), NEW c, Coming(s, c, FlattenSeq(p)), NEW n \in Nat, n <= Len(c),
         NEW t, t.skipped = s.skipped, t.r = s.r \o SubSeq(c, 1, n)
  PROVE  Cut(t, p, k) /\ Coming(t, SubSeq(c, n + 1, Len(c)), FlattenSeq(p))
<1> DEFINE all == FlattenSeq(p)
           r == s.r
           x == Upto(p, k)
           l == Len(r)
           m == Len(c)
           d == SubSeq(c, 1, n)
           e == SubSeq(c, n + 1, m)
           q == t.r
<1>0. n \in Nat
  OBVIOUS
<1>1. k \in 0..Len(p) /\ s.skipped = x /\ r \in Seq(Octet) /\ l \in Nat
  BY DEF Cut
<1>2. x \in Nat
  BY <1>1, UptoIs
<1>3. c \in Seq(Octet) /\ (x + l) + m = Len(all) /\ m \in Nat
  BY <1>1 DEF Coming
<1>4. \A i \in 1..m : all[(x + l) + i] = c[i]
  BY <1>1 DEF Coming
<1>5. \A i \in 1..l : all[x + i] = r[i]
  <2>1. \A i \in 1..Len(r) : all[x + i] = r[0 + i]
    BY DEF Cut, Alike
  <2> HIDE DEF r, x, all
  <2> QED
    BY <2>1 DEF l
<1>6. q = r \o d /\ t.skipped = x
  BY <1>1
<1>7. t.skipped = x /\ n <= m
  BY <1>1
<1> HIDE DEF all, r, x, l
<1>8. d \in Seq(Octet) /\ Len(d) = n /\ \A i \in 1..n : d[i] = c[i]
  <2> HIDE DEF m
  <2>1. 0 + n <= Len(c)
    BY <1>7 DEF m
  <2>2. Slice(c, 0, n) \in Seq(Octet) /\ Len(Slice(c, 0, n)) = n /\ \A i \in 1..n : Slice(c, 0, n)[i] = c[0 + i]
    <3>1. c \in Seq(Octet) /\ n \in Nat /\ 0 \in Nat
      BY <1>0, <1>3
    <3> QED
      BY ONLY <3>1, <2>1, SomeOctets
  <2>3. Slice(c, 0, n) = d
    BY DEF Slice
  <2> HIDE DEF d
  <2>4. \A i \in 1..n : 0 + i = i
    OBVIOUS
  <2> QED
    BY <2>2, <2>3, <2>4
<1>9. e \in Seq(Octet) /\ Len(e) = m - n /\ \A i \in 1..(m - n) : e[i] = c[n + i]
  <2> DEFINE a == m - n
  <2>1. a \in Nat /\ n + a = m /\ n + a <= Len(c)
    BY <1>3, <1>7
  <2>2. Slice(c, n, a) = e
    BY <2>1 DEF Slice
  <2> HIDE DEF a, e, m
  <2>3. Slice(c, n, a) \in Seq(Octet) /\ Len(Slice(c, n, a)) = a /\ \A i \in 1..a : Slice(c, n, a)[i] = c[n + i]
    <3>1. c \in Seq(Octet) /\ n \in Nat /\ a \in Nat
      BY <1>0, <1>3, <2>1
    <3> QED
      BY ONLY <3>1, <2>1, SomeOctets
  <2> QED
    BY <2>2, <2>3 DEF a
<1> HIDE DEF d, e, m, q
<1>10. q \in Seq(Octet) /\ Len(q) = l + n /\ (\A i \in 1..l : q[i] = r[i]) /\ \A i \in 1..n : q[l + i] = d[i]
  <2> DEFINE z == r \o d
  <2>1. /\ z \in Seq(Octet) /\ Len(z) = Len(r) + Len(d) /\ (\A i \in 1..Len(r) : z[i] = r[i])
        /\ \A i \in 1..Len(d) : z[Len(r) + i] = d[i]
    <3>1. r \in Seq(Octet) /\ d \in Seq(Octet)
      BY <1>1, <1>8
    <3> QED
      BY ONLY <3>1, Concat
  <2>2. q = z /\ Len(r) = l /\ Len(d) = n
    BY <1>6, <1>8 DEF l
  <2> HIDE DEF z
  <2> QED
    BY ONLY <2>1, <2>2
<1>11. \A i \in 1..(l + n) : all[x + i] = q[0 + i]
  <2> SUFFICES ASSUME NEW i \in 1..(l + n) PROVE all[x + i] = q[0 + i]
    OBVIOUS
  <2>1. CASE i <= l
    <3>1. i \in 1..l /\ 0 + i = i
      BY <1>1, <2>1
    <3> QED
      BY <1>5, <1>10, <3>1
  <2>2. CASE ~ i <= l
    <3> DEFINE j == i - l
    <3>1. j \in 1..n /\ j \in 1..m /\ l + j = i /\ 0 + i = i /\ (x + l) + j = x + i
      BY <1>1, <1>2, <1>3, <1>7, <2>2
    <3> HIDE DEF j
    <3>2. all[(x + l) + j] = c[j] /\ q[l + j] = d[j] /\ d[j] = c[j]
      BY <1>4, <1>8, <1>10, <3>1
    <3> QED
      BY <3>1, <3>2
  <2> QED
    BY <2>1, <2>2
<1>12. \A i \in 1..(m - n) : all[(x + (l + n)) + i] = e[i]
  <2> SUFFICES ASSUME NEW i \in 1..(m - n) PROVE all[(x + (l + n)) + i] = e[i]
    OBVIOUS
  <2>1. n + i \in 1..m /\ (x + l) + (n + i) = (x + (l + n)) + i
    BY <1>1, <1>2, <1>3, <1>7
  <2>2. all[(x + l) + (n + i)] = c[n + i]
    BY <1>4, <2>1
  <2> QED
    BY <1>9, <2>1, <2>2
<1>13. (x + (l + n)) + (m - n) = Len(all) /\ x + (l + n) <= Len(all)
  BY ONLY <1>0, <1>1, <1>2, <1>3, <1>7
<1>14. Cut(t, p, k)
  BY <1>1, <1>6, <1>10, <1>11, <1>13 DEF Cut, Alike, x, q, all
<1>15. Coming(t, e, all)
  BY <1>6, <1>9, <1>10, <1>12, <1>13 DEF Coming, q
<1> QED
  BY <1>14, <1>15 DEF e, m, all

-----------------------------------------------------------------------------
(* The invariant and what follows from it. *)

WInv ==
  /\ Sending(sent) /\ Handling(session, sent)
  /\ session.stage = "open" => HandleInput(session.r) = 0 /\ Coming(session, coming, FlattenSeq(sent))

\* What a client sends is a script of frames.
LEMMA SendingIs ==
  ASSUME ClientsSend, NEW p \in Script
  PROVE  Sending(p)
<1>1. p \in Seq(Seq(Octet)) /\ DOMAIN p = 1..Len(p)
  BY DEF ClientsSend, Octet
<1>2. \A i \in 1..Len(p) : p[i] \in Seq(Octet)
  BY <1>1
<1>3. \A i \in 1..Len(p) :
        /\ Len(p[i]) >= PACKET_HEADER_SIZE
        /\ BeginsBY(p[i]) =>
             /\ Len(p[i]) = Pkglen(p[i])
             /\ Command(p[i]) = CMD_GET_NEW_ROOM => Verifies(Copy(p[i]))
             /\ Command(p[i]) = SERVER_BROADCAST_INFO => TextsForward(p[i])
  BY <1>1 DEF ClientsSend
<1>4. PACKET_HEADER_SIZE = 9
  BY Sizes
<1>5. \A i \in 1..Len(p) : Sent(p[i])
  BY <1>2, <1>3, <1>4 DEF Sent
<1> QED
  BY <1>1, <1>5 DEF Sending, Scripts

\* The empty stream.
LEMMA EmptyStream == <<>> \in Scripts /\ Len(<<>>) = 0 /\ DOMAIN <<>> = {} /\ <<>> \in Seq(Octet)
BY DEF Scripts

\* Nothing sent, nothing received and nothing due.
LEMMA EmptyInner == DOMAIN Inner(<<>>) = {} /\ DOMAIN Bare(<<>>) = {} /\ DueToAlloc(<<>>) = {} /\ DueToGame(<<>>) = {}
BY EmptyStream DEF Inner, Bare, DueToAlloc, DueToGame

\* Nothing received conveys nothing due.
LEMMA ConveysNone ==
  ASSUME NEW got, DOMAIN got = {}, NEW h
  PROVE  Conveys(got, {}, h)
<1> DEFINE of == [i \in DOMAIN got |-> 0]
<1>1. of \in [DOMAIN got -> {}]
  OBVIOUS
<1> HIDE DEF of
<1> QED
  BY <1>1 DEF Conveys

\* A new session is sound.
LEMMA StartOK == SessionOK(Session0)
<1>1. IsSession(Session0)
  BY DEF IsSession, Session0, Fields
<1>2. /\ Session0.uid = 0 /\ Session0.api = 0 /\ Session0.tid = 0 /\ Session0.count = <<>> /\ Session0.ipmap = IpStart
      /\ Session0.users = {} /\ Session0.stage = "open"
  BY DEF Session0
<1>3. 0 \in Int32 /\ 0 \in Int16
  BY DEF Int32, Int16
<1>4. IsCounts(<<>>)
  BY EmptyStream DEF IsCounts
<1>5. IsFiniteSet({})
  BY FS_EmptySet
<1>6. IpStart \in IpMaps
  BY DEF IpMaps
<1> QED
  BY <1>1, <1>2, <1>3, <1>4, <1>5, <1>6 DEF SessionOK

\* The invariant holds when the connection is accepted.
LEMMA InitInv ==
  ASSUME ClientsSend, Init
  PROVE  WInv
<1> DEFINE s == Session0
           all == FlattenSeq(sent)
<1>1. sent \in Script /\ coming = all /\ session = s
  BY DEF Init
<1>2. Sending(sent) /\ sent \in Scripts
  BY <1>1, SendingIs DEF Sending
<1>3. /\ s.r = <<>> /\ s.skipped = 0 /\ s.uid = 0 /\ s.tid = 0 /\ s.addr = NoAddr
      /\ s.toAlloc = <<>> /\ s.toGame = <<>> /\ s.toClient = <<>>
  BY DEF Session0
<1>4. SessionOK(s)
  BY StartOK
<1> HIDE DEF s
<1>5. ClientOK(s)
  BY <1>3, EmptyStream DEF ClientOK, SeatTold
<1>6. First(sent, 0) = <<>>
  <2>1. Len(sent) \in Nat
    BY <1>2 DEF Scripts
  <2>2. SubSeq(sent, 1, 0) \in Seq(Seq(Octet)) /\ Len(SubSeq(sent, 1, 0)) = 0
    BY <1>2, <2>1, FirstIs DEF Scripts
  <2> QED
    BY <2>2 DEF First
<1>7. all \in Seq(Octet) /\ Len(all) \in Nat
  <2>1. Len(sent) \in Nat
    BY <1>2 DEF Scripts
  <2>2. all = Flat(sent, Len(sent)) /\ Len(sent) \in 0..Len(sent)
    BY <1>2, <2>1, FlatAll
  <2>3. all \in Seq(Octet)
    <3> HIDE DEF all
    <3> QED
      BY <1>2, <2>2, FlatIs
  <2> QED
    BY <2>3
<1>8. Upto(sent, 0) = 0
  BY <1>2, FlatNone, EmptyStream DEF Upto
<1>9. Cut(s, sent, 0)
  <2>1. 0 \in 0..Len(sent)
    BY <1>2 DEF Scripts
  <2>2. Len(s.r) = 0 /\ s.r \in Seq(Octet)
    BY <1>3, EmptyStream
  <2> HIDE DEF all
  <2>3. Alike(all, 0, s.r, 0, 0)
    BY DEF Alike
  <2> QED
    BY <1>3, <1>7, <1>8, <2>1, <2>2, <2>3 DEF Cut, all
<1>10. AllocTrue(s, <<>>)
  <2>1. Conveys(Inner(<<>>), {}, <<>>)
    BY EmptyInner, ConveysNone
  <2>2. AllocNames(s)
    BY <1>3, EmptyInner DEF AllocNames
  <2>3. NextName(s)
    BY <1>3 DEF NextName
  <2> QED
    BY <1>3, <2>1, <2>2, <2>3, EmptyStream, EmptyInner DEF AllocTrue
<1>11. GameTrue(s, <<>>)
  <2>1. Conveys(Bare(<<>>), {}, <<>>)
    BY EmptyInner, ConveysNone
  <2> QED
    BY <1>3, <2>1, EmptyStream, EmptyInner DEF GameTrue
<1>12. BehindPackets(s, sent, 0)
  BY <1>4, <1>5, <1>6, <1>9, <1>10, <1>11 DEF BehindPackets
<1>13. HandleInput(s.r) = 0
  BY <1>3, EmptyStream, Sizes DEF HandleInput
<1>14. Coming(s, coming, all)
  <2> HIDE DEF all
  <2>1. Len(s.r) = 0
    BY <1>3, EmptyStream
  <2> QED
    BY <1>1, <1>3, <1>7, <2>1 DEF Coming
<1> QED
  BY <1>1, <1>2, <1>12, <1>13, <1>14 DEF WInv, Handling

\* A Flash policy request is answered and the session closed.
LEMMA PolicyIs ==
  ASSUME NEW p, NEW s, NEW k, BehindPackets(s, p, k), NEW piece
  PROVE  BehindPackets(Policy(s, piece), p, k) /\ Policy(s, piece).stage = "fatal"
<1> DEFINE x == "policy"
           v == (s.policy \/ piece = PolicyRequest)
           t == [s EXCEPT ![x] = v]
<1>1. x \in Fields /\ Policy(s, piece) = Fatal(t) /\ x = "policy"
  BY DEF Policy, Fields
<1> HIDE DEF x, v
<1>2. Kept(t, s, {x})
  <2>1. IsSession(s) /\ x \in Fields
    BY <1>1 DEF BehindPackets, SessionOK
  <2> QED
    BY ONLY <2>1, SetField
<1> HIDE DEF t
<1>3. \A y \in Watched \cup {"r"} : y \notin {x}
  BY <1>1 DEF Watched
<1>4. t.skipped = s.skipped
  BY <1>2, <1>3, WatchedIs
<1>5. t.r = s.r
  <2>1. "r" \in Fields \ {x}
    BY <1>3 DEF Fields
  <2> QED
    BY <1>2, <2>1 DEF Kept
<1>6. Cut(t, p, k)
  BY <1>4, <1>5 DEF BehindPackets, Cut
<1>7. BehindPackets(t, p, k)
  BY <1>2, <1>3, <1>6, WatchedBehind
<1> QED
  BY <1>1, <1>7, FatalBehind

\* A piece of the stream put behind the bytes not yet handled leaves them the next ones
\* sent.
LEMMA PieceIs ==
  ASSUME NEW p \in Scripts, NEW s, NEW k, BehindPackets(s, p, k), NEW c, Coming(s, c, FlattenSeq(p)), NEW n \in Nat, n <= Len(c)
  PROVE  LET t == [s EXCEPT !.r = @ \o SubSeq(c, 1, n)]
         IN BehindPackets(t, p, k) /\ Coming(t, SubSeq(c, n + 1, Len(c)), FlattenSeq(p))
<1> DEFINE x == "r"
           v == s.r \o SubSeq(c, 1, n)
           t == [s EXCEPT ![x] = v]
<1>1. x \in Fields /\ [s EXCEPT !.r = @ \o SubSeq(c, 1, n)] = t /\ x = "r" /\ t.r = t[x]
  BY DEF Fields
<1> HIDE DEF x, v
<1>2. Kept(t, s, {x}) /\ t[x] = v
  <2>1. IsSession(s) /\ x \in Fields
    BY <1>1 DEF BehindPackets, SessionOK
  <2> QED
    BY ONLY <2>1, SetField
<1> HIDE DEF t
<1>3. \A y \in Watched : y \notin {x}
  BY <1>1 DEF Watched
<1>4. t.skipped = s.skipped
  BY <1>2, <1>3, WatchedIs
<1>5. t.r = s.r \o SubSeq(c, 1, n)
  BY <1>1, <1>2 DEF v
<1>6. Cut(s, p, k)
  BY DEF BehindPackets
<1>7. Cut(t, p, k) /\ Coming(t, SubSeq(c, n + 1, Len(c)), FlattenSeq(p))
  BY <1>4, <1>5, <1>6, PieceCut
<1>8. BehindPackets(t, p, k)
  BY <1>2, <1>3, <1>7, WatchedBehind
<1> QED
  BY <1>1, <1>7, <1>8

\* The alloc server can be reached as before.
LEMMA StepInv ==
  ASSUME reachable' = reachable, Sending(sent'), Handling(session', sent'),
         session'.stage = "open" => HandleInput(session'.r) = 0 /\ Coming(session', coming', FlattenSeq(sent'))
  PROVE  WInv'
<1>1. Handling(session, sent)'
  <2>1. PICK k : BehindPackets(session', sent', k)
    BY DEF Handling
  <2>2. AllocTrue(session', First(sent', k))
    BY <2>1 DEF BehindPackets
  <2>3. AllocTrue(session, First(sent, k))'
    BY <2>2 DEF AllocTrue
  <2>4. BehindPackets(session, sent, k)'
    BY <2>1, <2>3 DEF BehindPackets
  <2> QED
    BY <2>4 DEF Handling
<1> QED
  BY <1>1 DEF WInv

\* The bytes of one recv, however they cut the packets, keep the invariant.
LEMMA ReceiveInv ==
  ASSUME WInv, RandsSmall, NEW n \in Nat, NEW rnd \in Rand, Receive(n, rnd)
  PROVE  WInv'
<1> DEFINE s == session
           p == sent
           piece == SubSeq(coming, 1, n)
           u == [s EXCEPT !.r = @ \o piece]
           t == Drained(u, rnd)
           all == FlattenSeq(p)
           rest == SubSeq(coming, n + 1, Len(coming))
<1>1. /\ s.stage = "open" /\ n <= Len(coming) /\ session' = IF IsPolicy(piece) THEN Policy(s, piece) ELSE t
      /\ coming' = rest /\ sent' = p
  BY DEF Receive
<1>2. Sending(p) /\ Handling(s, p) /\ Coming(s, coming, all) /\ p \in Scripts
  BY <1>1 DEF WInv, Sending
<1>3. PICK k : BehindPackets(s, p, k)
  BY <1>2 DEF Handling
<1>4. rnd \in [1..2 -> 0..99]
  BY DEF RandsSmall
<1>5. reachable' = reachable
  BY DEF Receive
<1>6. CASE IsPolicy(piece)
  <2>1. BehindPackets(session', p, k) /\ session'.stage = "fatal"
    <3>1. session' = Policy(s, piece)
      BY <1>1, <1>6
    <3> QED
      BY <1>3, <3>1, PolicyIs
  <2> QED
    BY <1>1, <1>2, <1>5, <2>1, StepInv DEF Handling
<1>7. CASE ~ IsPolicy(piece)
  <2>1. BehindPackets(u, p, k) /\ Coming(u, rest, all)
    BY <1>1, <1>2, <1>3, PieceIs
  <2> HIDE DEF u
  <2>2. Handling(u, p)
    BY <2>1 DEF Handling
  <2>3. Handling(t, p) /\ t.skipped + Len(t.r) = u.skipped + Len(u.r) /\ (t.stage # "fatal" => HandleInput(t.r) = 0)
    BY <1>2, <1>4, <2>2, DrainedIs
  <2>4. session' = t
    BY <1>1, <1>7
  <2> HIDE DEF t, rest, all
  <2>5. Coming(t, rest, all)
    BY <2>1, <2>3 DEF Coming
  <2> QED
    BY <1>1, <1>2, <1>5, <2>3, <2>4, <2>5, StepInv DEF all, rest
<1> QED
  BY <1>6, <1>7

\* A packet from a server, sent while the loop is between two calls, keeps the
\* invariant.
LEMMA ServerInv ==
  ASSUME WInv, NEW t, SessionOK(session) => ServerEffect(t, session), ServerSends(t)
  PROVE  WInv'
<1>1. session.stage = "open" /\ session' = t /\ sent' = sent /\ coming' = coming
  BY DEF ServerSends
<1>2. PICK k : BehindPackets(session, sent, k)
  BY DEF WInv, Handling
<1>3. ServerEffect(t, session)
  BY <1>2 DEF BehindPackets
<1>4. BehindPackets(t, sent, k) /\ t.r = session.r /\ t.skipped = session.skipped
  BY <1>1, <1>2, <1>3, ServerBehind
<1>5. HandleInput(session.r) = 0 /\ Coming(session, coming, FlattenSeq(sent)) /\ Sending(sent)
  BY <1>1 DEF WInv
<1>6. HandleInput(t.r) = 0 /\ Coming(t, coming, FlattenSeq(sent))
  BY <1>4, <1>5 DEF Coming
<1>7. reachable' = reachable
  BY DEF ServerSends
<1> QED
  BY <1>1, <1>4, <1>5, <1>6, <1>7, StepInv DEF Handling

\* Every step keeps the invariant.
LEMMA NextInv ==
  ASSUME ServersSend, MapsAddresses, RandsSmall, WInv, [Next]_vars
  PROVE  WInv'
<1>1. ASSUME NEW n \in Piece \cup {Len(coming)}, NEW rnd \in Rand, n > 0, Receive(n, rnd) PROVE WInv'
  <2>1. session.stage = "open"
    BY <1>1 DEF Receive
  <2>2. coming \in Seq(Octet)
    BY <2>1 DEF WInv, Coming
  <2>3. n \in Nat
    BY <2>2, LimitsAssumption
  <2> QED
    BY <1>1, <2>3, ReceiveInv
<1>2. ASSUME NEW w \in FromAlloc, AllocSends(w) PROVE WInv'
  <2>1. ServerSends(AllocPacket(session, w))
    BY <1>2 DEF AllocSends
  <2> DEFINE t == AllocPacket(session, w)
  <2>2. SessionOK(session) => ServerEffect(t, session)
    BY AllocEffect
  <2> HIDE DEF t
  <2> QED
    BY <2>1, <2>2, ServerInv DEF t
<1>3. ASSUME NEW w \in FromGame, GameSends(w) PROVE WInv'
  <2>1. ServerSends(GamePacket(session, w))
    BY <1>3 DEF GameSends
  <2> DEFINE t == GamePacket(session, w)
  <2>2. SessionOK(session) => ServerEffect(t, session)
    BY GameServerEffect
  <2> HIDE DEF t
  <2> QED
    BY <2>1, <2>2, ServerInv DEF t
<1>4. CASE UNCHANGED vars
  <2>1. session' = session /\ sent' = sent /\ coming' = coming
    BY <1>4 DEF vars
  <2>2. reachable' = reachable
    BY <1>4 DEF vars
  <2> QED
    BY <2>1, <2>2, StepInv DEF WInv
<1> QED
  BY <1>1, <1>2, <1>3, <1>4 DEF Next

\* Packets end one behind another, so the count of bytes tells how many are handled.
LEMMA AllMost ==
  ASSUME NEW p, Sending(p), NEW k \in 0..Len(p)
  PROVE  \A j \in 0..Len(p) : Upto(p, j) <= Upto(p, k) => j <= k
<1> SUFFICES ASSUME NEW j \in 0..Len(p), ~ j <= k PROVE ~ Upto(p, j) <= Upto(p, k)
  OBVIOUS
<1>1. p \in Scripts /\ Len(p) \in Nat
  BY DEF Sending, Scripts
<1>2. k \in 0..Len(p)-1 /\ k + 1 \in 0..Len(p) /\ k + 1 <= j /\ k + 1 \in 1..Len(p)
  BY <1>1
<1>3. Upto(p, k) \in Nat /\ Upto(p, k + 1) = Upto(p, k) + Len(p[k + 1])
  BY <1>1, <1>2, UptoNext
<1>4. Len(p[k + 1]) >= 9 /\ Len(p[k + 1]) \in Nat
  BY <1>2 DEF Sending, Sent
<1>5. Upto(p, k + 1) <= Upto(p, j) /\ Upto(p, j) \in Nat
  <2> DEFINE m == k + 1
  <2>1. m \in 0..Len(p) /\ j >= m
    BY <1>1, <1>2
  <2> HIDE DEF m
  <2>2. Upto(p, m) <= Upto(p, j)
    BY <1>1, <2>1, Prefix
  <2> QED
    BY <1>1, <2>2, UptoIs DEF m
<1> DEFINE x == Upto(p, k)
           y == Upto(p, j)
           z == Upto(p, k + 1)
           l == Len(p[k + 1])
<1>6. x \in Nat /\ y \in Nat /\ l \in Nat /\ z = x + l /\ l >= 9 /\ z <= y
  BY <1>3, <1>4, <1>5
<1> HIDE DEF x, y, z, l
<1>7. ~ y <= x
  BY <1>6
<1> QED
  BY <1>7 DEF x, y

\* Which packets have been handled.
LEMMA HandledIs ==
  ASSUME NEW k, Sending(sent), Cut(session, sent, k)
  PROVE  Handled = First(sent, k)
<1> DEFINE whole == {j \in 0..Len(sent) : Len(FlattenSeq(SubSeq(sent, 1, j))) <= session.skipped}
<1>1. sent \in Scripts /\ Len(sent) \in Nat /\ k \in 0..Len(sent) /\ session.skipped = Upto(sent, k)
  BY DEF Sending, Scripts, Cut
<1>2. whole = {j \in 0..Len(sent) : Upto(sent, j) <= Upto(sent, k)}
  BY <1>1 DEF Upto, Flat
<1>3. Upto(sent, k) \in Nat
  BY <1>1, UptoIs
<1>4. k \in whole
  BY <1>1, <1>2, <1>3
<1>5. whole \in SUBSET Int /\ \A j \in whole : k >= j
  BY <1>1, <1>2, AllMost
<1>6. Handled = SubSeq(sent, 1, Max(whole))
  BY DEF Handled
<1> HIDE DEF whole
<1>7. Max(whole) = k
  BY <1>4, <1>5, MaxIs
<1> QED
  BY <1>6, <1>7 DEF First

\* The bytes handled, at hand and to come are those of the script.
LEMMA NothingLost ==
  ASSUME NEW k, Sending(sent), Cut(session, sent, k), Coming(session, coming, FlattenSeq(sent))
  PROVE  FlattenSeq(First(sent, k)) \o session.r \o coming = FlattenSeq(sent)
<1> DEFINE a == Flat(sent, k)
           b == session.r
           c == coming
           all == FlattenSeq(sent)
           x == Upto(sent, k)
           ab == a \o b
           abc == ab \o c
<1>1. sent \in Scripts /\ Len(sent) \in Nat /\ k \in 0..Len(sent) /\ session.skipped = x /\ b \in Seq(Octet) /\ Len(b) \in Nat
  BY DEF Sending, Scripts, Cut
<1>2. a \in Seq(Octet) /\ x = Len(a) /\ x \in Nat
  BY <1>1, FlatIs DEF Upto
<1>3. c \in Seq(Octet) /\ (x + Len(b)) + Len(c) = Len(all) /\ \A i \in 1..Len(c) : all[(x + Len(b)) + i] = c[i]
  BY <1>1 DEF Coming
<1>4. \A i \in 1..Len(b) : all[x + i] = b[i]
  <2>1. \A i \in 1..Len(b) : all[x + i] = b[0 + i]
    BY DEF Cut, Alike
  <2> HIDE DEF b, x, all
  <2> QED
    BY <2>1
<1>5. all = Flat(sent, Len(sent)) /\ Len(sent) \in 0..Len(sent)
  BY <1>1, FlatAll
<1>6. all \in Seq(Octet) /\ \A i \in 1..x : all[i] = a[i]
  <2> HIDE DEF all, a, x
  <2>1. all \in Seq(Octet)
    BY <1>1, <1>5, FlatIs
  <2>2. \A i \in 1..x : all[i] = a[i]
    BY <1>1, <1>5, Prefix DEF x, a
  <2> QED
    BY <2>1, <2>2
<1>7. FlattenSeq(First(sent, k)) \o session.r \o coming = abc
  BY DEF Flat, First
<1> HIDE DEF a, b, c, all, x
<1>8. /\ ab \in Seq(Octet) /\ Len(ab) = Len(a) + Len(b) /\ (\A i \in 1..Len(a) : ab[i] = a[i])
      /\ \A i \in 1..Len(b) : ab[Len(a) + i] = b[i]
  <2>1. a \in Seq(Octet) /\ b \in Seq(Octet)
    BY <1>1, <1>2
  <2> QED
    BY ONLY <2>1, Concat
<1> HIDE DEF ab
<1>9. /\ abc \in Seq(Octet) /\ Len(abc) = Len(ab) + Len(c) /\ (\A i \in 1..Len(ab) : abc[i] = ab[i])
      /\ \A i \in 1..Len(c) : abc[Len(ab) + i] = c[i]
  <2>1. ab \in Seq(Octet) /\ c \in Seq(Octet)
    BY <1>3, <1>8
  <2> QED
    BY ONLY <2>1, Concat
<1> HIDE DEF abc
<1> DEFINE l == Len(b)
           m == Len(c)
           y == x + l
<1>10. l \in Nat /\ m \in Nat /\ y \in Nat /\ y = x + l /\ Len(all) = y + m /\ x \in Nat /\ Len(abc) = y + m /\ Len(ab) = y
  <2>1. m \in Nat
    BY <1>3
  <2> HIDE DEF m
  <2>2. Len(ab) = y
    BY <1>2, <1>8
  <2> QED
    BY <1>1, <1>2, <1>3, <1>9, <2>1, <2>2 DEF m
<1>11. \A i \in 1..(y + m) : all[i] = abc[i]
  <2>1. \A i \in 1..x : all[i] = abc[i]
    <3>1. \A i \in 1..x : i \in 1..y
      BY <1>10
    <3> QED
      BY <1>2, <1>6, <1>8, <1>9, <1>10, <3>1
  <2>2. \A i \in 1..l : all[x + i] = abc[x + i]
    <3> SUFFICES ASSUME NEW i \in 1..l PROVE all[x + i] = abc[x + i]
      OBVIOUS
    <3>1. x + i \in 1..Len(ab)
      BY <1>10
    <3>2. all[x + i] = b[i] /\ ab[x + i] = b[i]
      BY <1>2, <1>4, <1>8
    <3> QED
      BY <1>9, <3>1, <3>2
  <2>3. \A i \in 1..m : all[y + i] = abc[y + i]
    <3> SUFFICES ASSUME NEW i \in 1..m PROVE all[y + i] = abc[y + i]
      OBVIOUS
    <3>1. abc[y + i] = c[i]
      BY <1>9, <1>10
    <3>2. all[y + i] = c[i]
      BY <1>3
    <3> QED
      BY <3>1, <3>2
  <2> SUFFICES ASSUME NEW i \in 1..(y + m) PROVE all[i] = abc[i]
    OBVIOUS
  <2> HIDE DEF l, m, y
  <2>4. i \in 1..x \/ (\E j \in 1..l : i = x + j) \/ (\E j \in 1..m : i = y + j)
    <3>1. i <= x => i \in 1..x
      BY <1>10
    <3>2. x < i /\ i <= y => i - x \in 1..l /\ i = x + (i - x)
      BY <1>10
    <3>3. y < i => i - y \in 1..m /\ i = y + (i - y)
      BY <1>10
    <3>4. i <= x \/ (x < i /\ i <= y) \/ y < i
      BY <1>10
    <3> QED
      BY <3>1, <3>2, <3>3, <3>4
  <2> QED
    BY <2>1, <2>2, <2>3, <2>4 DEF l, m
<1>12. all = abc
  <2>1. all \in Seq(Octet) /\ abc \in Seq(Octet) /\ Len(all) = Len(abc) /\ \A i \in 1..Len(all) : all[i] = abc[i]
    BY <1>6, <1>9, <1>10, <1>11
  <2> QED
    BY ONLY <2>1, SeqSame
<1> QED
  BY <1>7, <1>12 DEF all

\* The invariant makes the servers' streams those the client's packets call for.
LEMMA InvTransparent ==
  ASSUME WInv
  PROVE  Transparent
<1> DEFINE got == Inner(session.toAlloc)
<1>1. PICK k : BehindPackets(session, sent, k)
  BY DEF WInv, Handling
<1>2. AllocTrue(session, First(sent, k)) /\ GameTrue(session, First(sent, k)) /\ Cut(session, sent, k) /\ Sending(sent)
  BY <1>1 DEF BehindPackets, WInv
<1>3. Handled = First(sent, k)
  BY <1>2, HandledIs
<1>4. IF reachable THEN Conveys(got, DueToAlloc(Handled), Handled) ELSE DOMAIN got = {}
  BY <1>2, <1>3 DEF AllocTrue
<1>5. ASSUME NEW i \in DOMAIN got
      PROVE  LET u == Unwrapped(session.toAlloc[i])
             IN LoginsTo(got, i) # {} /\ <<u.uid, u.api>> = Named(got[Max(LoginsTo(got, i))]) /\ u.ip = Ip
  <2> DEFINE u == Unwrapped(session.toAlloc[i])
             name == <<u.uid, u.api>>
             c == session.toAlloc
  <2>1. NamedBy(got, i, name) /\ u.ip = Ip
    BY <1>2 DEF AllocTrue, AllocNames
  <2>2. c \in Scripts
    BY <1>2 DEF AllocTrue
  <2>3. DOMAIN got \subseteq Int
    <3>1. DOMAIN c \subseteq Int
      BY <2>2 DEF Scripts
    <3>2. DOMAIN Inner(c) \subseteq DOMAIN c
      BY DEF Inner
    <3> QED
      BY <3>1, <3>2
  <2> HIDE DEF name, c, got
  <2>4. PICK j : LastLogin(got, j, i) /\ name = Named(got[j])
    BY <2>1 DEF NamedBy
  <2> DEFINE S == LoginsTo(got, i)
  <2>5. S \in SUBSET Int
    BY <2>3 DEF LoginsTo
  <2>6. j \in S /\ \A x \in S : x <= j
    BY <2>4 DEF LastLogin
  <2> HIDE DEF S
  <2>7. Max(S) = j
    <3>1. \A x \in S : j >= x
      BY <2>5, <2>6
    <3> QED
      BY <2>5, <2>6, <3>1, MaxIs
  <2> QED
    BY <2>1, <2>4, <2>6, <2>7 DEF S, name
<1>6. Conveys(Bare(session.toGame), DueToGame(Handled), Handled)
  BY <1>2, <1>3 DEF GameTrue
<1>7. session.stage = "open" =>
        HandleInput(session.r) = 0 /\ FlattenSeq(Handled) \o session.r \o coming = FlattenSeq(sent)
  BY <1>2, <1>3, NothingLost DEF WInv
<1> HIDE DEF got
<1> QED
  BY <1>4, <1>5, <1>6, <1>7 DEF Transparent, got

\* The inductive invariant: at any time the session is what handling the first k
\* packets of the client makes of it, for some k, and the bytes received since are the
\* beginning of the next ones (CClientUnit::proc_pkg, CHelperUnit::process_pkg,
\* CGameUnit::process_pkg).
THEOREM Invariance ==
  ASSUME ClientsSend, ServersSend, MapsAddresses, RandsSmall
  PROVE  Spec => []WInv
<1>1. Init => WInv
  BY InitInv
<1>2. WInv /\ [Next]_vars => WInv'
  BY NextInv
<1> QED
  BY <1>1, <1>2, PTL DEF Spec

\* Transparent holds at any time, for every script of a client and every order of the
\* servers' packets: the alloc and game servers receive, once, in order and unchanged,
\* the packets the client sent for them, however recv cuts the stream
\* (CClientUnit::proc_pkg, HandleInput, and what HandleInputBuf forwards).
THEOREM BytesThrough ==
  ASSUME ClientsSend, ServersSend, MapsAddresses, RandsSmall
  PROVE  Spec => []Transparent
<1>1. WInv => Transparent
  BY InvTransparent
<1>2. Spec => []WInv
  BY Invariance
<1> QED
  BY <1>1, <1>2, PTL

\* RepliesTrue holds at any time: every packet the proxy or a server has sent the
\* client is whole, opens, and has its numbers of users within 16 bits
\* (PacketBase::_end, EncryptBuffer, CClientUnit::ProcessGetLevelCount and the reports
\* it draws on).
THEOREM RepliesSound ==
  ASSUME ClientsSend, ServersSend, MapsAddresses, RandsSmall
  PROVE  Spec => []RepliesTrue
<1>1. WInv => RepliesTrue
  BY RepliesAreTrue DEF WInv, Handling, BehindPackets
<1>2. Spec => []WInv
  BY Invariance
<1> QED
  BY <1>1, <1>2, PTL

\* SeatAsTold holds at any time: the table and the address a session forwards to are
\* those the client was last told, through every login, room change, server change and
\* logout (ProcessUserLoginSuccess, ProcessEnterRoom, ProcessGetNewRoom,
\* CGameUnit::process_pkg).
THEOREM SeatAgreed ==
  ASSUME ClientsSend, ServersSend, MapsAddresses, RandsSmall
  PROVE  Spec => []SeatAsTold
<1>1. WInv => SeatAsTold
  BY SeatIsTold DEF WInv, Handling, BehindPackets
<1>2. Spec => []WInv
  BY Invariance
<1> QED
  BY <1>1, <1>2, PTL
=============================================================================
