------------------------------- MODULE Packets -------------------------------
(***************************************************************************)
(* Packets as ICHAT_PacketBase.h builds and reads them and as              *)
(* EncryptDecrypt.cpp disguises them.  A packet is the bytes of m_strBuf up *)
(* to m_nPacketSize, the read position m_nBufPos and the flag m_isCheckCode.*)
(* Its header has nine bytes: the length of what follows the length, "BY", *)
(* two version numbers, the command and a check code.                      *)
(*                                                                         *)
(* A write that does not fit changes nothing and returns false, which no   *)
(* caller looks at.  A read past the end changes nothing and leaves the    *)
(* default, -1.  _Insert, _ReadDel and _oldend have no caller and are left *)
(* out.                                                                    *)
(***************************************************************************)
EXTENDS Integers, Sequences

CONSTANT PACKET_BUFFER_SIZE  \* 8192 in NETInputPacket and NETOutputPacket

PACKET_HEADER_SIZE == 9

ASSUME CapacityAssumption ==
  PACKET_BUFFER_SIZE \in Nat /\ PACKET_BUFFER_SIZE >= PACKET_HEADER_SIZE

-----------------------------------------------------------------------------
(* Numbers on the wire: most significant byte first. *)

\* htonl, htons and the conversion of an int to the width that is written, up to 4.
Bytes(n, w) ==
  LET shifted == <<n, n \div 256, (n \div 256) \div 256, ((n \div 256) \div 256) \div 256>>
  IN [i \in 1..w |-> shifted[w + 1 - i] % 256]

\* ntohl, ntohs into a signed variable.
Number(s) ==
  LET first == IF s[1] < 128 THEN s[1] ELSE s[1] - 256
      short == 256 * first + s[2]
  IN IF Len(s) = 2 THEN short ELSE 256 * (256 * short + s[3]) + s[4]

\* n bytes from offset i on, counted from 0.
Slice(buf, i, n) == SubSeq(buf, i + 1, i + n)

-----------------------------------------------------------------------------
(* PacketBase. *)

\* _reset: an empty packet, its header all zero.
Blank ==
  [buf |-> [i \in 1..PACKET_HEADER_SIZE |-> 0], pos |-> PACKET_HEADER_SIZE, checked |-> FALSE]

\* _writeHeader
WriteHeader(p, s, at) ==
  [p EXCEPT !.buf = [i \in DOMAIN @ |-> IF i - at \in DOMAIN s THEN s[i - at] ELSE @[i]]]

\* _begin
Begin(cmd) == [Blank EXCEPT !.buf = <<0, 0, 66, 89, 1, 1>> \o Bytes(cmd, 2) \o <<0>>]

\* _end: the length does not count its own two bytes.
End(p) ==
  [WriteHeader(WriteHeader(p, Bytes(Len(p.buf) - 2, 2), 0), <<0>>, 8) EXCEPT !.checked = FALSE]

GetCmdType(p) == Number(Slice(p.buf, 6, 2))
GetBodyLength(p) == Number(Slice(p.buf, 0, 2))
GetcbCheckCode(p) == p.buf[9]

\* _copy, of bytes that fit; others it refuses and the packet stays uninitialised.
Copy(s) == [Blank EXCEPT !.buf = s]

\* _Write
Fits(p, n) == Len(p.buf) + n <= PACKET_BUFFER_SIZE
Write(p, s) == IF Fits(p, Len(s)) THEN [p EXCEPT !.buf = @ \o s] ELSE p

WriteInt(p, n) == Write(p, Bytes(n, 4))
WriteShort(p, n) == Write(p, Bytes(n, 2))

\* WriteString: the length counts the zero at the end.
WriteString(p, s) ==
  LET q == Write(WriteInt(p, Len(s) + 1), s)
  IN IF Fits(WriteInt(p, Len(s) + 1), Len(s)) THEN Write(q, <<0>>) ELSE q

WriteBinary(p, s) == Write(WriteInt(p, Len(s)), s)

\* _Read: the value read, the default of all ones if the packet ends before it,
\* and the packet with the position behind it.
Readable(p, n) == p.pos + n <= Len(p.buf)
Skipped(p, n) == IF Readable(p, n) THEN [p EXCEPT !.pos = @ + n] ELSE p
ReadNumber(p, w) == IF Readable(p, w) THEN Number(Slice(p.buf, p.pos, w)) ELSE -1

ReadInt(p) == [val |-> ReadNumber(p, 4), p |-> Skipped(p, 4)]
ReadShort(p) == [val |-> ReadNumber(p, 2), p |-> Skipped(p, 2)]

\* ReadString(): from where the string begins to the first zero, which the zeros
\* behind the packet are at the latest; "" if its length does not fit.
ReadString(p) ==
  LET n == ReadInt(p)
      rest == SubSeq(p.buf, n.p.pos + 1, Len(p.buf))
      zeros == {i \in DOMAIN rest : rest[i] = 0}
      end == IF zeros = {} THEN Len(rest) ELSE (CHOOSE i \in zeros : \A j \in zeros : i <= j) - 1
  IN IF n.val = -1 \/ ~ Readable(n.p, n.val) THEN [val |-> <<>>, p |-> n.p]
     ELSE [val |-> SubSeq(rest, 1, end), p |-> Skipped(n.p, n.val)]

\* ReadBinary into a buffer of max bytes: ok is whether it returns a length, which
\* is 0 when the packet ends before the bytes do.
ReadBinary(p, max) ==
  LET n == ReadInt(p)
  IN IF n.val = -1 \/ n.val > max THEN [ok |-> FALSE, val |-> <<>>]
     ELSE IF Readable(n.p, n.val) THEN [ok |-> TRUE, val |-> Slice(p.buf, n.p.pos, n.val)]
     ELSE [ok |-> TRUE, val |-> <<>>]

-----------------------------------------------------------------------------
(* CEncryptDecrypt: every byte of the body is replaced after a table, and the *)
(* check code makes the sum of the bytes before that zero.                    *)

m_SendByteMap == <<
  112, 47, 64, 95, 68,142,110, 69,126,171, 44, 31,180,172,157,145,
   13, 54,155, 11,212,196, 57,116,191, 35, 22, 20,  6,235,  4, 62,
   18, 92,139,188, 97, 99,246,165,225,101,216,245, 90,  7,240, 19,
  242, 32,107, 74, 36, 89,137,100,215, 66,106, 94, 61, 10,119,224,
  128, 39,184,197,140, 14,250,138,213, 41, 86, 87,108, 83,103, 65,
  232,  0, 26,206,134,131,176, 34, 40, 77, 63, 38, 70, 79,111, 43,
  114, 58,241,141,151,149, 73,132,229,227,121,143, 81, 16,168,130,
  198,221,255,252,228,207,179,  9, 93,234,156, 52,249, 23,159,218,
  135,248, 21,  5, 60,211,164,133, 46,251,238, 71, 59,239, 55,127,
  147,175,105, 12,113, 49,222, 33,117,160,170,186,124, 56,  2,183,
  129,  1,253,231, 29,204,205,189, 27,122, 42,173,102,190, 85, 51,
    3,219,136,178, 30, 78,185,230,194,247,203,125,201, 98,195,166,
  220,167, 80,181, 75,148,192,146, 76, 17, 91,120,217,177,237, 25,
  233,161, 28,182, 50,153,163,118,158,123,109,154, 48,214,169, 37,
  199,174,150, 53,208,187,210,200,162,  8,243,209,115,244, 72, 45,
  144,202,226, 88,193, 24, 82,254,223,104,152, 84,236, 96, 67, 15
>>

m_RecvByteMap == <<
   81,161,158,176, 30,131, 28, 45,233,119, 61, 19,147, 16, 69,255,
  109,201, 32, 47, 27,130, 26,125,245,207, 82,168,210,164,180, 11,
   49,151, 87, 25, 52,223, 91, 65, 88, 73,170, 95, 10,239,136,  1,
  220,149,212,175,123,227, 17,142,157, 22, 97,140,132, 60, 31, 90,
    2, 79, 57,254,  4,  7, 92,139,238,102, 51,196,200, 89,181, 93,
  194,108,246, 77,251,174, 74, 75,243, 53, 44,202, 33,120, 59,  3,
  253, 36,189, 37, 55, 41,172, 78,249,146, 58, 50, 76,218,  6, 94,
    0,148, 96,236, 23,152,215, 62,203,106,169,217,156,187,  8,143,
   64,160,111, 85,103,135, 84,128,178, 54, 71, 34, 68, 99,  5,107,
  240, 15,199,144,197,101,226,100,250,213,219, 18,122, 14,216,126,
  153,209,232,214,134, 39,191,193,110,222,154,  9, 13,171,225,145,
   86,205,179,118, 12,195,211,159, 66,182,155,229, 35,167,173, 24,
  198,244,184,190, 21, 67,112,224,231,188,241,186,165,166, 83,117,
  228,235,230,133, 20, 72,221, 56, 42,204,127,177,192,113,150,248,
   63, 40,242,105,116,104,183,163, 80,208,121, 29,252,206,138,141,
   46, 98, 48,234,237, 43, 38,185,129,124, 70,137,115,162,247,114
>>

MapSendByte(b) == m_SendByteMap[b + 1]
MapRecvByte(b) == m_RecvByteMap[b + 1]

\* wDataSize, the bytes of the body: of a WORD, so never negative.
DataSize(p) == (GetBodyLength(p) - 7) % 65536

\* The positions of the body in the buffer.
InBody(p) == PACKET_HEADER_SIZE+1..PACKET_HEADER_SIZE+DataSize(p)

\* The sum of the body as a BYTE.
ByteSum(s) ==
  LET Sum[i \in 0..Len(s)] == IF i = 0 THEN 0 ELSE (Sum[i-1] + s[i]) % 256
  IN Sum[Len(s)]
BodySum(p) == ByteSum(Slice(p.buf, PACKET_HEADER_SIZE, DataSize(p)))

\* EncryptBuffer: nothing is done to a packet that was encrypted already.
Encrypt(p) ==
  IF p.checked THEN p
  ELSE LET body == InBody(p)
           q == [p EXCEPT !.buf = [i \in DOMAIN @ |-> IF i \in body THEN MapSendByte(@[i]) ELSE @[i]]]
       IN [WriteHeader(q, <<(-BodySum(p)) % 256>>, 8) EXCEPT !.checked = TRUE]

\* DecryptBuffer leaves the check code as it is.  A header that gives less than its
\* own seven bytes makes the size of the body wrap around, and the code goes on behind
\* the packet; here what is not in the packet is left alone, and module Wire takes no
\* such packet (ClientsSend, IsPacket).
Decrypt(p) ==
  LET body == InBody(p)
  IN [p EXCEPT !.buf = [i \in DOMAIN @ |-> IF i \in body THEN MapRecvByte(@[i]) ELSE @[i]]]

\* Whether it returns a length: the check code fits the decrypted bytes.
Verifies(p) == (GetcbCheckCode(p) + BodySum(Decrypt(p))) % 256 = 0
=============================================================================
