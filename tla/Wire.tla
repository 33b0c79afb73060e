-------------------------------- MODULE Wire --------------------------------
(***************************************************************************)
(* Serialization of the test framework's peer-to-peer objects:             *)
(* src/scenarios/test_framework/messages.py.                               *)
(*                                                                         *)
(* A class with a serialize and a deserialize method is a CODEC: what      *)
(* serialize writes of each value it takes, and what deserialize makes of  *)
(* any bytes.  A value is the tuple of the attributes.  Most classes write *)
(* and read a list of fields in the same order; where the two methods are  *)
(* not mirror images (transactions, addresses, headers, bit vectors,       *)
(* version) the codec is given by two operators of its own.                *)
(*                                                                         *)
(* A byte has ByteBits bits, 8 in the code.  A smaller byte makes every    *)
(* boundary of the compact sizes and of the integers small enough to be    *)
(* reached; nothing else depends on it.                                    *)
(***************************************************************************)
EXTENDS Integers, Sequences, SequencesExt

CONSTANT ByteBits

ASSUME ByteBitsAssumption == ByteBits \in 3 .. 8

Base  == 2 ^ ByteBits
Byte  == 0 .. Base - 1
Bytes == Seq(Byte)

(* What a reader returns: the value and the bytes left, or Failed for the  *)
(* exception that struct.unpack or an assertion raises.                    *)
Got(v, rest) == <<v, rest>>
Failed == <<>>

Prefix(b, n) == SubSeq(b, 1, IF n < Len(b) THEN n ELSE Len(b))
Suffix(b, n) == SubSeq(b, n + 1, Len(b))

-----------------------------------------------------------------------------
(* Integers (struct.pack, int.to_bytes), little endian unless said.        *)

(* What is left of v above its i lowest digits, for i up to n.             *)
Shifts(base, v, n) ==
    LET left[i \in 0 .. n] == IF i = 0 THEN v ELSE left[i - 1] \div base
    IN  left

(* The n lowest digits, the lowest first.                                  *)
Digits(base, v, n) ==
    LET left == Shifts(base, v, n)
    IN  [i \in 1 .. n |-> left[i - 1] % base]

(* The number with these digits, from the highest one down.  A signed one  *)
(* is negative when its highest digit is in the upper half.                *)
Number(base, ds, signed) ==
    LET n == Len(ds)
        high[i \in 0 .. n] ==
            IF i = 0 THEN (IF signed /\ 2 * ds[n] >= base THEN -1 ELSE 0)
            ELSE ds[n + 1 - i] + base * high[i - 1]
    IN  high[n]

LE(v, n) == Digits(Base, v, n)
FromLE(b) == Number(Base, b, FALSE)

(* What struct.pack takes for n bytes.                                     *)
Unsigned(n) == {v \in Nat : Shifts(Base, v, n)[n] = 0}
Signed(n) == {v \in Int : Shifts(Base, v, n)[n - 1] \in -(Base \div 2) .. (Base \div 2) - 1}

ReadInt(b, n, signed) ==
    IF Len(b) < n THEN Failed ELSE Got(Number(Base, Prefix(b, n), signed), Suffix(b, n))

(* Faulty variant: Base - 3 is written without its marker.                 *)
ser_compact_size_off(l) == IF l <= Base - 3 THEN LE(l, 1) ELSE <<Base - 3>> \o LE(l, 2)

(* Compact sizes: one byte below Base - 3, else a marker and 2, 4 or 8.    *)
ser_compact_size(l) ==
    CASE l < Base - 3  -> LE(l, 1)
      [] l >= Base - 3 /\ l < Base ^ 2 -> <<Base - 3>> \o LE(l, 2)
      [] l >= Base ^ 2 /\ l < Base ^ 4 -> <<Base - 2>> \o LE(l, 4)
      [] OTHER -> <<Base - 1>> \o LE(l, 8)

deser_compact_size(b) ==
    IF b = <<>> THEN Failed
    ELSE CASE Head(b) = Base - 3 -> ReadInt(Tail(b), 2, FALSE)
           [] Head(b) = Base - 2 -> ReadInt(Tail(b), 4, FALSE)
           [] Head(b) = Base - 1 -> ReadInt(Tail(b), 8, FALSE)
           [] OTHER -> Got(Head(b), Tail(b))

ser_string(s) == ser_compact_size(Len(s)) \o s

(* f.read(nit) returns what there is, without an error.                    *)
ReadBytes(nit) == IF nit = Failed THEN Failed ELSE Got(Prefix(nit[2], nit[1]), Suffix(nit[2], nit[1]))
deser_string(b) == ReadBytes(deser_compact_size(b))

(* Bits packed into bytes, least significant first.                        *)
PackBits(bits) ==
    [i \in 1 .. (Len(bits) + ByteBits - 1) \div ByteBits |->
        Number(2, [k \in 1 .. ByteBits |->
                     LET j == (i - 1) * ByteBits + k
                     IN  IF j <= Len(bits) /\ bits[j] THEN 1 ELSE 0], FALSE)]

(* Faulty variant: the reader takes the most significant bit first.        *)
UnpackBitsReversed(bytes) ==
    [j \in 1 .. Len(bytes) * ByteBits |->
        Digits(2, bytes[((j - 1) \div ByteBits) + 1], ByteBits)[ByteBits - ((j - 1) % ByteBits)] = 1]

UnpackBits(bytes) ==
    [j \in 1 .. Len(bytes) * ByteBits |->
        Digits(2, bytes[((j - 1) \div ByteBits) + 1], ByteBits)[((j - 1) % ByteBits) + 1] = 1]

-----------------------------------------------------------------------------
(* Addresses.  An address is [time, services, net, ip, port]; ip stands    *)
(* for the text and is the bytes the text denotes, followed for TorV3 by   *)
(* the checksum the text carries.                                          *)

NET_IPV4  == 1
NET_TORV3 == 4
ADDRV2_ADDRESS_LENGTH ==
    [net \in {1, 2, 4, 5, 6} |-> CASE net = 1 -> 4 [] net \in {2, 6} -> 16 [] OTHER -> 32]

OnionChecksum(bytes) ==
    LET sum[i \in 0 .. Len(bytes)] == IF i = 0 THEN 0 ELSE (sum[i - 1] + bytes[i]) % Base
    IN  sum[Len(bytes)]

(* addrv1: an IPv4 address mapped into the last 4 of 16 bytes, the port    *)
(* big endian, the time left out in version messages.                      *)
AddrSerialize(a, with_time) ==
    (IF with_time THEN LE(a.time, 4) ELSE <<>>) \o LE(a.services, 8)
        \o [i \in 1 .. 12 |-> IF i <= 10 THEN 0 ELSE Base - 1] \o a.ip \o Reverse(LE(a.port, 2))

AddrDeserialize(b, with_time) ==
    LET t == IF with_time THEN 4 ELSE 0
    IN  IF Len(b) < t + 26 THEN Failed
        ELSE Got([time     |-> IF with_time THEN FromLE(Prefix(b, 4)) ELSE 0,
                  services |-> FromLE(SubSeq(b, t + 1, t + 8)),
                  net      |-> NET_IPV4,
                  ip       |-> SubSeq(b, t + 21, t + 24),
                  port     |-> FromLE(Reverse(SubSeq(b, t + 25, t + 26)))],
                 Suffix(b, t + 26))

(* addrv2 (BIP155): the network and the length of its addresses are        *)
(* written; a TorV3 text loses its checksum, which the reader computes.    *)
AddrSerializeV2(a) ==
    LE(a.time, 4) \o ser_compact_size(a.services) \o LE(a.net, 1)
        \o ser_string(Prefix(a.ip, ADDRV2_ADDRESS_LENGTH[a.net])) \o Reverse(LE(a.port, 2))

AddrDeserializeV2(b) ==
    LET services == deser_compact_size(Suffix(b, 4))
        net      == services[2][1]
        addr     == deser_string(Tail(services[2]))
    IN  IF Len(b) < 4 \/ services = Failed THEN Failed
        ELSE IF services[2] = <<>> THEN Failed
        ELSE IF net \notin DOMAIN ADDRV2_ADDRESS_LENGTH \/ addr = Failed THEN Failed
        ELSE IF Len(addr[1]) # ADDRV2_ADDRESS_LENGTH[net] \/ Len(addr[2]) < 2 THEN Failed
        ELSE Got([time     |-> FromLE(Prefix(b, 4)),
                  services |-> services[1],
                  net      |-> net,
                  ip       |-> IF net = NET_TORV3 THEN Append(addr[1], OnionChecksum(addr[1]))
                               ELSE addr[1],
                  port     |-> FromLE(Reverse(Prefix(addr[2], 2)))],
                 Suffix(addr[2], 2))

Addresses(ip) ==
    [time : Unsigned(4), services : Unsigned(8), net : DOMAIN ADDRV2_ADDRESS_LENGTH,
     ip : ip, port : Unsigned(2)]

-----------------------------------------------------------------------------
(* Codecs: a class writes the values of S with Ser and reads with Deser.   *)

Class(S, Ser(_), Deser(_)) == [ser |-> [v \in S |-> Ser(v)], deser |-> [b \in Bytes |-> Deser(b)]]

UInt(n) == Class(Unsigned(n), LAMBDA v : LE(v, n), LAMBDA b : ReadInt(b, n, FALSE))
SInt(n) == Class(Signed(n), LAMBDA v : LE(v, n), LAMBDA b : ReadInt(b, n, TRUE))
UInt256 == Class(Unsigned(32), LAMBDA v : LE(v, 32), LAMBDA b : Got(FromLE(Prefix(b, 32)), Suffix(b, 32)))
Compact == Class(Unsigned(8), ser_compact_size, deser_compact_size)
String  == Class({s \in Bytes : Len(s) \in Unsigned(8)}, ser_string, deser_string)
Unpacked(s) == IF s = Failed THEN Failed ELSE Got(UnpackBits(s[1]), s[2])
Bits    == Class({v \in Seq(BOOLEAN) : Len(PackBits(v)) \in Unsigned(8)},
                 LAMBDA v : ser_string(PackBits(v)),
                 LAMBDA b : Unpacked(deser_string(b)))

AddrV1(with_time) ==
    Class({a \in Addresses([1 .. 4 -> Byte]) : a.net = NET_IPV4 /\ (with_time \/ a.time = 0)},
          LAMBDA a : AddrSerialize(a, with_time), LAMBDA b : AddrDeserialize(b, with_time))
AddrV2 ==
    Class({a \in Addresses(Bytes) : Len(a.ip) = ADDRV2_ADDRESS_LENGTH[a.net] + (IF a.net = NET_TORV3 THEN 1 ELSE 0)},
          AddrSerializeV2, AddrDeserializeV2)

(* The readers of a list of codecs, one after the other.                   *)
DecodeEach(ts, b) ==
    LET read[i \in 0 .. Len(ts)] ==
            IF i = 0 THEN Got(<<>>, b)
            ELSE LET before == read[i - 1]
                     here   == ts[i].deser[before[2]]
                 IN  IF before = Failed THEN Failed
                     ELSE IF here = Failed THEN Failed
                     ELSE Got(Append(before[1], here[1]), here[2])
    IN  read[Len(ts)]

(* A count beyond the bytes left ends in an exception of an element's      *)
(* reader; a uint256 alone would be read from nothing (as 0).              *)
DecodeItems(t, nit) ==
    IF nit = Failed THEN Failed
    ELSE IF nit[1] > Len(nit[2]) THEN Failed
    ELSE DecodeEach([i \in 1 .. nit[1] |-> t], nit[2])

Vector(t) ==
    Class({v \in Seq(DOMAIN t.ser) : Len(v) \in Unsigned(8)},
          LAMBDA v : ser_compact_size(Len(v)) \o FlattenSeq([i \in DOMAIN v |-> t.ser[v[i]]]),
          LAMBDA b : DecodeItems(t, deser_compact_size(b)))

(* The tuples of values that the codecs of ts take.                        *)
Tuples(ts) ==
    LET V(i) == DOMAIN ts[i].ser
    IN  CASE Len(ts) = 2 -> V(1) \X V(2)
          [] Len(ts) = 3 -> V(1) \X V(2) \X V(3)
          [] Len(ts) = 4 -> V(1) \X V(2) \X V(3) \X V(4)
          [] Len(ts) = 6 -> V(1) \X V(2) \X V(3) \X V(4) \X V(5) \X V(6)
          [] Len(ts) = 9 -> V(1) \X V(2) \X V(3) \X V(4) \X V(5) \X V(6) \X V(7) \X V(8) \X V(9)

Fields(ts) ==
    Class(Tuples(ts), LAMBDA v : FlattenSeq([i \in DOMAIN ts |-> ts[i].ser[v[i]]]),
          LAMBDA b : DecodeEach(ts, b))

(* A message without fields.                                               *)
Empty == Class({<<>>}, LAMBDA v : <<>>, LAMBDA b : Got(<<>>, b))

-----------------------------------------------------------------------------
(* Classes                                                                 *)

CInv          == Fields(<<UInt(4), UInt256>>)
(* The version a locator begins with is written as 0 and read past.        *)
LocatorVersion == Class({0}, LAMBDA v : LE(0, 4), LAMBDA b : IF Len(b) < 4 THEN Failed ELSE Got(0, Suffix(b, 4)))
CBlockLocator == Fields(<<LocatorVersion, Vector(UInt256)>>)
COutPoint     == Fields(<<UInt256, UInt(4)>>)
CTxIn         == Fields(<<COutPoint, String, UInt(4)>>)
CTxOut        == Fields(<<SInt(8), String>>)
CTxInWitness  == Vector(String)
TxIns         == Vector(CTxIn)
TxOuts        == Vector(CTxOut)

IsNull(wit) == \A i \in DOMAIN wit: wit[i] = <<>>

(* Faulty variant: one empty witness per input is appended to those there. *)
FitWitnessAppended(tx) == tx.wit \o [i \in DOMAIN tx.vin |-> <<>>]

(* serialize_with_witness cuts or fills the witnesses to one per input; it *)
(* changes the transaction itself.                                         *)
FitWitness(tx) ==
    [i \in DOMAIN tx.vin |-> IF i <= Len(tx.wit) THEN tx.wit[i] ELSE <<>>]

EncodeTx(tx, with_witness) ==
    LET extended == with_witness /\ ~IsNull(tx.wit)
        wit      == FitWitness(tx)
    IN  LE(tx.nVersion, 4)
          \o (IF extended THEN ser_compact_size(0) \o LE(1, 1) ELSE <<>>)
          \o TxIns.ser[tx.vin] \o TxOuts.ser[tx.vout]
          \o (IF extended THEN FlattenSeq([i \in DOMAIN wit |-> CTxInWitness.ser[wit[i]]]) ELSE <<>>)
          \o LE(tx.nLockTime, 4)

(* deserialize, from its last field to its first; every reader takes what  *)
(* was read before it.                                                     *)
DecodeLock(nVersion, body, wit) ==
    LET lock == ReadInt(wit[2], 4, FALSE)
    IN  IF wit = Failed THEN Failed
        ELSE IF lock = Failed THEN Failed
        ELSE Got([nVersion |-> nVersion, vin |-> body[1][1], vout |-> body[1][2],
                  wit |-> wit[1], nLockTime |-> lock[1]], lock[2])

DecodeWitness(nVersion, flags, body) ==
    IF body = Failed THEN Failed
    ELSE DecodeLock(nVersion, body,
                    IF flags = 0 THEN Got(<<>>, body[2])
                    ELSE DecodeEach([i \in DOMAIN body[1][1] |-> CTxInWitness], body[2]))

Paired(vin, vout) == IF vout = Failed THEN Failed ELSE Got(<<vin, vout[1]>>, vout[2])

(* No input after the version means a flag; a flag of 0 means a            *)
(* transaction without inputs whose outputs are not read.                  *)
DecodeOutputs(vin, flags) ==
    IF vin[1] # <<>> THEN Paired(vin[1], TxOuts.deser[vin[2]])
    ELSE IF flags = 0 THEN Got(<< <<>>, <<>> >>, Tail(vin[2]))
    ELSE DecodeEach(<<TxIns, TxOuts>>, Tail(vin[2]))

DecodeInputs(nVersion, vin) ==
    LET flags == IF vin[1] = <<>> THEN vin[2][1] ELSE 0
    IN  IF vin = Failed THEN Failed
        ELSE IF vin[1] = <<>> /\ vin[2] = <<>> THEN Failed
        ELSE DecodeWitness(nVersion, flags, DecodeOutputs(vin, flags))

DecodeTx(b) ==
    IF Len(b) < 4 THEN Failed
    ELSE DecodeInputs(ReadInt(b, 4, TRUE)[1], TxIns.deser[Suffix(b, 4)])

CTransaction(with_witness) ==
    Class([nVersion : Signed(4), vin : DOMAIN TxIns.ser, vout : DOMAIN TxOuts.ser,
           wit : Seq(DOMAIN CTxInWitness.ser), nLockTime : Unsigned(4)],
          LAMBDA tx : EncodeTx(tx, with_witness), DecodeTx)

CBlockHeader == Fields(<<SInt(4), UInt256, UInt256, UInt(4), UInt(4), UInt(4)>>)
CBlock(with_witness) == Fields(<<CBlockHeader, Vector(CTransaction(with_witness))>>)
PrefilledTransaction(with_witness) == Fields(<<Compact, CTransaction(with_witness)>>)
(* Short ids are packed into 8 bytes of which 6 are sent.                  *)
P2PHeaderAndShortIDs(with_witness) ==
    Fields(<<CBlockHeader, UInt(8), Vector(UInt(6)), Vector(PrefilledTransaction(with_witness))>>)
BlockTransactionsRequest == Fields(<<UInt256, Vector(Compact)>>)
BlockTransactions(with_witness) == Fields(<<UInt256, Vector(CTransaction(with_witness))>>)
CPartialMerkleTree == Fields(<<SInt(4), Vector(UInt256), Bits>>)
CMerkleBlock == Fields(<<CBlockHeader, CPartialMerkleTree>>)

(* A header in a headers message is written as a block without             *)
(* transactions and read as a block whose transactions are dropped.        *)
HeaderOf(block) == IF block = Failed THEN Failed ELSE Got(block[1][1], block[2])

HeaderBy(block) ==
    Class(DOMAIN CBlockHeader.ser, LAMBDA h : block.ser[<<h, <<>> >>],
          LAMBDA b : HeaderOf(block.deser[b]))
HeaderAsBlock == HeaderBy(CBlock(TRUE))

(* The last field of version: written always, 0 when the reader finds the  *)
(* payload at its end.                                                     *)
Relay == Class(Signed(1), LAMBDA v : LE(v, 1), LAMBDA b : IF b = <<>> THEN Got(0, b) ELSE ReadInt(b, 1, TRUE))

-----------------------------------------------------------------------------
(* The messages: msgtype and what serialize writes.  Each deserialize      *)
(* reads the same; it takes a transaction with or without witness.         *)

HandshakeMessages ==
    [version |-> Fields(<<SInt(4), UInt(8), SInt(8), AddrV1(FALSE), AddrV1(FALSE), UInt(8),
                          String, SInt(4), Relay>>),
     verack  |-> Empty]

GossipMessages ==
    [addr        |-> Vector(AddrV1(TRUE)),
     addrv2      |-> Vector(AddrV2),
     sendaddrv2  |-> Empty,
     inv         |-> Vector(CInv),
     getdata     |-> Vector(CInv),
     getblocks   |-> Fields(<<CBlockLocator, UInt256>>),
     tx          |-> CTransaction(TRUE),
     wtxidrelay  |-> Empty]

BlockMessages ==
    [no_witness_tx    |-> CTransaction(FALSE),
     block            |-> CBlock(TRUE),
     no_witness_block |-> CBlock(FALSE),
     getaddr          |-> Empty,
     ping             |-> UInt(8),
     pong             |-> UInt(8),
     mempool          |-> Empty,
     notfound         |-> Vector(CInv)]

HeaderMessages ==
    [sendheaders |-> Empty,
     getheaders  |-> Fields(<<CBlockLocator, UInt256>>),
     headers     |-> Vector(HeaderAsBlock),
     merkleblock |-> CMerkleBlock,
     filterload  |-> Fields(<<String, UInt(4), UInt(4), UInt(1)>>)]

FilterAndCompactMessages ==
    [filteradd   |-> String,
     filterclear |-> Empty,
     feefilter   |-> UInt(8),
     sendcmpct   |-> Fields(<<UInt(1), UInt(8)>>),
     cmpctblock  |-> P2PHeaderAndShortIDs(FALSE),
     cmpctblock2 |-> P2PHeaderAndShortIDs(TRUE),
     getblocktxn |-> BlockTransactionsRequest,
     blocktxn    |-> BlockTransactions(TRUE),
     no_witness_blocktxn |-> BlockTransactions(FALSE)]

FilterHeaderMessages ==
    [getcfilters  |-> Fields(<<UInt(1), UInt(4), UInt256>>),
     cfilter      |-> Fields(<<UInt(1), UInt256, String>>),
     getcfheaders |-> Fields(<<UInt(1), UInt(4), UInt256>>),
     cfheaders    |-> Fields(<<UInt(1), UInt256, UInt256, Vector(UInt256)>>)]

CheckpointMessages ==
    [getcfcheckpt |-> Fields(<<UInt(1), UInt256>>),
     cfcheckpt    |-> Fields(<<UInt(1), UInt256, Vector(UInt256)>>),
     sendtxrcncl  |-> Fields(<<UInt(4), UInt(8)>>)]

(* The entries of some maps that share no key.                             *)
Entries(maps) ==
    [key \in UNION {DOMAIN maps[i]: i \in DOMAIN maps} |->
        maps[CHOOSE i \in DOMAIN maps: key \in DOMAIN maps[i]][key]]

Layouts ==
    Entries(<<HandshakeMessages, GossipMessages, BlockMessages, HeaderMessages,
              FilterAndCompactMessages, FilterHeaderMessages, CheckpointMessages>>)
=============================================================================
