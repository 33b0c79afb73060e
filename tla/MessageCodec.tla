---------------------------- MODULE MessageCodec ----------------------------
(***************************************************************************)
(* A message object on its way through the test framework: serialized for  *)
(* the wire or an RPC, read back by deserialize into a new object, and     *)
(* serialized again (a peer that serves what it received, from_hex of a    *)
(* transaction that is then signed and sent).                              *)
(***************************************************************************)
EXTENDS Wire

CONSTANT Objects   \* pairs <<msgtype, object>> the program may send

(* The transactions inside an object.                                      *)
Transactions(type, v) ==
    CASE type \in {"tx", "no_witness_tx"} -> <<v>>
      [] type \in {"block", "no_witness_block", "blocktxn", "no_witness_blocktxn"} -> v[2]
      [] type \in {"cmpctblock", "cmpctblock2"} -> [i \in DOMAIN v[4] |-> v[4][i][2]]
      [] OTHER -> <<>>

(* Cutting the witnesses to one per input leaves one that is not empty,     *)
(* where there is one: serialize writes the marker of an extended           *)
(* transaction before it cuts.                                              *)
KeepsWitness(tx) == IsNull(FitWitness(tx)) => IsNull(tx.wit)

ASSUME ObjectsAssumption ==
    \A m \in Objects:
        /\ m[1] \in DOMAIN Layouts /\ m[2] \in DOMAIN Layouts[m[1]].ser
        /\ \A i \in DOMAIN Transactions(m[1], m[2]): KeepsWitness(Transactions(m[1], m[2])[i])

VARIABLES msgtype,
          object,    \* the sender's object
          payload,
          copy,      \* the reader's object, or Failed
          phase
codecVars == <<msgtype, object, payload, copy, phase>>

Layout == Layouts[msgtype]

CodecInit ==
    /\ \E m \in Objects: msgtype = m[1] /\ object = m[2]
    /\ payload = <<>> /\ copy = Failed /\ phase = "object"

(* Writing a transaction with its witnesses changes the object.            *)
Written(tx) == IF IsNull(tx.wit) THEN tx ELSE [tx EXCEPT !.wit = FitWitness(tx)]

Serialize ==
    /\ phase = "object"
    /\ payload' = Layout.ser[object]
    /\ object' = IF msgtype = "tx" THEN Written(object) ELSE object
    /\ phase' = "sent"
    /\ UNCHANGED <<msgtype, copy>>

(* The reader: from_binary, or t.deserialize(BytesIO(msg)).                *)
Deserialize ==
    /\ phase = "sent"
    /\ copy' = Layout.deser[payload]
    /\ phase' = "read"
    /\ UNCHANGED <<msgtype, object, payload>>

Forward ==
    /\ phase = "read" /\ copy # Failed
    /\ payload' = Layout.ser[copy[1]]
    /\ phase' = "forwarded"
    /\ UNCHANGED <<msgtype, object, copy>>

CodecNext == Serialize \/ Deserialize \/ Forward

CodecSpec == CodecInit /\ [][CodecNext]_codecVars

-----------------------------------------------------------------------------
DropsWitness(type) == type \in {"no_witness_tx", "no_witness_block", "no_witness_blocktxn", "cmpctblock"}

(* The bytes of a transaction without inputs: the count of its outputs     *)
(* stands where the reader looks for the flag.                             *)
LooksExtended(tx) == tx.vin = <<>> /\ tx.vout # <<>>

Readable(type, v) == \A i \in DOMAIN Transactions(type, v): ~LooksExtended(Transactions(type, v)[i])

(* Objects the format can carry as they are: witnesses for every input or  *)
(* none, whole bytes of bits, addresses with their own checksum.           *)
Faithful(type, v) ==
    /\ \A i \in DOMAIN Transactions(type, v):
          LET tx == Transactions(type, v)[i]
          IN  IF DropsWitness(type) \/ IsNull(tx.wit) THEN tx.wit = <<>> ELSE Len(tx.wit) = Len(tx.vin)
    /\ type = "merkleblock" => Len(v[2][3]) % ByteBits = 0
    /\ type = "addrv2" => \A i \in DOMAIN v: v[i].net = NET_TORV3 =>
                              v[i].ip[33] = OnionChecksum(Prefix(v[i].ip, 32))

(* What is read is what was written, to the last byte: a field written and *)
(* read in different widths or orders, or a compact size on the wrong side *)
(* of its marker, shifts everything behind it.                             *)
RoundTrip ==
    phase \in {"read", "forwarded"} /\ Readable(msgtype, object) /\ Faithful(msgtype, object)
        => copy = Got(object, <<>>)

(* A reader accepts every object that does not look like an extended       *)
(* transaction, reads to the end of the payload (the assertion of          *)
(* from_binary), and what it read is written again byte by byte: hashes    *)
(* of a forwarded transaction or block are those of the original.          *)
ForwardsTheSameBytes ==
    /\ phase = "read" /\ Readable(msgtype, object) =>
          /\ copy # Failed
          /\ copy[2] = <<>>
          /\ Layout.ser[copy[1]] = payload
    /\ phase = "forwarded" /\ Readable(msgtype, object) => payload = Layout.ser[object]

(* serialize cuts and fills the witnesses of the object it is called on,   *)
(* and its bytes do not depend on whether it was called before, as long *)
(* as an input has a witness that is not empty whenever one is written.    *)
SerializeIsIdempotent ==
    [][Serialize => Layout.ser[object'] = payload']_codecVars
=============================================================================
