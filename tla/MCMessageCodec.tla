--------------------------- MODULE MCMessageCodec ---------------------------
(* Bytes of 3 bits: markers 5, 6 and 7, two-byte sizes below 64, four-byte  *)
(* sizes below 4096.                                                        *)
EXTENDS MessageCodec

Ints(n) == {0, Base - 4, Base - 3, Base ^ n - 1}
Strings == {[i \in 1 .. l |-> i % Base]: l \in {0, Base - 4, Base - 3, Base ^ 2 - 1, Base ^ 2}}
Sizes   == {0, 4, 5, 63, 64, 4095, 4096}
Repeat(x, n) == [i \in 1 .. n |-> x]

AllTxs == [nVersion : {2}, nLockTime : {5},
           vin  : {<<>>, << << <<9, 1>>, <<>>, 7>> >>, << << <<9, 1>>, <<3, 0>>, 7>>, << <<8, 0>>, <<>>, 4095>> >>},
           vout : {<<>>, << <<70, <<1>> >> >>, << <<5, <<>> >>, <<0, <<7, 7>> >> >>},
           wit  : {<<>>, << <<>> >>, << << <<1, 2>>, <<>> >> >>, << <<>>, << <<5>> >> >>,
                   << << <<5>> >>, <<>>, << <<6>> >> >>}]

(* A transaction may carry more witnesses than inputs, but not only those:  *)
(* writing it would turn it into a transaction without a witness.           *)
Txs == {t \in AllTxs: Len(t.wit) > Len(t.vin) => t.vin # <<>> /\ t.wit[1] # <<>>}

SomeTxs == {t \in Txs: Len(t.vin) = 1 /\ Len(t.vout) = 1}
Header  == <<4, 100, 200, 5, 6, 7>>
TxLists == {<<>>} \cup {<<t>>: t \in SomeTxs} \cup {<<t, u>>: t, u \in SomeTxs}

Ip(net) == [i \in 1 .. (CASE net = 1 -> 4 [] net \in {2, 6} -> 16 [] OTHER -> 32) |-> (i + net) % Base]
Addr(net, n, t) ==
    [time |-> t, services |-> n, net |-> net, port |-> 63,
     ip |-> IF net = 4 THEN Append(Ip(4), OnionChecksum(Ip(4))) ELSE Ip(net)]
BadOnion == [Addr(4, 1, 9) EXCEPT !.ip[33] = (@ + 1) % Base]

Version(r, h, s) == <<7, 9, 11, Addr(1, 0, 0), Addr(1, 9, 0), 4096, s, h, r>>
Bools(n) == {[i \in 1 .. n |-> i = j]: j \in 0 .. n}

MCObjects ==
    ({"version"} \X {Version(r, h, s): r \in {0, 1}, h \in {-1, 2047}, s \in Strings})
    \cup ({"verack", "sendaddrv2", "wtxidrelay", "getaddr", "mempool", "sendheaders", "filterclear"} \X {<<>>})
    \cup ({"addr"} \X {Repeat(Addr(1, 3, 4), n): n \in {0, 1, 5}})
    \cup ({"addrv2"} \X ({<<Addr(net, n, 9)>>: net \in {1, 2, 4, 5, 6}, n \in Sizes} \cup {<<BadOnion>>}))
    \cup ({"inv", "getdata", "notfound"} \X {Repeat(<<1, 77>>, n): n \in {0, 1, 4, 5, 64}})
    \cup ({"getblocks", "getheaders"} \X {<< <<0, Repeat(3, n)>>, 8>>: n \in {0, 4, 5}})
    \cup ({"tx", "no_witness_tx"} \X Txs)
    \cup ({"block", "no_witness_block"} \X {<<Header, l>>: l \in TxLists})
    \cup ({"ping", "pong", "feefilter"} \X Ints(7))
    \cup ({"headers"} \X {Repeat(Header, n): n \in {0, 1, 5}})
    \cup ({"merkleblock"} \X {<<Header, <<-4, <<6, 6>>, b>>>>: b \in UNION {Bools(n): n \in 0 .. 6}})
    \cup ({"filterload"} \X {<<s, 1, 2, 3>>: s \in Strings})
    \cup ({"filteradd"} \X Strings)
    \cup ({"sendcmpct"} \X ({0, 1} \X {1, 2}))
    \cup ({"cmpctblock", "cmpctblock2"} \X
             {<<Header, 65, Repeat(262143, n), [i \in DOMAIN l |-> <<x, l[i]>>]>>:
                 n \in {0, 5}, l \in TxLists, x \in {0, 5, 64}})
    \cup ({"getblocktxn"} \X {<<1, Repeat(x, n)>>: x \in Sizes, n \in {0, 1, 5}})
    \cup ({"blocktxn", "no_witness_blocktxn"} \X {<<2, l>>: l \in TxLists})
    \cup ({"getcfilters", "getcfheaders"} \X {<<0, 5, 9>>})
    \cup ({"cfilter"} \X {<<0, 5, s>>: s \in Strings})
    \cup ({"cfheaders"} \X {<<0, 5, 9, Repeat(3, n)>>: n \in {0, 1, 5}})
    \cup ({"getcfcheckpt", "sendtxrcncl"} \X {<<1, 65>>})
    \cup ({"cfcheckpt"} \X {<<0, 5, Repeat(3, n)>>: n \in {0, 1, 5}})
=============================================================================
