------------------------------- MODULE Paths -------------------------------
(***************************************************************************)
(* SCION paths as they are in packets: DecodedScionPath                    *)
(* (include/scion/path/decoded_scion.hpp), RawPath (path/raw.hpp,          *)
(* src/path/path.cpp) and the hops that are read from a raw path           *)
(* (path/raw_hop_range.hpp).  A decoded path is a record of its end        *)
(* points, meta header, info and hop fields; a raw path is a record of its *)
(* end points, its type and its bits.                                      *)
(***************************************************************************)
EXTENDS ScionHeaders

PathEmpty == 0
PathSCION == 1

META_SIZE == 4
INF_SIZE  == 8
HF_SIZE   == 12

ConsDir(info) == Bit(info.flags, 0)
Peering(info) == Bit(info.flags, 1)

segLen(meta) == <<meta.seg0, meta.seg1, meta.seg2>>

FromTo(n) == [i \in 1 .. n |-> i]

(* n headers of one kind in a row, up to the first that cannot be read *)
ReadMany(st, n, serialize(_)) ==
  FoldLeft(LAMBDA acc, i :
             LET r == serialize([acc.rs EXCEPT !.h = <<>>])
             IN  IF acc.rs.ok /\ r.ok THEN [rs |-> r, seq |-> Append(acc.seq, r.h)]
                 ELSE [acc EXCEPT !.rs.ok = FALSE],
           [rs |-> st, seq |-> <<>>], FromTo(n))

WriteMany(ws, hs, serialize(_)) ==
  FoldLeft(LAMBDA s, h : IF s.ok THEN serialize([s EXCEPT !.h = h]) ELSE s, ws, hs)

-----------------------------------------------------------------------------
(* DecodedScionPath *)

(* size *)
DecodedSize(p) == META_SIZE + Len(p.ifs) * INF_SIZE + Len(p.hfs) * HF_SIZE

(* serialize, reading and writing *)
decode(raw) ==
  LET m == PathMeta_serialize(ReadStream(raw.data))
      i == ReadMany(m, segmentCount(m.h), InfoField_serialize)
      h == ReadMany(i.rs, hopFieldCount(m.h), HopField_serialize)
  IN  [ok |-> m.ok /\ h.rs.ok,
       path |-> [src |-> raw.src, dst |-> raw.dst, meta |-> m.h, ifs |-> i.seq, hfs |-> h.seq]]

encode(p) ==
  LET m == PathMeta_serialize(WriteStream(Zeros(8 * DecodedSize(p)), p.meta))
      i == WriteMany(m, p.ifs, InfoField_serialize)
      h == WriteMany(i, p.hfs, HopField_serialize)
  IN  [src |-> p.src, dst |-> p.dst, type |-> PathSCION, data |-> h.data]

(* hops: pairs of egress and ingress interfaces between hop fields, in the *)
(* direction of the path, without the changes of segment                   *)
SegmentOf(meta, i) ==
  IF i <= meta.seg0 THEN 1 ELSE IF i <= meta.seg0 + meta.seg1 THEN 2 ELSE 3

InOut(hf, dir) ==
  IF dir THEN <<hf.consIngress, hf.consEgress>> ELSE <<hf.consEgress, hf.consIngress>>

decodedHops(p) ==
  LET io(i)  == InOut(p.hfs[i], ConsDir(p.ifs[SegmentOf(p.meta, i)]))
      change == IF Peering(p.ifs[1]) THEN {} ELSE {p.meta.seg0, p.meta.seg0 + p.meta.seg1}
      kept   == SelectSeq(FromTo(Len(p.hfs) - 1), LAMBDA i : i \notin change)
  IN  [k \in DOMAIN kept |-> <<io(kept[k])[2], io(kept[k] + 1)[1]>>]

(* reverseInPlace *)
SwapEnds(s) ==
  [i \in DOMAIN s |-> IF i = 1 THEN s[Len(s)] ELSE IF i = Len(s) THEN s[1] ELSE s[i]]

FlipConsDir(info) == [info EXCEPT !.flags = IF ConsDir(info) THEN @ - 1 ELSE @ + 1]

reverseDecoded(p) ==
  LET n    == Len(p.ifs)
      lens == SwapEnds(SubSeq(segLen(p.meta), 1, n)) \o Zeros(3 - n)
      ifs  == SwapEnds(p.ifs)
  IN  [src |-> p.dst, dst |-> p.src,
       meta |-> [currInf |-> n - p.meta.currInf - 1, currHf |-> Len(p.hfs) - p.meta.currHf - 1,
                 seg0 |-> lens[1], seg1 |-> lens[2], seg2 |-> lens[3]],
       ifs |-> [i \in 1 .. n |-> FlipConsDir(ifs[i])],
       hfs |-> Reverse(p.hfs)]

-----------------------------------------------------------------------------
(* RawPath *)

(* Fault: the flags of the info fields stay as they are. *)
ReverseKeepsDir(raw) ==
  LET d == decode(raw).path
      r == reverseDecoded(d)
  IN  IF raw.type = PathSCION /\ decode(raw).ok
      THEN [ok |-> TRUE, raw |-> encode([r EXCEPT !.ifs = SwapEnds(d.ifs)])]
      ELSE [ok |-> raw.type = PathEmpty, raw |-> raw]

(* RawPath::reverseInPlace and reversePathInPlace, on the bytes: the       *)
(* reserved bits of the meta header are kept.                              *)
reverseInPlace(raw) ==
  LET b       == raw.data
      field(from, to) == Num(SubSeq(b, from, to))
      currInf == field(1, 2)
      currHop == field(3, 8)
      lens    == <<field(15, 20), field(21, 26), field(27, 32)>>
      numInf  == Cardinality({i \in 1 .. 3 : lens[i] > 0})
      numHop  == lens[1] + lens[2] + lens[3]
      inf(i)  == SubSeq(b, 32 + 64 * (i - 1) + 1, 32 + 64 * i)
      flip(x) == SubSeq(x, 1, 7) \o <<1 - x[8]>> \o SubSeq(x, 9, 64)
      hf(i)   == SubSeq(b, 32 + 64 * numInf + 96 * (i - 1) + 1, 32 + 64 * numInf + 96 * i)
      infs    == SwapEnds([i \in 1 .. numInf |-> inf(i)])
      newLens == CASE numInf = 2 -> <<lens[2], lens[1], lens[3]>>
                   [] numInf = 3 -> <<lens[3], lens[2], lens[1]>>
                   [] OTHER -> lens
      meta    == Bin((numInf - currInf - 1) % 4, 2) \o Bin((numHop - currHop - 1) % 64, 6)
                 \o SubSeq(b, 9, 14) \o Bin(newLens[1], 6) \o Bin(newLens[2], 6)
                 \o Bin(newLens[3], 6)
      invalid == \/ Len(b) < 32
                 \/ numInf < 1
                 \/ numHop < 2 \/ numHop > 64
                 \/ Len(b) # 8 * (META_SIZE + numInf * INF_SIZE + numHop * HF_SIZE)
  IN  CASE raw.type = PathEmpty -> [ok |-> TRUE, raw |-> [raw EXCEPT !.src = raw.dst,
                                                                     !.dst = raw.src]]
        [] raw.type # PathEmpty /\ (raw.type # PathSCION \/ invalid) -> [ok |-> FALSE, raw |-> raw]
        [] OTHER -> [ok |-> TRUE,
                     raw |-> [src |-> raw.dst, dst |-> raw.src, type |-> raw.type,
                              data |-> meta \o FlattenSeq([i \in 1 .. numInf |-> flip(infs[i])])
                                       \o FlattenSeq([i \in 1 .. numHop |->
                                                        hf(numHop + 1 - i)])]]

(* HopField::relativeExpiry *)
relativeExpiry(hop) == ((1 + hop.expTime) * 24 * 60 * 60) \div 256

Max32 == <<65535, 65535>>

(* RawPath::expiry: the first hop field to expire, of those that can be    *)
(* read; Expiry::max() when there is none.  Seconds are 32-bit numbers.    *)
expiry(raw) ==
  LET p == decode(raw).path
      at(i) == Plus(Word32(p.ifs[SegmentOf(p.meta, i)].timestamp), U32(relativeExpiry(p.hfs[i])))
  IN  IF raw.type # PathSCION THEN Max32
      ELSE FoldLeft(LAMBDA m, i : IF LessU32(at(i), m) THEN at(i) ELSE m, Max32,
                    FromTo(Len(p.hfs)))

-----------------------------------------------------------------------------
(* RawHopIter: rs is in front of the next hop field, index counts them     *)

(* The constructor: hopDir and segChange are sets of indices *)
RawHopIter(b) ==
  LET m    == PathMeta_serialize(ReadStream(b))
      n    == segmentCount(m.h)
      i    == ReadMany(m, n, InfoField_serialize)
      sum  == <<0, m.h.seg0, m.h.seg0 + m.h.seg1>>
  IN  IF ~m.ok \/ ~i.rs.ok THEN [stop |-> TRUE]
      ELSE [stop |-> FALSE, rs |-> i.rs, index |-> 0, prev |-> <<0, 0>>, cur |-> <<0, 0>>,
            hopDir |-> UNION {sum[k] .. sum[k] + segLen(m.h)[k] - 1 :
                              k \in {x \in 1 .. n : ConsDir(i.seq[x])}},
            segChange |-> {sum[k] : k \in {x \in 1 .. n : ~Peering(i.seq[x]) \/ x = 1}}]

(* operator++: one hop field, two at a change of segment *)
ReadHop(it) ==
  LET r == HopField_serialize([it.rs EXCEPT !.h = <<>>])
  IN  IF it.stop \/ ~r.ok THEN [it EXCEPT !.stop = TRUE]
      ELSE [it EXCEPT !.rs = r, !.prev = it.cur, !.cur = InOut(r.h, it.index \in it.hopDir),
                      !.index = @ + 1]

NextHop(it) == IF it.index \in it.segChange THEN ReadHop(ReadHop(it)) ELSE ReadHop(it)

(* The hops of the range: operator* is the pair of the egress interface    *)
(* before and the ingress interface behind a link.                         *)
RECURSIVE HopsFrom(_)
HopsFrom(it) == IF it.stop THEN <<>> ELSE <<<<it.prev[2], it.cur[1]>>>> \o HopsFrom(NextHop(it))

hops(raw) ==
  LET it == RawHopIter(IF raw.type = PathSCION THEN raw.data ELSE <<>>)
  IN  IF it.stop THEN <<>> ELSE HopsFrom(NextHop(it))

(* RawPath::digest and Path::digest hash the source and at most 64 hops;   *)
(* DecodedScionPath::digest hashes all 64 elements of its buffer.          *)
digestInput(raw) == <<raw.src, SubSeq(hops(raw), 1, Min({Len(hops(raw)), 64}))>>

decodedDigestInput(p) ==
  <<p.src, [i \in 1 .. 64 |-> IF i <= Len(decodedHops(p)) THEN decodedHops(p)[i] ELSE <<0, 0>>]>>

-----------------------------------------------------------------------------
(* Paths as the control plane builds them: up, core and down segments of   *)
(* two to four hop fields, or two peering segments of one to three.  A     *)
(* segment is traversed in or against the direction of its construction.   *)

SampleHop(i) ==
  [flags |-> 0, expTime |-> (i * 37) % 256, consIngress |-> 10 * i + 1, consEgress |-> 10 * i + 2,
   mac |-> Bin(i, 8) \o Ones(40)]

SampleInfo(cons, peer, i) ==
  [flags |-> (IF cons THEN 1 ELSE 0) + (IF peer THEN 2 ELSE 0), segid |-> 100 + i,
   timestamp |-> Bin(26000 + i, 16) \o Bin(65000 * i % 65536, 16)]

SamplePath(lens, dirs, peer, cur) ==
  LET n   == Len(lens)
      all == lens \o Zeros(3 - n)
      inf == SegmentOf([seg0 |-> all[1], seg1 |-> all[2]], cur + 1)
  IN  [src |-> Bin(1, 16) \o Zeros(32) \o Bin(65280, 16),
       dst |-> Bin(1, 16) \o Zeros(32) \o Bin(65281, 16),
       meta |-> [currInf |-> inf - 1, currHf |-> cur, seg0 |-> all[1], seg1 |-> all[2],
                 seg2 |-> all[3]],
       ifs |-> [i \in 1 .. n |-> SampleInfo(dirs[i], peer, i)],
       hfs |-> [i \in 1 .. all[1] + all[2] + all[3] |-> SampleHop(i)]]

PathSamples ==
  {SamplePath(lens, dirs, FALSE, cur) :
     lens \in {<<2>>, <<4>>, <<2, 2>>, <<2, 3>>, <<4, 2>>, <<2, 2, 3>>, <<3, 2, 2>>, <<2, 4, 2>>},
     dirs \in {<<TRUE, TRUE, TRUE>>, <<FALSE, FALSE, TRUE>>, <<FALSE, TRUE, TRUE>>},
     cur \in {0, 1}}
  \cup {SamplePath(lens, <<FALSE, TRUE>>, TRUE, cur) :
          lens \in {<<1, 1>>, <<1, 2>>, <<2, 1>>, <<3, 2>>}, cur \in {0, 1}}
  \cup {SamplePath(<<22, 21, 21>>, <<FALSE, TRUE, TRUE>>, FALSE, 63)}

Mirror(s) == [i \in DOMAIN s |-> <<s[Len(s) + 1 - i][2], s[Len(s) + 1 - i][1]>>]

(* Hop fields of a segment make links between neighbours: the hops the     *)
(* path has by its definition                                              *)
LinksOf(p) ==
  LET inner(i) == \/ SegmentOf(p.meta, i) = SegmentOf(p.meta, i + 1)
                  \/ \A k \in DOMAIN p.ifs : Peering(p.ifs[k])
      io(i)    == InOut(p.hfs[i], ConsDir(p.ifs[SegmentOf(p.meta, i)]))
      s        == SelectSeq(FromTo(Len(p.hfs) - 1), inner)
  IN  [k \in DOMAIN s |-> <<io(s[k])[2], io(s[k] + 1)[1]>>]

ReversalRight(p) ==
  LET raw  == encode(p)
      rev  == reverseInPlace(raw)
      res  == [raw EXCEPT !.data[9] = 1] \* a reserved bit is set
      cut(n) == [raw EXCEPT !.data = SubSeq(@, 1, Len(@) - 8 * n)]
  IN  /\ decode(raw).ok /\ decode(raw).path = p
      /\ rev.ok
      /\ rev.raw = encode(reverseDecoded(p))
      /\ reverseInPlace(rev.raw).raw = raw
      /\ reverseInPlace(reverseInPlace(res).raw).raw = res
      /\ hops(raw) = LinksOf(p)
      /\ decodedHops(p) = LinksOf(p)
      /\ hops(rev.raw) = Mirror(hops(raw))
      /\ expiry(rev.raw) = expiry(raw)
      /\ digestInput(rev.raw)[2] = Mirror(digestInput(raw)[2])
      /\ \A n \in {1, 12} : /\ ~reverseInPlace(cut(n)).ok
                            /\ ~LessU32(expiry(cut(n)), expiry(raw))
      /\ expiry(cut(DecodedSize(p) - META_SIZE)) = Max32
=============================================================================
