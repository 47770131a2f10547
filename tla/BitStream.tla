----------------------------- MODULE BitStream -----------------------------
(***************************************************************************)
(* The bit streams that every header is parsed from and written to         *)
(* (include/scion/bit_stream.hpp).                                         *)
(*                                                                         *)
(* In the code a header has one template serialize(), which reads from a   *)
(* ReadStream and writes to a WriteStream.  Here, too, a header is one     *)
(* operator on streams.  A stream is a record                              *)
(*   rd    TRUE for a ReadStream, FALSE for a WriteStream                  *)
(*   data  the buffer, as a sequence of bits, eight to a byte              *)
(*   pos   byteIter and bitPos as one offset in bits                       *)
(*   ok    FALSE once a call returned an error                             *)
(*   h     the header: a function from the names of its fields to values   *)
(* A field of up to 24 bits is a number, a wider one (TLC has 32-bit       *)
(* integers) the sequence of its bits.  Every call of a serialize function *)
(* is an item; Serialize runs a sequence of items up to the first error,   *)
(* as the chain of "if (!stream.x(...)) return err.propagate();" does.     *)
(***************************************************************************)
EXTENDS Integers, Sequences, SequencesExt, TLC

Bin(n, w) == [i \in 1 .. w |-> (n \div 2 ^ (w - i)) % 2]

Num(b) ==
  LET val[i \in 0 .. Len(b)] == IF i = 0 THEN 0 ELSE 2 * val[i - 1] + b[i]
  IN  val[Len(b)]

Zeros(w) == [i \in 1 .. w |-> 0]

Ones(w) == [i \in 1 .. w |-> 1]

Xor(a, b) == [i \in 1 .. Len(a) |-> (a[i] + b[i]) % 2]

Encode(v, w) == IF w <= 24 THEN Bin(v, w) ELSE v

Decode(b) == IF Len(b) <= 24 THEN Num(b) ELSE b

(* details::byteswapBE on a little-endian machine. *)
SwapBytes(b) ==
  [i \in 1 .. Len(b) |-> b[(Len(b) - 7 - 8 * ((i - 1) \div 8)) + ((i - 1) % 8)]]

-----------------------------------------------------------------------------
(* Streams *)

(* ReadStream(buffer) and WriteStream(buffer). *)
ReadStream(data) == [rd |-> TRUE, data |-> data, pos |-> 0, ok |-> TRUE, h |-> <<>>]

WriteStream(buffer, h) ==
  [rd |-> FALSE, data |-> buffer, pos |-> 0, ok |-> TRUE, h |-> h]

Fail(st) == [st EXCEPT !.ok = FALSE]

Aligned(st) == st.pos % 8 = 0

Left(st) == Len(st.data) - st.pos

(* operator bool *)
More(st) == st.pos \div 8 < Len(st.data) \div 8

(* An "if constexpr (Stream::IsReading) if (!c) return err.error(...)". *)
Check(st, c) == IF st.ok /\ st.rd /\ ~c THEN Fail(st) ELSE st

(* seek *)
Seek(st, byteOffset, bitOffset) ==
  IF \/ bitOffset > 8
     \/ 8 * byteOffset > Len(st.data)
     \/ 8 * byteOffset = Len(st.data) /\ bitOffset > 0
  THEN Fail(st)
  ELSE [st EXCEPT !.pos = 8 * byteOffset + bitOffset]

(* lookahead: the next bytes, which stay unread. *)
CanLook(st, bytes) == Aligned(st) /\ Left(st) >= 8 * bytes

Lookahead(st, bytes) == SubSeq(st.data, st.pos + 1, st.pos + 8 * bytes)

(* lookback: the last bytes that were written. *)
Lookback(st, bytes) == SubSeq(st.data, st.pos - 8 * bytes + 1, st.pos)

(* Writes the bits b at the write position.  The unused bits of the last   *)
(* byte are overwritten with zeros (WriteStream::serializeBits copies      *)
(* whole bytes of the shifted word).                                       *)
Emit(st, b) ==
  LET end  == st.pos + Len(b)
      last == 8 * ((end + 7) \div 8)
  IN  [st EXCEPT !.data = SubSeq(@, 1, st.pos) \o b \o Zeros(last - end)
                          \o SubSeq(@, last + 1, Len(@)),
                 !.pos  = end]

(* Moves field f between the header and the next w bits of the stream.     *)
(* The bytes may be swapped, in both directions.                           *)
Transfer(st, f, w, swap) ==
  LET conv(b) == IF swap THEN SwapBytes(b) ELSE b
  IN  CASE Left(st) < w -> Fail(st)
        [] Left(st) >= w /\ st.rd ->
             [st EXCEPT !.pos = @ + w,
                        !.h   = (f :> Decode(conv(SubSeq(st.data, st.pos + 1, st.pos + w)))) @@ @]
        [] OTHER -> Emit(st, conv(Encode(st.h[f], w)))

(* serializeBits: at most 57 bits at a time. *)
serializeBits(st, f, w) == IF w > 57 THEN Fail(st) ELSE Transfer(st, f, w, FALSE)

(* serializeByte *)
serializeByte(st, f) == Transfer(st, f, 8, FALSE)

(* serializeUint16 and serializeUint32: when the position is not on a byte *)
(* boundary, the value passes through serializeBits byte-swapped.          *)
serializeUint16(st, f) == Transfer(st, f, 16, ~Aligned(st))

serializeUint32(st, f) == Transfer(st, f, 32, ~Aligned(st))

(* serializeUint64: off a byte boundary reading is "not implemented" and   *)
(* writing emits 32 bits.                                                  *)
serializeUint64(st, f) ==
  CASE Aligned(st) -> Transfer(st, f, 64, FALSE)
    [] ~Aligned(st) /\ st.rd -> Fail(st)
    [] OTHER -> IF Left(st) < 32 THEN Fail(st)
                ELSE Emit(st, SubSeq(SwapBytes(st.h[f]), 33, 64))

(* serializeBytes *)
serializeBytes(st, f, n) ==
  IF Aligned(st) THEN Transfer(st, f, 8 * n, FALSE) ELSE Fail(st)

(* advanceBits *)
advanceBits(st, w) ==
  CASE Left(st) < w -> Fail(st)
    [] Left(st) >= w /\ st.rd -> [st EXCEPT !.pos = @ + w]
    [] OTHER -> Emit(st, Zeros(w))

(* advanceBytes: off a byte boundary it advances twice, and the second     *)
(* time a WriteStream clears the byte it stands in.                        *)
advanceBytes(st, n) ==
  LET s    == IF Aligned(st) THEN st ELSE advanceBits(st, 8 * n)
      base == 8 * (s.pos \div 8)
  IN  CASE ~s.ok \/ Len(s.data) - base < 8 * n -> Fail(s)
        [] s.ok /\ Len(s.data) - base >= 8 * n /\ s.rd -> [s EXCEPT !.pos = @ + 8 * n]
        [] OTHER -> [s EXCEPT !.data = SubSeq(@, 1, base) \o Zeros(8 * n)
                                       \o SubSeq(@, base + 8 * n + 1, Len(@)),
                              !.pos = @ + 8 * n]

(* verifyByte, verifyUint16 and verifyUint32, and the constant fields that *)
(* the headers check in the same way: v is what is written and expected.   *)
verify(st, v, w) ==
  IF st.rd
  THEN LET r == Transfer(st, "verify", w, FALSE)
       IN  IF r.ok /\ r.h["verify"] = Decode(Encode(v, w))
           THEN [r EXCEPT !.h = st.h] ELSE Fail(st)
  ELSE IF Left(st) < w THEN Fail(st) ELSE Emit(st, Encode(v, w))

(* updateChksum: overwrites 16 bits that were written before the last      *)
(* offset bytes.                                                           *)
updateChksum(st, chksum, offset) ==
  IF ~Aligned(st) \/ st.pos < 8 * (offset + 2) THEN Fail(st)
  ELSE LET at == st.pos - 8 * (offset + 2)
       IN  [st EXCEPT !.data = SubSeq(@, 1, at) \o Bin(chksum, 16)
                               \o SubSeq(@, at + 17, Len(@))]

-----------------------------------------------------------------------------
(* Items: one for each call of a serialize function *)

Bits(f, w)    == [op |-> "bits",     f |-> f, n |-> w]
Byte(f)       == [op |-> "byte",     f |-> f, n |-> 8]
Uint16(f)     == [op |-> "uint16",   f |-> f, n |-> 16]
Uint32(f)     == [op |-> "uint32",   f |-> f, n |-> 32]
Uint64(f)     == [op |-> "uint64",   f |-> f, n |-> 64]
Bytes(f, n)   == [op |-> "bytes",    f |-> f, n |-> n]
SkipBits(w)   == [op |-> "skipbits", f |-> "", n |-> w]
Skip(n)       == [op |-> "skip",     f |-> "", n |-> n]
Const(v, w)   == [op |-> "const",    f |-> "", n |-> w, v |-> v]

(* A local variable of serialize(): computed from the header for writing,  *)
(* read into a temporary that leaves scope with Done.                      *)
Local(f, v, w) == [op |-> "local",   f |-> f, n |-> w, v |-> v]

SerializeItem(st, item) ==
  CASE item.op = "bits"     -> serializeBits(st, item.f, item.n)
    [] item.op = "byte"     -> serializeByte(st, item.f)
    [] item.op = "uint16"   -> serializeUint16(st, item.f)
    [] item.op = "uint32"   -> serializeUint32(st, item.f)
    [] item.op = "uint64"   -> serializeUint64(st, item.f)
    [] item.op = "bytes"    -> serializeBytes(st, item.f, item.n)
    [] item.op = "skipbits" -> advanceBits(st, item.n)
    [] item.op = "skip"     -> advanceBytes(st, item.n)
    [] item.op = "const"    -> verify(st, item.v, item.n)
    [] item.op = "local"    -> IF st.rd THEN Transfer(st, item.f, item.n, FALSE)
                               ELSE verify(st, item.v, item.n)

Done(st, locals) ==
  IF st.ok /\ st.rd THEN [st EXCEPT !.h = [f \in DOMAIN @ \ locals |-> @[f]]] ELSE st

Serialize(st, items) ==
  FoldLeft(LAMBDA s, item : IF s.ok THEN SerializeItem(s, item) ELSE s, st, items)
=============================================================================
