------------------------------ MODULE WireCodec ------------------------------
(***************************************************************************)
(* The Encoder and the Decoder of vecs-wire, and the frames of the protocol *)
(* as bytes.  What a writer does is the sequence of chunks it puts into the *)
(* caller's buffer; a chunk goes in byte by byte (and leaves what fitted   *)
(* behind when it does not fit) or as a whole.  A reader takes the bytes   *)
(* and a position and returns the value and the next position, or Torn     *)
(* where the code throws.                                                  *)
(*                                                                         *)
(* Bytes have 8 bits and varint groups 7, as in the code; the 16, 32, 64   *)
(* and 53 bits of u16, u32, u64 and the safe integers are constants.  A    *)
(* number is counted in quarters, so that some are no integers; a single   *)
(* float resolves halves, a double quarters.                               *)
(***************************************************************************)
EXTENDS Integers, SequencesExt

CONSTANTS
  HalfBits,     \* 16 in the code
  WordBits,     \* 32
  LongBits,     \* 64
  SafeBits,     \* 53
  SingleLimit,  \* the largest single float, in quarters
  TypeShift     \* CidLayout.wireTypeShift

ASSUME WireAssumption ==
  /\ {HalfBits, WordBits, LongBits, SafeBits, SingleLimit} \subseteq Nat
  /\ 8 < HalfBits /\ HalfBits < WordBits /\ WordBits < SafeBits
  /\ SafeBits < LongBits /\ LongBits < 27
  /\ SingleLimit < 2^26
  /\ TypeShift \in 1..(WordBits - 2)

-----------------------------------------------------------------------------
(* Encoder: the buffer and what a write leaves of it.                       *)

Sheet(room) == [bytes |-> <<>>, room |-> room, threw |-> FALSE]

Put(sheet, chunk) ==
  LET left == sheet.room - Len(sheet.bytes)
      fits == chunk.legal /\ Len(chunk.bytes) <= left
      some == IF chunk.legal /\ ~chunk.whole
              THEN SubSeq(chunk.bytes, 1, IF fits THEN Len(chunk.bytes) ELSE left) ELSE <<>>
  IN IF sheet.threw THEN sheet
     ELSE [sheet EXCEPT !.bytes = @ \o (IF fits THEN chunk.bytes ELSE some), !.threw = ~fits]

Encoded(sheet, chunks) == FoldLeft(Put, sheet, chunks)

Each(bytes) == <<[bytes |-> bytes, whole |-> FALSE, legal |-> TRUE]>>
Whole(bytes) == <<[bytes |-> bytes, whole |-> TRUE, legal |-> TRUE]>>
Refused == <<[bytes |-> <<>>, whole |-> TRUE, legal |-> FALSE]>>

Ranged(v, low, high, chunks) == IF low <= v /\ v <= high THEN chunks ELSE Refused

\* write_varint_u32 and _u64: seven bits a byte, the lowest first.
Groups[v \in Nat] == IF v > 127 THEN <<(v % 128) + 128>> \o Groups[v \div 128] ELSE <<v>>
Varint(v, bits) == Ranged(v, 0, 2^bits - 1, Each(Groups[v]))

ZigZag(v) == IF v >= 0 THEN 2 * v ELSE -2 * v - 1

U8(v) == Ranged(v, 0, 255, Each(<<v>>))
U32(v) == Varint(v, WordBits)
Unsigned(v, bits) == Ranged(v, 0, 2^bits - 1, Varint(v, IF bits > WordBits THEN LongBits ELSE WordBits))
Signed(v, bits) ==
  Ranged(v, -(2^(bits - 1)), 2^(bits - 1) - 1,
         Varint(ZigZag(v), IF bits > WordBits THEN LongBits ELSE WordBits))

Four(n) == [i \in 1..4 |-> (n \div 256^(i - 1)) % 256]
F32(q) == Whole(Four(q \div 2 + 2^27))
F64(q) == Whole(Four(q + 2^27) \o <<0, 0, 0, 0>>)

Buffer(data) == U32(Len(data)) \o Whole(data)

-----------------------------------------------------------------------------
(* Tagged values: write_any.                                                *)

Tags == [null |-> 0, boolean |-> 1, undefined |-> 2, object |-> 3, empty_object |-> 4,
         array |-> 5, empty_array |-> 6, bigint_integer |-> 7, string |-> 8, empty_string |-> 9,
         number_integer |-> 10, number_unsigned |-> 11, number_float |-> 12, binary |-> 13,
         empty_binary |-> 14, bigint_unsigned |-> 15]

\* For the mutant: a size of 16 is taken to fit the nibble.
TagSizeTight(tag, size) ==
  IF size > 16 THEN U8(tag * 16) \o U32(size - 16) ELSE U8(tag * 16 + size)
TagSize(tag, size) ==
  IF size > 15 THEN U8(tag * 16) \o U32(size - 16) ELSE U8(tag * 16 + size)

IsInteger(q) == q % 4 = 0
CanBeFloat(q) == q <= SingleLimit /\ q >= -SingleLimit /\ q % 2 = 0

Counted(full, empty, size) == IF size = 0 THEN TagSize(empty, 1) ELSE TagSize(full, size)

RECURSIVE Tagged(_)
Tagged(v) ==
  CASE v.kind = "undefined" -> TagSize(Tags.undefined, 1)
    [] v.kind = "null" -> TagSize(Tags.null, 1)
    [] v.kind = "boolean" -> TagSize(Tags.boolean, IF v.yes THEN 1 ELSE 2)
    [] v.kind = "string" -> Counted(Tags.string, Tags.empty_string, Len(v.text)) \o Whole(v.text)
    [] v.kind = "binary" -> Counted(Tags.binary, Tags.empty_binary, Len(v.data)) \o Whole(v.data)
    [] v.kind = "number" ->
         IF IsInteger(v.q) THEN TagSize(Tags.number_integer, 8) \o Signed(v.q \div 4, LongBits)
         ELSE IF CanBeFloat(v.q) THEN TagSize(Tags.number_float, 4) \o F32(v.q)
         ELSE TagSize(Tags.number_float, 8) \o F64(v.q)
    [] v.kind = "bigint" ->
         IF v.n < 0 THEN TagSize(Tags.bigint_integer, 8) \o Signed(v.n, LongBits)
         ELSE TagSize(Tags.bigint_unsigned, 8) \o Unsigned(v.n, LongBits)
    [] v.kind = "array" ->
         Counted(Tags.array, Tags.empty_array, Len(v.items))
           \o FlattenSeq([i \in DOMAIN v.items |-> Tagged(v.items[i])])
    [] v.kind = "object" ->
         Counted(Tags.object, Tags.empty_object, Len(v.entries))
           \o FlattenSeq([i \in DOMAIN v.entries |->
                Buffer(v.entries[i].key) \o Tagged(v.entries[i].value)])
    [] OTHER -> Refused

-----------------------------------------------------------------------------
(* Decoder.                                                                 *)

Torn == [value |-> "torn", at |-> 0]
Read(v, at) == [value |-> v, at |-> at]
Apply(Op(_), r) == IF r.at = 0 THEN Torn ELSE Read(Op(r.value), r.at)

\* What is read next, from where r ends.
Then(r, Next(_, _)) == IF r.at = 0 THEN Torn ELSE Next(r.value, r.at)

ReadU8(bytes, at) == IF at \in DOMAIN bytes THEN Read(bytes[at], at + 1) ELSE Torn

\* The groups up to the first byte without the high bit, the lowest first.
ReadVarint(bytes, at) ==
  LET ends == {i \in DOMAIN bytes : i >= at /\ bytes[i] < 128}
      last == CHOOSE i \in ends : \A j \in ends : i <= j
  IN IF at = 0 \/ ends = {} THEN Torn
     ELSE Read(FoldRight(LAMBDA b, sum : sum * 128 + (b % 128), SubSeq(bytes, at, last), 0), last + 1)

ReadZigZag(bytes, at) ==
  Apply(LAMBDA u : IF u % 2 = 0 THEN u \div 2 ELSE -(u \div 2) - 1, ReadVarint(bytes, at))

ReadRaw(bytes, at, len) ==
  IF at = 0 \/ at + len > Len(bytes) + 1 THEN Torn ELSE Read(SubSeq(bytes, at, at + len - 1), at + len)

ReadBuffer(bytes, at) ==
  Then(ReadVarint(bytes, at), LAMBDA len, next : ReadRaw(bytes, next, len))

Number4(b) == b[1] + 256 * b[2] + 65536 * b[3] + 16777216 * b[4]
ReadF32(bytes, at) == Apply(LAMBDA b : 2 * (Number4(b) - 2^27), ReadRaw(bytes, at, 4))
ReadF64(bytes, at) == Apply(LAMBDA b : Number4(b) - 2^27, ReadRaw(bytes, at, 8))

\* `reader` n times, the values in a sequence.
ReadEach(Reader(_, _), n, bytes, at) ==
  FoldLeft(LAMBDA acc, i : Then(acc, LAMBDA done, next :
                             Apply(LAMBDA v : Append(done, v), Reader(bytes, next))),
           Read(<<>>, at), [i \in 1..n |-> i])

ReadTagSize(bytes, at) ==
  Then(ReadU8(bytes, at), LAMBDA byte, next :
    IF byte % 16 # 0 THEN Read([tag |-> byte \div 16, size |-> byte % 16], next)
    ELSE Apply(LAMBDA n : [tag |-> byte \div 16, size |-> n + 16], ReadVarint(bytes, next)))

CanConvertToNumber(n) == -(2^SafeBits) < n /\ n < 2^SafeBits
Converted(n) == IF CanConvertToNumber(n) THEN [kind |-> "number", q |-> 4 * n]
                ELSE [kind |-> "bigint", n |-> n]

RECURSIVE ReadAny(_, _)
ReadEntry(bytes, at) ==
  Then(ReadBuffer(bytes, at), LAMBDA key, next :
    Apply(LAMBDA v : [key |-> key, value |-> v], ReadAny(bytes, next)))

\* The value after its tag and size.
ReadBody(tag, size, bytes, at) ==
  CASE tag = Tags.null -> Read([kind |-> "null"], at)
    [] tag = Tags.undefined -> Read([kind |-> "undefined"], at)
    [] tag = Tags.boolean -> Read([kind |-> "boolean", yes |-> size = 1], at)
    [] tag = Tags.empty_string -> Read([kind |-> "string", text |-> <<>>], at)
    [] tag = Tags.empty_binary -> Read([kind |-> "binary", data |-> <<>>], at)
    [] tag = Tags.empty_array -> Read([kind |-> "array", items |-> <<>>], at)
    [] tag = Tags.empty_object -> Read([kind |-> "object", entries |-> <<>>], at)
    [] tag = Tags.string -> Apply(LAMBDA b : [kind |-> "string", text |-> b], ReadRaw(bytes, at, size))
    [] tag = Tags.binary -> Apply(LAMBDA b : [kind |-> "binary", data |-> b], ReadRaw(bytes, at, size))
    [] tag = Tags.number_integer -> Apply(Converted, ReadZigZag(bytes, at))
    [] tag = Tags.number_unsigned -> Apply(Converted, ReadVarint(bytes, at))
    [] tag = Tags.bigint_integer ->
         Apply(LAMBDA n : [kind |-> "bigint", n |-> n], ReadZigZag(bytes, at))
    [] tag = Tags.bigint_unsigned ->
         Apply(LAMBDA n : [kind |-> "bigint", n |-> n], ReadVarint(bytes, at))
    [] tag = Tags.number_float ->
         Apply(LAMBDA q : [kind |-> "number", q |-> q],
               IF size = 4 THEN ReadF32(bytes, at) ELSE ReadF64(bytes, at))
    [] tag = Tags.array ->
         Apply(LAMBDA s : [kind |-> "array", items |-> s], ReadEach(ReadAny, size, bytes, at))
    [] OTHER ->
         Apply(LAMBDA s : [kind |-> "object", entries |-> s], ReadEach(ReadEntry, size, bytes, at))

ReadAny(bytes, at) ==
  Then(ReadTagSize(bytes, at), LAMBDA ts, next : ReadBody(ts.tag, ts.size, bytes, next))

-----------------------------------------------------------------------------
(* Scalars by their name in scalarMethods.                                  *)

WriteScalar(type, v) ==
  CASE type = "bool" -> U8(IF v THEN 1 ELSE 0)
    [] type = "u8"  -> U8(v)
    [] type = "i8"  -> Ranged(v, -128, 127, U8(v % 256))
    [] type = "u16" -> Unsigned(v, HalfBits)
    [] type = "i16" -> Signed(v, HalfBits)
    [] type = "u32" -> Unsigned(v, WordBits)
    [] type \in {"i32", "enum"} -> Signed(v, WordBits)
    [] type = "u64" -> Unsigned(v, LongBits)
    [] type = "i64" -> Signed(v, LongBits)
    [] type = "f32" -> F32(v)
    [] type = "f64" -> F64(v)
    [] type \in {"string", "bytes"} -> Buffer(v)
    [] type = "any" -> Tagged(v)

ReadScalar(type, bytes, at) ==
  CASE type = "bool" -> Apply(LAMBDA b : b # 0, ReadU8(bytes, at))
    [] type = "u8"  -> ReadU8(bytes, at)
    [] type = "i8"  -> Apply(LAMBDA b : IF b > 127 THEN b - 256 ELSE b, ReadU8(bytes, at))
    [] type \in {"u16", "u32", "u64"} -> ReadVarint(bytes, at)
    [] type \in {"i16", "i32", "enum", "i64"} -> ReadZigZag(bytes, at)
    [] type = "f32" -> ReadF32(bytes, at)
    [] type = "f64" -> ReadF64(bytes, at)
    [] type \in {"string", "bytes"} -> ReadBuffer(bytes, at)
    [] type = "any" -> ReadAny(bytes, at)

-----------------------------------------------------------------------------
(* Frames: packed component ids, component and relationship snapshots,      *)
(* state diffs, RPC messages, and the two messages with their tagged        *)
(* fields.  An optional part is a sequence of at most one element.          *)

AllComponents == 0

Pack(eid, wireType) ==
  Ranged(eid, 0, 2^(WordBits - TypeShift) - 1,
         Ranged(wireType, 0, 2^TypeShift - 1, U32(eid * 2^TypeShift + wireType)))
Unpack(cid) == <<cid \div 2^TypeShift, cid % 2^TypeShift>>

List(Write(_), items) == U32(Len(items)) \o FlattenSeq([i \in DOMAIN items |-> Write(items[i])])
Opt(Write(_), part) == FlattenSeq([i \in DOMAIN part |-> Write(part[i])])
ReadList(Reader(_, _), bytes, at) ==
  Then(ReadVarint(bytes, at), LAMBDA count, next : ReadEach(Reader, count, bytes, next))

-----------------------------------------------------------------------------
(* Snapshots.                                                               *)

SnapshotChunks(s) == Pack(s.eid, s.type) \o Buffer(s.payload)
ReadSnapshot(bytes, at) ==
  Then(ReadVarint(bytes, at), LAMBDA cid, next :
    Apply(LAMBDA b : [eid |-> Unpack(cid)[1], type |-> Unpack(cid)[2], payload |-> b],
          ReadBuffer(bytes, next)))

\* A relationship without fields: the edges are its whole payload.
EdgeChunks(targets) == List(U32, targets)
ReadEdges(bytes, at) ==
  Then(ReadList(ReadVarint, bytes, at), LAMBDA edges, next :
    IF next = Len(bytes) + 1 /\ edges # <<>> /\ IsInjective(edges) /\ ~Contains(edges, 0)
    THEN Read(edges, next) ELSE Torn)

-----------------------------------------------------------------------------
(* StateDiff.                                                               *)

RemovalChunks(r) == Pack(r[1], r[2])

DiffChunks(d) ==
  U32(d.to) \o U32(d.from) \o List(Buffer, d.snapshots)
    \o U32(Len(d.removed) + Len(d.resets))
    \o FlattenSeq([i \in DOMAIN d.removed |-> RemovalChunks(d.removed[i])])
    \o FlattenSeq([i \in DOMAIN d.resets |->
         Pack(d.resets[i][1], AllComponents) \o U32(d.to - d.resets[i][2])])

\* One entry of the removed section: <<eid, type>>, or <<eid, 0, distance>>.
ReadRemoval(bytes, at) ==
  Then(ReadVarint(bytes, at), LAMBDA cid, next :
    IF Unpack(cid)[2] # AllComponents THEN Read(Unpack(cid), next)
    ELSE Apply(LAMBDA n : Append(Unpack(cid), n), ReadVarint(bytes, next)))

IsReset(entry) == Len(entry) = 3
Removals(entries) == SelectSeq(entries, LAMBDA e : ~IsReset(e))
Resets(entries, to) ==
  LET chosen == SelectSeq(entries, IsReset) IN [i \in DOMAIN chosen |-> <<chosen[i][1], to - chosen[i][3]>>]

ReadDiff(bytes, at) ==
  Then(ReadEach(ReadVarint, 2, bytes, at), LAMBDA frames, tail :
    Then(ReadList(ReadBuffer, bytes, tail), LAMBDA snapshots, next :
      Apply(LAMBDA entries : [to |-> frames[1], from |-> frames[2], snapshots |-> snapshots,
                              removed |-> Removals(entries), resets |-> Resets(entries, frames[1])],
            ReadList(ReadRemoval, bytes, next))))

-----------------------------------------------------------------------------
(* RPC messages.                                                            *)

RpcChunks(r) ==
  U32(r.rpcId) \o U32(r.callId) \o U32(r.error) \o Buffer(r.message) \o List(Tagged, r.params)

ReadRpc(bytes, at) ==
  Then(ReadEach(ReadVarint, 3, bytes, at), LAMBDA head, tail :
    Then(ReadBuffer(bytes, tail), LAMBDA message, next :
      Apply(LAMBDA params : [rpcId |-> head[1], callId |-> head[2], error |-> head[3],
                             message |-> message, params |-> params],
            ReadList(ReadAny, bytes, next))))

-----------------------------------------------------------------------------
(* Server2Client and Client2Server.                                         *)

Fields == [diff |-> 1, rpc |-> 2, input |-> 3, close |-> 4, settled |-> 5, optimistic |-> 6, gap |-> 7]

RpcField(calls) == IF calls = <<>> THEN <<>> ELSE U8(Fields.rpc) \o List(RpcChunks, calls)
SettledField(below) == IF below = 0 THEN <<>> ELSE U8(Fields.settled) \o U32(below)
Flag(tag, on) == IF on THEN U8(tag) ELSE <<>>

CloseFlags(c) == Len(c.code) + 2 * Len(c.reason)
CloseChunks(c) == U8(Fields.close) \o U8(CloseFlags(c)) \o Opt(U32, c.code) \o Opt(Buffer, c.reason)

ServerFrameChunks(m) ==
  Opt(LAMBDA d : U8(Fields.diff) \o DiffChunks(d), m.diff)
    \o RpcField(m.rpc) \o SettledField(m.settled)
    \o Flag(Fields.optimistic, m.optimistic) \o Opt(CloseChunks, m.close)

ClientFrameChunks(m) ==
  U32(m.ack) \o Opt(LAMBDA v : U8(Fields.input) \o Tagged(v), m.input)
    \o RpcField(m.rpc) \o SettledField(m.settled) \o Flag(Fields.gap, m.gap)

ReadClose(bytes, at) ==
  Then(ReadU8(bytes, at), LAMBDA flags, tail :
    Then(ReadEach(ReadVarint, flags % 2, bytes, tail), LAMBDA code, next :
      Apply(LAMBDA reason : [code |-> code, reason |-> reason],
            ReadEach(ReadBuffer, flags \div 2, bytes, next))))

\* The decoder's loop: a field by its tag until the end, a tag of the other
\* direction or an unknown one throws.
RECURSIVE ReadFields(_, _, _, _)
ReadFields(allowed, bytes, at, m) ==
  LET tag == bytes[at]
      One(r) == Apply(LAMBDA v : <<v>>, r)
      Field(into, r) == Apply(LAMBDA v : [m EXCEPT ![into] = v], r)
      After ==
        CASE tag = Fields.diff -> Field("diff", One(ReadDiff(bytes, at + 1)))
          [] tag = Fields.rpc -> Field("rpc", Apply(LAMBDA s : m.rpc \o s, ReadList(ReadRpc, bytes, at + 1)))
          [] tag = Fields.input -> Field("input", One(ReadAny(bytes, at + 1)))
          [] tag = Fields.close -> Field("close", One(ReadClose(bytes, at + 1)))
          [] tag = Fields.settled -> Field("settled", ReadVarint(bytes, at + 1))
          [] tag = Fields.optimistic -> Field("optimistic", Read(TRUE, at + 1))
          [] tag = Fields.gap -> Field("gap", Read(TRUE, at + 1))
  IN IF at > Len(bytes) THEN Read(m, at)
     ELSE IF tag \notin allowed THEN Torn
     ELSE Then(After, LAMBDA filled, next : ReadFields(allowed, bytes, next, filled))

EmptyServerFrame == [diff |-> <<>>, rpc |-> <<>>, settled |-> 0, optimistic |-> FALSE, close |-> <<>>]
EmptyClientFrame(ack) == [ack |-> ack, input |-> <<>>, rpc |-> <<>>, settled |-> 0, gap |-> FALSE]

ReadServerFrame(bytes) == ReadFields({1, 2, 4, 5, 6}, bytes, 1, EmptyServerFrame)
ReadClientFrame(bytes) ==
  Then(ReadVarint(bytes, 1), LAMBDA ack, next :
    ReadFields({2, 3, 5, 7}, bytes, next, EmptyClientFrame(ack)))
=============================================================================
