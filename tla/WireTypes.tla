------------------------------- MODULE WireTypes -------------------------------
(***************************************************************************)
(* The codecs a process compiles for its classes, on first use, from what  *)
(* the class chain has declared by then; and one sheet of an Encoder that  *)
(* values and frames are written to.                                       *)
(*                                                                         *)
(* Two processes load the same classes and use them in different orders.   *)
(* A codec is a property of the class, or of the nearest base that has     *)
(* one.  Shipping an instance encodes it in one process and decodes it in  *)
(* the other; its bytes are told by the classes and the fields they stand  *)
(* for.                                                                    *)
(***************************************************************************)
EXTENDS WireCodec, FiniteSetsExt

CONSTANTS
  Peers,       \* the processes
  Classes,
  Families,    \* bound of the model: the classes one behaviour uses
  Chain,       \* for each class, its bases and itself, base first
  Wired,       \* for each class, the fields @wireType declares (legacy decorators)
  Fielded,     \* the same with standard decorators, registered by `new`
  Reflected,   \* the members @type declares
  Fluent,      \* the members world.component(C).member() declares at run time
  TagClasses,  \* the classes marked by tag()
  Nested,      \* the class of a field whose spec is a class
  Items,       \* the values written to a sheet: [type, v]
  WireFrames,     \* the frames written to a sheet: [type, v]
  Rooms,       \* the sizes of the buffer
  MaxItems     \* bound of the model: values on a sheet

ASSUME TypesAssumption ==
  /\ TagClasses \subseteq Classes
  /\ \A c \in Classes : Chain[c] # <<>> /\ Last(Chain[c]) = c
  /\ \A c \in Classes : ToSet(Wired[c]) \cap ToSet(Fielded[c]) = {}
  /\ \A f \in DOMAIN Nested : Fielded[Nested[f]] = <<>> /\ Chain[Nested[f]] = <<Nested[f]>>

VARIABLES
  family,     \* the classes of this behaviour
  registry,   \* per process: [fields, codec, compiled, members, probed]
  shipped,    \* the latest instance: what was written and what was read
  sheet,      \* Encoder._buffer and _cursor
  page        \* history variable: what is on the sheet

wireVars == <<family, registry, shipped, sheet, page>>

NoCodec == [kind |-> "none", fields |-> <<>>, reflected |-> FALSE]
Trampoline == [NoCodec EXCEPT !.kind = "trampoline"]
Unregistered == <<"unregistered">>

-----------------------------------------------------------------------------
(* Declarations.                                                            *)

InstallTrampolines(r, c) == IF r.codec[c].kind = "none" THEN [r EXCEPT !.codec[c] = Trampoline] ELSE r

RegisterField(r, c, f) ==
  LET own == IF r.fields[c] = Unregistered THEN <<>> ELSE r.fields[c]
  IN IF Contains(own, f) THEN r
     ELSE InstallTrampolines([r EXCEPT !.fields[c] = Append(own, f), !.compiled = @ \ {c}], c)

\* `new C()`: the initializers of standard field decorators, base first,
\* register on the class that is constructed.
Constructed(r, c) ==
  FoldLeft(LAMBDA acc, f : RegisterField(acc, c, f), r,
           FlattenSeq([i \in DOMAIN Chain[c] |-> Fielded[Chain[c][i]]]))

Composed(declared, c) == FlattenSeq([i \in DOMAIN Chain[c] |-> declared[Chain[c][i]]])

Loaded ==
  [fields |-> [c \in Classes |-> IF Wired[c] = <<>> /\ c \notin TagClasses THEN Unregistered ELSE Wired[c]],
   codec |-> [c \in Classes |-> IF Wired[c] = <<>> /\ c \notin TagClasses THEN NoCodec ELSE Trampoline],
   compiled |-> {}, members |-> Reflected, probed |-> {}]

-----------------------------------------------------------------------------
(* compileWireType.                                                         *)

Registered(r, c) == {i \in DOMAIN Chain[c] : r.fields[Chain[c][i]] # Unregistered}

\* A field a base registers too is taken once, where the base has it.
WireFields(r, c) ==
  LET own(i) == IF i \in Registered(r, c) THEN r.fields[Chain[c][i]] ELSE <<>>
  IN FoldLeft(LAMBDA acc, f : IF Contains(acc, f) THEN acc ELSE Append(acc, f), <<>>,
              FlattenSeq([i \in DOMAIN Chain[c] |-> own(i)]))

Compiled(r, c) ==
  LET reflected == Registered(r, c) = {}
      fields == IF reflected THEN Composed(r.members, c) ELSE WireFields(r, c)
  IN IF c \in r.compiled \/ (reflected /\ fields = <<>>) THEN r
     ELSE [r EXCEPT !.codec[c] = [kind |-> "compiled", fields |-> fields, reflected |-> reflected],
                    !.compiled = @ \cup {c}]

\* The class whose codec an access on c finds: its own or the nearest base's.
Having(r, c) == {i \in DOMAIN Chain[c] : r.codec[Chain[c][i]].kind # "none"}
Owner(r, c) == Chain[c][Max(Having(r, c))]

\* An access that finds no codec, a trampoline, or the reflected codec of a base
\* compiles the class first.
Ready(r, c) ==
  IF \/ Having(r, c) = {}
     \/ r.codec[Owner(r, c)].kind = "trampoline"
     \/ r.codec[Owner(r, c)].reflected /\ Owner(r, c) # c
  THEN Compiled(r, c) ELSE r

-----------------------------------------------------------------------------
(* Encoding and decoding an instance: what is written, as the class of each *)
(* instance and the names of its fields, and the registry that results.     *)

RECURSIVE Encoding(_, _)
Encoding(r, c) ==
  LET ready == Ready(r, c)
      Step(acc, f) ==
        IF f \notin DOMAIN Nested THEN [acc EXCEPT !.marks = Append(@, f)]
        ELSE LET inner == Encoding(acc.r, Nested[f])
             IN [r |-> inner.r, marks |-> acc.marks \o inner.marks]
  IN FoldLeft(Step, [r |-> ready, marks |-> <<c>>], ready.codec[Owner(ready, c)].fields)

\* Decoder.read constructs a class without a codec once, for the decorators that
\* register by `new`.
Probed(r, c) ==
  IF Having(r, c) # {} THEN r
  ELSE Compiled(IF c \in r.probed THEN r ELSE Constructed([r EXCEPT !.probed = @ \cup {c}], c), c)

RECURSIVE Decoding(_, _)
Decoding(r, c) ==
  LET ready == Ready(Probed(r, c), c)
      made  == Owner(ready, c)
      Step(acc, f) ==
        IF f \notin DOMAIN Nested THEN [acc EXCEPT !.marks = Append(@, f)]
        ELSE LET inner == Decoding(acc.r, Nested[f])
             IN [r |-> inner.r, marks |-> acc.marks \o inner.marks]
  IN FoldLeft(Step, [r |-> Constructed(ready, made), marks |-> <<made>>], ready.codec[made].fields)

-----------------------------------------------------------------------------
(* What programs do.                                                        *)

Used(r, c) == \E d \in Classes : Contains(Chain[d], c) /\ d \in r.compiled

\* Reflection members are declared before the first network use, in every process.
DeclaredAll(p, c) == \A d \in ToSet(Chain[c]) : registry[p].members[d] = Reflected[d] \o Fluent[d]

\* A class below a wired or tagged base is read only if it declares something of
\* its own or nobody used its base before: else the base's codec answers for it.
ReadsAsItself(r, c) ==
  \/ Registered(Probed(r, c), c) = {}
  \/ Probed(r, c).codec[c].kind # "none"
  \/ Having(r, c) # {} /\ Fielded[c] = <<>> /\ r.codec[Owner(r, c)].kind = "trampoline"

Composite(p, c) ==
  LET fs == ToSet(Composed(Wired, c)) \cup ToSet(Composed(Fielded, c)) \cup ToSet(Composed(registry[p].members, c))
  IN {c} \cup {Nested[f] : f \in fs \cap DOMAIN Nested}

\* component(C).member(name, type)
Declare(p, c) ==
  /\ Fluent[c] # <<>> /\ registry[p].members[c] = Reflected[c]
  /\ ~Used(registry[p], c)
  /\ registry' = [registry EXCEPT ![p].members[c] = @ \o Fluent[c]]
  /\ UNCHANGED <<family, shipped, sheet, page>>

Construct(p, c) ==
  /\ registry' = [registry EXCEPT ![p] = Constructed(@, c)]
  /\ registry' # registry
  /\ UNCHANGED <<family, shipped, sheet, page>>

Ship(p, q, c) ==
  /\ p # q
  /\ \A peer \in {p, q}, d \in Composite(p, c) \cup Composite(q, c) : DeclaredAll(peer, d)
  /\ \A d \in Composite(q, c) : ReadsAsItself(registry[q], d)
  /\ \E out \in {Encoding(Constructed(registry[p], c), c)} :
       \E in \in {Decoding(registry[q], c)} :
         /\ registry' = [registry EXCEPT ![p] = out.r, ![q] = in.r]
         /\ shipped' = [sent |-> out.marks, got |-> in.marks]
  /\ UNCHANGED <<family, sheet, page>>

Chunks(item) ==
  CASE item.type = "server" -> ServerFrameChunks(item.v)
    [] item.type = "client" -> ClientFrameChunks(item.v)
    [] item.type = "snapshot" -> SnapshotChunks(item.v)
    [] item.type = "edges" -> EdgeChunks(item.v)
    [] OTHER -> WriteScalar(item.type, item.v)

\* A frame fills a sheet of its own; a caller gives a sheet up when a write threw.
IsWhole(item) == item.type \in {"server", "client", "edges"}

Write(item) ==
  /\ ~sheet.threw /\ Len(page) < MaxItems
  /\ page # <<>> => ~IsWhole(item) /\ ~IsWhole(Last(page))
  /\ sheet' = Encoded(sheet, Chunks(item))
  /\ page' = Append(page, item)
  /\ UNCHANGED <<family, registry, shipped>>

\* Encoder.reset, or a new Encoder.
Reset(room) ==
  /\ page # <<>>
  /\ sheet' = Sheet(room) /\ page' = <<>>
  /\ UNCHANGED <<family, registry, shipped>>

WireInit ==
  /\ family \in Families
  /\ registry = [p \in Peers |-> Loaded]
  /\ shipped = [sent |-> <<>>, got |-> <<>>]
  /\ sheet \in {Sheet(room) : room \in Rooms} /\ page = <<>>

TypesNext ==
  \/ \E p \in Peers, c \in family : Declare(p, c)
  \/ \E p \in Peers, c \in family : Construct(p, c)
  \/ \E p, q \in Peers, c \in family : Ship(p, q, c)

SheetNext ==
  \/ \E item \in Items \cup WireFrames : Write(item)
  \/ \E room \in Rooms : Reset(room)

-----------------------------------------------------------------------------
(* What the receiving side is owed.                                         *)

RECURSIVE Carried(_)
\* A tagged value as it arrives: an integer beyond the safe ones as a bigint.
Carried(v) ==
  CASE v.kind = "number" /\ v.q % 4 = 0 /\ v.q \div 4 \notin (1 - 2^SafeBits)..(2^SafeBits - 1) ->
         [kind |-> "bigint", n |-> v.q \div 4]
    [] v.kind = "array" -> [v EXCEPT !.items = [i \in DOMAIN @ |-> Carried(@[i])]]
    [] v.kind = "object" ->
         [v EXCEPT !.entries = [i \in DOMAIN @ |-> [@[i] EXCEPT !.value = Carried(@)]]]
    [] OTHER -> v

CarriedRpc(m) == [i \in DOMAIN m.rpc |->
  [m.rpc[i] EXCEPT !.params = [k \in DOMAIN @ |-> Carried(@[k])]]]

Owed(item) ==
  CASE item.type = "any" -> Carried(item.v)
    [] item.type = "f32" -> 2 * (item.v \div 2)
    [] item.type = "server" -> [item.v EXCEPT !.rpc = CarriedRpc(item.v)]
    [] item.type = "client" -> [item.v EXCEPT !.rpc = CarriedRpc(item.v),
                                              !.input = [i \in DOMAIN @ |-> Carried(@[i])]]
    [] OTHER -> item.v

ReadItem(item, bytes, at) ==
  CASE item.type = "server" -> ReadServerFrame(bytes)
    [] item.type = "client" -> ReadClientFrame(bytes)
    [] item.type = "snapshot" -> ReadSnapshot(bytes, at)
    [] item.type = "edges" -> ReadEdges(bytes, at)
    [] OTHER -> ReadScalar(item.type, bytes, at)

\* The values that the reading of the items finds before one is torn, and where it ends.
Found(got, r) == IF r.at = 0 THEN [got EXCEPT !.torn = TRUE]
                 ELSE [got EXCEPT !.values = Append(@, r.value), !.at = r.at]
Legible(items, bytes) ==
  FoldLeft(LAMBDA got, item : IF got.torn THEN got ELSE Found(got, ReadItem(item, bytes, got.at)),
           [values |-> <<>>, at |-> 1, torn |-> FALSE], items)
Worth(items) == [i \in DOMAIN items |-> Owed(items[i])]

(***************************************************************************)
(* What was written is read back, value by value, and the reader ends      *)
(* where the writer did.  When a write throws, the values before it are    *)
(* whole; and of the value that did not fit nothing that was left behind   *)
(* reads as a value (encoder.ts:52-69 puts the bytes in one by one).       *)
(***************************************************************************)
BytesAreValues ==
  page # <<>> =>
    \E got \in {Legible(page, sheet.bytes)}, worth \in {Worth(page)} :
      /\ Len(sheet.bytes) <= sheet.room
      /\ IF sheet.threw
         THEN IsWhole(Last(page)) \/ got.values = Front(worth)
         ELSE got.values = worth /\ got.at = Len(sheet.bytes) + 1

(***************************************************************************)
(* A class is read as it was written, whatever each process used first:    *)
(* the bases, the subclass, the classes in its fields (decorators.ts:      *)
(* 170-226).  A peer with another layout would take one field's bytes for  *)
(* another's.                                                              *)
(***************************************************************************)
LayoutsAgree == shipped.sent = shipped.got

\* What one side writes the other reads, in bytes and in the fields of classes.
CodecHolds == BytesAreValues /\ LayoutsAgree
=============================================================================
