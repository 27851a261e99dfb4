-------------------------------- MODULE Codec --------------------------------
(***************************************************************************)
(* The binary codec (spec section 4.1): size_of, send and recv of one      *)
(* value in PostgreSQL's binary wire format, as recursive operators over   *)
(* byte sequences.                                                         *)
(*                                                                         *)
(* jsonb (pg/types/jsonb.h) and std::array's fit_array_size                *)
(* (ext/std/array.h) are translated from the source.  The generic frame,   *)
(* composite and array codecs (io/*.h) are not part of this repository:    *)
(* they are taken from the spec and from the byte layouts the tests pin    *)
(* (tests/composite.cpp, tests/io/size_of.cpp).                            *)
(*                                                                         *)
(* A type is a record: int (int2, int4, int8), float (float4, float8),    *)
(* raw (text, bytea, name, json: the payload is the bytes), jsonb, opt     *)
(* (std::optional of a type), comp (a tuple or std::pair of field types),  *)
(* vec (std::vector, std::list) and arr (std::array of n elements).  A     *)
(* value of opt is [null |-> TRUE] or [null |-> FALSE, v |-> x]; a comp    *)
(* value is a tuple, a vec or arr value a sequence; a float is its bit     *)
(* pattern, and raw and jsonb values are byte strings.                     *)
(*                                                                         *)
(* The state machine is one column's trip through the wire: the value is   *)
(* sent as a parameter, the frame comes back as the column of a row        *)
(* (possibly altered on the way) and is received into the same type.      *)
(***************************************************************************)
EXTENDS Integers, Sequences

CONSTANTS
    Types,          \* the native types a column is read into
    IntVals,        \* integer values to explore (int2 takes those in its range)
    FloatVals,      \* float4 and float8 values, as their bit patterns in bytes
    TextVals,       \* byte strings for text, bytea, name, json and jsonb values
    MaxElems,       \* the longest std::vector explored
    JsonbVersions   \* jsonb binary format versions a server may send

\* The integer types and their widths in bytes (pg/types/integer.h).
IntWidth == [int2 |-> 2, int4 |-> 4, int8 |-> 8]

\* The floating-point types and their widths (pg/types/float.h).
FloatWidth == [float4 |-> 4, float8 |-> 8]

IntType(n) == [k |-> "int", name |-> n, w |-> IntWidth[n]]
FloatType(n) == [k |-> "float", name |-> n, w |-> FloatWidth[n]]
Int2 == IntType("int2")
Int4 == IntType("int4")
Int8 == IntType("int8")
Float4 == FloatType("float4")
Float8 == FloatType("float8")

\* std::string and std::string_view are bound to text (ext/std/string.h).
Text == [k |-> "raw", name |-> "text"]
\* pg::bytea, a strong typedef of std::vector<char> (pg/types/bytea.h).
Bytea == [k |-> "raw", name |-> "bytea"]
\* pg::name, a strong typedef of std::string (pg/types/name.h).
Name == [k |-> "raw", name |-> "name"]
\* pg::json, a strong typedef of std::string (pg/types/json.h).
Json == [k |-> "raw", name |-> "json"]
\* pg::jsonb holds its raw string (pg/types/jsonb.h).
Jsonb == [k |-> "jsonb", name |-> "jsonb"]

Opt(t) == [k |-> "opt", of |-> t]
Comp(fs) == [k |-> "comp", fields |-> fs]
\* std::pair<T1, T2> is a composite of two fields bound to record
\* (ext/std/pair.h).
Pair(t1, t2) == Comp(<<t1, t2>>)
\* std::vector and std::list are one-dimensional arrays (ext/std/vector.h,
\* ext/std/list.h); std::array<T, n> one of fixed size (ext/std/array.h).
Vec(t) == [k |-> "vec", of |-> t, container |-> "vector"]
List(t) == [k |-> "vec", of |-> t, container |-> "list"]
Arr(t, n) == [k |-> "arr", of |-> t, n |-> n]

Null == [null |-> TRUE]
Engaged(x) == [null |-> FALSE, v |-> x]

Bytes == 0..255

\* The built-in pg_type oids of the types bound above, and of their arrays.
Catalogue == [int2 |-> 21, int4 |-> 23, int8 |-> 20, float4 |-> 700, float8 |-> 701,
              text |-> 25, bytea |-> 17, name |-> 19, json |-> 114, jsonb |-> 3802,
              record |-> 2249]
ArrayCatalogue == [int2 |-> 1005, int4 |-> 1007, int8 |-> 1016, float4 |-> 1021,
                   float8 |-> 1022, text |-> 1009, bytea |-> 1001, name |-> 1003,
                   json |-> 199, jsonb |-> 3807, record |-> 2287]

\* The type name a type is bound to: an optional is its value type, a tuple
\* a record.
RECURSIVE TypeName(_)
TypeName(t) ==
    CASE t.k = "opt"  -> TypeName(t.of)
      [] t.k = "comp" -> "record"
      [] t.k \in {"vec", "arr"} -> "_" \o TypeName(t.of)
      [] OTHER -> t.name

\* The wire type id of each type.
OidOf(t) ==
    LET base == IF t.k = "opt" THEN t.of ELSE t IN
    IF base.k \in {"vec", "arr"} THEN ArrayCatalogue[TypeName(base.of)]
    ELSE Catalogue[TypeName(base)]

IsNullValue(t, v) == t.k = "opt" /\ v.null

-----------------------------------------------------------------------------
(***************************************************************************)
(* Big-endian integers of w bytes, two's complement for negative values.   *)
(***************************************************************************)
RECURSIVE BigEndian(_, _)
BigEndian(m, w) == IF w = 0 THEN <<>> ELSE BigEndian(m \div 256, w - 1) \o <<m % 256>>

\* Writes the magnitude as if it were unsigned, shifting without masking.
I32Unsigned(n) == << n \div 2^24, (n \div 2^16) % 256, (n \div 2^8) % 256, n % 256 >>

IntBytes(n, w) == IF n >= 0 THEN BigEndian(n, w)
                  ELSE [i \in 1..w |-> 255 - BigEndian(-n - 1, w)[i]]

I32(n) == IntBytes(n, 4)

RECURSIVE Unsigned(_)
Unsigned(b) == IF b = <<>> THEN 0 ELSE Unsigned(SubSeq(b, 1, Len(b) - 1)) * 256 + b[Len(b)]

\* The value of big-endian two's complement bytes.
IntVal(b) ==
    IF b[1] < 128 THEN Unsigned(b)
    ELSE (0 - Unsigned([i \in DOMAIN b |-> 255 - b[i]])) - 1

I32Val(b) == IntVal(b)

-----------------------------------------------------------------------------
(***************************************************************************)
(* The values of a type, bounded by the constants.                         *)
(***************************************************************************)
RECURSIVE Vals(_), TupleVals(_)
Vals(t) ==
    CASE t.k = "int"   -> {n \in IntVals : t.w > 2 \/ (-32768 <= n /\ n <= 32767)}
      [] t.k = "float" -> {v \in FloatVals : Len(v) = t.w}
      [] t.k \in {"raw", "jsonb"} -> TextVals
      [] t.k = "opt"   -> {Null} \cup {Engaged(x) : x \in Vals(t.of)}
      [] t.k = "comp"  -> TupleVals(t.fields)
      [] t.k = "vec"   -> UNION {[1..n -> Vals(t.of)] : n \in 0..MaxElems}
      [] t.k = "arr"   -> [1..t.n -> Vals(t.of)]
TupleVals(fs) ==
    IF fs = <<>> THEN {<<>>}
    ELSE {<<x>> \o r : x \in Vals(Head(fs)), r \in TupleVals(Tail(fs))}

-----------------------------------------------------------------------------
(***************************************************************************)
(* size_of: the exact payload size.  jsonb counts its version byte; an     *)
(* unset optional has no payload; a data frame adds its 4-byte length      *)
(* (data_frame_size); a composite is 4 + sum(4 + 4 + size_of(field)); an   *)
(* array is its header plus one data frame per element.                    *)
(***************************************************************************)
\* Leaves out jsonb's version byte.
SizeOfJsonbNoVersion(v) == Len(v)

SizeOfJsonb(v) == Len(v) + 1

RECURSIVE SizeOf(_, _), DataFrameSize(_, _), FieldsSize(_, _), ElemsSize(_, _)
SizeOf(t, v) ==
    CASE t.k \in {"int", "float"} -> t.w
      [] t.k = "raw"   -> Len(v)
      [] t.k = "jsonb" -> SizeOfJsonb(v)
      [] t.k = "opt"   -> IF v.null THEN 0 ELSE SizeOf(t.of, v.v)
      [] t.k = "comp"  -> 4 + FieldsSize(t.fields, v)
      [] t.k \in {"vec", "arr"} ->
            12 + (IF v = <<>> THEN 0 ELSE 8) + ElemsSize(t.of, v)
DataFrameSize(t, v) == 4 + SizeOf(t, v)
FieldsSize(fs, vs) ==
    IF fs = <<>> THEN 0
    ELSE 4 + DataFrameSize(Head(fs), Head(vs)) + FieldsSize(Tail(fs), Tail(vs))
ElemsSize(t, vs) ==
    IF vs = <<>> THEN 0 ELSE DataFrameSize(t, Head(vs)) + ElemsSize(t, Tail(vs))

(***************************************************************************)
(* send: scalars in network byte order; jsonb as version 1 and the text;   *)
(* a composite as its field count and, per field, the field's type id and  *)
(* data frame; an array as ndim, flags, element type id, (size, lower      *)
(* bound) per dimension and the element data frames.  A data frame is the  *)
(* payload's size_of and the payload, or length -1 for a NULL.             *)
(***************************************************************************)
\* send_impl<jsonb>: the format version 1, then the text.
SendJsonb(v) == <<1>> \o v

RECURSIVE Send(_, _), DataFrame(_, _), FieldFrames(_, _), ElemFrames(_, _)
ArrayHeader(t, n) ==
    IF n = 0 THEN I32(0) \o I32(0) \o I32(OidOf(t.of))
    ELSE I32(1) \o I32(0) \o I32(OidOf(t.of)) \o I32(n) \o I32(1)
Send(t, v) ==
    CASE t.k = "int"   -> IntBytes(v, t.w)
      [] t.k \in {"raw", "float"} -> v
      [] t.k = "jsonb" -> SendJsonb(v)
      [] t.k = "opt"   -> Send(t.of, v.v)
      [] t.k = "comp"  -> I32(Len(t.fields)) \o FieldFrames(t.fields, v)
      [] t.k \in {"vec", "arr"} -> ArrayHeader(t, Len(v)) \o ElemFrames(t.of, v)
DataFrame(t, v) ==
    IF IsNullValue(t, v) THEN I32(-1) ELSE I32(SizeOf(t, v)) \o Send(t, v)
FieldFrames(fs, vs) ==
    IF fs = <<>> THEN <<>>
    ELSE I32(OidOf(Head(fs))) \o DataFrame(Head(fs), Head(vs))
           \o FieldFrames(Tail(fs), Tail(vs))
ElemFrames(t, vs) ==
    IF vs = <<>> THEN <<>> ELSE DataFrame(t, Head(vs)) \o ElemFrames(t, Tail(vs))

\* A column as libpq presents it: its type id, its null flag, its bytes.
Frame(t, v) ==
    [oid |-> OidOf(t), null |-> IsNullValue(t, v),
     bytes |-> IF IsNullValue(t, v) THEN <<>> ELSE Send(t, v)]

-----------------------------------------------------------------------------
(***************************************************************************)
(* recv: reads a value of type t from bytes b at position p, given the     *)
(* size its frame declares.  A result is Ok(value, next position) or       *)
(* Err(error).  Reading past the end of the bytes is a range error.        *)
(***************************************************************************)
Ok(v, p) == [ok |-> TRUE, val |-> v, pos |-> p, err |-> "none"]
Err(e) == [ok |-> FALSE, val |-> <<>>, pos |-> 0, err |-> e]

Fits(b, p, n) == p + n - 1 <= Len(b)

\* Reads k big-endian 4-byte integers.
ReadI32s(b, p, k) ==
    IF Fits(b, p, 4 * k)
      THEN Ok([i \in 1..k |-> I32Val(SubSeq(b, p + 4 * (i - 1), p + 4 * i - 1))],
              p + 4 * k)
      ELSE Err("range_error")
ReadI32(b, p) ==
    LET r == ReadI32s(b, p, 1) IN IF r.ok THEN Ok(r.val[1], r.pos) ELSE r

\* Reads size bytes, the first of them as the format version.
RecvJsonbReadingAll(b, p, size) ==
    IF size < 1 \/ ~Fits(b, p, size) THEN Err("range_error")
    ELSE Ok(SubSeq(b, p, p + size - 1), p + size)

\* recv_impl<jsonb>: a size below 1 is a range error; the version byte is
\* read and ignored, the remaining size - 1 bytes are the text.
RecvJsonb(b, p, size) ==
    IF size < 1 THEN Err("range_error")
    ELSE IF ~Fits(b, p, size) THEN Err("range_error")
    ELSE Ok(SubSeq(b, p + 1, p + size - 1), p + size)

\* fit_array_size: a std::array takes exactly its own size; a std::vector
\* is resized to n.
FitArraySize(t, n) == IF t.k = "arr" /\ n # t.n THEN "bad_array_size" ELSE "ok"

\* Reads the composite's fields without checking the count it declares.
CheckFieldCountNone(t, n) == TRUE

\* The field count read must be the number of fields of the aggregate.
CheckFieldCount(t, n) == n = Len(t.fields)

RECURSIVE Recv(_, _, _, _), RecvPayload(_, _, _, _), RecvFrame(_, _, _),
          RecvFields(_, _, _), RecvElems(_, _, _, _)
\* An array frame: ndim (0 or 1), flags, element type id, then for one
\* dimension its size and lower bound, then the element frames.
RecvArray(t, b, p) ==
    LET h == ReadI32s(b, p, 3) IN
    IF ~h.ok THEN h
    ELSE IF h.val[1] \notin {0, 1} THEN Err("bad_array_dimension")
    ELSE IF h.val[3] # OidOf(t.of) THEN Err("oid_type_mismatch")
    ELSE LET d == IF h.val[1] = 0 THEN Ok(<<0, 1>>, h.pos) ELSE ReadI32s(b, h.pos, 2)
         IN IF ~d.ok THEN d
            ELSE IF FitArraySize(t, d.val[1]) # "ok" THEN Err(FitArraySize(t, d.val[1]))
            ELSE RecvElems(t.of, d.val[1], b, d.pos)
Recv(t, b, p, size) ==
    CASE t.k = "int"   -> IF size # t.w THEN Err("bad_size")
                          ELSE IF ~Fits(b, p, size) THEN Err("range_error")
                          ELSE Ok(IntVal(SubSeq(b, p, p + size - 1)), p + size)
      [] t.k = "float" -> IF size # t.w THEN Err("bad_size")
                          ELSE IF ~Fits(b, p, size) THEN Err("range_error")
                          ELSE Ok(SubSeq(b, p, p + size - 1), p + size)
      [] t.k = "raw"   -> IF Fits(b, p, size) THEN Ok(SubSeq(b, p, p + size - 1), p + size)
                          ELSE Err("range_error")
      [] t.k = "jsonb" -> RecvJsonb(b, p, size)
      [] t.k = "opt"   -> LET r == Recv(t.of, b, p, size) IN
                          IF r.ok THEN Ok(Engaged(r.val), r.pos) ELSE r
      [] t.k = "comp"  -> LET c == ReadI32(b, p) IN
                          IF ~c.ok THEN c
                          ELSE IF ~CheckFieldCount(t, c.val) THEN Err("bad_object_size")
                          ELSE RecvFields(t.fields, b, c.pos)
      [] t.k \in {"vec", "arr"} -> RecvArray(t, b, p)
\* The payload must end exactly where its declared size says.
RecvPayload(t, b, p, size) ==
    LET r == Recv(t, b, p, size) IN
    IF r.ok /\ r.pos # p + size THEN Err("bad_size") ELSE r
\* A data frame: its length (-1 is NULL, for a nullable type only), then
\* the payload.
RecvFrame(t, b, p) ==
    LET s == ReadI32(b, p) IN
    IF ~s.ok THEN s
    ELSE IF s.val = -1 THEN IF t.k = "opt" THEN Ok(Null, s.pos)
                             ELSE Err("unexpected_null")
    ELSE IF s.val < 0 THEN Err("bad_size")
    ELSE RecvPayload(t, b, s.pos, s.val)
\* A composite field: its type id must be the field type's, then its frame.
RecvFields(fs, b, p) ==
    IF fs = <<>> THEN Ok(<<>>, p)
    ELSE LET o == ReadI32(b, p) IN
         IF ~o.ok THEN o
         ELSE IF o.val # OidOf(Head(fs)) THEN Err("oid_type_mismatch")
         ELSE LET f == RecvFrame(Head(fs), b, o.pos) IN
              IF ~f.ok THEN f
              ELSE LET r == RecvFields(Tail(fs), b, f.pos) IN
                   IF ~r.ok THEN r ELSE Ok(<<f.val>> \o r.val, r.pos)
RecvElems(t, n, b, p) ==
    IF n <= 0 THEN Ok(<<>>, p)
    ELSE LET f == RecvFrame(t, b, p) IN
         IF ~f.ok THEN f
         ELSE LET r == RecvElems(t, n - 1, b, f.pos) IN
              IF ~r.ok THEN r ELSE Ok(<<f.val>> \o r.val, r.pos)

\* recv(value, oid_map, out) on a column: its type id must be the type's,
\* a NULL needs a nullable type, and the payload is the column's bytes.
Decode(t, f) ==
    IF f.oid # OidOf(t) THEN Err("oid_type_mismatch")
    ELSE IF f.null THEN IF t.k = "opt" THEN Ok(Null, 1) ELSE Err("unexpected_null")
    ELSE RecvPayload(t, f.bytes, 1, Len(f.bytes))

-----------------------------------------------------------------------------
(***************************************************************************)
(* What can happen to a frame between send and recv: a short read drops    *)
(* its last bytes; the count a composite or array starts with, or an       *)
(* array's dimension size, is off by one; the column has another type; the *)
(* column is NULL; a jsonb payload is in another format version.           *)
(***************************************************************************)
Patch(b, i, d) ==
    SubSeq(b, 1, i - 1) \o I32(I32Val(SubSeq(b, i, i + 3)) + d) \o SubSeq(b, i + 4, Len(b))

Corruptions(t, f) ==
    LET b == f.bytes
        base == IF t.k = "opt" THEN t.of ELSE t
    IN ( {[f EXCEPT !.bytes = SubSeq(b, 1, Len(b) - k)] : k \in {k \in {1, 4} : k <= Len(b)}}
         \cup {[f EXCEPT !.bytes = Patch(b, 1, d)] :
                 d \in IF base.k \in {"comp", "vec", "arr"} /\ Len(b) >= 4 THEN {-1, 1} ELSE {}}
         \cup {[f EXCEPT !.bytes = Patch(b, 13, d)] :
                 d \in IF base.k \in {"vec", "arr"} /\ Len(b) >= 16 THEN {-1, 1} ELSE {}}
         \cup {[f EXCEPT !.oid = IF f.oid = 25 THEN 23 ELSE 25]}
         \cup {[f EXCEPT !.null = TRUE, !.bytes = <<>>]}
         \cup {[f EXCEPT !.bytes = <<v>> \o Tail(b)] :
                 v \in IF base.k = "jsonb" /\ b # <<>> THEN JsonbVersions ELSE {}} )
       \ {f}

-----------------------------------------------------------------------------
(***************************************************************************)
(* impl/query.h: a query is its text and the tuple of its parameters, each *)
(* parameter a native value of its type (here the record [t, v]).          *)
(***************************************************************************)
MakeQuery(text, params) == [text |-> text, params |-> params]
GetQueryText(q) == q.text
GetQueryParams(q) == q.params

\* The statement of the request tests ("SELECT "_SQL + value): its one
\* column is parameter $1, which the server sends back in the binary frame
\* it was bound with.
EchoText == "SELECT $1"
Echo(q) == LET p == GetQueryParams(q)[1] IN Frame(p.t, p.v)

-----------------------------------------------------------------------------
VARIABLES
    query,   \* the query sent, or NoQuery before send
    type,    \* the native type of the column
    value,   \* the value sent
    frame,   \* the column on the wire, or NoFrame before send
    out,     \* the result of recv, or NoResult before it
    stage    \* "native", "wire" or "received"

vars == <<query, type, value, frame, out, stage>>

NoFrame == [oid |-> 0, null |-> TRUE, bytes |-> <<>>]
NoResult == Err("none")
NoQuery == MakeQuery("", <<>>)

\* The value is sent as the parameter of the echo query, and comes back as
\* its column.
SendValue ==
    /\ stage = "native"
    /\ query' = MakeQuery(EchoText, <<[t |-> type, v |-> value]>>)
    /\ frame' = Echo(query')
    /\ stage' = "wire"
    /\ UNCHANGED <<type, value, out>>

\* The frame is altered on its way back, at most once.
Corrupt ==
    /\ stage = "wire" /\ frame = Frame(type, value)
    /\ frame' \in Corruptions(type, frame)
    /\ UNCHANGED <<query, type, value, out, stage>>

\* The column is received into the type.
RecvValue ==
    /\ stage = "wire"
    /\ out' = Decode(type, frame)
    /\ stage' = "received"
    /\ UNCHANGED <<query, type, value, frame>>

Init ==
    /\ type \in Types
    /\ value \in Vals(type)
    /\ query = NoQuery
    /\ frame = NoFrame
    /\ out = NoResult
    /\ stage = "native"

Next == SendValue \/ Corrupt \/ RecvValue

Spec == Init /\ [][Next]_vars

-----------------------------------------------------------------------------
Errors == {"none", "range_error", "bad_size", "bad_object_size", "bad_array_size",
           "bad_array_dimension", "oid_type_mismatch", "unexpected_null"}

TypeOK ==
    /\ type \in Types /\ value \in Vals(type)
    /\ stage \in {"native", "wire", "received"}
    /\ GetQueryText(query) \in {"", EchoText}
    /\ \A i \in DOMAIN GetQueryParams(query) :
         LET p == GetQueryParams(query)[i] IN p.t \in Types /\ p.v \in Vals(p.t)
    /\ frame.oid \in Nat /\ frame.null \in BOOLEAN
    /\ frame.bytes \in Seq(Bytes)
    /\ out.ok \in BOOLEAN /\ out.err \in Errors

(* Round trip (spec section 8): a column received as it was sent decodes  *)
(* to the value sent, through nested composites, optionals and arrays.    *)
RoundTrip ==
    (stage = "received" /\ frame = Frame(type, value)) => out.ok /\ out.val = value

(* size_of is exact: the payload send writes for a value has exactly the  *)
(* size size_of computes for it (jsonb's version byte and the frame       *)
(* headers of every nested field and element included).                   *)
SizeExact ==
    stage # "native" /\ frame = Frame(type, value) /\ ~frame.null
        => Len(frame.bytes) = SizeOf(type, value)

(* Nothing is silently dropped or misread (spec section 4.1): whatever    *)
(* recv accepts is a value whose column is exactly the frame received; a  *)
(* wrong field count, a short frame, a wrong dimension size, a wrong type *)
(* id or an unexpected NULL is an error.                                  *)
NoSilentCorruption ==
    (stage = "received" /\ out.ok) => Frame(type, out.val) = frame

=============================================================================
