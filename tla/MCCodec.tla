------------------------------- MODULE MCCodec -------------------------------
(* Column types and values for checking the codec.                          *)
EXTENDS Codec

\* Every bound scalar type; an optional; composites with an optional and a
\* jsonb field, with a nested composite and with a vector field; a
\* std::pair; a vector, a list and a std::array.
MCTypes ==
    { Int2, Int4, Int8, Float4, Float8, Text, Bytea, Name, Json, Jsonb, Opt(Int4),
      Comp(<<Text, Int4>>),
      Comp(<<Opt(Int4), Jsonb>>),
      Comp(<<Comp(<<Int4>>), Opt(Text)>>),
      Pair(Int2, Name),
      Vec(Int4), List(Int8), Arr(Int4, 2), Comp(<<Vec(Int4)>>) }

\* -1 takes the two's complement path, 258 spans two bytes, -32768 is the
\* least int2 and fills int4 and int8 with sign bytes.
MCIntVals == {-1, 258, -32768}

\* 1.0f and 0.0f as float4, 1.0 as float8.
MCFloatVals == {<<63, 128, 0, 0>>, <<0, 0, 0, 0>>, <<63, 240, 0, 0, 0, 0, 0, 0>>}

\* "" and "{}".
MCTextVals == {<<>>, <<123, 125>>}
=============================================================================
