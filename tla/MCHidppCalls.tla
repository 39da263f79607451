---------------------------- MODULE MCHidppCalls ----------------------------
(* An instance of HidppCalls for TLC. *)
EXTENDS HidppCalls

\* A mouse behind a receiver, a wired mouse that answers on two indices, and a
\* node on which nobody answers as HID++ 2.0.
Mouse == <<"name", "unit", "onboard", "extdpi", "rate", "unified", "reprog">>
Receiver == "FF" :> <<"fw">> @@ "00" :> << >> @@ "01" :> Mouse
Wired == "FF" :> <<"name", "friendly", "fw", "onboard", "dpi", "extrate">> @@ "00" :> <<"name", "fw">> @@ "01" :> << >>
Silent == "FF" :> << >> @@ "00" :> << >> @@ "01" :> << >>
Plugged == {Receiver, Wired, Silent}
Indices == <<"FF", "00", "01">>
Registers == "FF" :> {} @@ "00" :> {"07"} @@ "01" :> {}
Identities == "FF" :> [serial |-> "s1", model |-> "m1"] @@ "00" :> [serial |-> "s1", model |-> "m1"]
              @@ "01" :> [serial |-> "s2", model |-> "m2"]
Table == Receiver :> 2 @@ Wired :> 0 @@ Silent :> 3
Boltlike == {Silent}

\* 800, and on to 1600 by steps of 800 (0x320), in chunks of an odd number of bytes
\* that cut the words, as those of the code (13 and 15) do.
List == <<3, 32,  227, 32,  6, 64,  0, 0>>
Chunked(size, n) == [k \in 1..n |-> [j \in 1..size |-> LET b == size * (k - 1) + j IN IF b <= Len(List) THEN List[b] ELSE 0]]
Chunks == [extdpi |-> Chunked(3, 3), dpi |-> Chunked(5, 2)]
Rated == [rate |-> {500, 1000}, extrate |-> {1000, 2000}]
Coded == [rate |-> {500, 1000}, extrate |-> {500, 1000, 2000}]

\* 8198 is what the bytes of two words make when the first chunk is missed.
C(op, tgt, val) == [op |-> op, tgt |-> tgt, val |-> val]
SomeCalls ==
  { C("battery", "01", 0), C("battery", "00", 0), C("features", "FF", 0), C("pairing", "FF", 0),
    C("dpi_info", "01", 0), C("set_dpi", "01", 1600), C("set_dpi", "FF", 1600), C("set_dpi", "01", 8198),
    C("set_lod", "01", 2), C("set_rate", "01", 500), C("set_rate", "FF", 2000),
    C("get_rate", "01", 0), C("headers", "01", 0), C("read_sector", "01", 0),
    C("reprog", "01", 0), C("host", "01", 0), C("led", "01", 0),
    C("restore", "FF", 0), C("sector", "01", 0), C("identify", "FF", 0) }

\* decode_dpi_levels on every list of up to four words from these, cut at any byte:
\* a list cut short decodes to the front part of the whole one.
Some == {0, 400, 1500, 57744, 57744 + 300, 57344, 65535}
BytesOf(words) == [b \in 1..(2 * Len(words)) |->
                     IF b % 2 = 1 THEN words[(b + 1) \div 2] \div 256 ELSE words[b \div 2] % 256]
ASSUME CutShort ==
  \A n \in 0..4 : \A words \in [1..n -> Some] : LET bytes == BytesOf(words) IN
    \A k \in 0..Len(bytes) :
      IsPrefix(decode_dpi_levels(SubSeq(bytes, 1, k)), decode_dpi_levels(bytes))
ASSUME DecodesAsDocumented ==
  /\ decode_dpi_levels(List) = <<800, 1600>>
  /\ decode_dpi_levels(BytesOf(<<400, 57344 + 400, 1500>>)) = <<400, 800, 1200, 1500>>
=============================================================================
