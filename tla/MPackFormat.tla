----------------------------- MODULE MPackFormat -----------------------------
(***************************************************************************)
(* The wire format of mpack (rpcserver/mpack): how the writer encodes the  *)
(* head of an element, tags and their order, and the check of UTF-8.       *)
(* Bytes are numbers 0 .. 255.  The limits of 8 and 16 bits are the real   *)
(* ones; TLC's integers have 32 bits, so the limits of 32 and 64 bits are  *)
(* scaled to 2^20 and 2^24, in their fields of four and eight bytes: the   *)
(* order of the limits and the wrap-around at each width are kept.         *)
(***************************************************************************)
EXTENDS Integers, Sequences, SequencesExt

Bits(bytes) == CASE bytes = 1 -> 8  [] bytes = 2 -> 16
                 [] bytes = 4 -> 20 [] bytes = 8 -> 24

UMax(bytes) == 2 ^ Bits(bytes) - 1
IMax(bytes) == 2 ^ (Bits(bytes) - 1) - 1
IMin(bytes) == -(2 ^ (Bits(bytes) - 1))

Lesser(a, b) == IF a < b THEN a ELSE b

\* A call, and what is made of its answer.
Then(answer, Continue(_)) == Continue(answer)

\* What a loop makes of start in n turns; when it has ended a turn changes nothing.
Turns(n, start, Turn(_)) ==
  LET after[k \in 0 .. n] == IF k = 0 THEN start ELSE Turn(after[k - 1])
  IN  after[n]

\* mpack_store_u8 .. u64, i8 .. i64, float, double: big endian, two's complement.
Store(value, bytes) ==
  LET unsigned == value % 2 ^ Bits(bytes)
      Digit(k) == IF k > 2 THEN 0 ELSE (unsigned \div 256 ^ k) % 256
  IN  [i \in 1 .. bytes |-> Digit(bytes - i)]

\* mpack_load_u8 .. u64, and i8 .. i64 as the signed reading of the same bytes.
LoadU(bytes) ==
  LET Low(k) == IF k < Len(bytes) THEN bytes[Len(bytes) - k] ELSE 0
  IN  (Low(0) + Low(1) * 2 ^ 8 + Low(2) * 2 ^ 16) % 2 ^ Bits(Len(bytes))

LoadI(bytes) ==
  IF LoadU(bytes) > IMax(Len(bytes)) THEN LoadU(bytes) - 2 ^ Bits(Len(bytes))
                                     ELSE LoadU(bytes)

------------------------------------------------------------------------------
(* A tag: its type and its number, which is the value of a number or bool
   and the count of a str, bin, array or map.  A float stands for the number
   it rounds; the small whole numbers used here are exact in both widths.   *)
Tag(type, n) == [type |-> type, n |-> n]
NilTag == Tag("nil", 0)

\* mpack_tag_equal: numbers are equal whatever the signedness they are stored with.
mpack_tag_equal(left, right) ==
  LET Norm(t) == IF t.type = "int" /\ t.n >= 0 THEN Tag("uint", t.n) ELSE t
      l == Norm(left)
      r == Norm(right)
  IN  l.type = r.type /\ (l.type \in {"missing", "nil"} \/ l.n = r.n)

------------------------------------------------------------------------------
\* mpack_encode_u8 .. bin32: the byte of a type, and a number behind it.
Header(byte, n, bytes) == <<byte>> \o Store(n, bytes)

(* The heads the write functions choose, smallest first.  The functions of
   one family differ only in the range of their argument, so one operator
   stands for mpack_write_u8 .. u64 and one for mpack_write_i8 .. i64.      *)
EncodeUint(n) ==
  CASE n <= 127     -> Store(n, 1)
    [] n \in 128 .. UMax(1) -> Header(\hcc, n, 1)
    [] n \in UMax(1) + 1 .. UMax(2) -> Header(\hcd, n, 2)
    [] n \in UMax(2) + 1 .. UMax(4) -> Header(\hce, n, 4)
    [] n > UMax(4) -> Header(\hcf, n, 8)

EncodeInt(n) ==
  CASE n >= 0                   -> EncodeUint(n)
    [] n \in -32 .. -1          -> Store(n, 1)
    [] n \in IMin(1) .. -33     -> Header(\hd0, n, 1)
    [] n \in IMin(2) .. IMin(1) - 1 -> Header(\hd1, n, 2)
    [] n \in IMin(4) .. IMin(2) - 1 -> Header(\hd2, n, 4)
    [] n < IMin(4)              -> Header(\hd3, n, 8)

EncodeArray(count) ==
  CASE count <= 15 -> <<\h90 + count>>
    [] count \in 16 .. UMax(2) -> Header(\hdc, count, 2)
    [] count > UMax(2) -> Header(\hdd, count, 4)

EncodeMap(count) ==
  CASE count <= 15 -> <<\h80 + count>>
    [] count \in 16 .. UMax(2) -> Header(\hde, count, 2)
    [] count > UMax(2) -> Header(\hdf, count, 4)

EncodeStr(count) ==
  CASE count <= 31 -> <<\ha0 + count>>
    [] count \in 32 .. UMax(1) -> Header(\hd9, count, 1)
    [] count \in UMax(1) + 1 .. UMax(2) -> Header(\hda, count, 2)
    [] count > UMax(2) -> Header(\hdb, count, 4)

EncodeBin(count) ==
  CASE count <= UMax(1) -> Header(\hc4, count, 1)
    [] count \in UMax(1) + 1 .. UMax(2) -> Header(\hc5, count, 2)
    [] count > UMax(2) -> Header(\hc6, count, 4)

\* mpack_write_tag: the head that belongs to a tag.
Encode(tag) ==
  CASE tag.type = "nil"    -> <<\hc0>>
    [] tag.type = "bool"   -> <<\hc2 + tag.n>>
    [] tag.type = "uint"   -> EncodeUint(tag.n)
    [] tag.type = "int"    -> EncodeInt(tag.n)
    [] tag.type = "float"  -> Header(\hca, tag.n, 4)
    [] tag.type = "double" -> Header(\hcb, tag.n, 8)
    [] tag.type = "str"    -> EncodeStr(tag.n)
    [] tag.type = "bin"    -> EncodeBin(tag.n)
    [] tag.type = "array"  -> EncodeArray(tag.n)
    [] tag.type = "map"    -> EncodeMap(tag.n)

(* What a first byte says: the type, the width of the number that follows it,
   and the number the byte itself holds if none does.                       *)
Lead(type, width, n) == [type |-> type, width |-> width, n |-> n]

------------------------------------------------------------------------------
\* mpack_str_check_no_null
NoNull(str) == \A i \in DOMAIN str : str[i] # 0

(* mpack_utf8_check_impl: overlong forms, surrogates, code points past the
   limit and truncated sequences are refused, and NUL too unless allowed.   *)
Utf8Check(str, allow_null) ==
  LET Cont(i) == str[i] % 64
      IsCont(i, n) == Len(str) >= i + n /\ \A k \in 1 .. n : str[i + k] \div 64 = 2
      Size(i) == CASE str[i] <= \h7f -> 1
                   [] str[i] \in \hc0 .. \hdf -> 2
                   [] str[i] \in \he0 .. \hef -> 3
                   [] str[i] \in \hf0 .. \hf7 -> 4
                   [] OTHER -> 0
      Code(i) == CASE Size(i) = 2 -> (str[i] % 32) * 64 + Cont(i + 1)
                   [] Size(i) = 3 -> (str[i] % 16) * 4096 + Cont(i + 1) * 64 + Cont(i + 2)
                   [] Size(i) = 4 -> (str[i] % 8) * 262144 + Cont(i + 1) * 4096 + Cont(i + 2) * 64 + Cont(i + 3)
      Sound(i) == CASE Size(i) = 0 -> FALSE
                    [] Size(i) = 1 -> allow_null \/ str[i] # 0
                    [] Size(i) = 2 -> IsCont(i, 1) /\ Code(i) >= \h80
                    [] Size(i) = 3 -> IsCont(i, 2) /\ Code(i) >= \h800 /\ Code(i) \notin \hd800 .. \hdfff
                    [] Size(i) = 4 -> IsCont(i, 3) /\ Code(i) \in \h10000 .. \h10ffff
      from[i \in 1 .. Len(str) + 1] == i > Len(str) \/ (Sound(i) /\ from[i + Size(i)])
  IN  from[1]
==============================================================================
