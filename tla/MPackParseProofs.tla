--------------------------- MODULE MPackParseProofs ---------------------------
(***************************************************************************)
(* The parser of mpack's trees stays within the bytes it holds and within  *)
(* the pages of its nodes: for every message and stream, whatever pieces   *)
(* its bytes come in, for every limit, every pool and every size of a page *)
(* and of the buffer, and whatever is asked of the nodes afterwards.       *)
(*                                                                         *)
(* The invariant is about trees between two steps: the bytes that may      *)
(* still become nodes are those not parsed less one for every child that   *)
(* is awaited, and what is reserved is what the head of the node says.     *)
(***************************************************************************)
EXTENDS MPackParse, SequenceTheorems, FiniteSetTheorems, WellFoundedInduction, TLAPS

\* A set of natural numbers has a least one.
LEMMA Least ==
  ASSUME NEW S \in SUBSET Nat, S # {}
  PROVE  \E m \in S : \A x \in S : m <= x
<1>1. PICK m \in S : \A x \in S : ~(<<x, m>> \in OpToRel(<, Nat))
  BY NatLessThanWellFounded, WFMin, Zenon
<1>2. \A x \in S : ~(x < m)
  BY <1>1, Zenon DEF OpToRel
<1> QED
  BY <1>2

------------------------------------------------------------------------------
(* The stack of open containers.                                             *)

Places == Nat \X Nat
Level == [child : Places, left : Nat]
Stack == Seq(Level)

\* The containers of a stack, by their level.
LEMMA LevelType ==
  ASSUME NEW stack \in Stack
  PROVE  /\ Len(stack) \in Nat /\ DOMAIN stack = 1 .. Len(stack)
         /\ \A i \in 1 .. Len(stack) : /\ stack[i] \in Level
                                      /\ stack[i].left \in Nat /\ stack[i].child \in Places
<1>1. Len(stack) \in Nat /\ DOMAIN stack = 1 .. Len(stack)
  BY LenProperties DEF Stack
<1>2. \A i \in 1 .. Len(stack) : stack[i] \in Level
  BY ElementOfSeq DEF Stack
<1>3. \A e \in Level : e.left \in Nat /\ e.child \in Places
  BY DEF Level
<1> QED
  BY <1>1, <1>2, <1>3

\* The children that are awaited can be counted.
LEMMA AwaitedFinite ==
  ASSUME NEW stack \in Stack
  PROVE  IsFiniteSet(Awaited(stack)) /\ Cardinality(Awaited(stack)) \in Nat
<1> DEFINE At(level) == {level} \X (1 .. stack[level].left)
           Levels == {At(level) : level \in DOMAIN stack}
           f == [level \in DOMAIN stack |-> At(level)]
<1>1. IsFiniteSet(DOMAIN stack)
  BY LevelType, FS_Interval
<1>2. f \in Surjection(DOMAIN stack, Levels)
  BY DEF Surjection
<1>3. IsFiniteSet(Levels)
  <2> HIDE DEF f, Levels
  <2> QED
    BY <1>1, <1>2, FS_Surjection
<1>4. \A T \in Levels : IsFiniteSet(T)
  <2>1. ASSUME NEW level \in DOMAIN stack PROVE IsFiniteSet(At(level))
    <3>1. stack[level].left \in Nat
      BY LevelType
    <3>2. IsFiniteSet({level})
      BY FS_Singleton
    <3>3. IsFiniteSet(1 .. stack[level].left)
      BY <3>1, FS_Interval
    <3> QED
      BY <3>2, <3>3, FS_Product
  <2> QED
    BY <2>1
<1>5. Awaited(stack) = UNION Levels
  BY DEF Awaited
<1>6. IsFiniteSet(UNION Levels)
  <2> HIDE DEF Levels
  <2> QED
    BY <1>3, <1>4, FS_UNION
<1> QED
  BY <1>5, <1>6, FS_CardinalityType

\* A child that is awaited is a level and a number.
LEMMA AwaitedPairs ==
  ASSUME NEW stack \in Stack
  PROVE  Awaited(stack) = {pair \in Nat \X Nat : /\ pair[1] \in 1 .. Len(stack)
                                                 /\ pair[2] \in 1 .. stack[pair[1]].left}
  BY LevelType DEF Awaited

\* One child of the innermost container comes.
LEMMA AwaitedLess ==
  ASSUME NEW stack \in Stack, NEW level \in DOMAIN stack, stack[level].left > 0
  PROVE  /\ ChildParsed(stack, level) \in Stack /\ Len(ChildParsed(stack, level)) = Len(stack)
         /\ ChildParsed(stack, level)[level]
              = [child |-> Child(stack[level].child, 1), left |-> stack[level].left - 1]
         /\ \A i \in DOMAIN stack : i # level => ChildParsed(stack, level)[i] = stack[i]
         /\ Cardinality(Awaited(ChildParsed(stack, level))) = Cardinality(Awaited(stack)) - 1
<1>1. PICK less, e : /\ less = ChildParsed(stack, level)
                     /\ e = [child |-> Child(stack[level].child, 1), left |-> stack[level].left - 1]
  OBVIOUS
<1>2. /\ Len(stack) \in Nat /\ level \in 1 .. Len(stack)
      /\ stack[level] \in Level /\ stack[level].left \in Nat /\ stack[level].child \in Places
  BY LevelType
<1>3. e \in Level
  BY <1>1, <1>2 DEF Level, Places, Child
<1>4. less = [stack EXCEPT ![level] = e]
  BY <1>1, Zenon DEF ChildParsed
<1>5. less \in Stack /\ Len(less) = Len(stack)
      /\ \A i \in 1 .. Len(stack) : less[i] = IF i = level THEN e ELSE stack[i]
  BY <1>2, <1>3, <1>4, ExceptSeq DEF Stack
<1>6. Awaited(less) = Awaited(stack) \ {<<level, stack[level].left>>}
  <2>1. \A i \in 1 .. Len(stack) : stack[i].left \in Nat
    BY LevelType
  <2>2. \A i \in 1 .. Len(stack) : less[i].left = IF i = level THEN stack[i].left - 1 ELSE stack[i].left
    BY <1>1, <1>5
  <2> QED
    BY <2>1, <2>2, <1>2, <1>5, AwaitedPairs
<1>7. <<level, stack[level].left>> \in Awaited(stack)
  BY <1>2, AwaitedPairs
<1>8. Cardinality(Awaited(less)) = Cardinality(Awaited(stack)) - 1
  <2>1. IsFiniteSet(Awaited(stack))
    BY AwaitedFinite
  <2>2. PICK last_one : last_one = <<level, stack[level].left>>
    OBVIOUS
  <2>3. Cardinality(Awaited(stack) \ {last_one})
          = IF last_one \in Awaited(stack) THEN Cardinality(Awaited(stack)) - 1 ELSE Cardinality(Awaited(stack))
    BY <2>1, FS_RemoveElement
  <2> QED
    BY <1>6, <1>7, <2>2, <2>3
<1> QED
  BY <1>1, <1>2, <1>5, <1>8, LevelType

\* A container is opened.
LEMMA AwaitedMore ==
  ASSUME NEW stack \in Stack, NEW e \in Level
  PROVE  /\ Append(stack, e) \in Stack
         /\ Cardinality(Awaited(Append(stack, e))) = Cardinality(Awaited(stack)) + e.left
<1>1. PICK more : more = Append(stack, e)
  OBVIOUS
<1>2. /\ more \in Stack /\ Len(more) = Len(stack) + 1 /\ Len(stack) \in Nat
      /\ \A i \in 1 .. Len(stack) : more[i] = stack[i]
      /\ more[Len(stack) + 1] = e
  BY <1>1, AppendProperties DEF Stack
<1>3. PICK new : new = {Len(stack) + 1} \X (1 .. e.left)
  OBVIOUS
<1>4. Awaited(more) = Awaited(stack) \union new
  <2>1. \A i \in 1 .. Len(stack) + 1 : more[i].left = IF i = Len(stack) + 1 THEN e.left ELSE stack[i].left
    BY <1>2
  <2>2. e.left \in Nat /\ \A i \in 1 .. Len(stack) : stack[i].left \in Nat
    BY LevelType DEF Level
  <2> QED
    BY <1>2, <1>3, <2>1, <2>2, AwaitedPairs, SMTT(20)
<1>5. Awaited(stack) \intersect new = {}
  BY <1>2, <1>3, AwaitedPairs
<1>6. IsFiniteSet(new) /\ Cardinality(new) = e.left
  <2>1. e.left \in Nat
    BY DEF Level
  <2>2. IsFiniteSet({Len(stack) + 1}) /\ Cardinality({Len(stack) + 1}) = 1
    BY FS_Singleton
  <2>3. IsFiniteSet(1 .. e.left) /\ Cardinality(1 .. e.left) = e.left
    <3>1. /\ IsFiniteSet(1 .. e.left)
          /\ Cardinality(1 .. e.left) = IF 1 > e.left THEN 0 ELSE e.left - 1 + 1
      BY <2>1, FS_Interval, SMTT(20)
    <3> QED
      BY <2>1, <3>1
  <2>4. PICK one, others : one = {Len(stack) + 1} /\ others = 1 .. e.left
    OBVIOUS
  <2>5. IsFiniteSet(one \X others) /\ Cardinality(one \X others) = Cardinality(one) * Cardinality(others)
    BY <2>2, <2>3, <2>4, FS_Product
  <2>6. IsFiniteSet(new) /\ Cardinality(new) = 1 * e.left
    BY <1>3, <2>2, <2>3, <2>4, <2>5, Zenon
  <2> QED
    BY <2>1, <2>6
<1>7. Cardinality(Awaited(more)) = Cardinality(Awaited(stack)) + e.left
  <2>1. Cardinality(Awaited(stack) \union new)
          = Cardinality(Awaited(stack)) + Cardinality(new) - Cardinality(Awaited(stack) \intersect new)
    BY <1>6, AwaitedFinite, FS_Union
  <2>2. Cardinality(Awaited(stack) \intersect new) = 0
    BY <1>5, FS_EmptySet
  <2>3. Cardinality(Awaited(stack)) \in Nat /\ e.left \in Nat
    BY AwaitedFinite DEF Level
  <2> QED
    BY <2>1, <2>2, <2>3, <1>4, <1>6
<1> QED
  BY <1>1, <1>2, <1>7

\* The finished containers go, down to one that awaits a child.
LEMMA AwaitedKept ==
  ASSUME NEW stack \in Stack
  PROVE  LET kept == PopFinished(stack)
         IN  /\ kept \in Stack /\ Len(kept) <= Len(stack)
             /\ \A i \in 1 .. Len(kept) : kept[i] = stack[i]
             /\ Len(kept) > 0 => kept[Len(kept)].left > 0
             /\ Awaited(kept) = Awaited(stack)
<1>1. PICK open : open = {i \in DOMAIN stack : \E j \in i .. Len(stack) : stack[j].left > 0}
  OBVIOUS
<1>2. Len(stack) \in Nat /\ DOMAIN stack = 1 .. Len(stack)
  BY LevelType
<1>3. open \subseteq 1 .. Len(stack) /\ \A i \in open : 1 .. i \subseteq open
  BY <1>1, <1>2
<1>4. IsFiniteSet(1 .. Len(stack)) /\ Cardinality(1 .. Len(stack)) = Len(stack)
  <2>1. /\ IsFiniteSet(1 .. Len(stack))
        /\ Cardinality(1 .. Len(stack)) = IF 1 > Len(stack) THEN 0 ELSE Len(stack) - 1 + 1
    BY <1>2, FS_Interval
  <2> QED
    BY <1>2, <2>1
<1>5. IsFiniteSet(open) /\ Cardinality(open) <= Len(stack)
  BY <1>3, <1>4, FS_Subset, ZenonT(20)
<1>6. PICK c \in Nat : c = Cardinality(open) /\ c <= Len(stack)
  BY <1>5, FS_CardinalityType
<1>7. open = 1 .. c
  <2>1. ASSUME NEW i \in open PROVE i <= c
    <3>1. i \in Nat /\ i >= 1 /\ 1 .. i \subseteq open
      BY <1>2, <1>3
    <3>2. Cardinality(1 .. i) <= c
      BY <1>5, <1>6, <3>1, FS_Subset
    <3>3. Cardinality(1 .. i) = IF 1 > i THEN 0 ELSE i - 1 + 1
      BY <3>1, FS_Interval
    <3> QED
      BY <3>1, <3>2, <3>3
  <2>2. open \subseteq 1 .. c
    BY <1>2, <1>3, <2>1
  <2>3. IsFiniteSet(1 .. c) /\ Cardinality(1 .. c) = c
    <3>1. IsFiniteSet(1 .. c) /\ Cardinality(1 .. c) = IF 1 > c THEN 0 ELSE c - 1 + 1
      BY FS_Interval
    <3> QED
      BY <3>1
  <2> QED
    BY <1>6, <2>2, <2>3, FS_Subset
<1>8. PICK kept : kept = SubSeq(stack, 1, c)
  OBVIOUS
<1>9. kept = PopFinished(stack)
  BY <1>1, <1>6, <1>8 DEF PopFinished
<1>10. kept \in Stack /\ Len(kept) = c /\ \A i \in 1 .. c : kept[i] = stack[i]
  <2>1. \A i \in 1 .. c : stack[i] \in Level
    BY <1>6, LevelType
  <2>2. /\ SubSeq(stack, 1, c) \in Seq(Level)
        /\ Len(SubSeq(stack, 1, c)) = IF 1 <= c THEN c - 1 + 1 ELSE 0
        /\ \A i \in 1 .. c - 1 + 1 : SubSeq(stack, 1, c)[i] = stack[1 + i - 1]
    BY <2>1, SubSeqProperties
  <2> QED
    BY <1>8, <2>2 DEF Stack
<1>11. \A j \in 1 .. Len(stack) : stack[j].left > 0 <=> j \in 1 .. c /\ stack[j].left > 0
  BY <1>1, <1>2, <1>7
<1>12. c > 0 => stack[c].left > 0
  <2>1. SUFFICES ASSUME c > 0 PROVE stack[c].left > 0
    OBVIOUS
  <2>2. PICK j \in c .. Len(stack) : stack[j].left > 0
    BY <1>1, <1>7, <2>1
  <2>3. j \in 1 .. c
    BY <1>2, <1>6, <1>11, <2>1, <2>2
  <2> QED
    BY <2>2, <2>3
<1>13. Awaited(kept) = Awaited(stack)
  <2>1. \A i \in 1 .. Len(stack) : stack[i].left \in Nat /\ (i > c => stack[i].left = 0)
    BY <1>11, LevelType
  <2>2. Awaited(kept) = {pair \in Nat \X Nat : pair[1] \in 1 .. Len(kept) /\ pair[2] \in 1 .. kept[pair[1]].left}
    BY <1>10, AwaitedPairs
  <2>3. Awaited(stack) = {pair \in Nat \X Nat : pair[1] \in 1 .. Len(stack) /\ pair[2] \in 1 .. stack[pair[1]].left}
    BY AwaitedPairs
  <2>4. ASSUME NEW pair \in Nat \X Nat
        PROVE  pair[1] \in 1 .. Len(kept) /\ pair[2] \in 1 .. kept[pair[1]].left
               <=> pair[1] \in 1 .. Len(stack) /\ pair[2] \in 1 .. stack[pair[1]].left
    BY <1>2, <1>6, <1>10, <2>1
  <2> QED
    BY <2>2, <2>3, <2>4, Zenon
<1> QED
  BY <1>6, <1>9, <1>10, <1>12, <1>13

------------------------------------------------------------------------------
(* The head of a node.                                                       *)

Types == {"uint", "int", "map", "array", "str", "bin", "nil", "bool", "float", "double", "invalid", "unsupported"}
Heads == [type : Types, width : {0, 1, 2, 4, 8}, n : Int]

\* A width is a power of two.
LEMMA Widths ==
  ASSUME NEW k \in 0 .. 3
  PROVE  2 ^ k \in {1, 2, 4, 8}
<1>1. 2 ^ 0 = 1 /\ 2 ^ 1 = 2 /\ 2 ^ 2 = 4 /\ 2 ^ 3 = 8
  OBVIOUS
<1>2. k = 0 \/ k = 1 \/ k = 2 \/ k = 3
  OBVIOUS
<1> QED
  BY <1>1, <1>2, Zenon

\* Every type byte has a head, and a length or a count is not negative.
LEMMA HeadType ==
  ASSUME NEW byte \in Byte
  PROVE  /\ NodeHead(byte) \in Heads
         /\ NodeHead(byte).type \in {"map", "array", "str", "bin"} => NodeHead(byte).n \in Nat
<1>1. byte \in 0 .. 255
  BY DEF Byte
<1>2. SUFFICES \E type \in Types, width \in {0, 1, 2, 4, 8}, n \in Int :
                 /\ NodeHead(byte) = Lead(type, width, n)
                 /\ type # "int" => n \in Nat
  BY DEF Lead, Heads
<1>3. CASE byte <= 191 \/ byte >= 224
  <2>1. \E type \in {"uint", "int", "map", "array", "str"}, n \in Int :
          FixHead(byte) = Lead(type, 0, n) /\ (type # "int" => n \in Nat)
    BY <1>1, <1>3 DEF FixHead
  <2>2. NodeHead(byte) = FixHead(byte)
    BY <1>3 DEF NodeHead
  <2> QED
    BY <2>1, <2>2 DEF Types
<1>4. CASE byte \in {192} \union 194 .. 198 \union 202 .. 211
  <2>1. \E type \in {"uint", "int", "bin", "nil", "bool", "float", "double"}, width \in {0, 1, 2, 4, 8}, n \in Nat :
          WideHead(byte) = Lead(type, width, n)
    <3>1. CASE byte \in 196 .. 198
      <4>1. WideHead(byte) = Lead("bin", 2 ^ (byte - 196), 0)
        BY <3>1 DEF WideHead
      <4>2. 2 ^ (byte - 196) \in {1, 2, 4, 8}
        BY <3>1, byte - 196 \in 0 .. 3, Widths
      <4> QED
        BY <4>1, <4>2
    <3>2. CASE byte \in 204 .. 207
      <4>1. WideHead(byte) = Lead("uint", 2 ^ (byte - 204), 0)
        BY <3>2 DEF WideHead
      <4>2. 2 ^ (byte - 204) \in {1, 2, 4, 8}
        BY <3>2, byte - 204 \in 0 .. 3, Widths
      <4> QED
        BY <4>1, <4>2
    <3>3. CASE byte \in 208 .. 211
      <4>1. WideHead(byte) = Lead("int", 2 ^ (byte - 208), 0)
        BY <3>3 DEF WideHead
      <4>2. 2 ^ (byte - 208) \in {1, 2, 4, 8}
        BY <3>3, byte - 208 \in 0 .. 3, Widths
      <4> QED
        BY <4>1, <4>2
    <3>4. CASE byte \in {192, 194, 195, 202, 203}
      BY <3>4 DEF WideHead
    <3> QED
      BY <1>4, <3>1, <3>2, <3>3, <3>4
  <2>2. NodeHead(byte) = WideHead(byte)
    BY <1>4 DEF NodeHead
  <2> QED
    BY <2>1, <2>2 DEF Types
<1>5. CASE ~(byte <= 191 \/ byte >= 224) /\ byte \notin {192} \union 194 .. 198 \union 202 .. 211
  <2>1. \E type \in {"array", "map", "str", "invalid", "unsupported"}, width \in {0, 1, 2, 4, 8} :
          LongHead(byte) = Lead(type, width, 0)
    <3>1. CASE byte \in 217 .. 219
      <4>1. LongHead(byte) = Lead("str", 2 ^ (byte - 217), 0)
        BY <3>1 DEF LongHead
      <4>2. 2 ^ (byte - 217) \in {1, 2, 4, 8}
        BY <3>1, byte - 217 \in 0 .. 3, Widths
      <4> QED
        BY <4>1, <4>2
    <3>2. CASE byte \in 220 .. 221
      <4>1. LongHead(byte) = Lead("array", 2 ^ (byte - 219), 0)
        BY <3>2 DEF LongHead
      <4>2. 2 ^ (byte - 219) \in {1, 2, 4, 8}
        BY <3>2, byte - 219 \in 0 .. 3, Widths
      <4> QED
        BY <4>1, <4>2
    <3>3. CASE byte \in 222 .. 223
      <4>1. LongHead(byte) = Lead("map", 2 ^ (byte - 221), 0)
        BY <3>3 DEF LongHead
      <4>2. 2 ^ (byte - 221) \in {1, 2, 4, 8}
        BY <3>3, byte - 221 \in 0 .. 3, Widths
      <4> QED
        BY <4>1, <4>2
    <3>4. CASE byte \notin 217 .. 223
      BY <1>1, <3>4 DEF LongHead
    <3> QED
      BY <1>1, <3>1, <3>2, <3>3, <3>4
  <2>2. NodeHead(byte) = LongHead(byte)
    BY <1>5 DEF NodeHead
  <2> QED
    BY <2>1, <2>2 DEF Types
<1> QED
  BY <1>3, <1>4, <1>5

\* The number behind a type byte.
LEMMA LoadType ==
  ASSUME NEW bytes \in Seq(Byte), Len(bytes) \in {1, 2, 4, 8}
  PROVE  LoadU(bytes) \in Nat /\ LoadI(bytes) \in Int
<1> DEFINE Low(k) == IF k < Len(bytes) THEN bytes[Len(bytes) - k] ELSE 0
<1>1. Low(0) \in Byte /\ Low(1) \in Byte /\ Low(2) \in Byte
  <2>1. ASSUME NEW k \in 0 .. 2 PROVE Low(k) \in Byte
    <3>1. PICK l \in {1, 2, 4, 8} : l = Len(bytes)
      OBVIOUS
    <3>2. ASSUME k < l PROVE bytes[l - k] \in Byte
      <4>1. PICK i : i = l - k
        OBVIOUS
      <4>2. i \in 1 .. Len(bytes)
        BY <3>1, <3>2, <4>1
      <4>3. bytes[i] \in Byte
        BY <4>2, ElementOfSeq
      <4> QED
        BY <4>1, <4>3
    <3>3. 0 \in Byte
      BY DEF Byte
    <3> QED
      BY <3>1, <3>2, <3>3
  <2> HIDE DEF Low
  <2>2. 0 \in 0 .. 2 /\ 1 \in 0 .. 2 /\ 2 \in 0 .. 2
    OBVIOUS
  <2> QED
    BY <2>1, <2>2, Zenon
<1>2. PICK w : w = 2 ^ Bits(Len(bytes))
  OBVIOUS
<1>3. w \in {256, 65536, 1048576, 16777216}
  <2>1. PICK e : e = Bits(Len(bytes)) /\ (e = 8 \/ e = 16 \/ e = 20 \/ e = 24)
    BY DEF Bits
  <2>2. 2 ^ e = 2 ^ 8 \/ 2 ^ e = 2 ^ 16 \/ 2 ^ e = 2 ^ 20 \/ 2 ^ e = 2 ^ 24
    BY <2>1, Zenon
  <2>3. 2 ^ e \in {256, 65536, 1048576, 16777216}
    BY <2>2
  <2>4. w = 2 ^ e
    BY <1>2, <2>1, Zenon
  <2> QED
    BY <2>3, <2>4
<1>4. PICK v : v = Low(0) + Low(1) * 2 ^ 8 + Low(2) * 2 ^ 16
  OBVIOUS
<1>5. LoadU(bytes) = v % w
  BY <1>2, <1>4, Zenon DEF LoadU
<1>6. v \in Nat
  <2> HIDE DEF Low
  <2>1. PICK low \in 0 .. 255, middle \in 0 .. 255, high \in 0 .. 255 :
          low = Low(0) /\ middle = Low(1) /\ high = Low(2)
    BY <1>1, Zenon DEF Byte
  <2>2. v = low + middle * 2 ^ 8 + high * 2 ^ 16
    BY <1>4, <2>1, Zenon
  <2> QED
    BY <2>2
<1>7. v % w \in Nat
  BY <1>3, <1>6
<1>8. LoadI(bytes) = v % w \/ LoadI(bytes) = (v % w) - w
  BY <1>2, <1>5, Zenon DEF LoadI
<1> QED
  BY <1>3, <1>5, <1>7, <1>8

\* What a head announces once its bytes are there.
LEMMA AnnouncedType ==
  ASSUME NEW t, t.data \in Seq(Byte), t.size \in Nat, t.size + 1 <= Len(t.data),
         t.size + 1 + NodeHead(t.data[t.size + 1]).width <= Len(t.data)
  PROVE  /\ Announced(t) \in Int
         /\ NodeHead(t.data[t.size + 1]).type \in {"map", "array", "str", "bin"} => Announced(t) \in Nat
<1>1. PICK head : head = NodeHead(t.data[t.size + 1])
  OBVIOUS
<1>2. \A i \in 1 .. Len(t.data) : t.data[i] \in Byte
  BY ElementOfSeq
<1>3. head \in Heads /\ (head.type \in {"map", "array", "str", "bin"} => head.n \in Nat)
  BY <1>1, <1>2, HeadType
<1>4. head.width \in {0, 1, 2, 4, 8} /\ head.n \in Int
  BY <1>3 DEF Heads
<1>5. PICK number : number = SubSeq(t.data, t.size + 2, t.size + 1 + head.width)
  OBVIOUS
<1>6. Announced(t) = IF head.width = 0 THEN head.n
                     ELSE IF head.type \in {"int", "float", "double"} THEN LoadI(number) ELSE LoadU(number)
  BY <1>1, <1>5, Zenon DEF Announced
<1>7. CASE head.width = 0
  BY <1>1, <1>3, <1>4, <1>6, <1>7
<1>8. CASE head.width # 0
  <2>1. PICK m, n : m = t.size + 2 /\ n = t.size + 1 + head.width
    OBVIOUS
  <2>2. m \in Int /\ n \in Int /\ \A i \in m .. n : t.data[i] \in Byte
    BY <1>1, <1>2, <1>4, <2>1
  <2>3. SubSeq(t.data, m, n) \in Seq(Byte) /\ Len(SubSeq(t.data, m, n)) = IF m <= n THEN n - m + 1 ELSE 0
    BY <2>2, SubSeqProperties
  <2>4. number \in Seq(Byte) /\ Len(number) = head.width
    <3>1. PICK at \in Nat, width \in {1, 2, 4, 8} : at = t.size /\ width = head.width
      BY <1>4, <1>8
    <3>2. m = at + 2 /\ n = at + 1 + width
      BY <2>1, <3>1, Zenon
    <3>3. m <= n /\ n - m + 1 = width
      BY <3>2
    <3> QED
      BY <1>5, <2>1, <2>3, <3>1, <3>3
  <2>5. LoadU(number) \in Nat /\ LoadI(number) \in Int
    BY <1>4, <1>8, <2>4, LoadType
  <2> QED
    BY <1>1, <1>6, <1>8, <2>5
<1> QED
  BY <1>4, <1>7, <1>8

\* The head of a node stays what it is when bytes are read behind it.
LEMMA AnnouncedSame ==
  ASSUME NEW t, t.data \in Seq(Byte), t.size \in Nat, t.size + 1 <= Len(t.data),
         NEW u, NEW bytes \in Seq(Byte), u.data = t.data \o bytes, u.size = t.size
  PROVE  /\ u.data[u.size + 1] = t.data[t.size + 1]
         /\ t.size + 1 + NodeHead(t.data[t.size + 1]).width <= Len(t.data) => Announced(u) = Announced(t)
<1>1. /\ u.data \in Seq(Byte) /\ Len(u.data) = Len(t.data) + Len(bytes)
      /\ \A i \in 1 .. Len(t.data) : u.data[i] = t.data[i]
  BY ConcatProperties, LenProperties
<1>2. u.data[u.size + 1] = t.data[t.size + 1]
  BY <1>1, LenProperties
<1>3. PICK head : head = NodeHead(t.data[t.size + 1])
  OBVIOUS
<1>4. head.width \in {0, 1, 2, 4, 8}
  BY <1>3, ElementOfSeq, HeadType DEF Heads
<1>5. ASSUME t.size + 1 + head.width <= Len(t.data), head.width # 0
      PROVE  SubSeq(u.data, t.size + 2, t.size + 1 + head.width) = SubSeq(t.data, t.size + 2, t.size + 1 + head.width)
  <2>1. PICK m, n : m = t.size + 2 /\ n = t.size + 1 + head.width
    OBVIOUS
  <2>2. m \in 1 .. Len(t.data) /\ n \in 1 .. Len(t.data)
    BY <1>4, <1>5, <2>1, LenProperties, SMTT(20)
  <2>3. SubSeq(t.data \o bytes, m, n) = SubSeq(t.data, m, n)
    BY <2>2, SubSeqOfConcat1
  <2> QED
    BY <2>1, <2>3
<1>6. ASSUME t.size + 1 + head.width <= Len(t.data)
      PROVE  Announced(u) = Announced(t)
  BY <1>2, <1>3, <1>5, <1>6, Zenon DEF Announced
<1> QED
  BY <1>2, <1>3, <1>6

------------------------------------------------------------------------------
(* The buffer of a stream.                                                   *)

\* The powers the capacity is multiplied with.
LEMMA Powers ==
  ASSUME NEW k \in 0 .. 25
  PROVE  2 ^ k \in Nat
<1>1. CASE k \in 0 .. 12
  <2>1. \/ k = 0 \/ k = 1 \/ k = 2 \/ k = 3 \/ k = 4 \/ k = 5 \/ k = 6
        \/ k = 7 \/ k = 8 \/ k = 9 \/ k = 10 \/ k = 11 \/ k = 12
    BY <1>1
  <2>2. \/ 2 ^ k = 2 ^ 0 \/ 2 ^ k = 2 ^ 1 \/ 2 ^ k = 2 ^ 2 \/ 2 ^ k = 2 ^ 3 \/ 2 ^ k = 2 ^ 4 \/ 2 ^ k = 2 ^ 5
        \/ 2 ^ k = 2 ^ 6 \/ 2 ^ k = 2 ^ 7 \/ 2 ^ k = 2 ^ 8 \/ 2 ^ k = 2 ^ 9 \/ 2 ^ k = 2 ^ 10 \/ 2 ^ k = 2 ^ 11
        \/ 2 ^ k = 2 ^ 12
    BY <2>1, Zenon
  <2> QED
    BY <2>2
<1>2. CASE k \in 13 .. 25
  <2>1. \/ k = 13 \/ k = 14 \/ k = 15 \/ k = 16 \/ k = 17 \/ k = 18 \/ k = 19
        \/ k = 20 \/ k = 21 \/ k = 22 \/ k = 23 \/ k = 24 \/ k = 25
    BY <1>2
  <2>2. \/ 2 ^ k = 2 ^ 13 \/ 2 ^ k = 2 ^ 14 \/ 2 ^ k = 2 ^ 15 \/ 2 ^ k = 2 ^ 16 \/ 2 ^ k = 2 ^ 17 \/ 2 ^ k = 2 ^ 18
        \/ 2 ^ k = 2 ^ 19 \/ 2 ^ k = 2 ^ 20 \/ 2 ^ k = 2 ^ 21 \/ 2 ^ k = 2 ^ 22 \/ 2 ^ k = 2 ^ 23 \/ 2 ^ k = 2 ^ 24
        \/ 2 ^ k = 2 ^ 25
    BY <2>1, Zenon
  <2> QED
    BY <2>2
<1> QED
  BY <1>1, <1>2

\* Doubling the capacity comes to an end, and stays within the limit of the tree.
LEMMA CapacityType ==
  ASSUME NEW t, t.data \in Seq(Byte), t.reserved \in Nat, t.capacity \in Nat, t.max_size \in 1 .. NoLimit,
         t.capacity <= t.max_size, Len(t.data) + t.reserved <= t.max_size
  PROVE  Capacity(t) \in Nat /\ Capacity(t) <= t.max_size
<1> DEFINE need  == Len(t.data) + t.reserved
           start == IF t.capacity = 0 THEN BufferCapacity ELSE t.capacity
           c     == CHOOSE k \in 0 .. 25 : start * 2 ^ k >= need /\ \A j \in 0 .. k - 1 : start * 2 ^ j < need
<1>1. Capacity(t) = IF need <= t.capacity THEN t.capacity ELSE Lesser(start * 2 ^ c, t.max_size)
  BY DEF Capacity
<1>2. need \in Nat /\ need <= NoLimit /\ NoLimit \in Nat /\ start \in Nat \ {0}
  <2>1. NoLimit \in Nat
    BY SMT DEF NoLimit
  <2> QED
    BY <2>1, LenProperties, TreeAssumption
<1> HIDE DEF need, start, c
<1>3. PICK grown : grown = [k \in 0 .. 25 |-> start * 2 ^ k]
  OBVIOUS
<1>4. grown \in [0 .. 25 -> Nat]
  BY <1>2, <1>3, Powers
<1>5. grown[25] >= need
  <2>1. grown[25] = start * 2 ^ 25
    BY <1>3
  <2> QED
    BY <1>2, <2>1, SMT DEF NoLimit
<1>6. PICK k \in 0 .. 25 : grown[k] >= need /\ \A j \in 0 .. k - 1 : grown[j] < need
  <2>1. PICK S : S = {k \in 0 .. 25 : grown[k] >= need}
    OBVIOUS
  <2>2. S \in SUBSET Nat /\ 25 \in S
    <3>1. 25 \in 0 .. 25 /\ 0 .. 25 \subseteq Nat
      OBVIOUS
    <3> QED
      BY <1>5, <2>1, <3>1
  <2>3. PICK m \in S : \A x \in S : m <= x
    BY <2>2, Least
  <2>4. ASSUME NEW j \in 0 .. m - 1 PROVE grown[j] < need
    <3>1. j \in 0 .. 25 /\ j \notin S
      BY <2>1, <2>3
    <3>2. ~(grown[j] >= need) /\ grown[j] \in Nat
      BY <1>4, <2>1, <3>1
    <3> QED
      BY <1>2, <3>2
  <2> QED
    BY <2>1, <2>3, <2>4
<1>7. c \in 0 .. 25
  <2>1. start * 2 ^ k >= need /\ \A j \in 0 .. k - 1 : start * 2 ^ j < need
    <3>1. k \in 0 .. 25 /\ \A j \in 0 .. k - 1 : j \in 0 .. 25
      OBVIOUS
    <3>2. \A j \in 0 .. 25 : grown[j] = start * 2 ^ j
      BY <1>3, Zenon
    <3> QED
      BY <1>6, <3>1, <3>2, Zenon
  <2> QED
    BY <2>1, Zenon DEF c
<1>8. PICK power \in Nat : power = 2 ^ c
  BY <1>7, Powers
<1>9. start * 2 ^ c \in Nat
  <2>1. start * power \in Nat
    BY <1>2
  <2> QED
    BY <1>8, <2>1, Zenon
<1> QED
  BY <1>1, <1>9 DEF Lesser

------------------------------------------------------------------------------
(* Trees as the parser leaves them between two steps.                        *)

Node  == [type : Types, n : Int, at : Places \union Nat]
Nodes == UNION {[places -> Node] : places \in SUBSET Places}

Errors == {"ok", "bug", "invalid", "unsupported", "too_big", "io", "type", "data"}

Tree ==
  [data : Seq(Byte), size : Nat, node_count : Nat, max_size : 1 .. NoLimit, max_nodes : 1 .. NoLimit,
   stream : BOOLEAN, capacity : Nat, pool : Nat, err : Errors,
   state : {"not_started", "in_progress", "parsed"}, stage : {"idle", "start", "node", "head", "body"},
   reserved : Nat, possible : Int, stack : Stack, pages : Seq(Nat), current : Nat, nodes_left : Nat, nodes : Nodes]

\* A tree holds no more bytes than its buffer, and has parsed no more than it holds.
Fits(t) ==
  /\ t.size <= Len(t.data)
  /\ t.capacity <= t.max_size
  /\ t.stream => Len(t.data) <= t.capacity

\* What is parsed lies within the bytes parsed, what is promised within the pages.
PlaceWithin(place, pages) == place[1] \in DOMAIN pages /\ place[2] <= pages[place[1]]

NodeWithin(node, size, pages) ==
  /\ node.type \in {"str", "bin"} => node.at \in Nat /\ node.n \in Nat /\ node.at + node.n <= size
  /\ node.type \in {"array", "map"} /\ node.n > 0 =>
       /\ node.at \in Places /\ node.at[1] \in DOMAIN pages
       /\ node.at[2] + Elements(node.type, node.n) - 1 <= pages[node.at[1]]

Within(t) ==
  \A place \in DOMAIN t.nodes : PlaceWithin(place, t.pages) /\ NodeWithin(t.nodes[place], t.size, t.pages)

RoomFor(level, pages) ==
  level.child[1] \in DOMAIN pages /\ level.child[2] + level.left - 1 <= pages[level.child[1]]

\* A byte is there for every child that is awaited, and the innermost container awaits one.
Open(t) ==
  /\ Len(t.stack) > 0 /\ t.stack[Len(t.stack)].left > 0
  /\ \A i \in 1 .. Len(t.stack) : RoomFor(t.stack[i], t.pages)
  /\ t.current \in DOMAIN t.pages /\ t.nodes_left <= t.pages[t.current]
  /\ t.possible >= 0
  /\ t.possible = Len(t.data) - t.size - Cardinality(Awaited(t.stack))

HeadOf(t) == NodeHead(t.data[t.size + 1])
BodyOf(t) ==
  CASE HeadOf(t).type \in {"array", "map"} -> Elements(HeadOf(t).type, Announced(t))
    [] HeadOf(t).type \in {"str", "bin"}   -> Announced(t)
    [] OTHER                               -> 0

\* What is reserved in each stage of a call.
Stages(t) ==
  /\ t.stage # "idle" => t.state = "in_progress"
  /\ t.stage = "start" => t.size = 0 /\ DOMAIN t.nodes = {} /\ t.possible = Len(t.data) /\ t.reserved = 1
  /\ t.state = "in_progress" /\ t.stage # "start" => Open(t)
  /\ t.stage = "head" => t.reserved = HeadOf(t).width
  /\ t.stage = "body" => /\ t.size + 1 + HeadOf(t).width <= Len(t.data)
                         /\ t.reserved = HeadOf(t).width + BodyOf(t)

Sound(t) == t \in Tree /\ Fits(t) /\ Within(t) /\ (t.err = "ok" => Stages(t))

\* The fields of a tree.
LEMMA TreeType ==
  ASSUME NEW t \in Tree
  PROVE  /\ t.data \in Seq(Byte) /\ Len(t.data) \in Nat /\ t.size \in Nat /\ t.node_count \in Nat
         /\ t.max_size \in 1 .. NoLimit /\ t.max_nodes \in 1 .. NoLimit /\ t.stream \in BOOLEAN
         /\ t.capacity \in Nat /\ t.pool \in Nat /\ t.err \in Errors
         /\ t.state \in {"not_started", "in_progress", "parsed"}
         /\ t.stage \in {"idle", "start", "node", "head", "body"}
         /\ t.reserved \in Nat /\ t.possible \in Int /\ t.stack \in Stack
         /\ t.pages \in Seq(Nat) /\ t.current \in Nat /\ t.nodes_left \in Nat /\ t.nodes \in Nodes
  BY LenProperties DEF Tree

\* An error changes nothing else.
LEMMA FlagSound ==
  ASSUME NEW t, Sound(t), NEW e \in Errors
  PROVE  Sound(mpack_tree_flag_error(t, e))
<1>1. PICK u : u = [t EXCEPT !.err = IF @ = "ok" THEN e ELSE @]
  OBVIOUS
<1>2. /\ u \in Tree /\ u.data = t.data /\ u.size = t.size /\ u.capacity = t.capacity /\ u.max_size = t.max_size
      /\ u.stream = t.stream /\ u.nodes = t.nodes /\ u.pages = t.pages
      /\ u.err = "ok" => u = t
  BY <1>1 DEF Sound, Tree
<1>3. Fits(u) /\ Within(u)
  BY <1>2 DEF Sound, Fits, Within
<1> QED
  BY <1>1, <1>2, <1>3 DEF Sound, mpack_tree_flag_error

\* A call that returns early leaves a message that goes on later.
LEMMA ReturnSound ==
  ASSUME NEW t, Sound(t)
  PROVE  Sound(Return(t))
<1>1. PICK u : u = [t EXCEPT !.stage = "idle", !.state = IF t.stage = "start" THEN "not_started" ELSE @]
  OBVIOUS
<1>2. /\ u \in Tree /\ u.data = t.data /\ u.size = t.size /\ u.capacity = t.capacity /\ u.max_size = t.max_size
      /\ u.stream = t.stream /\ u.nodes = t.nodes /\ u.pages = t.pages /\ u.err = t.err
      /\ u.stage = "idle" /\ u.state = (IF t.stage = "start" THEN "not_started" ELSE t.state)
      /\ u.stack = t.stack /\ u.current = t.current /\ u.nodes_left = t.nodes_left /\ u.possible = t.possible
  BY <1>1 DEF Sound, Tree
<1>3. Fits(u) /\ Within(u)
  BY <1>2 DEF Sound, Fits, Within
<1>4. u.err = "ok" => Stages(u)
  BY <1>2 DEF Sound, Stages, Open
<1> QED
  BY <1>1, <1>2, <1>3, <1>4 DEF Sound, Return

\* There is a byte for the node that is next.
LEMMA OpenHasByte ==
  ASSUME NEW t \in Tree, Open(t)
  PROVE  /\ Cardinality(Awaited(t.stack)) \in Nat /\ Cardinality(Awaited(t.stack)) > 0
         /\ t.size + 1 + t.possible <= Len(t.data) /\ t.size + 1 \in 1 .. Len(t.data)
<1>1. t.stack \in Stack /\ Len(t.stack) \in Nat
  BY TreeType, LevelType
<1>2. PICK top : top = <<Len(t.stack), t.stack[Len(t.stack)].left>>
  OBVIOUS
<1>3. top \in Awaited(t.stack)
  BY <1>1, <1>2, LevelType, AwaitedPairs DEF Open
<1>4. IsFiniteSet(Awaited(t.stack)) /\ Cardinality(Awaited(t.stack)) \in Nat
  BY <1>1, AwaitedFinite
<1>5. Cardinality(Awaited(t.stack)) # 0
  BY <1>3, <1>4, FS_EmptySet
<1>6. PICK awaited \in Nat : awaited = Cardinality(Awaited(t.stack))
  BY <1>4
<1>7. t.possible = Len(t.data) - t.size - awaited /\ t.possible >= 0 /\ awaited > 0
  BY <1>5, <1>6 DEF Open
<1>8. t.possible \in Int /\ t.size \in Nat /\ Len(t.data) \in Nat
  BY TreeType
<1>9. t.size + 1 + t.possible <= Len(t.data) /\ t.size + 1 \in 1 .. Len(t.data)
  BY <1>7, <1>8
<1> QED
  BY <1>6, <1>7, <1>9

\* Nothing is parsed at first.
LEMMA EmptyNodes == <<>> \in Nodes /\ DOMAIN <<>> = {} /\ <<>> \in Stack /\ <<>> \in Seq(Nat) /\ Len(<<>>) = 0
<1>1. <<>> \in [{} -> Node] /\ {} \in SUBSET Places
  OBVIOUS
<1>2. <<>> \in Nodes
  BY <1>1, Zenon DEF Nodes
<1> QED
  BY <1>2, EmptySeq DEF Stack

\* A call goes on with the message, or moves the bytes of the next one to the front.
LEMMA ParseSound ==
  ASSUME NEW t, Sound(t), t.stage = "idle", t.err = "ok"
  PROVE  Sound(mpack_tree_parse(t)) /\ mpack_tree_parse(t).err = "ok"
<1>1. CASE t.state = "in_progress"
  <2>1. PICK u : u = [t EXCEPT !.stage = "node"]
    OBVIOUS
  <2>2. /\ u \in Tree /\ u.data = t.data /\ u.size = t.size /\ u.capacity = t.capacity /\ u.max_size = t.max_size
        /\ u.stream = t.stream /\ u.nodes = t.nodes /\ u.pages = t.pages /\ u.err = t.err
        /\ u.stage = "node" /\ u.state = t.state
        /\ u.stack = t.stack /\ u.current = t.current /\ u.nodes_left = t.nodes_left /\ u.possible = t.possible
    BY <2>1 DEF Sound, Tree
  <2>3. Fits(u) /\ Within(u)
    BY <2>2 DEF Sound, Fits, Within
  <2>4. Stages(u)
    BY <1>1, <2>2 DEF Sound, Stages, Open
  <2> QED
    BY <1>1, <2>1, <2>2, <2>3, <2>4 DEF Sound, mpack_tree_parse
<1>2. CASE t.state # "in_progress"
  <2>1. PICK rest : rest = SubSeq(t.data, t.size + 1, Len(t.data))
    OBVIOUS
  <2>2. rest \in Seq(Byte) /\ Len(rest) = Len(t.data) - t.size
    <3>1. PICK m, n : m = t.size + 1 /\ n = Len(t.data)
      OBVIOUS
    <3>2. m \in Int /\ n \in Int /\ m - 1 <= n /\ t.size = m - 1 /\ \A i \in m .. n : t.data[i] \in Byte
      <4>1. \A i \in 1 .. Len(t.data) : t.data[i] \in Byte
        BY TreeType, ElementOfSeq DEF Sound
      <4> QED
        BY <3>1, <4>1, TreeType DEF Sound, Fits
    <3>3. rest \in Seq(Byte) /\ Len(rest) = IF m <= n THEN n - m + 1 ELSE 0
      BY <2>1, <3>1, <3>2, SubSeqProperties
    <3>4. (IF m <= n THEN n - m + 1 ELSE 0) = n - (m - 1)
      BY <3>2
    <3> QED
      BY <3>1, <3>2, <3>3, <3>4
  <2>3. PICK none : none = <<>>
    OBVIOUS
  <2>4. none \in Nodes /\ none \in Stack /\ none \in Seq(Nat) /\ DOMAIN none = {}
    BY <2>3, EmptyNodes
  <2>5. PICK u : u = [t EXCEPT !.data = rest, !.size = 0, !.node_count = 0, !.nodes = none, !.pages = none,
                               !.stack = none, !.state = "in_progress", !.stage = "start",
                               !.reserved = 1, !.possible = Len(t.data) - t.size]
    OBVIOUS
  <2>6. u = mpack_tree_parse_start(t)
    BY <2>1, <2>3, <2>5, Zenon DEF mpack_tree_parse_start
  <2>7. /\ u \in Tree /\ u.data = rest /\ u.size = 0 /\ u.capacity = t.capacity /\ u.max_size = t.max_size
        /\ u.stream = t.stream /\ u.nodes = none /\ u.err = t.err /\ u.stage = "start" /\ u.state = "in_progress"
        /\ u.reserved = 1 /\ u.possible = Len(t.data) - t.size
    <3>1. PICK left \in Int : left = Len(t.data) - t.size
      BY TreeType DEF Sound
    <3>2. u = [t EXCEPT !.data = rest, !.size = 0, !.node_count = 0, !.nodes = none, !.pages = none,
                        !.stack = none, !.state = "in_progress", !.stage = "start", !.reserved = 1, !.possible = left]
      BY <2>5, <3>1, Zenon
    <3>3. t \in Tree
      BY DEF Sound
    <3> QED
      BY <2>2, <2>4, <3>1, <3>2, <3>3 DEF Tree
  <2>8. Fits(u) /\ Within(u)
    BY <2>2, <2>4, <2>7, TreeType DEF Sound, Fits, Within
  <2>9. Stages(u)
    BY <2>2, <2>4, <2>7 DEF Stages
  <2> QED
    BY <1>2, <2>6, <2>7, <2>8, <2>9 DEF Sound, mpack_tree_parse
<1> QED
  BY <1>1, <1>2

\* The type byte of the next node is there: its head is to be reserved.
LEMMA ParseNodeSound ==
  ASSUME NEW t, Sound(t), t.stage = "node", t.err = "ok"
  PROVE  Sound(mpack_tree_parse_node(t))
<1>1. HeadOf(t) \in Heads
  <2>1. Open(t)
    BY DEF Sound, Stages
  <2>2. t.size + 1 \in 1 .. Len(t.data)
    BY <2>1, OpenHasByte, TreeType DEF Sound
  <2> QED
    BY <2>2, TreeType, ElementOfSeq, HeadType DEF Sound, HeadOf
<1>2. CASE HeadOf(t).type \in {"invalid", "unsupported"}
  <2>1. PICK type : type = HeadOf(t).type
    OBVIOUS
  <2>2. type \in Errors
    BY <1>2, <2>1 DEF Errors
  <2>3. mpack_tree_parse_node(t) = mpack_tree_flag_error(t, type)
    BY <1>2, <2>1 DEF mpack_tree_parse_node, HeadOf
  <2> QED
    BY <2>2, <2>3, FlagSound
<1>3. CASE HeadOf(t).type \notin {"invalid", "unsupported"}
  <2>0. PICK width \in Nat : width = HeadOf(t).width
    BY <1>1 DEF Heads
  <2>1. PICK u : u = [t EXCEPT !.reserved = width, !.stage = "head"]
    OBVIOUS
  <2>2. /\ u \in Tree /\ u.data = t.data /\ u.size = t.size /\ u.capacity = t.capacity /\ u.max_size = t.max_size
        /\ u.stream = t.stream /\ u.nodes = t.nodes /\ u.pages = t.pages /\ u.err = t.err
        /\ u.stage = "head" /\ u.state = t.state /\ u.reserved = width
        /\ u.stack = t.stack /\ u.current = t.current /\ u.nodes_left = t.nodes_left /\ u.possible = t.possible
    BY <2>1 DEF Sound, Tree
  <2>3. Fits(u) /\ Within(u)
    BY <2>2 DEF Sound, Fits, Within
  <2>4. Stages(u)
    BY <2>0, <2>2 DEF Sound, Stages, Open, HeadOf
  <2> QED
    BY <1>3, <2>0, <2>1, <2>2, <2>3, <2>4 DEF Sound, mpack_tree_parse_node, HeadOf
<1> QED
  BY <1>2, <1>3

\* The first byte of a message is there: the root is awaited.
LEMMA StartSound ==
  ASSUME NEW t, Sound(t), t.stage = "start", t.err = "ok", ~Waits(t)
  PROVE  Sound(StartThere(t)) /\ StartThere(t).err = "ok"
<1>1. PICK first, root, u :
        /\ first = IF t.pool = 0 THEN NodesPerPage ELSE t.pool
        /\ root = [child |-> <<1, 1>>, left |-> 1]
        /\ u = [t EXCEPT !.possible = @ - 1, !.node_count = 1, !.pages = <<first>>, !.current = 1,
                         !.nodes_left = first - 1, !.stack = <<root>>, !.stage = "node"]
  OBVIOUS
<1>2. first \in Nat \ {0} /\ root \in Level /\ root.left = 1 /\ root.child = <<1, 1>>
  BY <1>1, TreeAssumption, TreeType DEF Sound, Level, Places
<1>3. <<first>> \in Seq(Nat) /\ DOMAIN <<first>> = {1} /\ <<first>>[1] = first
  BY <1>2
<1>4. /\ <<root>> \in Stack /\ Len(<<root>>) = 1 /\ <<root>>[1] = root
      /\ Cardinality(Awaited(<<root>>)) = 1
  <2>1. <<>> \in Stack /\ Append(<<>>, root) = <<root>>
    BY EmptyNodes
  <2>2. Awaited(<<>>) = {}
    BY DEF Awaited
  <2>3. Cardinality(Awaited(<<>>)) = 0
    BY <2>2, FS_EmptySet
  <2>4. <<root>> \in Stack /\ Cardinality(Awaited(<<root>>)) = Cardinality(Awaited(<<>>)) + root.left
    BY <1>2, <2>1, AwaitedMore
  <2> QED
    BY <1>2, <2>3, <2>4
<1>5. /\ u \in Tree /\ u.data = t.data /\ u.size = t.size /\ u.capacity = t.capacity /\ u.max_size = t.max_size
      /\ u.stream = t.stream /\ u.nodes = t.nodes /\ u.pages = <<first>> /\ u.err = t.err
      /\ u.stage = "node" /\ u.state = t.state
      /\ u.stack = <<root>> /\ u.current = 1 /\ u.nodes_left = first - 1 /\ u.possible = t.possible - 1
  <2>1. PICK pages, stack : pages = <<first>> /\ stack = <<root>>
    OBVIOUS
  <2>2. pages \in Seq(Nat) /\ stack \in Stack
    BY <1>3, <1>4, <2>1
  <2>3. u = [t EXCEPT !.possible = @ - 1, !.node_count = 1, !.pages = pages, !.current = 1,
                      !.nodes_left = first - 1, !.stack = stack, !.stage = "node"]
    BY <1>1, <2>1
  <2>4. first - 1 \in Nat /\ t.possible - 1 \in Int
    BY <1>2, TreeType DEF Sound
  <2> QED
    BY <2>1, <2>2, <2>3, <2>4, TreeType, ZenonT(20) DEF Sound, Tree
<1>6. /\ t.size = 0 /\ DOMAIN t.nodes = {} /\ t.possible = Len(t.data) /\ t.reserved = 1
      /\ t.state = "in_progress" /\ t.possible >= 1
  BY TreeType DEF Sound, Stages, Waits
<1>7. Fits(u) /\ Within(u)
  BY <1>5, <1>6 DEF Sound, Fits, Within
<1>8. Open(u)
  <2>1. RoomFor(root, <<first>>)
    BY <1>2, <1>3 DEF RoomFor
  <2> QED
    BY <1>2, <1>3, <1>4, <1>5, <1>6, <2>1, TreeType DEF Sound, Open
<1>9. Stages(u)
  BY <1>5, <1>6, <1>8 DEF Stages
<1> QED
  BY <1>1, <1>5, <1>7, <1>9 DEF Sound, StartThere

\* The body that a head announces.
LEMMA BodyType ==
  ASSUME NEW t \in Tree, t.size + 1 <= Len(t.data), t.size + 1 + HeadOf(t).width <= Len(t.data)
  PROVE  /\ HeadOf(t) \in Heads /\ HeadOf(t).width \in Nat /\ HeadOf(t).type \in Types
         /\ Announced(t) \in Int
         /\ HeadOf(t).type \in {"map", "array", "str", "bin"} => Announced(t) \in Nat
         /\ Elements(HeadOf(t).type, Announced(t)) \in Nat
         /\ BodyOf(t) \in Nat
         /\ HeadOf(t).type \in {"map", "array"} => BodyOf(t) = Elements(HeadOf(t).type, Announced(t))
         /\ HeadOf(t).type \in {"str", "bin"} => BodyOf(t) = Announced(t)
         /\ HeadOf(t).type \notin {"map", "array"} => Elements(HeadOf(t).type, Announced(t)) = 0
<1>1. PICK head, n : head = HeadOf(t) /\ n = Announced(t)
  OBVIOUS
<1>2. t.data \in Seq(Byte) /\ t.size \in Nat /\ t.size + 1 \in 1 .. Len(t.data)
  BY TreeType
<1>3. t.data[t.size + 1] \in Byte
  BY <1>2, ElementOfSeq
<1>4. head \in Heads
  BY <1>1, <1>3, HeadType DEF HeadOf
<1>5. head.width \in Nat /\ head.type \in Types
  BY <1>4 DEF Heads
<1>6. n \in Int /\ (head.type \in {"map", "array", "str", "bin"} => n \in Nat)
  BY <1>1, <1>2, AnnouncedType DEF HeadOf
<1>7. Elements(head.type, n) \in Nat /\ (head.type \notin {"map", "array"} => Elements(head.type, n) = 0)
  <2>1. CASE head.type = "array"
    BY <1>6, <2>1 DEF Elements
  <2>2. CASE head.type = "map"
    BY <1>6, <2>2 DEF Elements
  <2>3. CASE head.type \notin {"map", "array"}
    BY <2>3 DEF Elements
  <2> QED
    BY <2>1, <2>2, <2>3
<1>8. /\ head.type \in {"map", "array"} => BodyOf(t) = Elements(head.type, n)
      /\ head.type \in {"str", "bin"} => BodyOf(t) = n
      /\ head.type \notin {"map", "array", "str", "bin"} => BodyOf(t) = 0
  BY <1>1 DEF BodyOf
<1> QED
  BY <1>1, <1>4, <1>5, <1>6, <1>7, <1>8

\* The head is there: its body is to be reserved.
LEMMA HeadSound ==
  ASSUME NEW t, Sound(t), t.stage = "head", t.err = "ok", ~Waits(t)
  PROVE  Sound(HeadThere(t))
<1>1. Open(t) /\ t.reserved = HeadOf(t).width /\ t.state = "in_progress"
  BY DEF Sound, Stages
<1>2. t.size + 1 <= Len(t.data) /\ t.size + 1 + HeadOf(t).width <= Len(t.data)
  BY <1>1, OpenHasByte, TreeType, SMTT(20) DEF Sound, Waits
<1>3. PICK type, n, elements, body : /\ type = HeadOf(t).type /\ n = Announced(t)
                                     /\ elements = Elements(type, n) /\ body = BodyOf(t)
  OBVIOUS
<1>4. elements \in Nat /\ body \in Nat
  BY <1>2, <1>3, BodyType DEF Sound
<1>5. PICK u : u = [t EXCEPT !.node_count = t.node_count + elements, !.reserved = @ + body, !.stage = "body"]
  OBVIOUS
<1>6. HeadThere(t) = IF type \in {"array", "map"} /\ t.node_count + elements > t.max_nodes
                     THEN mpack_tree_flag_error(t, "too_big") ELSE u
  BY <1>3, <1>5, Zenon DEF HeadThere, HeadOf, BodyOf
<1>7. /\ u \in Tree /\ u.data = t.data /\ u.size = t.size /\ u.capacity = t.capacity /\ u.max_size = t.max_size
      /\ u.stream = t.stream /\ u.nodes = t.nodes /\ u.pages = t.pages /\ u.err = t.err
      /\ u.stage = "body" /\ u.state = t.state /\ u.reserved = t.reserved + body
      /\ u.stack = t.stack /\ u.current = t.current /\ u.nodes_left = t.nodes_left /\ u.possible = t.possible
  <2>1. PICK count, reserved : count = t.node_count + elements /\ reserved = t.reserved + body
    OBVIOUS
  <2>2. t.node_count \in Nat /\ t.reserved \in Nat
    BY TreeType DEF Sound
  <2>3. count \in Nat /\ reserved \in Nat
    BY <1>4, <2>1, <2>2
  <2>4. u = [t EXCEPT !.node_count = count, !.reserved = reserved, !.stage = "body"]
    BY <1>5, <2>1
  <2> QED
    BY <2>1, <2>3, <2>4 DEF Sound, Tree
<1>8. Fits(u) /\ Within(u)
  BY <1>7 DEF Sound, Fits, Within
<1>9. HeadOf(u) = HeadOf(t) /\ BodyOf(u) = BodyOf(t)
  BY <1>7, Zenon DEF HeadOf, BodyOf, Announced
<1>10. Stages(u)
  BY <1>1, <1>2, <1>3, <1>7, <1>9 DEF Stages, Open
<1> QED
  BY <1>6, <1>7, <1>8, <1>10, FlagSound DEF Sound, Errors

\* A node is put at its place.
LEMMA PutType ==
  ASSUME NEW nodes \in Nodes, NEW place \in Places, NEW node \in Node
  PROVE  /\ Put(nodes, place, node) \in Nodes
         /\ DOMAIN Put(nodes, place, node) = DOMAIN nodes \union {place}
         /\ Put(nodes, place, node)[place] = node
         /\ \A p \in DOMAIN nodes : p # place => Put(nodes, place, node)[p] = nodes[p]
<1>1. PICK places \in SUBSET Places : nodes \in [places -> Node]
  BY DEF Nodes
<1>2. PICK put : put = [p \in places \union {place} |-> IF p = place THEN node ELSE nodes[p]]
  OBVIOUS
<1>3. put = Put(nodes, place, node)
  BY <1>1, <1>2 DEF Put
<1>4. put \in [places \union {place} -> Node] /\ places \union {place} \in SUBSET Places
  BY <1>1, <1>2
<1>5. put \in Nodes
  BY <1>4, Zenon DEF Nodes
<1> QED
  BY <1>1, <1>2, <1>3, <1>5

\* The bytes of a node pass: those for its children are awaited from now on, that of the node no more.
LEMMA BytesPass ==
  ASSUME NEW u \in Tree, NEW elements \in Nat, NEW before \in Nat, before - 1 \in Nat,
         u.possible = Len(u.data) - u.size - before + elements, u.reserved <= u.possible, elements <= u.reserved
  PROVE  /\ u.size + u.reserved + 1 - elements \in Nat /\ u.size <= u.size + u.reserved + 1 - elements
         /\ u.size + u.reserved + 1 - elements <= Len(u.data)
         /\ u.possible - u.reserved \in Nat
         /\ u.possible - u.reserved = Len(u.data) - (u.size + u.reserved + 1 - elements) - (before - 1)
<1>1. PICK s \in Nat, r \in Nat, p \in Int, l \in Nat :
        s = u.size /\ r = u.reserved /\ p = u.possible /\ l = Len(u.data)
  BY TreeType
<1>2. p = l - s - before + elements /\ r <= p /\ elements <= r
  BY <1>1, Zenon
<1>3. r <= p /\ elements <= r
  BY <1>2, Zenon
<1>4. p - r \in Nat /\ r - elements \in Nat
  BY <1>3
<1>5. s + r + 1 - elements \in Nat /\ s <= s + r + 1 - elements
  BY <1>4
<1>6. p - r = l - (s + r + 1 - elements) - (before - 1)
  BY <1>2
<1>7. s + r + 1 - elements <= l
  BY <1>2
<1> QED
  BY <1>1, <1>4, <1>5, <1>6, <1>7, Zenon

(* A node is parsed: u is the tree when the places of its children are known,
   if it has any, and await them.                                            *)
LEMMA FinishSound ==
  ASSUME NEW u, u \in Tree, Fits(u), Within(u), u.err = "ok", u.state = "in_progress",
         NEW level \in 1 .. Len(u.stack), u.stack[level].left > 0,
         \A i \in 1 .. Len(u.stack) : RoomFor(u.stack[i], u.pages),
         u.current \in DOMAIN u.pages, u.nodes_left <= u.pages[u.current],
         NEW node \in Node, NEW elements \in Nat, elements = Elements(node.type, node.n),
         u.possible = Len(u.data) - u.size - Cardinality(Awaited(u.stack)) + elements,
         u.reserved <= u.possible, elements <= u.reserved,
         NodeWithin(node, u.size + u.reserved + 1 - elements, u.pages)
  PROVE  Sound(FinishNode(u, level, node)) /\ FinishNode(u, level, node).err = "ok"
<1>1. PICK top, child : top = u.stack[level] /\ child = Child(top.child, 1)
  OBVIOUS
<1>2. /\ u.stack \in Stack /\ level \in DOMAIN u.stack /\ Len(u.stack) \in Nat
      /\ top.child \in Places /\ top.left \in Nat /\ top.left > 0
  BY <1>1, TreeType, LevelType
<1>3. top.child[1] \in Nat /\ top.child[2] \in Nat /\ child = <<top.child[1], top.child[2] + 1>> /\ child \in Places
  BY <1>1, <1>2 DEF Child, Places
<1>4. PICK less, kept : less = ChildParsed(u.stack, level) /\ kept = PopFinished(less)
  OBVIOUS
<1>5. /\ less \in Stack /\ Len(less) = Len(u.stack)
      /\ less[level] = [child |-> child, left |-> top.left - 1]
      /\ \A i \in DOMAIN u.stack : i # level => less[i] = u.stack[i]
      /\ Cardinality(Awaited(less)) = Cardinality(Awaited(u.stack)) - 1
  <2>1. PICK stack \in Stack : stack = u.stack
    BY <1>2
  <2>2. level \in DOMAIN stack /\ stack[level] = top /\ stack[level].left > 0
    BY <1>1, <1>2, <2>1, Zenon
  <2>3. /\ ChildParsed(stack, level) \in Stack /\ Len(ChildParsed(stack, level)) = Len(stack)
        /\ ChildParsed(stack, level)[level]
             = [child |-> Child(stack[level].child, 1), left |-> stack[level].left - 1]
        /\ \A i \in DOMAIN stack : i # level => ChildParsed(stack, level)[i] = stack[i]
        /\ Cardinality(Awaited(ChildParsed(stack, level))) = Cardinality(Awaited(stack)) - 1
    BY <2>2, AwaitedLess, Zenon
  <2> QED
    BY <1>1, <1>4, <2>1, <2>2, <2>3, Zenon
<1>6. /\ kept \in Stack /\ Len(kept) <= Len(less) /\ Len(kept) \in Nat
      /\ \A i \in 1 .. Len(kept) : kept[i] = less[i]
      /\ Len(kept) > 0 => kept[Len(kept)].left > 0
      /\ Awaited(kept) = Awaited(less)
      /\ Cardinality(Awaited(kept)) \in Nat
  BY <1>4, <1>5, AwaitedKept, AwaitedFinite, LevelType
<1>7. PICK size, possible : size = u.size + u.reserved + 1 - elements /\ possible = u.possible - u.reserved
  OBVIOUS
<1>8. /\ size \in Nat /\ u.size <= size /\ possible \in Nat
      /\ possible = Len(u.data) - size - Cardinality(Awaited(kept))
      /\ size <= Len(u.data)
  <2>1. /\ Cardinality(Awaited(kept)) = Cardinality(Awaited(less))
        /\ Cardinality(Awaited(kept)) \in Nat /\ Cardinality(Awaited(u.stack)) \in Nat
    BY <1>2, <1>6, AwaitedFinite
  <2>2. PICK awaited \in Nat, before \in Nat :
          awaited = Cardinality(Awaited(kept)) /\ before = Cardinality(Awaited(u.stack)) /\ awaited = before - 1
    BY <1>5, <2>1
  <2>3. u.possible = Len(u.data) - u.size - before + elements /\ before - 1 \in Nat
    BY <2>2, Zenon
  <2>4. /\ u.size + u.reserved + 1 - elements \in Nat /\ u.size <= u.size + u.reserved + 1 - elements
        /\ u.size + u.reserved + 1 - elements <= Len(u.data)
        /\ u.possible - u.reserved \in Nat
        /\ u.possible - u.reserved = Len(u.data) - (u.size + u.reserved + 1 - elements) - (before - 1)
    BY <2>3, BytesPass, Zenon
  <2> QED
    BY <1>7, <2>2, <2>4, Zenon
<1>9. PICK nodes : nodes = Put(u.nodes, top.child, node)
  OBVIOUS
<1>10. /\ nodes \in Nodes /\ DOMAIN nodes = DOMAIN u.nodes \union {top.child} /\ nodes[top.child] = node
       /\ \A p \in DOMAIN u.nodes : p # top.child => nodes[p] = u.nodes[p]
  <2>1. u.nodes \in Nodes
    BY TreeType
  <2>2. PICK place \in Places : place = top.child
    BY <1>2
  <2>3. nodes = Put(u.nodes, place, node)
    BY <1>9, <2>2
  <2>4. /\ Put(u.nodes, place, node) \in Nodes
        /\ DOMAIN Put(u.nodes, place, node) = DOMAIN u.nodes \union {place}
        /\ Put(u.nodes, place, node)[place] = node
        /\ \A p \in DOMAIN u.nodes : p # place => Put(u.nodes, place, node)[p] = u.nodes[p]
    BY <2>1, PutType, ZenonT(20)
  <2> QED
    BY <2>2, <2>3, <2>4
<1>11. PICK v : v = [u EXCEPT !.nodes = nodes, !.possible = possible, !.size = size, !.stack = kept,
                              !.stage = IF kept = <<>> THEN "idle" ELSE "node",
                              !.state = IF kept = <<>> THEN "parsed" ELSE @]
  OBVIOUS
<1>12. v = FinishNode(u, level, node)
  BY <1>1, <1>4, <1>7, <1>9, <1>11, Zenon DEF FinishNode
<1>13. /\ v \in Tree /\ v.data = u.data /\ v.size = size /\ v.capacity = u.capacity /\ v.max_size = u.max_size
       /\ v.stream = u.stream /\ v.nodes = nodes /\ v.pages = u.pages /\ v.err = u.err
       /\ v.stack = kept /\ v.current = u.current /\ v.nodes_left = u.nodes_left /\ v.possible = possible
       /\ v.stage = (IF kept = <<>> THEN "idle" ELSE "node")
       /\ v.state = (IF kept = <<>> THEN "parsed" ELSE u.state)
  <2>1. PICK stage, state : /\ stage = IF kept = <<>> THEN "idle" ELSE "node"
                            /\ state = IF kept = <<>> THEN "parsed" ELSE u.state
    OBVIOUS
  <2>2. stage \in {"idle", "node"} /\ state \in {"parsed", "in_progress"}
    BY <2>1
  <2>3. v = [u EXCEPT !.nodes = nodes, !.possible = possible, !.size = size, !.stack = kept,
                      !.stage = stage, !.state = state]
    BY <1>11, <2>1, Zenon
  <2>4. possible \in Int
    BY <1>8
  <2> QED
    BY <1>6, <1>8, <1>10, <2>1, <2>2, <2>3, <2>4, ZenonT(20) DEF Tree
<1>14. Fits(v)
  BY <1>8, <1>13 DEF Fits
<1>15. Within(v)
  <2>1. PlaceWithin(top.child, u.pages)
    <3>1. RoomFor(top, u.pages)
      BY <1>1
    <3>2. top.child[1] \in DOMAIN u.pages /\ top.child[2] + top.left - 1 <= u.pages[top.child[1]]
      BY <3>1 DEF RoomFor
    <3>3. u.pages[top.child[1]] \in Nat
      BY <3>2, TreeType, ElementOfSeq, LenProperties
    <3> QED
      BY <1>2, <1>3, <3>2, <3>3 DEF PlaceWithin
  <2>2. NodeWithin(node, size, u.pages)
    BY <1>7
  <2>3. ASSUME NEW p \in DOMAIN u.nodes, p # top.child
        PROVE  PlaceWithin(p, u.pages) /\ NodeWithin(u.nodes[p], size, u.pages)
    <3>1. PlaceWithin(p, u.pages) /\ NodeWithin(u.nodes[p], u.size, u.pages)
      BY DEF Within
    <3>2. u.size \in Nat
      BY TreeType
    <3> QED
      BY <1>8, <3>1, <3>2, SMTT(20) DEF NodeWithin
  <2>4. \A p \in DOMAIN nodes : PlaceWithin(p, u.pages) /\ NodeWithin(nodes[p], size, u.pages)
    BY <1>10, <2>1, <2>2, <2>3, Zenon
  <2> QED
    BY <1>13, <2>4 DEF Within
<1>16. CASE kept = <<>>
  BY <1>12, <1>13, <1>14, <1>15, <1>16 DEF Sound, Stages
<1>17. CASE kept # <<>>
  <2>1. Len(kept) > 0
    BY <1>6, <1>17, EmptySeq DEF Stack
  <2>2. ASSUME NEW i \in 1 .. Len(kept) PROVE RoomFor(kept[i], u.pages)
    <3>1. i \in 1 .. Len(u.stack) /\ kept[i] = less[i]
      BY <1>2, <1>5, <1>6
    <3>2. CASE i = level
      <4>1. RoomFor(top, u.pages)
        BY <1>1
      <4>2. kept[i].child = <<top.child[1], top.child[2] + 1>> /\ kept[i].left = top.left - 1
        BY <1>3, <1>5, <3>1, <3>2, SMTT(20)
      <4>3. PICK c \in Nat, d \in Nat, n \in Nat : c = top.child[1] /\ d = top.child[2] /\ n = top.left
        BY <1>2, <1>3
      <4>4. kept[i].child[1] = c /\ kept[i].child[2] = d + 1 /\ kept[i].left = n - 1
        BY <4>2, <4>3
      <4>5. c \in DOMAIN u.pages /\ d + n - 1 <= u.pages[c]
        BY <4>1, <4>3 DEF RoomFor
      <4>6. d + 1 + (n - 1) - 1 <= u.pages[c]
        BY <4>5
      <4> QED
        BY <4>4, <4>5, <4>6 DEF RoomFor
    <3>3. CASE i # level
      BY <1>2, <1>5, <3>1, <3>3, LevelType
    <3> QED
      BY <3>2, <3>3
  <2>3. Open(v)
    BY <1>6, <1>8, <1>13, <2>1, <2>2 DEF Open
  <2> QED
    BY <1>12, <1>13, <1>14, <1>15, <1>17, <2>3 DEF Sound, Stages
<1> QED
  BY <1>16, <1>17

------------------------------------------------------------------------------
(* The body of a node.                                                       *)

\* Pages are only added.
Extends(more, pages) == \A i \in DOMAIN pages : i \in DOMAIN more /\ more[i] = pages[i]

\* What was parsed stays within the pages when more are added.
LEMMA ExtendsKeeps ==
  ASSUME NEW t, NEW u, u.nodes = t.nodes, u.size = t.size, Extends(u.pages, t.pages), Within(t)
  PROVE  Within(u)
<1>1. ASSUME NEW place \in DOMAIN t.nodes
      PROVE  PlaceWithin(place, u.pages) /\ NodeWithin(t.nodes[place], t.size, u.pages)
  <2>1. PlaceWithin(place, t.pages) /\ NodeWithin(t.nodes[place], t.size, t.pages)
    BY DEF Within
  <2> QED
    BY <2>1, Zenon DEF PlaceWithin, NodeWithin, Extends
<1> QED
  BY <1>1 DEF Within

\* A page is added behind the others.
LEMMA PageAdded ==
  ASSUME NEW pages \in Seq(Nat), NEW page \in Nat
  PROVE  /\ Append(pages, page) \in Seq(Nat) /\ Extends(Append(pages, page), pages)
         /\ Len(pages) + 1 \in DOMAIN Append(pages, page) /\ Append(pages, page)[Len(pages) + 1] = page
<1>1. PICK more : more = Append(pages, page)
  OBVIOUS
<1>2. /\ more \in Seq(Nat) /\ Len(more) = Len(pages) + 1 /\ more[Len(pages) + 1] = page
      /\ \A i \in 1 .. Len(pages) : more[i] = pages[i]
  BY <1>1, AppendProperties
<1>3. Len(pages) \in Nat /\ DOMAIN pages = 1 .. Len(pages) /\ DOMAIN more = 1 .. Len(pages) + 1
  BY <1>2, LenProperties
<1>4. Extends(more, pages) /\ Len(pages) + 1 \in DOMAIN more
  BY <1>2, <1>3 DEF Extends
<1> QED
  BY <1>1, <1>2, <1>4

\* What the parser leaves alone when it places the children of a container.
Kept(u, t) ==
  /\ u.data = t.data /\ u.size = t.size /\ u.capacity = t.capacity /\ u.max_size = t.max_size
  /\ u.stream = t.stream /\ u.nodes = t.nodes /\ u.err = t.err /\ u.state = t.state /\ u.stage = t.stage
  /\ u.reserved = t.reserved /\ u.possible = t.possible

(* The children of a container get places one behind the other in a page, and
   what is left of the current page stays within it.                         *)
LEMMA ChildrenPlaced ==
  ASSUME NEW t \in Tree, t.current \in DOMAIN t.pages, t.nodes_left <= t.pages[t.current], NEW total \in Nat
  PROVE  /\ Grown(t, total) \in Tree /\ Kept(Grown(t, total), t) /\ Grown(t, total).stack = t.stack
         /\ Extends(Grown(t, total).pages, t.pages)
         /\ Grown(t, total).current \in DOMAIN Grown(t, total).pages
         /\ Grown(t, total).nodes_left <= Grown(t, total).pages[Grown(t, total).current]
         /\ PlaceFor(t, total) \in Places /\ PlaceFor(t, total)[1] \in DOMAIN Grown(t, total).pages
         /\ PlaceFor(t, total)[2] + total - 1 <= Grown(t, total).pages[PlaceFor(t, total)[1]]
<1> DEFINE own == total > NodesPerPage \/ t.nodes_left > NodesPerPage \div 8
           place == PlaceFor(t, total)
           grown == Grown(t, total)
<1>1. /\ t.pages \in Seq(Nat) /\ t.current \in Nat /\ t.nodes_left \in Nat /\ t.pages[t.current] \in Nat
      /\ Len(t.pages) \in Nat
  BY TreeType, ElementOfSeq, LenProperties
<1>2. PICK l \in Nat, c \in Nat, n \in Nat, k \in Nat :
        l = t.nodes_left /\ c = t.pages[t.current] /\ n = Len(t.pages) /\ k = NodesPerPage
  BY <1>1, TreeAssumption
<1>3. l <= c
  BY <1>2, Zenon
<1>4. CASE total <= t.nodes_left
  <2>1. total <= l
    BY <1>2, <1>4, Zenon
  <2>2. PICK left \in Nat, first \in Nat : left = l - total /\ first = c - l + 1
    BY <1>3, <2>1
  <2>3. left <= c /\ first + total - 1 <= c
    BY <1>3, <2>1, <2>2
  <2>4. grown = [t EXCEPT !.nodes_left = left]
    <3>1. ~(total > t.nodes_left)
      BY <1>1, <1>4
    <3>2. PICK lessened : lessened = [t EXCEPT !.nodes_left = @ - total]
      OBVIOUS
    <3>3. grown = lessened
      BY <1>4, <3>1, <3>2, Zenon DEF Grown
    <3>4. left = t.nodes_left - total
      BY <1>2, <2>2, Zenon
    <3> QED
      BY <3>2, <3>3, <3>4
  <2>5. grown \in Tree /\ Kept(grown, t) /\ grown.stack = t.stack
        /\ grown.pages = t.pages /\ grown.current = t.current /\ grown.nodes_left = left
    BY <2>4, ZenonT(20) DEF Tree, Kept
  <2>6. place = <<t.current, first>>
    BY <1>2, <1>4, <2>2, Zenon DEF PlaceFor
  <2>7. place \in Places /\ place[1] = t.current /\ place[2] = first
    BY <1>1, <2>6 DEF Places
  <2>8. Extends(t.pages, t.pages)
    BY DEF Extends
  <2> QED
    BY <1>2, <2>3, <2>5, <2>7, <2>8, Zenon
<1>5. CASE total > t.nodes_left /\ own
  <2>1. PICK pages : pages = Append(t.pages, total)
    OBVIOUS
  <2>2. pages \in Seq(Nat) /\ Extends(pages, t.pages) /\ n + 1 \in DOMAIN pages /\ pages[n + 1] = total
    BY <1>1, <1>2, <2>1, PageAdded
  <2>3. ~(total <= t.nodes_left)
    BY <1>1, <1>5
  <2>4. grown = [t EXCEPT !.pages = pages]
    BY <1>5, <2>1, <2>3, Zenon DEF Grown
  <2>5. grown \in Tree /\ Kept(grown, t) /\ grown.stack = t.stack
        /\ grown.pages = pages /\ grown.current = t.current /\ grown.nodes_left = t.nodes_left
    BY <2>2, <2>4, ZenonT(20) DEF Tree, Kept
  <2>6. place = <<n + 1, 1>>
    BY <1>2, <2>3, Zenon DEF PlaceFor
  <2>7. place \in Places /\ place[1] = n + 1 /\ place[2] = 1 /\ 1 + total - 1 <= total
    BY <2>6 DEF Places
  <2>8. t.current \in DOMAIN pages /\ t.nodes_left <= pages[t.current]
    BY <2>2, Zenon DEF Extends
  <2> QED
    BY <2>2, <2>5, <2>7, <2>8, Zenon
<1>6. CASE total > t.nodes_left /\ ~own
  <2>1. PICK pages : pages = Append(t.pages, k)
    OBVIOUS
  <2>2. pages \in Seq(Nat) /\ Extends(pages, t.pages) /\ n + 1 \in DOMAIN pages /\ pages[n + 1] = k
    BY <1>1, <1>2, <2>1, PageAdded
  <2>3. ~(total <= t.nodes_left)
    BY <1>1, <1>6
  <2>4. total <= k
    <3>1. ~(total > k)
      BY <1>2, <1>6, Zenon
    <3> QED
      BY <3>1
  <2>5. PICK left \in Nat, current \in Nat : left = k - total /\ current = n + 1 /\ left <= k
    BY <2>4
  <2>6. grown = [t EXCEPT !.pages = pages, !.current = current, !.nodes_left = left]
    BY <1>2, <1>6, <2>1, <2>3, <2>5, Zenon DEF Grown
  <2>7. grown \in Tree /\ Kept(grown, t) /\ grown.stack = t.stack
        /\ grown.pages = pages /\ grown.current = current /\ grown.nodes_left = left
    <3>1. grown \in Tree
      BY <2>2, <2>6, ZenonT(20) DEF Tree
    <3>2. Kept(grown, t)
      BY <2>6 DEF Tree, Kept
    <3> QED
      BY <2>6, <3>1, <3>2 DEF Tree
  <2>8. place = <<n + 1, 1>>
    BY <1>2, <2>3, Zenon DEF PlaceFor
  <2>9. place \in Places /\ place[1] = n + 1 /\ place[2] = 1 /\ 1 + total - 1 <= k
    BY <2>4, <2>8 DEF Places
  <2> QED
    BY <2>2, <2>5, <2>7, <2>9, Zenon
<1>7. total <= t.nodes_left \/ total > t.nodes_left
  BY <1>1
<1> QED
  BY <1>4, <1>5, <1>6, <1>7, Zenon

\* The body of a node is there, whatever its type.
LEMMA BodySound ==
  ASSUME NEW t, Sound(t), t.stage = "body", t.err = "ok", ~Waits(t)
  PROVE  Sound(BodyThere(t))
<1>1. PICK type, n, total : type = HeadOf(t).type /\ n = Announced(t) /\ total = Elements(type, n)
  OBVIOUS
<1>2. /\ t \in Tree /\ Fits(t) /\ Within(t) /\ Open(t) /\ t.state = "in_progress"
      /\ t.size + 1 <= Len(t.data) /\ t.size + 1 + HeadOf(t).width <= Len(t.data)
      /\ t.reserved = HeadOf(t).width + BodyOf(t)
  BY OpenHasByte, TreeType DEF Sound, Stages
<1>3. /\ HeadOf(t).width \in Nat /\ type \in Types /\ n \in Int /\ total \in Nat /\ BodyOf(t) \in Nat
      /\ type \in {"map", "array"} => BodyOf(t) = total /\ n \in Nat
      /\ type \in {"str", "bin"} => BodyOf(t) = n /\ n \in Nat
      /\ type \notin {"map", "array"} => total = 0
  BY <1>1, <1>2, BodyType
<1>4. /\ t.reserved \in Nat /\ t.possible \in Int /\ t.size \in Nat /\ Len(t.data) \in Nat
      /\ t.reserved <= t.possible /\ total <= t.reserved
      /\ t.possible = Len(t.data) - t.size - Cardinality(Awaited(t.stack))
  BY <1>2, <1>3, TreeType, SMTT(20) DEF Waits, Open
<1>5. /\ t.stack \in Stack /\ Len(t.stack) \in 1 .. Len(t.stack) /\ t.stack[Len(t.stack)].left > 0
      /\ \A i \in 1 .. Len(t.stack) : RoomFor(t.stack[i], t.pages)
      /\ t.current \in DOMAIN t.pages /\ t.nodes_left <= t.pages[t.current]
  BY <1>2, TreeType, LevelType DEF Open
<1>6. Cardinality(Awaited(t.stack)) \in Nat
  BY <1>5, AwaitedFinite
<1>7. CASE type \notin {"map", "array"}
  <2>1. PICK at, node : /\ at = IF type \in {"str", "bin"} THEN t.size + t.reserved + 1 - n ELSE 0
                        /\ node = [type |-> type, n |-> n, at |-> at]
    OBVIOUS
  <2>2. BodyThere(t) = FinishNode(t, Len(t.stack), node)
    BY <1>1, <1>7, <2>1, Zenon DEF BodyThere, HeadOf
  <2>3. at \in Nat /\ (type \in {"str", "bin"} => at + n = t.size + t.reserved + 1)
    <3>1. CASE type \in {"str", "bin"}
      <4>1. PICK w \in Nat, b \in Nat, s \in Nat, r \in Nat :
              w = HeadOf(t).width /\ b = n /\ s = t.size /\ r = t.reserved
        BY <1>3, <1>4, <3>1
      <4>2. r = w + b
        BY <1>2, <1>3, <3>1, <4>1, Zenon
      <4>3. s + r + 1 - b \in Nat /\ s + r + 1 - b + b = s + r + 1
        BY <4>2
      <4> QED
        BY <2>1, <3>1, <4>1, <4>3, Zenon
    <3>2. CASE type \notin {"str", "bin"}
      BY <2>1, <3>2
    <3> QED
      BY <3>1, <3>2
  <2>4. node \in Node /\ node.type = type /\ node.n = n /\ node.at = at
    BY <1>3, <2>1, <2>3 DEF Node
  <2>5. NodeWithin(node, t.size + t.reserved + 1 - total, t.pages)
    <3>1. t.size + t.reserved + 1 - total = t.size + t.reserved + 1
      BY <1>3, <1>4, <1>7
    <3>2. type \in {"str", "bin"} => at + n <= t.size + t.reserved + 1
      BY <1>4, <2>3
    <3> QED
      BY <1>3, <1>7, <2>3, <2>4, <3>1, <3>2 DEF NodeWithin
  <2>6. t.possible = Len(t.data) - t.size - Cardinality(Awaited(t.stack)) + total
    BY <1>3, <1>4, <1>6, <1>7
  <2>7. total = Elements(node.type, node.n)
    BY <1>1, <2>4
  <2>8. Sound(FinishNode(t, Len(t.stack), node))
    BY <1>2, <1>3, <1>4, <1>5, <2>4, <2>5, <2>6, <2>7, FinishSound, Zenon
  <2> QED
    BY <2>2, <2>8
<1>8. CASE type \in {"map", "array"} /\ total > t.nodes_left /\ t.pool # 0
  <2>1. BodyThere(t) = mpack_tree_flag_error(t, "too_big")
    BY <1>1, <1>8, Zenon DEF BodyThere, HeadOf, mpack_tree_parse_children
  <2> QED
    BY <2>1, FlagSound DEF Errors
<1>9. CASE type \in {"map", "array"} /\ ~(total > t.nodes_left /\ t.pool # 0)
  <2>1. PICK place, grown, top, node, u :
          /\ place = PlaceFor(t, total) /\ grown = Grown(t, total) /\ u = Opened(t, total)
          /\ top = [child |-> place, left |-> total]
          /\ node = [type |-> type, n |-> n, at |-> place]
    OBVIOUS
  <2>2. /\ grown \in Tree /\ Kept(grown, t) /\ grown.stack = t.stack /\ Extends(grown.pages, t.pages)
        /\ grown.current \in DOMAIN grown.pages /\ grown.nodes_left <= grown.pages[grown.current]
        /\ place \in Places /\ place[1] \in DOMAIN grown.pages /\ place[2] + total - 1 <= grown.pages[place[1]]
    BY <1>2, <1>3, <1>5, <2>1, ChildrenPlaced
  <2>3. top \in Level /\ top.left = total /\ RoomFor(top, grown.pages)
    BY <1>3, <2>1, <2>2 DEF Level, RoomFor
  <2>4. u = IF total = 0 THEN grown ELSE [grown EXCEPT !.stack = Append(@, top)]
    BY <2>1, Zenon DEF Opened
  <2>5. BodyThere(t) = mpack_tree_parse_children(t, type, n)
    BY <1>1, <1>9, Zenon DEF BodyThere, HeadOf
  <2>6. mpack_tree_parse_children(t, type, n) = FinishNode(u, Len(t.stack), node)
    BY <1>1, <1>9, <2>1, Zenon DEF mpack_tree_parse_children
  <2>7. node \in Node /\ node.type = type /\ node.n = n /\ node.at = place
    BY <1>3, <2>1, <2>2 DEF Node
  <2>8. /\ u \in Tree /\ Kept(u, t) /\ u.pages = grown.pages
        /\ u.current = grown.current /\ u.nodes_left = grown.nodes_left
        /\ Len(t.stack) \in 1 .. Len(u.stack) /\ u.stack[Len(t.stack)].left > 0
        /\ \A i \in 1 .. Len(u.stack) : RoomFor(u.stack[i], u.pages)
        /\ Cardinality(Awaited(u.stack)) = Cardinality(Awaited(t.stack)) + total
    <3>1. \A i \in 1 .. Len(t.stack) : RoomFor(t.stack[i], grown.pages)
      BY <1>5, <2>2, Zenon DEF RoomFor, Extends
    <3>2. CASE total = 0
      BY <1>5, <1>6, <2>2, <2>4, <3>1, <3>2
    <3>3. CASE total # 0
      <4>1. PICK stack : stack = Append(t.stack, top)
        OBVIOUS
      <4>2. /\ stack \in Stack /\ Len(stack) = Len(t.stack) + 1 /\ stack[Len(t.stack) + 1] = top
            /\ \A i \in 1 .. Len(t.stack) : stack[i] = t.stack[i]
            /\ Cardinality(Awaited(stack)) = Cardinality(Awaited(t.stack)) + total
        BY <1>5, <2>3, <4>1, AwaitedMore, AppendProperties DEF Stack
      <4>3. u = [grown EXCEPT !.stack = stack]
        BY <2>2, <2>4, <3>3, <4>1
      <4>4. u \in Tree /\ Kept(u, grown) /\ u.pages = grown.pages
            /\ u.current = grown.current /\ u.nodes_left = grown.nodes_left /\ u.stack = stack
        BY <2>2, <4>2, <4>3 DEF Tree, Kept
      <4>5. Kept(u, t)
        BY <2>2, <4>4 DEF Kept
      <4>6. \A i \in 1 .. Len(u.stack) : RoomFor(u.stack[i], u.pages)
        <5>1. ASSUME NEW i \in 1 .. Len(t.stack) + 1 PROVE RoomFor(stack[i], grown.pages)
          <6>1. CASE i = Len(t.stack) + 1
            BY <2>3, <4>2, <6>1
          <6>2. CASE i # Len(t.stack) + 1
            BY <1>5, <3>1, <4>2, <6>2
          <6> QED
            BY <6>1, <6>2
        <5> QED
          BY <4>2, <4>4, <5>1
      <4>7. Len(t.stack) \in 1 .. Len(u.stack) /\ u.stack[Len(t.stack)].left > 0
        BY <1>5, <4>2, <4>4
      <4> QED
        BY <4>2, <4>4, <4>5, <4>6, <4>7
    <3> QED
      BY <3>2, <3>3
  <2>9. Fits(u) /\ Within(u)
    <3>1. Fits(u)
      BY <1>2, <2>8 DEF Fits, Kept
    <3>2. Within(u)
      BY <1>2, <2>2, <2>8, ExtendsKeeps DEF Kept
    <3> QED
      BY <3>1, <3>2
  <2>10. NodeWithin(node, u.size + u.reserved + 1 - total, u.pages)
    BY <1>1, <1>9, <2>2, <2>7, <2>8 DEF NodeWithin
  <2>11. u.possible = Len(u.data) - u.size - Cardinality(Awaited(u.stack)) + total
    <3>1. PICK awaited \in Nat, all \in Nat : awaited = Cardinality(Awaited(t.stack)) /\ all = awaited + total
      BY <1>3, <1>6
    <3>2. PICK p \in Int, s \in Nat, l \in Nat : p = t.possible /\ s = t.size /\ l = Len(t.data)
      BY <1>4
    <3>3. PICK e \in Nat : e = total
      BY <1>3
    <3>4. p = l - s - awaited /\ all = awaited + e
      BY <1>4, <3>1, <3>2, <3>3, Zenon
    <3>5. p = l - s - all + e
      BY <3>4
    <3>6. u.possible = p /\ u.size = s /\ Len(u.data) = l /\ Cardinality(Awaited(u.stack)) = all
      BY <2>8, <3>1, <3>2, Zenon DEF Kept
    <3> QED
      BY <3>3, <3>5, <3>6, Zenon
  <2>12. total = Elements(node.type, node.n)
    BY <1>1, <2>7
  <2>13. u.err = "ok" /\ u.state = "in_progress" /\ u.reserved <= u.possible /\ total <= u.reserved
    BY <1>2, <1>4, <2>8 DEF Kept
  <2>14. Sound(FinishNode(u, Len(t.stack), node))
    BY <1>3, <2>2, <2>7, <2>8, <2>9, <2>10, <2>11, <2>12, <2>13, FinishSound, Zenon
  <2> QED
    BY <2>5, <2>6, <2>14
<1> QED
  BY <1>7, <1>8, <1>9

\* What is reserved is there.
LEMMA ProceedSound ==
  ASSUME NEW t, Sound(t), t.stage \in {"start", "head", "body"}, t.err = "ok", ~Waits(t)
  PROVE  Sound(Proceed(t))
<1>1. CASE t.stage = "start"
  BY <1>1, StartSound DEF Proceed
<1>2. CASE t.stage = "head"
  BY <1>2, HeadSound DEF Proceed
<1>3. CASE t.stage = "body"
  BY <1>3, BodySound DEF Proceed
<1> QED
  BY <1>1, <1>2, <1>3

------------------------------------------------------------------------------
(* The read function brings bytes.                                           *)

\* The bytes that are read are counted, and fit into the buffer.
LEMMA FillSound ==
  ASSUME NEW t, Sound(t), t.stage \in {"start", "head", "body"}, t.err = "ok", ~FillFails(t),
         NEW bytes \in Seq(Byte), Len(bytes) <= Capacity(t) - Len(t.data)
  PROVE  Sound(mpack_tree_reserve_fill(t, bytes))
<1>1. /\ t \in Tree /\ Fits(t) /\ Within(t) /\ Stages(t) /\ t.state = "in_progress" /\ t.stage # "idle"
      /\ Len(t.data) + t.reserved <= t.max_size /\ t.stream
  BY TreeType DEF Sound, Stages, FillFails
<1>2. PICK capacity \in Nat, possible \in Int, brought \in Nat :
        /\ capacity = Capacity(t) /\ capacity <= t.max_size
        /\ possible = t.possible + brought /\ brought = Len(bytes)
  <2>1. Capacity(t) \in Nat /\ Capacity(t) <= t.max_size
    BY <1>1, TreeType, CapacityType DEF Fits
  <2>2. Len(bytes) \in Nat /\ t.possible + Len(bytes) \in Int
    BY <1>1, TreeType, LenProperties
  <2> USE <2>1, <2>2
  <2> WITNESS Capacity(t) \in Nat, t.possible + Len(bytes) \in Int, Len(bytes) \in Nat
  <2> QED
    BY <2>1, Zenon
<1> DEFINE data == t.data \o bytes
<1>3. data \in Seq(Byte) /\ Len(data) = Len(t.data) + brought /\ Len(t.data) \in Nat /\ Len(data) <= capacity
  <2>1. data \in Seq(Byte) /\ Len(data) = Len(t.data) + Len(bytes)
    BY <1>1, <1>2, TreeType, ConcatProperties
  <2>2. PICK l \in Nat : l = Len(t.data)
    BY <1>1, TreeType
  <2>3. brought <= capacity - l
    BY <1>2, <2>2, Zenon
  <2>4. l + brought <= capacity
    BY <2>3
  <2> QED
    BY <1>2, <2>1, <2>2, <2>4
<1>4. PICK r : r = [t EXCEPT !.capacity = capacity, !.data = data, !.possible = possible]
  OBVIOUS
<1> HIDE DEF data
<1>5. /\ r \in Tree /\ r.data = data /\ r.size = t.size /\ r.capacity = capacity /\ r.max_size = t.max_size
      /\ r.stream = t.stream /\ r.nodes = t.nodes /\ r.pages = t.pages /\ r.err = t.err
      /\ r.stage = t.stage /\ r.state = t.state /\ r.reserved = t.reserved
      /\ r.stack = t.stack /\ r.current = t.current /\ r.nodes_left = t.nodes_left /\ r.possible = possible
  BY <1>1, <1>3, <1>4 DEF Tree
<1>6. Fits(r)
  BY <1>1, <1>2, <1>3, <1>5, TreeType, SMTT(20) DEF Fits
<1>7. Within(r)
  BY <1>1, <1>5 DEF Within
<1>8. Stages(r)
  <2>1. CASE t.stage = "start"
    BY <1>1, <1>2, <1>3, <1>5, <2>1 DEF Stages
  <2>2. CASE t.stage # "start"
    <3>1. Open(t)
      BY <1>1, <2>2 DEF Stages
    <3>2. Open(r)
      <4>1. PICK s \in Nat, l \in Nat, p \in Nat, a \in Nat, b \in Nat :
              /\ s = t.size /\ l = Len(t.data) /\ p = t.possible
              /\ a = Cardinality(Awaited(t.stack)) /\ b = brought
        <5>1. t.size \in Nat /\ Len(t.data) \in Nat /\ t.possible \in Nat
          BY <1>1, <3>1, TreeType DEF Open
        <5>2. Cardinality(Awaited(t.stack)) \in Nat
          BY <1>1, <3>1, OpenHasByte
        <5> QED
          BY <5>1, <5>2, Zenon
      <4>2. p = l - s - a
        BY <3>1, <4>1, Zenon DEF Open
      <4>3. p + b = l + b - s - a /\ p + b >= 0
        BY <4>2
      <4>4. possible = p + b /\ Len(data) = l + b
        BY <1>2, <1>3, <4>1, Zenon
      <4>5. possible = Len(data) - s - a /\ possible >= 0
        BY <4>3, <4>4
      <4> QED
        BY <1>5, <3>1, <4>1, <4>5, Zenon DEF Open
    <3>3. t.size + 1 <= Len(t.data) /\ t.data \in Seq(Byte) /\ t.size \in Nat
      BY <1>1, <3>1, OpenHasByte, TreeType
    <3>4. /\ r.data[r.size + 1] = t.data[t.size + 1]
          /\ t.size + 1 + NodeHead(t.data[t.size + 1]).width <= Len(t.data) => Announced(r) = Announced(t)
      BY <1>2, <1>5, <3>3, AnnouncedSame DEF data
    <3>5. HeadOf(r) = HeadOf(t)
      BY <3>4, Zenon DEF HeadOf
    <3>6. CASE t.stage = "head"
      BY <1>1, <1>5, <3>2, <3>5, <3>6 DEF Stages
    <3>7. CASE t.stage = "body"
      <4>1. t.size + 1 + HeadOf(t).width <= Len(t.data) /\ t.reserved = HeadOf(t).width + BodyOf(t)
        BY <1>1, <3>7 DEF Stages
      <4>2. BodyOf(r) = BodyOf(t)
        BY <3>4, <3>5, <4>1, Zenon DEF BodyOf, HeadOf
      <4>3. r.size + 1 + HeadOf(r).width <= Len(r.data)
        <5>1. HeadOf(t).width \in Nat
          BY <1>1, <3>3, <4>1, BodyType
        <5> QED
          BY <1>3, <1>5, <3>3, <3>5, <4>1, <5>1
      <4> QED
        BY <1>1, <1>5, <3>2, <3>5, <3>7, <4>1, <4>2, <4>3 DEF Stages
    <3> QED
      BY <2>2, <3>6, <3>7
  <2> QED
    BY <2>1, <2>2
<1>9. Sound(r)
  BY <1>5, <1>6, <1>7, <1>8 DEF Sound
<1>10. r = [t EXCEPT !.capacity = Capacity(t), !.data = @ \o bytes, !.possible = @ + Len(bytes)]
  BY <1>2, <1>4, Zenon DEF data
<1>11. mpack_tree_reserve_fill(t, bytes) = IF Waits(r) THEN Return(r) ELSE r
  BY <1>10, Zenon DEF mpack_tree_reserve_fill
<1> QED
  BY <1>9, <1>11, ReturnSound

\* More bytes than the limit allows, or than a piece of memory has, are refused.
LEMMA FillRefusedSound ==
  ASSUME NEW t, Sound(t)
  PROVE  Sound(FillRefused(t))
  BY FlagSound, ReturnSound DEF FillRefused, Errors

------------------------------------------------------------------------------
(* The accessors only flag errors.                                           *)

\* What is parsed and promised is the same in two trees.
Frame(u, t) ==
  /\ u.nodes = t.nodes /\ u.stack = t.stack /\ u.pages = t.pages /\ u.current = t.current
  /\ u.nodes_left = t.nodes_left /\ u.node_count = t.node_count /\ u.max_nodes = t.max_nodes

\* A tree is another one but for the error that is flagged.
Alike(u, t) == Frame(u, t) /\ u.state = t.state /\ (u.err = "ok" => u = t)

\* Flagging an error changes nothing else.
LEMMA FlagAlike ==
  ASSUME NEW t \in Tree, NEW e
  PROVE  Alike(mpack_tree_flag_error(t, e), t)
<1>1. CASE t.err = "ok" /\ e = "ok"
  BY <1>1 DEF Alike, Frame, mpack_tree_flag_error, Tree
<1>2. CASE t.err # "ok" \/ e # "ok"
  BY <1>2 DEF Alike, Frame, mpack_tree_flag_error, Tree
<1> QED
  BY <1>1, <1>2

Idle(t) == Sound(t) /\ t.stage = "idle" /\ Alike(t, tree)

\* An answer with the tree unchanged, or with an error flagged.
LEMMA AnswerIdle ==
  ASSUME NEW t, Idle(t), NEW got
  PROVE  Idle(Answer(t, got).t)
  BY DEF Answer

\* A tree that rests does so with an error, too.
LEMMA FlagIdle ==
  ASSUME NEW t, Idle(t), NEW e \in Errors
  PROVE  Idle(mpack_tree_flag_error(t, e))
<1>1. Sound(mpack_tree_flag_error(t, e))
  BY FlagSound DEF Idle
<1>2. mpack_tree_flag_error(t, e).stage = "idle"
  BY DEF Idle, Sound, Tree, mpack_tree_flag_error
<1>3. Alike(mpack_tree_flag_error(t, e), tree)
  <2>1. Alike(mpack_tree_flag_error(t, e), t) /\ Alike(t, tree)
    BY FlagAlike DEF Idle, Sound
  <2> QED
    BY <2>1, Zenon DEF Alike, Frame
<1> QED
  BY <1>1, <1>2, <1>3 DEF Idle

\* An answer that is given or refused.
LEMMA NeedIdle ==
  ASSUME NEW t, Idle(t), NEW ok, NEW e \in {"type", "data"}, NEW got, NEW empty
  PROVE  Idle(Need(t, ok, e, got, empty).t)
<1>1. Idle(mpack_tree_flag_error(t, e))
  BY FlagIdle DEF Errors
<1>2. \/ Need(t, ok, e, got, empty) = Answer(t, empty)
      \/ Need(t, ok, e, got, empty) = Answer(t, got)
      \/ Need(t, ok, e, got, empty) = Answer(mpack_tree_flag_error(t, e), empty)
  BY Zenon DEF Need
<1>3. Idle(Answer(t, empty).t) /\ Idle(Answer(t, got).t) /\ Idle(Answer(mpack_tree_flag_error(t, e), empty).t)
  BY <1>1, AnswerIdle
<1> QED
  BY <1>2, <1>3, Zenon

\* The root of a tree.
LEMMA RootIdle ==
  ASSUME NEW t, Idle(t)
  PROVE  Idle(mpack_tree_root(t).t)
<1>1. Idle(mpack_tree_flag_error(t, "bug"))
  BY FlagIdle DEF Errors
<1>2. \/ mpack_tree_root(t) = Answer(t, NilNode)
      \/ mpack_tree_root(t) = Answer(t, t.nodes[<<1, 1>>])
      \/ mpack_tree_root(t) = Answer(mpack_tree_flag_error(t, "bug"), NilNode)
  BY Zenon DEF mpack_tree_root
<1>3. /\ Idle(Answer(t, NilNode).t) /\ Idle(Answer(t, t.nodes[<<1, 1>>]).t)
      /\ Idle(Answer(mpack_tree_flag_error(t, "bug"), NilNode).t)
  BY <1>1, AnswerIdle
<1> QED
  BY <1>2, <1>3, Zenon

\* The accessors of a value, of a length and of bytes.
LEMMA PlainIdle ==
  ASSUME NEW t, Idle(t), NEW node, NEW a, NEW b
  PROVE  /\ Idle(mpack_node_tag(t, node).t) /\ Idle(mpack_node_type(t, node).t)
         /\ Idle(mpack_node_is_nil(t, node).t) /\ Idle(mpack_node_is_missing(t, node).t)
         /\ Idle(NodeOf(t, node, a).t) /\ Idle(mpack_node_real(t, node, a).t)
         /\ Idle(mpack_node_length(t, node, a).t) /\ Idle(BytesOf(t, node, a).t)
         /\ Idle(mpack_node_integer(t, node, a, b).t) /\ Idle(mpack_node_bool_match(t, node, a).t)
         /\ Idle(mpack_node_check_utf8(t, node, a).t)
<1> USE AnswerIdle
<1>1. Idle(mpack_node_tag(t, node).t) /\ Idle(mpack_node_type(t, node).t)
  BY Zenon DEF mpack_node_tag, mpack_node_type
<1>2. Idle(mpack_node_is_nil(t, node).t) /\ Idle(mpack_node_is_missing(t, node).t)
  BY SMT DEF mpack_node_is_nil, mpack_node_is_missing
<1>3. \A types : Idle(NodeOf(t, node, types).t)
  BY NeedIdle DEF NodeOf
<1>4. Idle(mpack_node_real(t, node, a).t) /\ Idle(mpack_node_length(t, node, a).t)
  BY <1>3, Zenon DEF mpack_node_real, mpack_node_length
<1>5. Idle(BytesOf(t, node, a).t)
  BY NeedIdle DEF BytesOf
<1>6. Idle(mpack_node_integer(t, node, a, b).t)
  BY NeedIdle DEF mpack_node_integer
<1>7. Idle(mpack_node_bool_match(t, node, a).t)
  <2>1. PICK answer : answer = NodeOf(t, node, {"bool"}) /\ Idle(answer.t)
    BY <1>3
  <2>2. Idle(mpack_tree_flag_error(answer.t, "type"))
    BY <2>1, FlagIdle DEF Errors
  <2>3. mpack_node_bool_match(t, node, a)
          = Answer(IF answer.got = a THEN answer.t ELSE mpack_tree_flag_error(answer.t, "type"), 0)
    BY <2>1, Zenon DEF mpack_node_bool_match
  <2> QED
    BY <2>1, <2>2, <2>3, AnswerIdle, Zenon
<1>8. Idle(mpack_node_check_utf8(t, node, a).t)
  BY NeedIdle DEF mpack_node_check_utf8
<1> QED
  BY <1>1, <1>2, <1>3, <1>4, <1>5, <1>6, <1>7, <1>8, Zenon

\* The accessors that copy or allocate.
LEMMA CopyIdle ==
  ASSUME NEW t, Idle(t), NEW node, NEW n
  PROVE  /\ Idle(mpack_node_copy_data(t, node, n).t) /\ Idle(mpack_node_copy_utf8(t, node, n).t)
         /\ Idle(mpack_node_copy_cstr(t, node, n).t) /\ Idle(mpack_node_copy_utf8_cstr(t, node, n).t)
         /\ Idle(mpack_node_data_alloc(t, node, n).t) /\ Idle(mpack_node_cstr_alloc(t, node, n).t)
         /\ Idle(mpack_node_utf8_cstr_alloc(t, node, n).t)
<1>1. PICK big : big = Answer(mpack_tree_flag_error(t, "too_big"), <<>>) /\ Idle(big.t)
  BY AnswerIdle, FlagIdle DEF Errors
<1>2. \A ok, got : Idle(Need(t, ok, "type", got, <<>>).t)
  BY NeedIdle
<1>3. Idle(mpack_node_copy_data(t, node, n).t)
  BY <1>1, <1>2, Zenon DEF mpack_node_copy_data, Copied
<1>4. Idle(mpack_node_copy_utf8(t, node, n).t)
  BY <1>1, <1>2, Zenon DEF mpack_node_copy_utf8, Copied
<1>5. \A m : Idle(Copied(t, node, {"str"}, m, NoNull).t)
  BY <1>1, <1>2, Zenon DEF Copied
<1>6. \A m : Idle(Copied(t, node, {"str"}, m, Utf8NoNull).t)
  BY <1>1, <1>2, Zenon DEF Copied
<1>7. Idle(mpack_node_copy_cstr(t, node, n).t) /\ Idle(mpack_node_copy_utf8_cstr(t, node, n).t)
  BY <1>5, <1>6, Zenon DEF mpack_node_copy_cstr, mpack_node_copy_utf8_cstr
<1>8. Idle(mpack_node_data_alloc(t, node, n).t)
  BY <1>1, <1>2, Zenon DEF mpack_node_data_alloc, Copied
<1>9. \A answer : Idle(answer.t) => Idle(WithTerminator(t, n, answer).t)
  <2>1. PICK bug : bug = Answer(mpack_tree_flag_error(t, "bug"), <<>>) /\ Idle(bug.t)
    BY AnswerIdle, FlagIdle DEF Errors
  <2> QED
    BY <2>1, Zenon DEF WithTerminator
<1>10. Idle(mpack_node_cstr_alloc(t, node, n).t) /\ Idle(mpack_node_utf8_cstr_alloc(t, node, n).t)
  BY <1>5, <1>6, <1>9, Zenon DEF mpack_node_cstr_alloc, mpack_node_utf8_cstr_alloc
<1> QED
  BY <1>3, <1>4, <1>7, <1>8, <1>10, Zenon

\* The accessors of a child.
LEMMA ChildIdle ==
  ASSUME NEW t, Idle(t), NEW node, NEW n, NEW offset
  PROVE  Idle(mpack_node_array_at(t, node, n).t) /\ Idle(mpack_node_map_at(t, node, n, offset).t)
<1>1. PICK wrong : wrong = Answer(mpack_tree_flag_error(t, "type"), NilNode) /\ Idle(wrong.t)
  BY AnswerIdle, FlagIdle DEF Errors
<1>2. \A ok, got : Idle(Need(t, ok, "data", got, NilNode).t)
  BY NeedIdle
<1> QED
  BY <1>1, <1>2, Zenon DEF mpack_node_array_at, mpack_node_map_at

\* The lookups in a map.
LEMMA LookupIdle ==
  ASSUME NEW t, Idle(t), NEW node, NEW key
  PROVE  LET lookup == LookupKey(t, node, key)
         IN  /\ Idle(mpack_node_wrap_lookup(lookup).t) /\ Idle(mpack_node_wrap_lookup_optional(lookup).t)
             /\ Idle(mpack_node_map_contains(lookup).t)
<1>1. PICK wrong : wrong = Answer(mpack_tree_flag_error(t, "type"), {}) /\ Idle(wrong.t)
  BY AnswerIdle, FlagIdle DEF Errors
<1>2. \A ok, got : Idle(Need(t, ok, "data", got, {}).t)
  BY NeedIdle
<1>3. Idle(Answer(t, {}).t)
  BY AnswerIdle
<1>4. Idle(LookupNumber(t, node, key.n).t)
  BY <1>1, <1>2, <1>3, Zenon DEF LookupNumber, Lookup
<1>5. Idle(LookupStr(t, node, key.str).t)
  BY <1>1, <1>2, <1>3, Zenon DEF LookupStr, Lookup
<1>6. PICK lookup : lookup = LookupKey(t, node, key) /\ Idle(lookup.t)
  BY <1>4, <1>5, Zenon DEF LookupKey
<1>7. Idle(mpack_tree_flag_error(lookup.t, "data"))
  BY <1>6, FlagIdle DEF Errors
<1>8. Idle(mpack_node_wrap_lookup(lookup).t)
  BY <1>6, <1>7, AnswerIdle, Zenon DEF mpack_node_wrap_lookup
<1>9. Idle(mpack_node_wrap_lookup_optional(lookup).t) /\ Idle(mpack_node_map_contains(lookup).t)
  BY <1>6, AnswerIdle, Zenon DEF mpack_node_wrap_lookup_optional, mpack_node_map_contains
<1> QED
  BY <1>6, <1>8, <1>9, Zenon

\* The accessors of an enumeration.
LEMMA EnumIdle ==
  ASSUME NEW t, Idle(t), NEW node, NEW strings
  PROVE  Idle(mpack_node_enum_optional(t, node, strings).t) /\ Idle(mpack_node_enum(t, node, strings).t)
<1>1. Idle(mpack_node_enum_optional(t, node, strings).t)
  BY AnswerIdle, Zenon DEF mpack_node_enum_optional
<1>2. PICK e : e = mpack_node_enum_optional(t, node, strings)
  OBVIOUS
<1>3. Idle(mpack_tree_flag_error(t, "type"))
  BY FlagIdle DEF Errors
<1>4. mpack_node_enum(t, node, strings)
        = IF e.got = Len(strings) THEN Answer(mpack_tree_flag_error(t, "type"), e.got) ELSE e
  BY <1>2, Zenon DEF mpack_node_enum
<1> QED
  BY <1>1, <1>2, <1>3, <1>4, AnswerIdle, Zenon

Accessors ==
  {"root", "tag", "type", "is_nil", "is_missing", "node_of", "real", "length", "bytes_of", "bool_match", "integer",
   "check_utf8", "copy_data", "copy_utf8", "copy_cstr", "copy_utf8_cstr", "data_alloc", "cstr_alloc",
   "utf8_cstr_alloc", "array_at", "map_at", "map", "map_optional", "map_contains", "enum_optional", "enum"}

\* Every accessor leaves a tree that is sound, and parsed as it was.
LEMMA PerformIdle ==
  ASSUME Idle(tree), NEW op \in Accessors, NEW a, NEW node
  PROVE  Idle(Perform(op, a, node).t)
<1>1. CASE op \in {"tag", "type", "is_nil", "is_missing"}
  BY <1>1, PlainIdle, Zenon DEF Perform
<1>9. CASE op = "root"
  BY <1>9, RootIdle, Zenon DEF Perform
<1>2. CASE op \in {"node_of", "real", "length", "bytes_of"}
  BY <1>2, PlainIdle, Zenon DEF Perform
<1>3. CASE op \in {"bool_match", "integer", "check_utf8"}
  BY <1>3, PlainIdle, Zenon DEF Perform
<1>4. CASE op \in {"copy_data", "copy_utf8", "copy_cstr", "copy_utf8_cstr"}
  BY <1>4, CopyIdle, Zenon DEF Perform
<1>5. CASE op \in {"data_alloc", "cstr_alloc", "utf8_cstr_alloc"}
  BY <1>5, CopyIdle, Zenon DEF Perform
<1>6. CASE op \in {"array_at", "map_at"}
  BY <1>6, ChildIdle, Zenon DEF Perform
<1>7. CASE op \in {"map", "map_optional", "map_contains"}
  BY <1>7, LookupIdle, Zenon DEF Perform
<1>8. CASE op \in {"enum_optional", "enum"}
  BY <1>8, EnumIdle, Zenon DEF Perform
<1> QED
  BY <1>1, <1>2, <1>3, <1>4, <1>5, <1>6, <1>7, <1>8, <1>9 DEF Accessors

\* A program that looks at a tree calls an accessor.
LEMMA AccessAsks ==
  ASSUME Access
  PROVE  \E op \in Accessors : \E a, k : Ask(op, a, k)
  BY ZenonT(60) DEF Access, Accessors

------------------------------------------------------------------------------
(* The parser and the program around it.                                     *)

Inv ==
  /\ Sound(tree)
  /\ tree.stage # "idle" => tree.err = "ok"
  /\ input \in Seq(Byte)

\* A step ends the call if there is an error.
LEMMA StepSound ==
  ASSUME NEW after, Sound(after), Step(after)
  PROVE  Sound(tree') /\ (tree'.stage # "idle" => tree'.err = "ok")
<1>1. CASE after.err = "ok"
  BY <1>1, Zenon DEF Step
<1>2. CASE after.err # "ok"
  <2>1. tree' = Return(after)
    BY <1>2, Zenon DEF Step
  <2>2. Sound(Return(after)) /\ Return(after).stage = "idle"
    BY ReturnSound, ZenonT(20) DEF Sound, Tree, Return
  <2> QED
    BY <2>1, <2>2
<1> QED
  BY <1>1, <1>2

\* Every tree that an mpack_tree_init function leaves is sound.
LEMMA InitInv == Init => Inv
<1>1. SUFFICES ASSUME Init PROVE Inv
  OBVIOUS
<1>2. PICK case \in Cases : tree = case.start /\ input = case.input
  BY <1>1 DEF Init
<1>3. PICK t : t = tree
  OBVIOUS
<1>4. /\ t = [EmptyTree(t.data, t.max_size, t.max_nodes) EXCEPT !.stream = t.stream, !.pool = t.pool, !.err = t.err]
      /\ input \in Seq(Byte) /\ t.data \in Seq(Byte)
      /\ t.max_size \in 1 .. NoLimit /\ t.max_nodes \in 1 .. NoLimit
      /\ t.stream \in BOOLEAN /\ t.pool \in Nat /\ t.err \in {"ok", "bug", "invalid", "too_big"}
      /\ t.stream => t.data = <<>> /\ t.pool = 0
  BY <1>2, <1>3, CasesAssumption, Zenon
<1>5. PICK data \in Seq(Byte), max_size \in 1 .. NoLimit, max_nodes \in 1 .. NoLimit :
        data = t.data /\ max_size = t.max_size /\ max_nodes = t.max_nodes
  BY <1>4
<1>6. PICK stream \in BOOLEAN, pool \in Nat, err \in Errors : stream = t.stream /\ pool = t.pool /\ err = t.err
  BY <1>4 DEF Errors
<1>7. PICK none : none = <<>>
  OBVIOUS
<1>8. none \in Nodes /\ none \in Stack /\ none \in Seq(Nat) /\ DOMAIN none = {}
  BY <1>7, EmptyNodes
<1>9. PICK e : e = EmptyTree(data, max_size, max_nodes)
  OBVIOUS
<1>10. /\ e \in Tree /\ e.data = data /\ e.size = 0 /\ e.capacity = 0 /\ e.max_size = max_size
       /\ e.stage = "idle" /\ e.state = "not_started" /\ e.nodes = none
  <2>1. e = [data |-> data, size |-> 0, node_count |-> 0, max_size |-> max_size, max_nodes |-> max_nodes,
             stream |-> FALSE, capacity |-> 0, pool |-> 0, err |-> "ok",
             state |-> "not_started", stage |-> "idle", reserved |-> 0, possible |-> 0, stack |-> none,
             pages |-> none, current |-> 1, nodes_left |-> 0, nodes |-> none]
    BY <1>7, <1>9, Zenon DEF EmptyTree
  <2>2. "ok" \in Errors
    BY DEF Errors
  <2> QED
    BY <1>8, <2>1, <2>2 DEF Tree
<1>11. PICK u : u = [e EXCEPT !.stream = stream, !.pool = pool, !.err = err]
  OBVIOUS
<1>12. t = u
  BY <1>4, <1>5, <1>6, <1>9, <1>11, Zenon
<1>13. /\ u \in Tree /\ u.data = data /\ u.stream = stream /\ u.size = 0 /\ u.capacity = 0
       /\ u.max_size = max_size /\ u.stage = "idle" /\ u.state = "not_started" /\ u.nodes = none
  BY <1>10, <1>11 DEF Tree
<1>14. Fits(u)
  <2>1. Len(data) \in Nat /\ max_size >= 0
    BY LenProperties
  <2>2. stream => data = none
    BY <1>4, <1>5, <1>6, <1>7, Zenon
  <2>3. stream => Len(data) = 0
    BY <1>7, <2>2, EmptySeq
  <2> QED
    BY <1>13, <2>1, <2>3 DEF Fits
<1>15. Within(u) /\ Stages(u)
  BY <1>8, <1>13 DEF Within, Stages
<1> QED
  BY <1>3, <1>4, <1>12, <1>13, <1>14, <1>15 DEF Inv, Sound

\* What the read function brings is a part of the input, and fits into the buffer.
LEMMA PieceFits ==
  ASSUME Sound(tree), ~FillFails(tree), input \in Seq(Byte),
         NEW n \in 0 .. Lesser(Len(input), Capacity(tree) - Len(tree.data))
  PROVE  /\ n \in Nat /\ n <= Len(input) /\ n <= Capacity(tree) - Len(tree.data)
         /\ SubSeq(input, 1, n) \in Seq(Byte) /\ Len(SubSeq(input, 1, n)) = n
<1>1. n \in Nat /\ n <= Len(input) /\ n <= Capacity(tree) - Len(tree.data)
  <2>1. Capacity(tree) \in Nat
    BY TreeType, CapacityType DEF Sound, Fits, FillFails
  <2>2. Len(input) \in Nat /\ Len(tree.data) \in Nat
    BY TreeType, LenProperties DEF Sound
  <2> QED
    BY <2>1, <2>2 DEF Lesser
<1>2. \A i \in 1 .. Len(input) : input[i] \in Byte
  BY ElementOfSeq
<1>3. SubSeq(input, 1, n) \in Seq(Byte) /\ Len(SubSeq(input, 1, n)) = n
  <2>1. 1 \in Int /\ n \in Int /\ \A i \in 1 .. n : input[i] \in Byte
    BY <1>1, <1>2, LenProperties
  <2>2. /\ SubSeq(input, 1, n) \in Seq(Byte)
        /\ Len(SubSeq(input, 1, n)) = IF 1 <= n THEN n - 1 + 1 ELSE 0
    BY <2>1, SubSeqProperties
  <2> QED
    BY <1>1, <2>2
<1> QED
  BY <1>1, <1>3

\* The read function brings a part of the input, and no more than fits.
LEMMA FillInv == Inv /\ Fill => Inv'
<1>1. SUFFICES ASSUME Inv, Fill PROVE Inv'
  OBVIOUS
<1>2. /\ Sound(tree) /\ tree.err = "ok" /\ tree.stage \in {"start", "head", "body"}
      /\ input \in Seq(Byte) /\ ~FillFails(tree)
  BY <1>1 DEF Inv, Fill, Reserving
<1>3. PICK n \in 0 .. Lesser(Len(input), Capacity(tree) - Len(tree.data)), ended \in BOOLEAN :
        LET filled == mpack_tree_reserve_fill(tree, SubSeq(input, 1, n))
        IN  /\ Step(IF ended THEN mpack_tree_flag_error(filled, "io") ELSE filled)
            /\ input' = SubSeq(input, n + 1, Len(input))
  BY <1>1, Zenon DEF Fill
<1>4. /\ n \in Nat /\ n <= Len(input) /\ n <= Capacity(tree) - Len(tree.data)
      /\ SubSeq(input, 1, n) \in Seq(Byte) /\ Len(SubSeq(input, 1, n)) = n
  BY <1>2, PieceFits
<1>5. \A i \in 1 .. Len(input) : input[i] \in Byte
  BY <1>2, ElementOfSeq
<1>7. SubSeq(input, n + 1, Len(input)) \in Seq(Byte)
  <2>1. PICK from, to : from = n + 1 /\ to = Len(input)
    OBVIOUS
  <2>2. from \in Int /\ to \in Int /\ \A i \in from .. to : input[i] \in Byte
    BY <1>2, <1>4, <1>5, <2>1, LenProperties
  <2>3. SubSeq(input, from, to) \in Seq(Byte)
    BY <2>2, SubSeqProperties
  <2> QED
    BY <2>1, <2>3
<1>8. PICK filled : filled = mpack_tree_reserve_fill(tree, SubSeq(input, 1, n)) /\ Sound(filled)
  BY <1>2, <1>4, FillSound
<1>9. Sound(mpack_tree_flag_error(filled, "io"))
  BY <1>8, FlagSound DEF Errors
<1>10. PICK after : after = IF ended THEN mpack_tree_flag_error(filled, "io") ELSE filled
  OBVIOUS
<1>11. Sound(after) /\ Step(after)
  BY <1>3, <1>8, <1>9, <1>10, Zenon
<1>12. Sound(tree') /\ (tree'.stage # "idle" => tree'.err = "ok")
  BY <1>11, StepSound
<1> QED
  BY <1>3, <1>7, <1>12 DEF Inv

\* Every step of the parser and of the program keeps the invariant.
LEMMA NextInv == Inv /\ [Next]_vars => Inv'
<1>1. SUFFICES ASSUME Inv, [Next]_vars PROVE Inv'
  OBVIOUS
<1> USE <1>1
<1>2. CASE Parse
  <2>1. Sound(mpack_tree_parse(tree)) /\ Step(mpack_tree_parse(tree)) /\ input' = input
    BY <1>2, ParseSound DEF Inv, Parse
  <2> QED
    BY <2>1, StepSound DEF Inv
<1>3. CASE ParseNode
  <2>1. Sound(mpack_tree_parse_node(tree)) /\ Step(mpack_tree_parse_node(tree)) /\ input' = input
    BY <1>3, ParseNodeSound DEF Inv, ParseNode
  <2> QED
    BY <2>1, StepSound DEF Inv
<1>4. CASE GoOn
  <2>1. Sound(Proceed(tree)) /\ Step(Proceed(tree)) /\ input' = input
    BY <1>4, ProceedSound DEF Inv, GoOn, Reserving
  <2> QED
    BY <2>1, StepSound DEF Inv
<1>5. CASE FillRefuses
  <2>1. Sound(FillRefused(tree)) /\ Step(FillRefused(tree)) /\ input' = input
    BY <1>5, FillRefusedSound DEF Inv, FillRefuses
  <2> QED
    BY <2>1, StepSound DEF Inv
<1>6. CASE Fill
  BY <1>6, FillInv
<1>7. CASE Access
  <2>1. Idle(tree) /\ input' = input
    BY <1>7 DEF Inv, Access, Idle, Alike, Frame
  <2>2. PICK op \in Accessors : \E a, k : Ask(op, a, k)
    BY <1>7, AccessAsks
  <2>3. PICK a, node : tree' = Perform(op, a, node).t
    BY <2>2, Zenon DEF Ask
  <2>4. Idle(tree')
    BY <2>1, <2>3, PerformIdle
  <2> QED
    BY <2>1, <2>4 DEF Inv, Idle
<1>8. CASE Look
  BY <1>8 DEF Inv, Look
<1>9. CASE UNCHANGED vars
  BY <1>9 DEF Inv, vars
<1> QED
  BY <1>2, <1>3, <1>4, <1>5, <1>6, <1>7, <1>8, <1>9 DEF Next

\* A sound tree is within its bounds.
LEMMA InvBounds == Inv => NodesInBounds
<1>1. SUFFICES ASSUME Inv PROVE NodesInBounds
  OBVIOUS
<1>2. tree \in Tree /\ Fits(tree) /\ Within(tree) /\ (tree.err = "ok" => Stages(tree))
  BY <1>1 DEF Inv, Sound
<1>3. tree.stream => Len(tree.data) <= Lesser(tree.capacity, tree.max_size)
  BY <1>2, TreeType DEF Fits, Lesser
<1>4. tree.state = "in_progress" /\ tree.stage # "start" /\ tree.err = "ok" =>
        /\ tree.possible >= 0
        /\ tree.possible = Len(tree.data) - tree.size - Cardinality(Awaited(tree.stack))
  BY <1>2, Zenon DEF Stages, Open
<1>5. ASSUME NEW place \in DOMAIN tree.nodes, NEW node, node = tree.nodes[place]
      PROVE  /\ place[2] <= tree.pages[place[1]]
             /\ node.type \in {"str", "bin"} => node.at + node.n <= tree.size
             /\ node.type \in {"array", "map"} /\ node.n > 0 =>
                  node.at[2] + Elements(node.type, node.n) - 1 <= tree.pages[node.at[1]]
  <2>1. PlaceWithin(place, tree.pages) /\ NodeWithin(node, tree.size, tree.pages)
    BY <1>2, <1>5, Zenon DEF Within
  <2> QED
    BY <2>1, Zenon DEF PlaceWithin, NodeWithin
<1> QED
  BY <1>3, <1>4, <1>5, Zenon DEF NodesInBounds

(* The parser never reads past the bytes it holds nor puts a node past the end
   of a page: what is parsed lies within them, and for every child that is
   still awaited there is a byte (mpack_tree_reserve_bytes,
   mpack_tree_parse_children, mpack_tree_reserve_fill).                      *)
THEOREM StaysInBounds == Spec => []NodesInBounds
<1>1. Init => Inv
  BY InitInv
<1>2. Inv /\ [Next]_vars => Inv'
  BY NextInv
<1>3. Inv => NodesInBounds
  BY InvBounds
<1> QED
  BY <1>1, <1>2, <1>3, PTL DEF Spec

------------------------------------------------------------------------------
(* What is parsed stays, and no more is promised than the limit allows.  The *)
(* places of what is parsed, of what each open container awaits, and those   *)
(* that are not used yet lie apart.                                          *)

\* What is parsed in t is so in u, too.
Stays(u, t) == \A place \in DOMAIN t.nodes : place \in DOMAIN u.nodes /\ u.nodes[place] = t.nodes[place]

\* No container has taken the place: its page is yet to come, or the rest of this.
Unused(t, place) ==
  place[1] > Len(t.pages) \/ (place[1] = t.current /\ place[2] > t.pages[t.current] - t.nodes_left)

\* A child is still to be parsed to the place.
Reserves(level, place) ==
  place[1] = level.child[1] /\ place[2] \in level.child[2] .. level.child[2] + level.left - 1

Apart(t) ==
  /\ \A place \in DOMAIN t.nodes :
       ~Unused(t, place) /\ \A i \in 1 .. Len(t.stack) : ~Reserves(t.stack[i], place)
  /\ \A i \in 1 .. Len(t.stack) : \A place \in Places :
       Reserves(t.stack[i], place) =>
         ~Unused(t, place) /\ \A j \in 1 .. Len(t.stack) : j # i => ~Reserves(t.stack[j], place)

\* The nodes parsed and awaited, those a head just read promises, and when they count.
Counted(t) == Cardinality(DOMAIN t.nodes) + Cardinality(Awaited(t.stack))
Promised(t) == Elements(HeadOf(t).type, Announced(t))
Parsing(t) == t.err = "ok" /\ t.state = "in_progress" /\ t.stage # "start"

(* The places of a tree that is not complete hang together: what is known is
   what is parsed and what is awaited.                                       *)
Root == <<1, 1>>

Known(t, place) == place \in DOMAIN t.nodes \/ \E i \in 1 .. Len(t.stack) : Reserves(t.stack[i], place)

Of(t, place) == ChildPlaces(t.nodes[place])

\* Places that lead to each other lead to a place that is not one of them.
Rooted(t) ==
  \A some \in SUBSET (DOMAIN t.nodes \ {Root}) :
    some # {} => \E p \in some : \E q \in DOMAIN t.nodes \ some : p \in Of(t, q)

Settled(t) ==
  /\ Known(t, Root)
  /\ \A p \in DOMAIN t.nodes : \A x \in Of(t, p) : x \in Places /\ x # Root /\ Known(t, x)
  /\ \A p, q \in DOMAIN t.nodes : p # q => Of(t, p) \intersect Of(t, q) = {}
  /\ \A x \in Places : Known(t, x) => x = Root \/ \E q \in DOMAIN t.nodes : x \in Of(t, q)
  /\ Rooted(t)

Neat(t) ==
  /\ IsFiniteSet(DOMAIN t.nodes)
  /\ Counted(t) <= t.max_nodes
  /\ t.state = "parsed" => t.stack = <<>> /\ Settled(t)
  /\ Parsing(t) => Apart(t) /\ Settled(t) /\ Counted(t) <= t.node_count /\ t.node_count <= t.max_nodes
  /\ t.err = "ok" /\ t.stage = "body" => Counted(t) + Promised(t) <= t.node_count

\* The nodes are counted.
LEMMA CountedType ==
  ASSUME NEW t \in Tree, IsFiniteSet(DOMAIN t.nodes)
  PROVE  Counted(t) \in Nat
<1>1. Cardinality(DOMAIN t.nodes) \in Nat
  BY FS_CardinalityType
<1>2. Cardinality(Awaited(t.stack)) \in Nat
  BY TreeType, AwaitedFinite
<1> QED
  BY <1>1, <1>2 DEF Counted

\* What neither parses nor promises anything keeps all this.
LEMMA FrameNeat ==
  ASSUME NEW t, NEW u, Neat(t), Frame(u, t), Parsing(u) => Parsing(t), u.state = "parsed" => t.state = "parsed",
         u.err = "ok" /\ u.stage = "body" => t.err = "ok" /\ t.stage = "body" /\ Promised(u) = Promised(t)
  PROVE  Neat(u) /\ Stays(u, t)
<1>1. Counted(u) = Counted(t)
  BY Zenon DEF Counted, Frame
<1>2. Stays(u, t)
  BY Zenon DEF Stays, Frame
<1>3. Apart(t) => Apart(u)
  BY Zenon DEF Apart, Unused, Frame
<1>4. Settled(t) => Settled(u)
  BY Zenon DEF Settled, Known, Rooted, Of, Frame
<1> QED
  BY <1>1, <1>2, <1>3, <1>4, Zenon DEF Neat, Frame

\* A tree that differs only in its error keeps it: accessors.
LEMMA AlikeNeat ==
  ASSUME NEW t, NEW u, Neat(t), Alike(u, t)
  PROVE  Neat(u) /\ Stays(u, t)
  BY FrameNeat, Zenon DEF Alike, Parsing

\* A flagged error keeps it.
LEMMA FlagNeat ==
  ASSUME NEW t, Sound(t), Neat(t), NEW e
  PROVE  Neat(mpack_tree_flag_error(t, e)) /\ Stays(mpack_tree_flag_error(t, e), t)
  BY FlagAlike, AlikeNeat DEF Sound

\* Returning to the program for want of bytes keeps it: the node is begun again.
LEMMA ReturnNeat ==
  ASSUME NEW t \in Tree, Neat(t)
  PROVE  Neat(Return(t)) /\ Stays(Return(t), t)
<1>1. PICK u : u = [t EXCEPT !.stage = "idle", !.state = IF t.stage = "start" THEN "not_started" ELSE @]
  OBVIOUS
<1>2. /\ Frame(u, t) /\ u.err = t.err /\ u.stage = "idle"
      /\ u.state = (IF t.stage = "start" THEN "not_started" ELSE t.state)
  BY <1>1 DEF Tree, Frame
<1>3. Neat(u) /\ Stays(u, t)
  BY <1>2, FrameNeat DEF Parsing
<1> QED
  BY <1>1, <1>3, Zenon DEF Return

\* A call goes on, or begins the next message: nothing of that is parsed.
LEMMA ParseNeat ==
  ASSUME NEW t, Sound(t), Neat(t), t.stage = "idle", t.err = "ok"
  PROVE  Neat(mpack_tree_parse(t)) /\ (mpack_tree_parse(t).stage # "start" => Stays(mpack_tree_parse(t), t))
<1>1. CASE t.state = "in_progress"
  <2>1. PICK u : u = [t EXCEPT !.stage = "node"]
    OBVIOUS
  <2>2. Frame(u, t) /\ u.err = t.err /\ u.stage = "node" /\ u.state = t.state
    BY <2>1 DEF Sound, Tree, Frame
  <2>3. Neat(u) /\ Stays(u, t)
    BY <2>2, FrameNeat DEF Parsing
  <2> QED
    BY <1>1, <2>1, <2>3, Zenon DEF mpack_tree_parse
<1>2. CASE t.state # "in_progress"
  <2>1. PICK u : u = mpack_tree_parse_start(t)
    OBVIOUS
  <2>2. /\ u.nodes = <<>> /\ u.stack = <<>> /\ u.stage = "start" /\ u.max_nodes = t.max_nodes
        /\ u.state = "in_progress"
    BY <2>1 DEF Sound, Tree, mpack_tree_parse_start
  <2>3. DOMAIN u.nodes = {} /\ Awaited(u.stack) = {}
    BY <2>2 DEF Awaited
  <2>4. IsFiniteSet(DOMAIN u.nodes) /\ Cardinality(DOMAIN u.nodes) = 0 /\ Cardinality(Awaited(u.stack)) = 0
    BY <2>3, FS_EmptySet
  <2>5. Counted(u) <= u.max_nodes
    BY <2>2, <2>4, TreeType DEF Counted, Sound
  <2>6. ~Parsing(u) /\ u.stage # "body" /\ u.state # "parsed"
    BY <2>2 DEF Parsing
  <2>7. Neat(u)
    BY <2>4, <2>5, <2>6, Zenon DEF Neat
  <2> QED
    BY <1>2, <2>1, <2>2, <2>7, Zenon DEF mpack_tree_parse
<1> QED
  BY <1>1, <1>2

\* Beginning a node keeps it (mpack_tree_parse_node).
LEMMA ParseNodeNeat ==
  ASSUME NEW t, Sound(t), Neat(t), t.stage = "node", t.err = "ok"
  PROVE  Neat(mpack_tree_parse_node(t)) /\ Stays(mpack_tree_parse_node(t), t)
<1>1. PICK type, width : type = HeadOf(t).type /\ width = HeadOf(t).width
  OBVIOUS
<1>2. PICK u : u = [t EXCEPT !.reserved = width, !.stage = "head"]
  OBVIOUS
<1>3. mpack_tree_parse_node(t) = IF type \in {"invalid", "unsupported"} THEN mpack_tree_flag_error(t, type) ELSE u
  BY <1>1, <1>2, Zenon DEF mpack_tree_parse_node, HeadOf
<1>4. Frame(u, t) /\ u.err = t.err /\ u.stage = "head" /\ u.state = t.state
  BY <1>2 DEF Sound, Tree, Frame
<1>5. Neat(u) /\ Stays(u, t)
  BY <1>4, FrameNeat DEF Parsing
<1> QED
  BY <1>3, <1>5, FlagNeat, Zenon

\* The root has the first place, and the rest of the first page is not used.
LEMMA StartNeat ==
  ASSUME NEW t, Sound(t), Neat(t), t.stage = "start", t.err = "ok"
  PROVE  Neat(StartThere(t)) /\ Stays(StartThere(t), t)
<1>1. PICK first, root, u :
        /\ first = IF t.pool = 0 THEN NodesPerPage ELSE t.pool
        /\ root = [child |-> <<1, 1>>, left |-> 1]
        /\ u = [t EXCEPT !.possible = @ - 1, !.node_count = 1, !.pages = <<first>>, !.current = 1,
                         !.nodes_left = first - 1, !.stack = <<root>>, !.stage = "node"]
  OBVIOUS
<1>2. first \in Nat \ {0} /\ root \in Level /\ root.left = 1 /\ root.child = <<1, 1>>
  BY <1>1, TreeAssumption, TreeType DEF Sound, Level, Places
<1>3. /\ u.nodes = t.nodes /\ u.pages = <<first>> /\ u.current = 1 /\ u.nodes_left = first - 1
      /\ u.stack = <<root>> /\ u.node_count = 1 /\ u.max_nodes = t.max_nodes /\ u.stage = "node"
      /\ u.state = "in_progress"
  BY <1>1 DEF Sound, Tree, Stages
<1>4. DOMAIN u.nodes = {} /\ DOMAIN t.nodes = {}
  BY <1>3 DEF Sound, Stages
<1>5. Cardinality(Awaited(u.stack)) = 1
  <2>1. <<>> \in Stack /\ Append(<<>>, root) = <<root>>
    BY EmptyNodes
  <2>2. Awaited(<<>>) = {}
    BY DEF Awaited
  <2>3. Cardinality(Awaited(<<>>)) = 0
    BY <2>2, FS_EmptySet
  <2>4. Cardinality(Awaited(<<root>>)) = Cardinality(Awaited(<<>>)) + root.left
    BY <1>2, <2>1, AwaitedMore
  <2> QED
    BY <1>2, <1>3, <2>3, <2>4
<1>6. IsFiniteSet(DOMAIN u.nodes) /\ Counted(u) = 1
  BY <1>4, <1>5, FS_EmptySet DEF Counted
<1>7. Apart(u)
  <2>1. ASSUME NEW place \in Places, Reserves(root, place) PROVE ~Unused(u, place)
    <3>1. place[1] = 1 /\ place[2] \in 1 .. 1
      BY <1>2, <2>1 DEF Reserves
    <3>2. Len(u.pages) = 1 /\ u.pages[1] = first
      BY <1>3
    <3> QED
      BY <1>2, <1>3, <3>1, <3>2 DEF Unused
  <2>2. Len(u.stack) = 1 /\ u.stack[1] = root
    BY <1>3
  <2> QED
    BY <1>4, <2>1, <2>2 DEF Apart
<1>8. u.max_nodes >= 1
  BY <1>3, TreeType DEF Sound
<1>9. Settled(u)
  <2>1. Len(u.stack) = 1 /\ u.stack[1] = root
    BY <1>3
  <2>2. ASSUME NEW place \in Places PROVE Known(u, place) <=> place = Root
    <3>1. Reserves(root, place) <=> place[1] = 1 /\ place[2] = 1
      BY <1>2 DEF Reserves, Places
    <3>2. place[1] = 1 /\ place[2] = 1 <=> place = Root
      BY DEF Places, Root
    <3>3. Known(u, place) <=> Reserves(root, place)
      BY <1>4, <2>1 DEF Known
    <3> QED
      BY <3>1, <3>2, <3>3, Zenon
  <2>3. Root \in Places
    BY DEF Root, Places
  <2>4. Rooted(u)
    BY <1>4 DEF Rooted
  <2> QED
    BY <1>4, <2>2, <2>3, <2>4, Zenon DEF Settled
<1>10. Neat(u)
  <2>1. Counted(u) <= u.max_nodes /\ Counted(u) <= u.node_count /\ u.node_count <= u.max_nodes
    BY <1>3, <1>6, <1>8
  <2>2. u.stage # "body" /\ u.state # "parsed"
    BY <1>3
  <2> QED
    BY <1>6, <1>7, <1>9, <2>1, <2>2, Zenon DEF Neat
<1>11. Stays(u, t)
  BY <1>4 DEF Stays
<1>12. u = StartThere(t)
  BY <1>1, Zenon DEF StartThere
<1> QED
  BY <1>10, <1>11, <1>12

\* What the head promises is counted before anything is reserved for it.
LEMMA HeadNeat ==
  ASSUME NEW t, Sound(t), Neat(t), t.stage = "head", t.err = "ok", ~Waits(t)
  PROVE  Neat(HeadThere(t)) /\ Stays(HeadThere(t), t)
<1>1. Open(t) /\ t.reserved = HeadOf(t).width /\ t.state = "in_progress"
  BY DEF Sound, Stages
<1>2. t.size + 1 <= Len(t.data) /\ t.size + 1 + HeadOf(t).width <= Len(t.data)
  BY <1>1, OpenHasByte, TreeType, SMTT(20) DEF Sound, Waits
<1>3. PICK type, elements, count, body :
        /\ type = HeadOf(t).type /\ elements = Promised(t)
        /\ count = t.node_count + elements /\ body = BodyOf(t)
  OBVIOUS
<1>4. elements \in Nat /\ (type \notin {"map", "array"} => elements = 0)
  BY <1>2, <1>3, BodyType DEF Sound, Promised
<1>5. PICK u : u = [t EXCEPT !.node_count = count, !.reserved = @ + body, !.stage = "body"]
  OBVIOUS
<1>6. HeadThere(t) = IF type \in {"array", "map"} /\ count > t.max_nodes
                     THEN mpack_tree_flag_error(t, "too_big") ELSE u
  BY <1>3, <1>5, Zenon DEF HeadThere, HeadOf, BodyOf, Promised
<1>7. CASE type \in {"array", "map"} /\ count > t.max_nodes
  BY <1>6, <1>7, FlagNeat, Zenon
<1>8. CASE ~(type \in {"array", "map"} /\ count > t.max_nodes)
  <2>1. /\ u.nodes = t.nodes /\ u.stack = t.stack /\ u.pages = t.pages /\ u.current = t.current
        /\ u.nodes_left = t.nodes_left /\ u.max_nodes = t.max_nodes /\ u.node_count = count
        /\ u.data = t.data /\ u.size = t.size /\ u.state = "in_progress"
    BY <1>1, <1>5 DEF Sound, Tree
  <2>2. Counted(u) = Counted(t) /\ Stays(u, t) /\ Promised(u) = elements
    BY <1>3, <2>1, Zenon DEF Counted, Stays, Promised, HeadOf, Announced
  <2>3. Apart(t) /\ Settled(t) /\ Counted(t) <= t.node_count /\ t.node_count <= t.max_nodes
    BY <1>1 DEF Neat, Parsing
  <2>4. Apart(u) /\ Settled(u)
    <3>1. Apart(u)
      BY <2>1, <2>3, Zenon DEF Apart, Unused
    <3>2. Settled(u)
      BY <2>1, <2>3, Zenon DEF Settled, Known, Rooted, Of
    <3> QED
      BY <3>1, <3>2
  <2>5. Counted(t) \in Nat /\ t.node_count \in Nat /\ t.max_nodes \in Nat
    BY CountedType, TreeType DEF Sound, Neat
  <2>6. Counted(t) <= count /\ Counted(t) + elements <= count /\ count <= t.max_nodes /\ Counted(t) <= t.max_nodes
    BY <1>3, <1>4, <1>8, <2>3, <2>5
  <2>7. u.state # "parsed"
    BY <2>1
  <2>8. Neat(u)
    BY <2>1, <2>2, <2>4, <2>6, <2>7, Zenon DEF Neat
  <2> QED
    BY <1>6, <1>8, <2>2, <2>8, Zenon
<1> QED
  BY <1>7, <1>8

\* The places of the children of a container were not used, and those not used now were not either.
LEMMA PlacesApart ==
  ASSUME NEW t \in Tree, t.current \in DOMAIN t.pages, t.nodes_left <= t.pages[t.current], NEW total \in Nat,
         NEW place \in Places
  PROVE  /\ Unused(Grown(t, total), place) => Unused(t, place)
         /\ Reserves([child |-> PlaceFor(t, total), left |-> total], place) =>
              Unused(t, place) /\ ~Unused(Grown(t, total), place)
<1> DEFINE own == total > NodesPerPage \/ t.nodes_left > NodesPerPage \div 8
           grown == Grown(t, total)
<1>1. /\ t.pages \in Seq(Nat) /\ t.current \in 1 .. Len(t.pages) /\ t.nodes_left \in Nat
      /\ t.pages[t.current] \in Nat /\ Len(t.pages) \in Nat
  BY TreeType, ElementOfSeq, LenProperties
<1>2. PICK l \in Nat, c \in Nat, n \in Nat, k \in Nat, cur \in Nat, p \in Nat, q \in Nat :
        /\ l = t.nodes_left /\ c = t.pages[t.current] /\ n = Len(t.pages) /\ k = NodesPerPage /\ cur = t.current
        /\ p = place[1] /\ q = place[2]
  <2>1. /\ t.nodes_left \in Nat /\ t.pages[t.current] \in Nat /\ Len(t.pages) \in Nat /\ NodesPerPage \in Nat
        /\ t.current \in Nat /\ place[1] \in Nat /\ place[2] \in Nat
    BY <1>1, TreeAssumption DEF Places
  <2> QED
    BY <2>1, Zenon
<1>3. l <= c /\ cur \in 1 .. n
  BY <1>1, <1>2, Zenon
<1>4. PICK first, page : PlaceFor(t, total) = <<page, first>> /\ PlaceFor(t, total)[1] = page /\ PlaceFor(t, total)[2] = first
  BY DEF PlaceFor
<1>5. Reserves([child |-> PlaceFor(t, total), left |-> total], place) => p = page /\ q \in first .. first + total - 1
  BY <1>2, <1>4 DEF Reserves
<1>6. Unused(t, place) <=> p > n \/ (p = cur /\ q > c - l)
  BY <1>2, Zenon DEF Unused
<1>7. CASE total <= t.nodes_left
  <2>1. grown.pages = t.pages /\ grown.current = cur /\ grown.nodes_left = l - total
    <3>1. ~(total > t.nodes_left)
      BY <1>1, <1>7
    <3>2. grown = [t EXCEPT !.nodes_left = @ - total]
      BY <1>7, <3>1, Zenon DEF Grown
    <3> QED
      BY <1>2, <3>2 DEF Tree
  <2>2. Unused(grown, place) <=> p > n \/ (p = cur /\ q > c - (l - total))
    BY <1>2, <2>1, Zenon DEF Unused
  <2>3. page = cur /\ first = c - l + 1
    <3>1. PlaceFor(t, total) = <<cur, c - l + 1>>
      BY <1>2, <1>7, Zenon DEF PlaceFor
    <3> QED
      BY <1>4, <3>1
  <2>4. total <= l
    BY <1>2, <1>7, Zenon
  <2>5. p > n \/ (p = cur /\ q > c - (l - total)) => p > n \/ (p = cur /\ q > c - l)
    BY <2>4
  <2>6. p = cur /\ q \in c - l + 1 .. c - l + 1 + total - 1 =>
          (p = cur /\ q > c - l) /\ ~(p > n) /\ ~(q > c - (l - total))
    BY <1>3, <2>4
  <2> QED
    BY <1>5, <1>6, <2>2, <2>3, <2>5, <2>6, Zenon
<1>8. CASE total > t.nodes_left /\ own
  <2>1. PICK pages : pages = Append(t.pages, total)
    OBVIOUS
  <2>2. Len(pages) = n + 1 /\ pages[cur] = c
    <3>1. Len(pages) = Len(t.pages) + 1 /\ \A i \in 1 .. Len(t.pages) : pages[i] = t.pages[i]
      BY <1>1, <2>1, AppendProperties
    <3> QED
      BY <1>1, <1>2, <3>1, Zenon
  <2>3. ~(total <= t.nodes_left)
    BY <1>1, <1>8
  <2>4. grown = [t EXCEPT !.pages = pages]
    BY <1>8, <2>1, <2>3, Zenon DEF Grown
  <2>5. grown.pages = pages /\ grown.current = cur /\ grown.nodes_left = l
    BY <1>2, <2>4 DEF Tree
  <2>6. Unused(grown, place) <=> p > n + 1 \/ (p = cur /\ q > c - l)
    BY <1>2, <2>2, <2>5, Zenon DEF Unused
  <2>7. page = n + 1
    <3>1. PlaceFor(t, total) = <<n + 1, 1>>
      BY <1>2, <2>3, Zenon DEF PlaceFor
    <3> QED
      BY <1>4, <3>1
  <2>8. p > n + 1 => p > n
    OBVIOUS
  <2>9. p = n + 1 => p > n /\ ~(p > n + 1) /\ p # cur
    BY <1>3
  <2> QED
    BY <1>5, <1>6, <2>6, <2>7, <2>8, <2>9, Zenon
<1>9. CASE total > t.nodes_left /\ ~own
  <2>1. PICK pages : pages = Append(t.pages, k)
    OBVIOUS
  <2>2. Len(pages) = n + 1 /\ pages[n + 1] = k
    BY <1>1, <1>2, <2>1, AppendProperties
  <2>3. ~(total <= t.nodes_left)
    BY <1>1, <1>9
  <2>4. grown = [t EXCEPT !.pages = pages, !.current = n + 1, !.nodes_left = k - total]
    BY <1>2, <1>9, <2>1, <2>3, Zenon DEF Grown
  <2>5. grown.pages = pages /\ grown.current = n + 1 /\ grown.nodes_left = k - total
    BY <2>4 DEF Tree
  <2>6. Unused(grown, place) <=> p > n + 1 \/ (p = n + 1 /\ q > k - (k - total))
    BY <1>2, <2>2, <2>5, Zenon DEF Unused
  <2>7. page = n + 1 /\ first = 1
    <3>1. PlaceFor(t, total) = <<n + 1, 1>>
      BY <1>2, <2>3, Zenon DEF PlaceFor
    <3> QED
      BY <1>4, <3>1
  <2>8. p > n + 1 \/ (p = n + 1 /\ q > k - (k - total)) => p > n
    OBVIOUS
  <2>9. p = n + 1 /\ q \in 1 .. 1 + total - 1 => p > n /\ ~(p > n + 1) /\ ~(q > k - (k - total))
    OBVIOUS
  <2> QED
    BY <1>5, <1>6, <2>6, <2>7, <2>8, <2>9, Zenon
<1>10. total <= t.nodes_left \/ total > t.nodes_left
  BY <1>1
<1> QED
  BY <1>7, <1>8, <1>9, <1>10, Zenon

\* The places of the children of a container are those that are reserved for them.
LEMMA ChildrenReserved ==
  ASSUME NEW node, NEW place \in Places, NEW total \in Nat, node.at = place, Elements(node.type, node.n) = total, NEW y
  PROVE  y \in ChildPlaces(node) <=> y \in Places /\ Reserves([child |-> place, left |-> total], y)
<1>1. PICK c \in Nat, d \in Nat : place = <<c, d>> /\ place[1] = c /\ place[2] = d
  BY DEF Places
<1>2. y \in ChildPlaces(node) <=> \E k \in 0 .. total - 1 : y = <<c, d + k>>
  <2>1. ChildPlaces(node) = {Child(place, k) : k \in 0 .. total - 1}
    BY Zenon DEF ChildPlaces
  <2>2. \A k : Child(place, k) = <<c, d + k>>
    BY <1>1, Zenon DEF Child
  <2> QED
    BY <2>1, <2>2, Zenon
<1>3. Reserves([child |-> place, left |-> total], y) <=> y[1] = c /\ y[2] \in d .. d + total - 1
  BY <1>1 DEF Reserves
<1>4. ASSUME NEW k \in 0 .. total - 1, y = <<c, d + k>>
      PROVE  y \in Places /\ y[1] = c /\ y[2] \in d .. d + total - 1
  BY <1>4 DEF Places
<1>5. ASSUME y \in Places, y[1] = c, y[2] \in d .. d + total - 1
      PROVE  \E k \in 0 .. total - 1 : y = <<c, d + k>>
  <2>1. PICK q \in Nat : y = <<c, q>> /\ y[2] = q
    BY <1>5 DEF Places
  <2>2. q - d \in 0 .. total - 1 /\ d + (q - d) = q
    BY <1>5, <2>1
  <2> QED
    BY <2>1, <2>2
<1> QED
  BY <1>2, <1>3, <1>4, <1>5, Zenon

\* A container that is opened awaits its children at places of their own.
LEMMA OpenedApart ==
  ASSUME NEW t \in Tree, t.current \in DOMAIN t.pages, t.nodes_left <= t.pages[t.current], NEW total \in Nat,
         Apart(t)
  PROVE  /\ Apart(Opened(t, total)) /\ Opened(t, total) \in Tree /\ Opened(t, total).nodes = t.nodes
         /\ Opened(t, total).node_count = t.node_count /\ Opened(t, total).max_nodes = t.max_nodes
         /\ Len(t.stack) <= Len(Opened(t, total).stack)
         /\ \A i \in 1 .. Len(t.stack) : Opened(t, total).stack[i] = t.stack[i]
         /\ Cardinality(Awaited(Opened(t, total).stack)) = Cardinality(Awaited(t.stack)) + total
         /\ Opened(t, total).state = t.state
         /\ \A place \in Places :
              Known(Opened(t, total), place)
                <=> Known(t, place) \/ Reserves([child |-> PlaceFor(t, total), left |-> total], place)
<1>1. PICK grown, top, u : /\ grown = Grown(t, total) /\ u = Opened(t, total)
                           /\ top = [child |-> PlaceFor(t, total), left |-> total]
  OBVIOUS
<1>2. grown \in Tree /\ grown.nodes = t.nodes /\ grown.stack = t.stack /\ PlaceFor(t, total) \in Places
  BY <1>1, ChildrenPlaced DEF Kept
<1>3. grown.node_count = t.node_count /\ grown.max_nodes = t.max_nodes /\ grown.state = t.state
  BY <1>1, ZenonT(20) DEF Grown, Tree
<1>4. ASSUME NEW place \in Places
      PROVE  /\ Unused(grown, place) => Unused(t, place)
             /\ Reserves(top, place) => Unused(t, place) /\ ~Unused(grown, place)
  BY <1>1, PlacesApart
<1>5. top \in Level
  BY <1>1, <1>2 DEF Level
<1>6. /\ DOMAIN t.nodes \subseteq Places /\ t.stack \in Stack /\ Len(t.stack) \in Nat
  BY TreeType, LevelType DEF Nodes
<1>7. CASE total = 0
  <2>1. u = grown
    BY <1>1, <1>7, Zenon DEF Opened
  <2>2. Apart(grown)
    BY <1>2, <1>4, <1>6, Zenon DEF Apart
  <2>3. Cardinality(Awaited(t.stack)) \in Nat
    BY <1>6, AwaitedFinite
  <2>4. Cardinality(Awaited(u.stack)) = Cardinality(Awaited(t.stack)) + total
    BY <1>2, <1>7, <2>1, <2>3
  <2>5. ASSUME NEW place \in Places PROVE ~Reserves(top, place)
    <3>1. top.left = 0 /\ top.child[2] \in Nat
      BY <1>1, <1>2, <1>7 DEF Places
    <3> QED
      BY <3>1 DEF Reserves
  <2>6. \A place \in Places : Known(u, place) <=> Known(t, place) \/ Reserves(top, place)
    BY <1>2, <2>1, <2>5, Zenon DEF Known
  <2>7. Len(t.stack) <= Len(u.stack)
    BY <1>2, <1>6, <2>1
  <2> QED
    BY <1>1, <1>2, <1>3, <2>1, <2>2, <2>4, <2>6, <2>7, Zenon
<1>8. CASE total # 0
  <2>1. PICK stack : stack = Append(t.stack, top)
    OBVIOUS
  <2>2. PICK n \in Nat : n = Len(t.stack)
    BY <1>6
  <2>3. Len(stack) = n + 1 /\ stack[n + 1] = top /\ (\A i \in 1 .. n : stack[i] = t.stack[i]) /\ stack \in Stack
    BY <1>5, <1>6, <2>1, <2>2, AppendProperties DEF Stack
  <2>4. u = [grown EXCEPT !.stack = stack]
    <3>1. u = [grown EXCEPT !.stack = Append(@, top)]
      BY <1>1, <1>8, Zenon DEF Opened
    <3> QED
      BY <1>2, <2>1, <3>1
  <2>5. /\ u.stack = stack /\ u.nodes = grown.nodes /\ u.pages = grown.pages /\ u.current = grown.current
        /\ u.nodes_left = grown.nodes_left /\ u.node_count = grown.node_count /\ u.max_nodes = grown.max_nodes
        /\ u.state = grown.state /\ u \in Tree
    BY <1>2, <2>3, <2>4 DEF Tree
  <2>6. \A place : Unused(u, place) <=> Unused(grown, place)
    BY <2>5, Zenon DEF Unused
  <2>7. ASSUME NEW i \in 1 .. n + 1 PROVE (i = n + 1 /\ stack[i] = top) \/ (i \in 1 .. n /\ stack[i] = t.stack[i])
    BY <2>3
  <2>8. ASSUME NEW place \in DOMAIN t.nodes
        PROVE  ~Unused(u, place) /\ \A i \in 1 .. n + 1 : ~Reserves(stack[i], place)
    <3>1. place \in Places /\ ~Unused(t, place) /\ \A i \in 1 .. n : ~Reserves(t.stack[i], place)
      BY <1>6, <2>2, Zenon DEF Apart
    <3> QED
      BY <1>4, <2>6, <2>7, <3>1, Zenon
  <2>9. ASSUME NEW i \in 1 .. n + 1, NEW place \in Places, Reserves(stack[i], place)
        PROVE  ~Unused(u, place) /\ \A j \in 1 .. n + 1 : j # i => ~Reserves(stack[j], place)
    <3>1. CASE i = n + 1 /\ stack[i] = top
      <4>1. Unused(t, place) /\ ~Unused(grown, place)
        BY <1>4, <2>9, <3>1, Zenon
      <4>2. \A j \in 1 .. n : ~Reserves(t.stack[j], place)
        BY <2>2, <4>1, Zenon DEF Apart
      <4> QED
        BY <2>6, <2>7, <3>1, <4>1, <4>2, Zenon
    <3>2. CASE i \in 1 .. n /\ stack[i] = t.stack[i]
      <4>1. ~Unused(t, place) /\ \A j \in 1 .. n : j # i => ~Reserves(t.stack[j], place)
        BY <2>2, <2>9, <3>2, Zenon DEF Apart
      <4>2. ~Reserves(top, place)
        BY <1>4, <4>1, Zenon
      <4> QED
        BY <1>4, <2>6, <2>7, <4>1, <4>2, Zenon
    <3> QED
      BY <2>7, <3>1, <3>2
  <2>10. Len(u.stack) = n + 1
    BY <2>3, <2>5
  <2>11. Apart(u)
    BY <1>2, <2>5, <2>8, <2>9, <2>10, Zenon DEF Apart
  <2>12. Cardinality(Awaited(stack)) = Cardinality(Awaited(t.stack)) + total
    <3>1. top.left = total
      BY <1>1
    <3> QED
      BY <1>5, <1>6, <2>1, <3>1, AwaitedMore
  <2>13. Len(t.stack) <= Len(stack)
    BY <2>2, <2>3
  <2>14. n + 1 \in 1 .. n + 1 /\ 1 .. n \subseteq 1 .. n + 1
    OBVIOUS
  <2>15. \A place \in Places : Known(u, place) <=> Known(t, place) \/ Reserves(top, place)
    BY <1>2, <2>2, <2>3, <2>5, <2>7, <2>10, <2>14, Zenon DEF Known
  <2> QED
    BY <1>1, <1>2, <1>3, <2>2, <2>3, <2>5, <2>11, <2>12, <2>13, <2>15, Zenon
<1> QED
  BY <1>7, <1>8

\* A node gets the place that was kept for it, which had no other.
LEMMA FinishApart ==
  ASSUME NEW u \in Tree, Apart(u), NEW level \in 1 .. Len(u.stack), u.stack[level].left > 0, NEW node,
         NEW v, v.nodes = Put(u.nodes, u.stack[level].child, node), v.stack = PopFinished(ChildParsed(u.stack, level)),
         v.pages = u.pages, v.current = u.current, v.nodes_left = u.nodes_left
  PROVE  Apart(v) /\ Stays(v, u)
<1>1. PICK top, child : top = u.stack[level] /\ child = Child(top.child, 1)
  OBVIOUS
<1>2. /\ u.stack \in Stack /\ level \in DOMAIN u.stack /\ Len(u.stack) \in Nat
      /\ top.child \in Places /\ top.left \in Nat /\ top.left > 0
  BY <1>1, TreeType, LevelType
<1>3. top.child[1] \in Nat /\ top.child[2] \in Nat /\ child = <<top.child[1], top.child[2] + 1>> /\ child \in Places
  BY <1>1, <1>2 DEF Child, Places
<1>4. PICK less, kept : less = ChildParsed(u.stack, level) /\ kept = PopFinished(less)
  OBVIOUS
<1>5. /\ less \in Stack /\ Len(less) = Len(u.stack)
      /\ less[level] = [child |-> child, left |-> top.left - 1]
      /\ \A i \in DOMAIN u.stack : i # level => less[i] = u.stack[i]
  <2>1. PICK stack \in Stack : stack = u.stack
    BY <1>2
  <2>2. level \in DOMAIN stack /\ stack[level] = top /\ stack[level].left > 0
    BY <1>1, <1>2, <2>1, Zenon
  <2>3. /\ ChildParsed(stack, level) \in Stack /\ Len(ChildParsed(stack, level)) = Len(stack)
        /\ ChildParsed(stack, level)[level]
             = [child |-> Child(stack[level].child, 1), left |-> stack[level].left - 1]
        /\ \A i \in DOMAIN stack : i # level => ChildParsed(stack, level)[i] = stack[i]
    BY <2>2, AwaitedLess, Zenon
  <2> QED
    BY <1>1, <1>4, <2>1, <2>2, <2>3, Zenon
<1>6. kept \in Stack /\ Len(kept) <= Len(less) /\ Len(kept) \in Nat /\ \A i \in 1 .. Len(kept) : kept[i] = less[i]
  BY <1>4, <1>5, AwaitedKept, LevelType
<1>7. Reserves(top, top.child)
  BY <1>2, <1>3 DEF Reserves
<1>8. /\ ~Unused(u, top.child) /\ top.child \notin DOMAIN u.nodes
      /\ \A j \in 1 .. Len(u.stack) : j # level => ~Reserves(u.stack[j], top.child)
  BY <1>1, <1>2, <1>7, Zenon DEF Apart
<1>9. ASSUME NEW i \in 1 .. Len(kept), NEW place \in Places, Reserves(kept[i], place)
      PROVE  i \in 1 .. Len(u.stack) /\ Reserves(u.stack[i], place) /\ place # top.child
  <2>1. i \in 1 .. Len(u.stack) /\ kept[i] = less[i]
    BY <1>2, <1>5, <1>6
  <2>2. CASE i = level
    <3>1. kept[i].child = <<top.child[1], top.child[2] + 1>> /\ kept[i].left = top.left - 1
      BY <1>3, <1>5, <2>1, <2>2, SMTT(20)
    <3>2. PICK c \in Nat, d \in Nat, n \in Nat : c = top.child[1] /\ d = top.child[2] /\ n = top.left
      BY <1>2, <1>3
    <3>3. kept[i].child[1] = c /\ kept[i].child[2] = d + 1 /\ kept[i].left = n - 1
      BY <3>1, <3>2
    <3>4. place[1] = c /\ place[2] \in d + 1 .. d + 1 + (n - 1) - 1
      BY <1>9, <3>3, Zenon DEF Reserves
    <3>5. place[2] \in d .. d + n - 1 /\ place[2] # d
      BY <3>4
    <3> QED
      BY <1>1, <2>1, <2>2, <3>2, <3>4, <3>5, Zenon DEF Reserves
  <2>3. CASE i # level
    <3>1. kept[i] = u.stack[i]
      BY <1>2, <1>5, <2>1, <2>3
    <3> QED
      BY <1>8, <1>9, <2>1, <2>3, <3>1, Zenon
  <2> QED
    BY <2>2, <2>3
<1>10. PICK nodes : nodes = Put(u.nodes, top.child, node)
  OBVIOUS
<1>11. /\ DOMAIN nodes = DOMAIN u.nodes \union {top.child}
       /\ \A p \in DOMAIN u.nodes : p # top.child => nodes[p] = u.nodes[p]
  BY <1>10 DEF Put
<1>12. v.nodes = nodes /\ v.stack = kept
  BY <1>1, <1>4, <1>10, Zenon
<1>13. Stays(v, u)
  BY <1>8, <1>11, <1>12, Zenon DEF Stays
<1>14. \A place : Unused(v, place) <=> Unused(u, place)
  BY Zenon DEF Unused
<1>15. DOMAIN u.nodes \subseteq Places
  BY TreeType DEF Nodes
<1>16. ASSUME NEW place \in DOMAIN nodes
       PROVE  ~Unused(v, place) /\ \A i \in 1 .. Len(kept) : ~Reserves(kept[i], place)
  <2>1. CASE place = top.child
    BY <1>2, <1>8, <1>9, <1>14, <2>1, Zenon
  <2>2. CASE place \in DOMAIN u.nodes
    <3>1. place \in Places /\ ~Unused(u, place) /\ \A i \in 1 .. Len(u.stack) : ~Reserves(u.stack[i], place)
      BY <1>15, <2>2, Zenon DEF Apart
    <3> QED
      BY <1>9, <1>14, <3>1, Zenon
  <2> QED
    BY <1>11, <2>1, <2>2
<1>17. ASSUME NEW i \in 1 .. Len(kept), NEW place \in Places, Reserves(kept[i], place)
       PROVE  ~Unused(v, place) /\ \A j \in 1 .. Len(kept) : j # i => ~Reserves(kept[j], place)
  <2>1. i \in 1 .. Len(u.stack) /\ Reserves(u.stack[i], place)
    BY <1>9, <1>17, Zenon
  <2>2. ~Unused(u, place) /\ \A j \in 1 .. Len(u.stack) : j # i => ~Reserves(u.stack[j], place)
    BY <2>1, Zenon DEF Apart
  <2> QED
    BY <1>9, <1>14, <2>2, Zenon
<1>18. Apart(v)
  BY <1>12, <1>16, <1>17, Zenon DEF Apart
<1> QED
  BY <1>13, <1>18

\* What was awaited and is parsed is known as before, and what is dropped from the stack awaited nothing.
LEMMA FinishKnown ==
  ASSUME NEW u \in Tree, NEW level \in 1 .. Len(u.stack), u.stack[level].left > 0, NEW node,
         NEW v, v.nodes = Put(u.nodes, u.stack[level].child, node), v.stack = PopFinished(ChildParsed(u.stack, level)),
         NEW place \in Places
  PROVE  Known(v, place) <=> Known(u, place)
<1>1. PICK stack \in Stack, top \in Level : stack = u.stack /\ top = stack[level]
  BY TreeType, LevelType
<1>2. /\ level \in DOMAIN stack /\ Len(stack) \in Nat
      /\ top.child \in Places /\ top.left \in Nat /\ top.left > 0 /\ stack[level].left > 0
  BY <1>1, LevelType
<1>3. PICK less, kept : less = ChildParsed(stack, level) /\ kept = PopFinished(less)
  OBVIOUS
<1>4. /\ less \in Stack /\ Len(less) = Len(stack)
      /\ less[level] = [child |-> Child(top.child, 1), left |-> top.left - 1]
      /\ \A i \in DOMAIN stack : i # level => less[i] = stack[i]
  BY <1>1, <1>2, <1>3, AwaitedLess, Zenon
<1>5. /\ kept \in Stack /\ Len(kept) <= Len(less) /\ Len(kept) \in Nat
      /\ \A i \in 1 .. Len(kept) : kept[i] = less[i]
      /\ Awaited(kept) = Awaited(less)
  BY <1>3, <1>4, AwaitedKept, LevelType
<1>6. /\ DOMAIN stack = 1 .. Len(stack) /\ 1 .. Len(kept) \subseteq 1 .. Len(stack)
      /\ DOMAIN v.nodes = DOMAIN u.nodes \union {top.child}
  <2>1. DOMAIN stack = 1 .. Len(stack) /\ 1 .. Len(kept) \subseteq 1 .. Len(stack)
    BY <1>2, <1>4, <1>5, LevelType
  <2>2. PICK child : child = top.child /\ v.nodes = Put(u.nodes, child, node)
    BY <1>1
  <2>3. DOMAIN Put(u.nodes, child, node) = DOMAIN u.nodes \union {child}
    BY DEF Put
  <2> QED
    BY <2>1, <2>2, <2>3, Zenon
<1>7. Reserves(top, place) <=> place = top.child \/ Reserves(less[level], place)
  <2>1. PICK c \in Nat, d \in Nat, n \in Nat, p \in Nat, q \in Nat :
          /\ c = top.child[1] /\ d = top.child[2] /\ n = top.left /\ top.child = <<c, d>>
          /\ p = place[1] /\ q = place[2] /\ place = <<p, q>>
    <3>1. PICK child \in Places : child = top.child
      BY <1>2
    <3>2. PICK c \in Nat, d \in Nat : child = <<c, d>> /\ child[1] = c /\ child[2] = d
      BY DEF Places
    <3>3. PICK p \in Nat, q \in Nat : place = <<p, q>> /\ place[1] = p /\ place[2] = q
      BY DEF Places
    <3>4. PICK n \in Nat : n = top.left
      BY <1>2
    <3> QED
      BY <3>1, <3>2, <3>3, <3>4, Zenon
  <2>2. /\ less[level].child = <<c, d + 1>> /\ less[level].left = n - 1
    <3>1. PICK next, rest : next = Child(top.child, 1) /\ rest = top.left - 1
      OBVIOUS
    <3>2. less[level].child = next /\ less[level].left = rest
      BY <1>4, <3>1
    <3>3. next = <<c, d + 1>> /\ rest = n - 1
      BY <2>1, <3>1, Zenon DEF Child
    <3> QED
      BY <3>2, <3>3
  <2>3. less[level].child[1] = c /\ less[level].child[2] = d + 1
    BY <2>2
  <2>4. Reserves(top, place) <=> p = c /\ q \in d .. d + n - 1
    BY <2>1, Zenon DEF Reserves
  <2>5. Reserves(less[level], place) <=> p = c /\ q \in d + 1 .. d + 1 + (n - 1) - 1
    BY <2>1, <2>2, <2>3, Zenon DEF Reserves
  <2>6. place = top.child <=> p = c /\ q = d
    <3>1. <<p, q>> = <<c, d>> <=> p = c /\ q = d
      OBVIOUS
    <3> QED
      BY <2>1, <3>1, Zenon
  <2>7. n > 0
    BY <1>2, <2>1
  <2>8. q \in d .. d + n - 1 <=> q = d \/ q \in d + 1 .. d + 1 + (n - 1) - 1
    BY <2>7
  <2> QED
    BY <2>4, <2>5, <2>6, <2>8, Zenon
<1>8. \A i \in 1 .. Len(stack) : Reserves(less[i], place) => i \in 1 .. Len(kept)
  <2>1. SUFFICES ASSUME NEW i \in 1 .. Len(stack), Reserves(less[i], place), i \notin 1 .. Len(kept) PROVE FALSE
    OBVIOUS
  <2>2. less[i].left \in Nat /\ less[i].child \in Places
    BY <1>4, LevelType
  <2>3. PICK d \in Nat, n \in Nat, q \in Nat : d = less[i].child[2] /\ n = less[i].left /\ q = place[2]
    BY <2>2 DEF Places
  <2>4. q \in d .. d + n - 1
    BY <2>1, <2>3, Zenon DEF Reserves
  <2>5. 1 \in 1 .. n
    BY <2>4
  <2>6. PICK pair : pair = <<i, 1>>
    OBVIOUS
  <2>7. pair \in Nat \X Nat /\ pair[1] = i /\ pair[2] = 1
    BY <2>6
  <2>8. pair \in Awaited(less)
    BY <1>4, <2>3, <2>5, <2>7, AwaitedPairs
  <2>9. pair \notin Awaited(kept)
    BY <1>5, <2>1, <2>7, AwaitedPairs
  <2> QED
    BY <1>5, <2>8, <2>9
<1>9. (\E i \in 1 .. Len(stack) : Reserves(stack[i], place))
        <=> place = top.child \/ \E i \in 1 .. Len(kept) : Reserves(kept[i], place)
  BY <1>1, <1>2, <1>4, <1>5, <1>6, <1>7, <1>8, Zenon
<1>10. v.stack = kept /\ u.stack = stack
  BY <1>1, <1>3, Zenon
<1> QED
  BY <1>6, <1>9, <1>10, Zenon DEF Known

(* A node that was awaited is parsed, and awaits children that were not known:
   the tree hangs together as before.                                        *)
LEMMA FinishSettled ==
  ASSUME NEW t, DOMAIN t.nodes \subseteq Places, Settled(t), NEW place \in Places,
         Known(t, place), place \notin DOMAIN t.nodes, NEW node,
         \A y \in ChildPlaces(node) : y \in Places /\ ~Known(t, y),
         NEW v, v.nodes = Put(t.nodes, place, node),
         \A y \in Places : Known(v, y) <=> Known(t, y) \/ y \in ChildPlaces(node)
  PROVE  Settled(v)
<1>1. PICK old, new : old = DOMAIN t.nodes /\ new = DOMAIN v.nodes
  OBVIOUS
<1>2. /\ new = old \union {place} /\ Of(v, place) = ChildPlaces(node)
      /\ \A p \in old : Of(v, p) = Of(t, p)
  <2>1. PICK nodes : nodes = t.nodes
    OBVIOUS
  <2>2. /\ DOMAIN Put(nodes, place, node) = DOMAIN nodes \union {place}
        /\ Put(nodes, place, node)[place] = node
        /\ \A p \in DOMAIN nodes : p # place => Put(nodes, place, node)[p] = nodes[p]
    BY DEF Put
  <2> QED
    BY <1>1, <2>1, <2>2, Zenon DEF Of
<1>3. \A y \in ChildPlaces(node) : y \in Places /\ ~Known(t, y) /\ y # Root /\ y # place /\ y \notin old
  <2>1. Known(t, Root) /\ \A p \in old : Known(t, p)
    BY <1>1, Zenon DEF Settled, Known
  <2> QED
    BY <2>1, Zenon
<1>4. \A p \in old : \A x \in Of(t, p) : x \in Places /\ x # Root /\ Known(t, x)
  BY <1>1, Zenon DEF Settled
<1>5. Known(v, Root)
  <2>1. Root \in Places
    BY DEF Root, Places
  <2> QED
    BY <2>1, Zenon DEF Settled
<1>6. \A p \in new : \A x \in Of(v, p) : x \in Places /\ x # Root /\ Known(v, x)
  BY <1>2, <1>3, <1>4
<1>7. ASSUME NEW p \in new, NEW q \in new, p # q
      PROVE  Of(v, p) \intersect Of(v, q) = {}
  <2>1. CASE p \in old /\ q \in old
    <3>1. Of(t, p) \intersect Of(t, q) = {}
      BY <1>1, <1>7, <2>1, Zenon DEF Settled
    <3> QED
      BY <1>2, <2>1, <3>1, Zenon
  <2>2. CASE p = place /\ q \in old
    BY <1>2, <1>3, <1>4, <2>2
  <2>3. CASE q = place /\ p \in old
    BY <1>2, <1>3, <1>4, <2>3
  <2> QED
    BY <1>2, <1>7, <2>1, <2>2, <2>3
<1>8. ASSUME NEW x \in Places, Known(v, x), x # Root
      PROVE  \E q \in new : x \in Of(v, q)
  <2>1. CASE Known(t, x)
    <3>1. PICK q \in old : x \in Of(t, q)
      BY <1>1, <1>8, <2>1, Zenon DEF Settled
    <3> QED
      BY <1>2, <3>1
  <2>2. CASE x \in ChildPlaces(node)
    BY <1>2, <2>2
  <2> QED
    BY <1>8, <2>1, <2>2
<1>9. ASSUME NEW some \in SUBSET (new \ {Root}), some # {}
      PROVE  \E p \in some : \E q \in new \ some : p \in Of(v, q)
  <2>1. PICK rest : rest = some \ {place}
    OBVIOUS
  <2>2. CASE rest # {}
    <3>1. rest \in SUBSET (old \ {Root})
      BY <1>2, <2>1
    <3>2. PICK p \in rest : \E q \in old \ rest : p \in Of(t, q)
      BY <1>1, <2>2, <3>1, Zenon DEF Settled, Rooted
    <3>3. PICK q \in old \ rest : p \in Of(t, q)
      BY <3>2
    <3>4. q # place
      BY <1>1
    <3> QED
      BY <1>2, <2>1, <3>2, <3>3, <3>4
  <2>3. CASE rest = {}
    <3>1. some = {place} /\ place # Root
      BY <1>9, <2>1, <2>3
    <3>2. PICK q \in old : place \in Of(t, q)
      BY <1>1, <3>1, Zenon DEF Settled
    <3>3. q # place
      BY <1>1
    <3> QED
      BY <1>2, <3>1, <3>2, <3>3
  <2> QED
    BY <2>2, <2>3
<1>10. Rooted(v)
  BY <1>1, <1>9, Zenon DEF Rooted
<1> QED
  BY <1>1, <1>5, <1>6, <1>7, <1>8, <1>10, Zenon DEF Settled

(* A node more is parsed, and a child less awaited: t is the tree before the
   children of the node got their places.                                    *)
LEMMA FinishNeat ==
  ASSUME NEW u \in Tree, Apart(u), NEW level \in 1 .. Len(u.stack), u.stack[level].left > 0, NEW node,
         IsFiniteSet(DOMAIN u.nodes), Counted(u) <= u.node_count, u.node_count <= u.max_nodes,
         u.state = "in_progress", NEW t, Settled(t), t.nodes = u.nodes, Known(t, u.stack[level].child),
         \A y \in ChildPlaces(node) : y \in Places /\ ~Known(t, y),
         \A y \in Places : Known(u, y) <=> Known(t, y) \/ y \in ChildPlaces(node)
  PROVE  Neat(FinishNode(u, level, node)) /\ Stays(FinishNode(u, level, node), u)
<1>1. PICK v : v = FinishNode(u, level, node)
  OBVIOUS
<1>2. PICK kept, nodes : /\ kept = PopFinished(ChildParsed(u.stack, level))
                         /\ nodes = Put(u.nodes, u.stack[level].child, node)
  OBVIOUS
<1>3. /\ v.nodes = nodes /\ v.stack = kept /\ v.pages = u.pages /\ v.current = u.current
      /\ v.nodes_left = u.nodes_left /\ v.node_count = u.node_count /\ v.max_nodes = u.max_nodes
      /\ v.stage # "body" /\ v.state = (IF kept = <<>> THEN "parsed" ELSE "in_progress")
  <2>1. PICK possible, size : /\ possible = u.possible - u.reserved
                              /\ size = u.size + u.reserved + 1 - Elements(node.type, node.n)
    OBVIOUS
  <2>2. PICK stage, state : /\ stage = IF kept = <<>> THEN "idle" ELSE "node"
                            /\ state = IF kept = <<>> THEN "parsed" ELSE u.state
    OBVIOUS
  <2>3. v = [u EXCEPT !.nodes = nodes, !.possible = possible, !.size = size, !.stack = kept,
                      !.stage = stage, !.state = state]
    BY <1>1, <1>2, <2>1, <2>2, Zenon DEF FinishNode
  <2>4. stage # "body" /\ state = IF kept = <<>> THEN "parsed" ELSE "in_progress"
    BY <2>2
  <2>5. /\ v.nodes = nodes /\ v.stack = kept /\ v.pages = u.pages /\ v.current = u.current
        /\ v.nodes_left = u.nodes_left /\ v.node_count = u.node_count /\ v.max_nodes = u.max_nodes
        /\ v.stage = stage /\ v.state = state
    BY <2>3 DEF Tree
  <2> QED
    BY <2>4, <2>5
<1>4. Apart(v) /\ Stays(v, u)
  BY <1>2, <1>3, FinishApart, Zenon
<1>5. PICK top : top = u.stack[level].child
  OBVIOUS
<1>6. u.stack \in Stack /\ level \in DOMAIN u.stack
  BY TreeType, LevelType
<1>7. Cardinality(Awaited(kept)) = Cardinality(Awaited(u.stack)) - 1
  <2>1. PICK less : less = ChildParsed(u.stack, level)
    OBVIOUS
  <2>2. less \in Stack /\ Cardinality(Awaited(less)) = Cardinality(Awaited(u.stack)) - 1
    BY <1>6, <2>1, AwaitedLess, Zenon
  <2>3. Awaited(kept) = Awaited(less)
    BY <1>2, <2>1, <2>2, AwaitedKept, Zenon
  <2> QED
    BY <2>2, <2>3, Zenon
<1>8. DOMAIN nodes = DOMAIN u.nodes \union {top}
  BY <1>2, <1>5 DEF Put
<1>9. /\ IsFiniteSet(DOMAIN nodes) /\ Cardinality(DOMAIN nodes) \in Nat
      /\ Cardinality(DOMAIN nodes) <= Cardinality(DOMAIN u.nodes) + 1
  <2>1. PICK places : places = DOMAIN u.nodes
    OBVIOUS
  <2>2. IsFiniteSet(places) /\ Cardinality(places) \in Nat
    BY <2>1, FS_CardinalityType
  <2>3. /\ IsFiniteSet(places \union {top})
        /\ Cardinality(places \union {top}) = IF top \in places THEN Cardinality(places) ELSE Cardinality(places) + 1
    BY <2>2, FS_AddElement
  <2>4. Cardinality(places \union {top}) \in Nat /\ Cardinality(places \union {top}) <= Cardinality(places) + 1
    BY <2>2, <2>3
  <2> QED
    BY <1>8, <2>1, <2>3, <2>4, Zenon
<1>10. Counted(v) <= u.node_count /\ Counted(v) <= u.max_nodes
  <2>1. PICK n \in Nat, m \in Nat, a \in Nat, b \in Int, c \in Nat, d \in Nat :
          /\ n = Cardinality(DOMAIN u.nodes) /\ m = Cardinality(DOMAIN nodes)
          /\ a = Cardinality(Awaited(u.stack)) /\ b = Cardinality(Awaited(kept))
          /\ c = u.node_count /\ d = u.max_nodes
    <3>1. Cardinality(DOMAIN u.nodes) \in Nat /\ Cardinality(Awaited(u.stack)) \in Nat
      BY <1>6, FS_CardinalityType, AwaitedFinite
    <3>2. Cardinality(Awaited(kept)) \in Int
      BY <1>7, <3>1
    <3>3. u.node_count \in Nat /\ u.max_nodes \in Nat
      BY TreeType
    <3> QED
      BY <1>9, <3>1, <3>2, <3>3, Zenon
  <2>2. m <= n + 1 /\ b = a - 1 /\ n + a <= c /\ c <= d
    BY <1>7, <1>9, <2>1, Zenon DEF Counted
  <2>3. m + b <= c /\ m + b <= d
    BY <2>2
  <2> QED
    BY <1>3, <2>1, <2>3, Zenon DEF Counted
<1>11. Settled(v)
  <2>1. top \in Places /\ DOMAIN u.nodes \subseteq Places
    BY <1>5, <1>6, LevelType, TreeType DEF Nodes
  <2>2. top \notin DOMAIN u.nodes
    <3>1. Reserves(u.stack[level], top)
      <4>1. PICK d \in Nat, n \in Nat : d = u.stack[level].child[2] /\ n = u.stack[level].left
        BY <1>6, LevelType DEF Places
      <4>2. d \in d .. d + n - 1
        BY <4>1
      <4> QED
        BY <1>5, <4>1, <4>2, Zenon DEF Reserves
    <3> QED
      BY <3>1, Zenon DEF Apart
  <2>3. \A y \in Places : Known(v, y) <=> Known(t, y) \/ y \in ChildPlaces(node)
    <3>1. v.nodes = Put(u.nodes, u.stack[level].child, node) /\ v.stack = PopFinished(ChildParsed(u.stack, level))
      BY <1>2, <1>3, Zenon
    <3>2. \A y \in Places : Known(v, y) <=> Known(u, y)
      BY <3>1, FinishKnown, Zenon
    <3> QED
      BY <3>2, Zenon
  <2>4. v.nodes = Put(t.nodes, top, node)
    BY <1>2, <1>3, <1>5, Zenon
  <2> QED
    BY <1>5, <2>1, <2>2, <2>3, <2>4, FinishSettled, Zenon
<1>12. v.state = "parsed" => v.stack = <<>>
  BY <1>3
<1>13. Neat(v)
  BY <1>3, <1>4, <1>9, <1>10, <1>11, <1>12, Zenon DEF Neat
<1> QED
  BY <1>1, <1>4, <1>13

\* A node whose body is there is written, and its children are promised.
LEMMA BodyNeat ==
  ASSUME NEW t, Sound(t), Neat(t), t.stage = "body", t.err = "ok"
  PROVE  Neat(BodyThere(t)) /\ Stays(BodyThere(t), t)
<1>1. PICK type, n, total : type = HeadOf(t).type /\ n = Announced(t) /\ total = Promised(t)
  OBVIOUS
<1>2. /\ t \in Tree /\ Open(t) /\ t.state = "in_progress"
      /\ t.size + 1 <= Len(t.data) /\ t.size + 1 + HeadOf(t).width <= Len(t.data)
  BY OpenHasByte, TreeType DEF Sound, Stages
<1>3. total \in Nat /\ total = Elements(type, n)
  BY <1>1, <1>2, BodyType DEF Promised
<1>4. /\ IsFiniteSet(DOMAIN t.nodes) /\ Apart(t) /\ Settled(t) /\ Counted(t) + total <= t.node_count
      /\ Counted(t) <= t.node_count /\ t.node_count <= t.max_nodes
  BY <1>1, <1>2, Zenon DEF Neat, Parsing
<1>5. /\ t.stack \in Stack /\ Len(t.stack) \in 1 .. Len(t.stack) /\ t.stack[Len(t.stack)].left > 0
      /\ t.current \in DOMAIN t.pages /\ t.nodes_left <= t.pages[t.current]
  BY <1>2, TreeType, LevelType DEF Open
<1>6. Known(t, t.stack[Len(t.stack)].child)
  <2>1. PICK top \in Level : top = t.stack[Len(t.stack)]
    BY <1>5, LevelType
  <2>2. PICK d \in Nat, k \in Nat : d = top.child[2] /\ k = top.left /\ k > 0
    BY <1>5, <2>1 DEF Level, Places
  <2>3. d \in d .. d + k - 1
    BY <2>2
  <2>4. Reserves(top, top.child)
    BY <2>2, <2>3, Zenon DEF Reserves
  <2> QED
    BY <1>5, <2>1, <2>4, Zenon DEF Known
<1>7. CASE type \notin {"map", "array"}
  <2>1. PICK at, node : /\ at = IF type \in {"str", "bin"} THEN t.size + t.reserved + 1 - n ELSE 0
                        /\ node = [type |-> type, n |-> n, at |-> at]
    OBVIOUS
  <2>2. BodyThere(t) = FinishNode(t, Len(t.stack), node)
    BY <1>1, <1>7, <2>1, Zenon DEF BodyThere, HeadOf
  <2>3. ChildPlaces(node) = {}
    <3>1. Elements(node.type, node.n) = 0
      BY <1>1, <1>2, <1>7, <2>1, BodyType
    <3> QED
      BY <3>1 DEF ChildPlaces
  <2> QED
    BY <1>2, <1>4, <1>5, <1>6, <2>2, <2>3, FinishNeat, Zenon
<1>8. CASE type \in {"map", "array"} /\ total > t.nodes_left /\ t.pool # 0
  <2>1. BodyThere(t) = mpack_tree_flag_error(t, "too_big")
    BY <1>1, <1>3, <1>8, Zenon DEF BodyThere, HeadOf, mpack_tree_parse_children
  <2> QED
    BY <2>1, FlagNeat, Zenon
<1>9. CASE type \in {"map", "array"} /\ ~(total > t.nodes_left /\ t.pool # 0)
  <2>1. PICK node, u : u = Opened(t, total) /\ node = [type |-> type, n |-> n, at |-> PlaceFor(t, total)]
    OBVIOUS
  <2>2. BodyThere(t) = FinishNode(u, Len(t.stack), node)
    <3>1. BodyThere(t) = mpack_tree_parse_children(t, type, n)
      BY <1>1, <1>9, Zenon DEF BodyThere, HeadOf
    <3>2. mpack_tree_parse_children(t, type, n) = FinishNode(u, Len(t.stack), node)
      BY <1>3, <1>9, <2>1, Zenon DEF mpack_tree_parse_children
    <3> QED
      BY <3>1, <3>2
  <2>3. /\ Apart(u) /\ u \in Tree /\ u.nodes = t.nodes /\ u.node_count = t.node_count /\ u.max_nodes = t.max_nodes
        /\ Len(t.stack) <= Len(u.stack) /\ \A i \in 1 .. Len(t.stack) : u.stack[i] = t.stack[i]
        /\ Cardinality(Awaited(u.stack)) = Cardinality(Awaited(t.stack)) + total
        /\ u.state = t.state
        /\ \A y \in Places :
             Known(u, y) <=> Known(t, y) \/ Reserves([child |-> PlaceFor(t, total), left |-> total], y)
    BY <1>2, <1>3, <1>4, <1>5, <2>1, OpenedApart, Zenon
  <2>4. Counted(u) <= u.node_count
    <3>1. PICK a \in Nat, b \in Nat, e \in Nat : a = Cardinality(DOMAIN t.nodes) /\ b = Cardinality(Awaited(t.stack)) /\ e = total
      <4>1. Cardinality(DOMAIN t.nodes) \in Nat /\ Cardinality(Awaited(t.stack)) \in Nat
        BY <1>4, <1>5, FS_CardinalityType, AwaitedFinite
      <4> QED
        BY <1>3, <4>1, Zenon
    <3>2. Counted(u) = a + (b + e) /\ Counted(t) + total = a + b + e
      BY <2>3, <3>1, Zenon DEF Counted
    <3>3. a + (b + e) = a + b + e
      OBVIOUS
    <3> QED
      BY <1>4, <2>3, <3>2, <3>3, Zenon
  <2>5. Len(t.stack) \in 1 .. Len(u.stack) /\ u.stack[Len(t.stack)].left > 0
    <3>1. Len(t.stack) \in 1 .. Len(u.stack)
      BY <1>5, <2>3, LevelType, TreeType
    <3> QED
      BY <1>5, <2>3, <3>1, Zenon
  <2>6. \A y : y \in ChildPlaces(node)
               <=> y \in Places /\ Reserves([child |-> PlaceFor(t, total), left |-> total], y)
    <3>1. PlaceFor(t, total) \in Places
      BY <1>2, <1>3, <1>5, ChildrenPlaced
    <3>2. node.at = PlaceFor(t, total) /\ Elements(node.type, node.n) = total
      BY <1>3, <2>1
    <3> QED
      BY <1>3, <3>1, <3>2, ChildrenReserved, Zenon
  <2>7. ASSUME NEW y \in ChildPlaces(node) PROVE y \in Places /\ ~Known(t, y)
    <3>1. y \in Places /\ Reserves([child |-> PlaceFor(t, total), left |-> total], y)
      BY <2>6, Zenon
    <3>2. Unused(t, y)
      BY <1>2, <1>3, <1>5, <3>1, PlacesApart, Zenon
    <3> QED
      BY <1>4, <3>1, <3>2, Zenon DEF Apart, Known
  <2>8. \A y \in Places : Known(u, y) <=> Known(t, y) \/ y \in ChildPlaces(node)
    BY <2>3, <2>6, Zenon
  <2>9. Known(t, u.stack[Len(t.stack)].child) /\ u.state = "in_progress"
    BY <1>2, <1>5, <1>6, <2>3, Zenon
  <2>10. Neat(FinishNode(u, Len(t.stack), node)) /\ Stays(FinishNode(u, Len(t.stack), node), u)
    BY <1>4, <2>3, <2>4, <2>5, <2>7, <2>8, <2>9, FinishNeat, Zenon
  <2>11. Stays(FinishNode(u, Len(t.stack), node), t)
    BY <2>3, <2>10, Zenon DEF Stays
  <2> QED
    BY <2>2, <2>10, <2>11
<1> QED
  BY <1>7, <1>8, <1>9

\* Every step the parser takes once it has its bytes keeps it.
LEMMA ProceedNeat ==
  ASSUME NEW t, Sound(t), Neat(t), t.stage \in {"start", "head", "body"}, t.err = "ok", ~Waits(t)
  PROVE  Neat(Proceed(t)) /\ Stays(Proceed(t), t)
<1>1. CASE t.stage = "start"
  BY <1>1, StartNeat DEF Proceed
<1>2. CASE t.stage = "head"
  BY <1>2, HeadNeat DEF Proceed
<1>3. CASE t.stage = "body"
  BY <1>3, BodyNeat DEF Proceed
<1> QED
  BY <1>1, <1>2, <1>3

\* More bytes change nothing of what a head has promised.
LEMMA FillNeat ==
  ASSUME NEW t, Sound(t), Neat(t), t.stage \in {"start", "head", "body"}, t.err = "ok", ~FillFails(t),
         NEW bytes \in Seq(Byte)
  PROVE  Neat(mpack_tree_reserve_fill(t, bytes)) /\ Stays(mpack_tree_reserve_fill(t, bytes), t)
<1>1. PICK capacity, data, possible :
        capacity = Capacity(t) /\ data = t.data \o bytes /\ possible = t.possible + Len(bytes)
  OBVIOUS
<1>2. PICK r : r = [t EXCEPT !.capacity = capacity, !.data = data, !.possible = possible]
  OBVIOUS
<1>3. /\ Frame(r, t) /\ r.err = t.err /\ r.stage = t.stage /\ r.state = t.state /\ r.data = data /\ r.size = t.size
      /\ r \in Tree
  <2>1. t \in Tree /\ t.capacity <= t.max_size /\ Len(t.data) + t.reserved <= t.max_size
    BY TreeType DEF Sound, Fits, FillFails
  <2>2. capacity \in Nat /\ data \in Seq(Byte) /\ possible \in Int
    BY <1>1, <2>1, TreeType, CapacityType, ConcatProperties, LenProperties
  <2> QED
    BY <1>2, <2>1, <2>2 DEF Tree, Frame
<1>4. ASSUME t.stage = "body" PROVE Promised(r) = Promised(t)
  <2>1. t.size + 1 + HeadOf(t).width <= Len(t.data) /\ t.size + 1 <= Len(t.data) /\ t \in Tree
    BY <1>4, OpenHasByte, TreeType DEF Sound, Stages
  <2>2. t.data \in Seq(Byte) /\ t.size \in Nat
    BY <2>1, TreeType
  <2>3. /\ r.data[r.size + 1] = t.data[t.size + 1]
        /\ t.size + 1 + NodeHead(t.data[t.size + 1]).width <= Len(t.data) => Announced(r) = Announced(t)
    BY <1>1, <1>3, <2>1, <2>2, AnnouncedSame
  <2> QED
    BY <2>1, <2>3, Zenon DEF Promised, HeadOf
<1>5. Neat(r) /\ Stays(r, t)
  BY <1>3, <1>4, FrameNeat, Zenon DEF Parsing
<1>6. mpack_tree_reserve_fill(t, bytes) = IF Waits(r) THEN Return(r) ELSE r
  BY <1>1, <1>2, Zenon DEF mpack_tree_reserve_fill
<1>7. CASE Waits(r)
  <2>1. Neat(Return(r)) /\ Stays(Return(r), r)
    BY <1>3, <1>5, ReturnNeat
  <2>2. Stays(Return(r), t)
    BY <1>5, <2>1, Zenon DEF Stays
  <2> QED
    BY <1>6, <1>7, <2>1, <2>2, Zenon
<1>8. CASE ~Waits(r)
  BY <1>5, <1>6, <1>8, Zenon
<1> QED
  BY <1>7, <1>8

\* A node too large for the limits or the buffer is an error and keeps it.
LEMMA FillRefusedNeat ==
  ASSUME NEW t, Sound(t), Neat(t)
  PROVE  Neat(FillRefused(t)) /\ Stays(FillRefused(t), t)
<1>1. PICK e \in Errors : e = IF Len(t.data) + t.reserved > t.max_size THEN "too_big" ELSE "invalid"
  BY DEF Errors
<1>2. PICK u : u = mpack_tree_flag_error(t, e)
  OBVIOUS
<1>3. u \in Tree /\ Neat(u) /\ Stays(u, t)
  BY <1>2, FlagSound, FlagNeat DEF Sound
<1>4. Neat(Return(u)) /\ Stays(Return(u), u)
  BY <1>3, ReturnNeat
<1>5. FillRefused(t) = Return(u)
  BY <1>1, <1>2, Zenon DEF FillRefused
<1> QED
  BY <1>3, <1>4, <1>5, Zenon DEF Stays

\* The end of a call takes nothing away.
LEMMA StepNeat ==
  ASSUME NEW after, Sound(after), Neat(after), Step(after),
         (after.err = "ok" /\ after.stage = "start") \/ Stays(after, tree)
  PROVE  Neat(tree') /\ (tree'.stage # "start" => Stays(tree', tree))
<1>1. CASE after.err = "ok"
  <2>1. tree' = after
    BY <1>1, Zenon DEF Step
  <2> QED
    BY <2>1, Zenon
<1>2. CASE after.err # "ok"
  <2>1. tree' = Return(after)
    BY <1>2, Zenon DEF Step
  <2>2. Neat(Return(after)) /\ Stays(Return(after), after)
    BY ReturnNeat DEF Sound
  <2> QED
    BY <1>2, <2>1, <2>2, Zenon DEF Stays
<1> QED
  BY <1>1, <1>2

\* A piece from the stream, or its end, keeps it.
LEMMA FillStepNeat ==
  ASSUME Inv, Neat(tree), Fill
  PROVE  Neat(tree') /\ (tree'.stage # "start" => Stays(tree', tree))
<1>1. /\ Sound(tree) /\ tree.err = "ok" /\ tree.stage \in {"start", "head", "body"}
      /\ input \in Seq(Byte) /\ ~FillFails(tree)
  BY DEF Inv, Fill, Reserving
<1>2. PICK n \in 0 .. Lesser(Len(input), Capacity(tree) - Len(tree.data)), ended \in BOOLEAN :
        Step(IF ended THEN mpack_tree_flag_error(mpack_tree_reserve_fill(tree, SubSeq(input, 1, n)), "io")
             ELSE mpack_tree_reserve_fill(tree, SubSeq(input, 1, n)))
  BY Zenon DEF Fill
<1>3. PICK bytes, filled : bytes = SubSeq(input, 1, n) /\ filled = mpack_tree_reserve_fill(tree, bytes)
  OBVIOUS
<1>4. bytes \in Seq(Byte) /\ Len(bytes) <= Capacity(tree) - Len(tree.data)
  BY <1>1, <1>2, <1>3, PieceFits
<1>5. Sound(filled) /\ Neat(filled) /\ Stays(filled, tree)
  BY <1>1, <1>3, <1>4, FillSound, FillNeat
<1>6. PICK flagged : flagged = mpack_tree_flag_error(filled, "io")
  OBVIOUS
<1>7. Sound(flagged) /\ Neat(flagged) /\ Stays(flagged, tree)
  <2>1. Sound(flagged) /\ Neat(flagged) /\ Stays(flagged, filled)
    BY <1>5, <1>6, FlagSound, FlagNeat DEF Errors
  <2> QED
    BY <1>5, <2>1, Zenon DEF Stays
<1>8. Step(flagged) \/ Step(filled)
  BY <1>2, <1>3, <1>6, Zenon
<1> QED
  BY <1>5, <1>7, <1>8, StepNeat

\* A tree as mpack_tree_init leaves it has it.
LEMMA InitNeat ==
  ASSUME Init
  PROVE  Neat(tree)
<1>1. PICK case \in Cases : tree = case.start
  BY DEF Init
<1>2. tree = [EmptyTree(tree.data, tree.max_size, tree.max_nodes)
                EXCEPT !.stream = tree.stream, !.pool = tree.pool, !.err = tree.err]
      /\ tree.max_nodes \in 1 .. NoLimit
  BY <1>1, CasesAssumption, Zenon
<1>3. tree.nodes = <<>> /\ tree.stack = <<>> /\ tree.stage = "idle" /\ tree.state = "not_started"
  BY <1>2 DEF EmptyTree
<1>4. DOMAIN tree.nodes = {} /\ Awaited(tree.stack) = {}
  BY <1>3 DEF Awaited
<1>5. IsFiniteSet(DOMAIN tree.nodes) /\ Cardinality(DOMAIN tree.nodes) = 0 /\ Cardinality(Awaited(tree.stack)) = 0
  BY <1>4, FS_EmptySet
<1>6. Counted(tree) <= tree.max_nodes
  BY <1>2, <1>5 DEF Counted
<1>7. ~Parsing(tree) /\ tree.stage # "body" /\ tree.state # "parsed"
  BY <1>3 DEF Parsing
<1> QED
  BY <1>5, <1>6, <1>7, Zenon DEF Neat

\* Every step keeps the count and the places apart, and what is parsed.
LEMMA NextNeat ==
  ASSUME Inv, Neat(tree), [Next]_vars
  PROVE  Neat(tree') /\ (tree'.stage # "start" => Stays(tree', tree))
<1>1. CASE Parse
  <2>1. PICK after : after = mpack_tree_parse(tree)
    OBVIOUS
  <2>2. /\ Sound(after) /\ Neat(after) /\ after.err = "ok" /\ Step(after)
        /\ after.stage # "start" => Stays(after, tree)
    BY <1>1, <2>1, ParseSound, ParseNeat DEF Inv, Parse
  <2> QED
    BY <2>2, StepNeat
<1>2. CASE ParseNode
  <2>1. Sound(mpack_tree_parse_node(tree)) /\ Step(mpack_tree_parse_node(tree))
    BY <1>2, ParseNodeSound DEF Inv, ParseNode
  <2>2. Neat(mpack_tree_parse_node(tree)) /\ Stays(mpack_tree_parse_node(tree), tree)
    BY <1>2, ParseNodeNeat DEF Inv, ParseNode
  <2> QED
    BY <2>1, <2>2, StepNeat
<1>3. CASE GoOn
  <2>1. Sound(Proceed(tree)) /\ Step(Proceed(tree))
    BY <1>3, ProceedSound DEF Inv, GoOn, Reserving
  <2>2. Neat(Proceed(tree)) /\ Stays(Proceed(tree), tree)
    BY <1>3, ProceedNeat DEF Inv, GoOn, Reserving
  <2> QED
    BY <2>1, <2>2, StepNeat
<1>4. CASE FillRefuses
  <2>1. Sound(FillRefused(tree)) /\ Step(FillRefused(tree))
    BY <1>4, FillRefusedSound DEF Inv, FillRefuses
  <2>2. Neat(FillRefused(tree)) /\ Stays(FillRefused(tree), tree)
    BY FillRefusedNeat DEF Inv
  <2> QED
    BY <2>1, <2>2, StepNeat
<1>5. CASE Fill
  BY <1>5, FillStepNeat
<1>6. CASE Access
  <2>1. Idle(tree)
    BY <1>6 DEF Inv, Access, Idle, Alike, Frame
  <2>2. PICK op \in Accessors : \E a, k : Ask(op, a, k)
    BY <1>6, AccessAsks
  <2>3. PICK a, node : tree' = Perform(op, a, node).t
    BY <2>2, Zenon DEF Ask
  <2>4. Alike(tree', tree)
    BY <2>1, <2>3, PerformIdle DEF Idle
  <2> QED
    BY <2>4, AlikeNeat
<1>7. CASE Look \/ UNCHANGED vars
  <2>1. tree' = tree
    BY <1>7 DEF Look, vars
  <2> QED
    BY <2>1, Zenon DEF Stays
<1> QED
  BY <1>1, <1>2, <1>3, <1>4, <1>5, <1>6, <1>7 DEF Next

(* What is parsed is never written again before the next message begins: the
   places a container gets for its children are no node's, and none that
   another container awaits (mpack_tree_parse_children).                     *)
THEOREM ParsedNodesStay == Spec => NodesStay
<1>1. Init => Inv /\ Neat(tree)
  BY InitInv, InitNeat
<1>2. (Inv /\ Neat(tree)) /\ [Next]_vars => (Inv /\ Neat(tree))'
  BY NextInv, NextNeat
<1>3. (Inv /\ Neat(tree)) /\ [Next]_vars =>
        [tree'.stage # "start" =>
           \A place \in DOMAIN tree.nodes :
             place \in DOMAIN tree'.nodes /\ tree'.nodes[place] = tree.nodes[place]]_vars
  BY NextNeat DEF Stays
<1> QED
  BY <1>1, <1>2, <1>3, PTL DEF Spec, NodesStay

(* The nodes that are parsed and those that are promised are together never
   more than the limit of the tree (mpack_tree_parse_children).              *)
THEOREM LimitKept == Spec => []PromisesWithinLimit
<1>1. Init => Inv /\ Neat(tree)
  BY InitInv, InitNeat
<1>2. (Inv /\ Neat(tree)) /\ [Next]_vars => (Inv /\ Neat(tree))'
  BY NextInv, NextNeat
<1>3. Inv /\ Neat(tree) => PromisesWithinLimit
  BY Zenon DEF Neat, Counted, PromisesWithinLimit
<1> QED
  BY <1>1, <1>2, <1>3, PTL DEF Spec

\* When nothing is awaited any more, what is known is parsed.
LEMMA NeatWhole ==
  ASSUME tree \in Tree, Neat(tree)
  PROVE  NodesWhole
<1>1. SUFFICES ASSUME tree.state = "parsed" PROVE NodesWhole
  BY DEF NodesWhole
<1>2. PICK all : all = DOMAIN tree.nodes /\ all \subseteq Places
  BY TreeType DEF Nodes
<1>3. tree.stack = <<>> /\ Settled(tree)
  BY <1>1 DEF Neat
<1>4. \A x : Known(tree, x) <=> x \in all
  <2>1. Len(tree.stack) = 0
    BY <1>3
  <2>2. 1 .. Len(tree.stack) = {}
    BY <2>1
  <2> QED
    BY <1>2, <2>2, Zenon DEF Known
<1>5. Root \in all
  BY <1>3, <1>4, Zenon DEF Settled
<1>6. \A p \in all : \A x \in Of(tree, p) : x # Root /\ x \in all
  BY <1>2, <1>3, <1>4, Zenon DEF Settled
<1>7. \A p \in all : \A q \in all \ {p} : Of(tree, p) \intersect Of(tree, q) = {}
  BY <1>2, <1>3, Zenon DEF Settled
<1>8. \A p \in all \ {Root} : \E q \in all : p \in Of(tree, q)
  BY <1>2, <1>3, <1>4, Zenon DEF Settled
<1>9. \A some \in SUBSET {p \in all \ {Root} : Of(tree, p) # {}} :
        some # {} => \E p \in some, q \in all \ some : p \in Of(tree, q)
  <2>1. ASSUME NEW some \in SUBSET {p \in all \ {Root} : Of(tree, p) # {}}, some # {}
        PROVE  \E p \in some, q \in all \ some : p \in Of(tree, q)
    <3>1. some \in SUBSET (all \ {Root})
      BY <2>1
    <3>2. \A part \in SUBSET (all \ {Root}) :
            part # {} => \E p \in part : \E q \in all \ part : p \in Of(tree, q)
      BY <1>2, <1>3, Zenon DEF Settled, Rooted
    <3>3. PICK p \in some : \E q \in all \ some : p \in Of(tree, q)
      BY <2>1, <3>1, <3>2, Zenon
    <3> QED
      BY <3>3, Zenon
  <2> QED
    BY <2>1
<1> QED
  BY <1>2, <1>5, <1>6, <1>7, <1>8, <1>9, ZenonT(20) DEF NodesWhole, Of, Root

(* What is parsed is one tree, whatever the message, the pieces and the pages:
   the root and every child that is announced are there, no node has two parents
   or none, and whoever follows the children meets every node once
   (mpack_tree_parse_children, mpack_tree_continue_parsing).                 *)
THEOREM ParsedIsOneTree == Spec => []NodesWhole
<1>1. Init => Inv /\ Neat(tree)
  BY InitInv, InitNeat
<1>2. (Inv /\ Neat(tree)) /\ [Next]_vars => (Inv /\ Neat(tree))'
  BY NextInv, NextNeat
<1>3. Inv /\ Neat(tree) => NodesWhole
  BY NeatWhole DEF Inv, Sound
<1> QED
  BY <1>1, <1>2, <1>3, PTL DEF Spec

------------------------------------------------------------------------------
(* An error silences every accessor.                                         *)

\* An error that is there stays, and with an error there is nothing to tell.
Silent(t, answer, nothing) ==
  /\ t.err # "ok" => answer.t.err = t.err
  /\ answer.t.err # "ok" => answer.got = nothing

\* The first error is the one that stays.
LEMMA FlagErr ==
  ASSUME NEW t \in Tree, NEW e
  PROVE  mpack_tree_flag_error(t, e).err = IF t.err = "ok" THEN e ELSE t.err
  BY DEF mpack_tree_flag_error, Tree

\* What is flagged is told with nothing; what is told without an error may be anything.
LEMMA AnswerSilent ==
  ASSUME NEW t \in Tree, NEW nothing
  PROVE  /\ \A e : Silent(t, Answer(mpack_tree_flag_error(t, e), nothing), nothing)
         /\ Silent(t, Answer(t, nothing), nothing)
         /\ \A got : t.err = "ok" => Silent(t, Answer(t, got), nothing)
<1>1. \A u, got : Answer(u, got).t = u /\ Answer(u, got).got = got
  BY DEF Answer
<1>2. \A e : t.err # "ok" => mpack_tree_flag_error(t, e).err = t.err
  BY FlagErr
<1>3. ASSUME NEW e
      PROVE  Silent(t, Answer(mpack_tree_flag_error(t, e), nothing), nothing)
  <2>1. PICK u : u = mpack_tree_flag_error(t, e)
    OBVIOUS
  <2>2. PICK answer : answer = Answer(u, nothing)
    OBVIOUS
  <2>3. answer.t = u /\ answer.got = nothing
    BY <1>1, <2>2, Zenon
  <2>4. t.err # "ok" => u.err = t.err
    BY <1>2, <2>1, Zenon
  <2>5. Silent(t, answer, nothing)
    BY <2>3, <2>4, Zenon DEF Silent
  <2> QED
    BY <2>1, <2>2, <2>5, Zenon
<1>4. ASSUME NEW got, got = nothing \/ t.err = "ok"
      PROVE  Silent(t, Answer(t, got), nothing)
  <2>1. PICK answer : answer = Answer(t, got)
    OBVIOUS
  <2>2. answer.t = t /\ answer.got = got
    BY <1>1, <2>1, Zenon
  <2>3. Silent(t, answer, nothing)
    BY <1>4, <2>2, Zenon DEF Silent
  <2> QED
    BY <2>1, <2>3, Zenon
<1> QED
  BY <1>3, <1>4, Zenon

\* What is asked for, or nothing.
LEMMA NeedSilent ==
  ASSUME NEW t \in Tree, NEW ok, NEW e, NEW got, NEW nothing
  PROVE  Silent(t, Need(t, ok, e, got, nothing), nothing)
<1>1. CASE t.err # "ok"
  <2>1. Need(t, ok, e, got, nothing) = Answer(t, nothing)
    BY <1>1, Zenon DEF Need
  <2> QED
    BY <2>1, AnswerSilent, Zenon
<1>2. CASE t.err = "ok" /\ ok
  <2>1. Need(t, ok, e, got, nothing) = Answer(t, got)
    BY <1>2, Zenon DEF Need
  <2> QED
    BY <1>2, <2>1, AnswerSilent, Zenon
<1>3. CASE t.err = "ok" /\ ~ok
  <2>1. Need(t, ok, e, got, nothing) = Answer(mpack_tree_flag_error(t, e), nothing)
    BY <1>3, Zenon DEF Need
  <2> QED
    BY <2>1, AnswerSilent, Zenon
<1> QED
  BY <1>1, <1>2, <1>3, Zenon

\* The root, and what the type of a node and its value are.
LEMMA PlainSilent ==
  ASSUME NEW t \in Tree, NEW node, NEW a, NEW b
  PROVE  /\ Silent(t, mpack_tree_root(t), NilNode)
         /\ Silent(t, mpack_node_tag(t, node), NilTag) /\ Silent(t, mpack_node_type(t, node), "nil")
         /\ Silent(t, mpack_node_is_nil(t, node), TRUE) /\ Silent(t, mpack_node_is_missing(t, node), FALSE)
         /\ Silent(t, NodeOf(t, node, a), 0) /\ Silent(t, mpack_node_real(t, node, a), 0)
         /\ Silent(t, mpack_node_length(t, node, a), 0) /\ Silent(t, BytesOf(t, node, a), <<>>)
         /\ Silent(t, mpack_node_integer(t, node, a, b), 0) /\ Silent(t, mpack_node_bool_match(t, node, a), 0)
         /\ Silent(t, mpack_node_check_utf8(t, node, a), 0)
<1>1. Silent(t, mpack_tree_root(t), NilNode)
  BY AnswerSilent, Zenon DEF mpack_tree_root
<1>2. Silent(t, mpack_node_tag(t, node), NilTag) /\ Silent(t, mpack_node_type(t, node), "nil")
  BY AnswerSilent, Zenon DEF mpack_node_tag, mpack_node_type
<1>3. Silent(t, mpack_node_is_nil(t, node), TRUE)
  <2>1. mpack_node_is_nil(t, node).t = t /\ (t.err # "ok" => mpack_node_is_nil(t, node).got = TRUE)
    BY DEF mpack_node_is_nil, Answer
  <2> QED
    BY <2>1, Zenon DEF Silent
<1>4. Silent(t, mpack_node_is_missing(t, node), FALSE)
  <2>1. mpack_node_is_missing(t, node).t = t /\ (t.err # "ok" => mpack_node_is_missing(t, node).got = FALSE)
    BY DEF mpack_node_is_missing, Answer
  <2> QED
    BY <2>1, Zenon DEF Silent
<1>5. \A types : Silent(t, NodeOf(t, node, types), 0)
  BY NeedSilent, Zenon DEF NodeOf
<1>6. Silent(t, mpack_node_real(t, node, a), 0) /\ Silent(t, mpack_node_length(t, node, a), 0)
  BY <1>5, Zenon DEF mpack_node_real, mpack_node_length
<1>7. Silent(t, BytesOf(t, node, a), <<>>) /\ Silent(t, mpack_node_integer(t, node, a, b), 0)
      /\ Silent(t, mpack_node_check_utf8(t, node, a), 0)
  BY NeedSilent, Zenon DEF BytesOf, mpack_node_integer, mpack_node_check_utf8
<1>8. Silent(t, mpack_node_bool_match(t, node, a), 0)
  <2>1. PICK value, u : value = NodeOf(t, node, {"bool"}) /\ u = value.t
    OBVIOUS
  <2>2. u \in Tree /\ (t.err # "ok" => u.err = t.err)
    <3>1. t.err # "ok" => u.err = t.err
      BY <1>5, <2>1, Zenon DEF Silent
    <3>2. value = Answer(t, node.n) \/ value = Answer(t, 0) \/ value = Answer(mpack_tree_flag_error(t, "type"), 0)
      BY <2>1, Zenon DEF NodeOf, Need
    <3>3. u = t \/ u = mpack_tree_flag_error(t, "type")
      BY <2>1, <3>2 DEF Answer
    <3>4. mpack_tree_flag_error(t, "type") \in Tree
      BY DEF mpack_tree_flag_error, Tree, Errors
    <3> QED
      BY <3>1, <3>3, <3>4
  <2>3. mpack_node_bool_match(t, node, a) = Answer(IF value.got = a THEN u ELSE mpack_tree_flag_error(u, "type"), 0)
    BY <2>1, Zenon DEF mpack_node_bool_match
  <2>4. Silent(u, Answer(u, 0), 0) /\ Silent(u, Answer(mpack_tree_flag_error(u, "type"), 0), 0)
    BY <2>2, AnswerSilent, Zenon
  <2> QED
    BY <2>2, <2>3, <2>4, Zenon DEF Silent
<1> QED
  BY <1>1, <1>2, <1>3, <1>4, <1>5, <1>6, <1>7, <1>8, Zenon

\* What is copied or allocated.
LEMMA CopySilent ==
  ASSUME NEW t \in Tree, NEW node, NEW n
  PROVE  /\ Silent(t, mpack_node_copy_data(t, node, n), <<>>) /\ Silent(t, mpack_node_copy_utf8(t, node, n), <<>>)
         /\ Silent(t, mpack_node_copy_cstr(t, node, n), <<>>)
         /\ Silent(t, mpack_node_copy_utf8_cstr(t, node, n), <<>>)
         /\ Silent(t, mpack_node_data_alloc(t, node, n), <<>>)
         /\ Silent(t, mpack_node_cstr_alloc(t, node, n), <<>>)
         /\ Silent(t, mpack_node_utf8_cstr_alloc(t, node, n), <<>>)
<1>1. \A e : Silent(t, Answer(mpack_tree_flag_error(t, e), <<>>), <<>>)
  BY AnswerSilent, Zenon
<1>2. \A ok, got : Silent(t, Need(t, ok, "type", got, <<>>), <<>>)
  BY NeedSilent, Zenon
<1>3. \A types, m : /\ Silent(t, Copied(t, node, types, m, AnyBytes), <<>>)
                    /\ Silent(t, Copied(t, node, types, m, Utf8), <<>>)
                    /\ Silent(t, Copied(t, node, types, m, NoNull), <<>>)
                    /\ Silent(t, Copied(t, node, types, m, Utf8NoNull), <<>>)
  BY <1>1, <1>2, Zenon DEF Copied
<1>4. \A answer : Silent(t, answer, <<>>) => Silent(t, WithTerminator(t, n, answer), <<>>)
  BY <1>1, Zenon DEF WithTerminator
<1>5. /\ Silent(t, mpack_node_copy_data(t, node, n), <<>>) /\ Silent(t, mpack_node_copy_utf8(t, node, n), <<>>)
      /\ Silent(t, mpack_node_data_alloc(t, node, n), <<>>)
  BY <1>3, Zenon DEF mpack_node_copy_data, mpack_node_copy_utf8, mpack_node_data_alloc
<1>6. /\ Silent(t, mpack_node_copy_cstr(t, node, n), <<>>)
      /\ Silent(t, mpack_node_copy_utf8_cstr(t, node, n), <<>>)
  BY <1>3, Zenon DEF mpack_node_copy_cstr, mpack_node_copy_utf8_cstr
<1>7. /\ Silent(t, mpack_node_cstr_alloc(t, node, n), <<>>)
      /\ Silent(t, mpack_node_utf8_cstr_alloc(t, node, n), <<>>)
  BY <1>3, <1>4, Zenon DEF mpack_node_cstr_alloc, mpack_node_utf8_cstr_alloc
<1> QED
  BY <1>5, <1>6, <1>7

\* A child of an array, and a key or a value of a map, by its number.
LEMMA ChildSilent ==
  ASSUME NEW t \in Tree, NEW node, NEW n, NEW offset
  PROVE  /\ Silent(t, mpack_node_array_at(t, node, n), NilNode)
         /\ Silent(t, mpack_node_map_at(t, node, n, offset), NilNode)
  BY AnswerSilent, NeedSilent, Zenon DEF mpack_node_array_at, mpack_node_map_at

\* A value of a map, by its key.
LEMMA LookupSilent ==
  ASSUME NEW t \in Tree, NEW node, NEW key
  PROVE  LET lookup == LookupKey(t, node, key)
         IN  /\ Silent(t, mpack_node_wrap_lookup(lookup), NilNode)
             /\ Silent(t, mpack_node_wrap_lookup_optional(lookup), NilNode)
             /\ Silent(t, mpack_node_map_contains(lookup), FALSE)
<1>1. \A e : Silent(t, Answer(mpack_tree_flag_error(t, e), {}), {})
  BY AnswerSilent, Zenon
<1>2. \A ok, got : Silent(t, Need(t, ok, "data", got, {}), {})
  BY NeedSilent, Zenon
<1>3. Silent(t, Answer(t, {}), {})
  BY AnswerSilent, Zenon
<1>4. Silent(t, LookupNumber(t, node, key.n), {}) /\ Silent(t, LookupStr(t, node, key.str), {})
  BY <1>1, <1>2, <1>3, Zenon DEF LookupNumber, LookupStr, Lookup
<1>5. PICK lookup, u : lookup = LookupKey(t, node, key) /\ u = lookup.t /\ Silent(t, lookup, {})
  BY <1>4, Zenon DEF LookupKey
<1>6. u \in Tree
  <2>1. \A ok, got : \/ Need(t, ok, "data", got, {}).t = t
                     \/ Need(t, ok, "data", got, {}).t = mpack_tree_flag_error(t, "data")
    <3>1. ASSUME NEW ok, NEW got
          PROVE  \/ Need(t, ok, "data", got, {}).t = t
                 \/ Need(t, ok, "data", got, {}).t = mpack_tree_flag_error(t, "data")
      <4>1. \A v, some : Answer(v, some).t = v
        BY DEF Answer
      <4>2. \/ Need(t, ok, "data", got, {}) = Answer(t, {})
            \/ Need(t, ok, "data", got, {}) = Answer(t, got)
            \/ Need(t, ok, "data", got, {}) = Answer(mpack_tree_flag_error(t, "data"), {})
        BY Zenon DEF Need
      <4>3. CASE Need(t, ok, "data", got, {}) = Answer(t, {})
        BY <4>1, <4>3, Zenon
      <4>4. CASE Need(t, ok, "data", got, {}) = Answer(t, got)
        BY <4>1, <4>4, Zenon
      <4>5. CASE Need(t, ok, "data", got, {}) = Answer(mpack_tree_flag_error(t, "data"), {})
        BY <4>1, <4>5, Zenon
      <4> QED
        BY <4>2, <4>3, <4>4, <4>5, Zenon
    <3> QED
      BY <3>1, Zenon
  <2>2. \A v, got : Answer(v, got).t = v
    BY DEF Answer
  <2>3. u = t \/ u = mpack_tree_flag_error(t, "data") \/ u = mpack_tree_flag_error(t, "type")
    BY <1>5, <2>1, <2>2, Zenon DEF LookupKey, LookupNumber, LookupStr, Lookup
  <2>4. \A e \in Errors : mpack_tree_flag_error(t, e) \in Tree
    BY DEF mpack_tree_flag_error, Tree
  <2> QED
    BY <2>3, <2>4 DEF Errors
<1>7. (t.err # "ok" => u.err = t.err) /\ (u.err # "ok" => lookup.got = {})
  BY <1>5, Zenon DEF Silent
<1>8. /\ \A e : Silent(u, Answer(mpack_tree_flag_error(u, e), NilNode), NilNode)
      /\ \A got : u.err = "ok" => Silent(u, Answer(u, got), NilNode)
      /\ Silent(u, Answer(u, NilNode), NilNode)
  BY <1>6, AnswerSilent, Zenon
<1>9. Silent(u, mpack_node_wrap_lookup(lookup), NilNode)
  BY <1>5, <1>7, <1>8, Zenon DEF mpack_node_wrap_lookup
<1>10. Silent(u, mpack_node_wrap_lookup_optional(lookup), NilNode)
  BY <1>5, <1>7, <1>8, Zenon DEF mpack_node_wrap_lookup_optional
<1>11. Silent(u, mpack_node_map_contains(lookup), FALSE)
  <2>1. mpack_node_map_contains(lookup).t = u /\ (lookup.got = {} => mpack_node_map_contains(lookup).got = FALSE)
    BY <1>5 DEF mpack_node_map_contains, Answer
  <2> QED
    BY <1>7, <2>1, Zenon DEF Silent
<1> QED
  BY <1>5, <1>7, <1>9, <1>10, <1>11, Zenon DEF Silent

\* A string among others, by its number.
LEMMA EnumSilent ==
  ASSUME NEW t \in Tree, NEW node, NEW strings
  PROVE  /\ Silent(t, mpack_node_enum_optional(t, node, strings), Len(strings))
         /\ Silent(t, mpack_node_enum(t, node, strings), Len(strings))
<1>1. PICK e, none : e = mpack_node_enum_optional(t, node, strings) /\ none = Len(strings)
  OBVIOUS
<1>2. e.t = t /\ (t.err # "ok" => e.got = none)
  BY <1>1 DEF mpack_node_enum_optional, Answer
<1>3. Silent(t, e, none)
  BY <1>2, Zenon DEF Silent
<1>4. mpack_node_enum(t, node, strings) = IF e.got = none THEN Answer(mpack_tree_flag_error(t, "type"), none) ELSE e
  BY <1>1, <1>2, Zenon DEF mpack_node_enum
<1> QED
  BY <1>1, <1>3, <1>4, AnswerSilent, Zenon

\* Every accessor of every node.
LEMMA PerformSilent ==
  ASSUME tree \in Tree, NEW op \in Accessors, NEW a, NEW node
  PROVE  Silent(tree, Perform(op, a, node), Empty(op, a))
<1>1. CASE op \in {"root", "tag", "type", "is_nil"}
  BY <1>1, PlainSilent, Zenon DEF Perform, Empty
<1>2. CASE op \in {"is_missing", "bytes_of"}
  BY <1>2, PlainSilent, Zenon DEF Perform, Empty
<1>3. CASE op \in {"node_of", "real", "length", "bool_match"}
  BY <1>3, PlainSilent, Zenon DEF Perform, Empty
<1>4. CASE op \in {"integer", "check_utf8"}
  BY <1>4, PlainSilent, Zenon DEF Perform, Empty
<1>5. CASE op \in {"copy_data", "copy_utf8", "copy_cstr", "copy_utf8_cstr"}
  BY <1>5, CopySilent, Zenon DEF Perform, Empty
<1>6. CASE op \in {"data_alloc", "cstr_alloc", "utf8_cstr_alloc"}
  BY <1>6, CopySilent, Zenon DEF Perform, Empty
<1>7. CASE op \in {"array_at", "map_at"}
  BY <1>7, ChildSilent, Zenon DEF Perform, Empty
<1>8. CASE op \in {"map", "map_optional", "map_contains"}
  BY <1>8, LookupSilent, Zenon DEF Perform, Empty
<1>9. CASE op \in {"enum_optional", "enum"}
  BY <1>9, EnumSilent, Zenon DEF Perform, Empty
<1> QED
  BY <1>1, <1>2, <1>3, <1>4, <1>5, <1>6, <1>7, <1>8, <1>9 DEF Accessors

\* The last answer is as every answer is.
LEMMA NextSilence ==
  ASSUME Inv, ErrorsSilence, [Next]_vars
  PROVE  ErrorsSilence'
<1>1. CASE Access
  <2>1. PICK op \in Accessors : \E a, k : Ask(op, a, k)
    BY <1>1, AccessAsks
  <2>2. PICK a, k : Ask(op, a, k)
    BY <2>1
  <2>3. PICK p, node : /\ p = Perform(op, a, node)
                       /\ last' = [op |-> op, arg |-> a, at |-> k, was |-> tree.err, err |-> p.t.err, got |-> p.got]
    BY <2>2, Zenon DEF Ask
  <2>4. Silent(tree, p, Empty(op, a))
    BY <2>3, PerformSilent DEF Inv, Sound
  <2>5. last'.op = op /\ last'.arg = a /\ last'.was = tree.err /\ last'.err = p.t.err /\ last'.got = p.got
    BY <2>3
  <2> QED
    BY <2>4, <2>5, Zenon DEF Silent, ErrorsSilence
<1>2. CASE Look
  BY <1>2, Zenon DEF Look, ErrorsSilence
<1>3. CASE last' = last
  BY <1>3, Zenon DEF ErrorsSilence
<1>4. Access \/ Look \/ last' = last
  BY DEF Next, Parse, ParseNode, GoOn, FillRefuses, Fill, vars
<1> QED
  BY <1>1, <1>2, <1>3, <1>4

(* However the program goes on in a tree in error, nothing of the tree is taken
   for an answer: the first error stays, and an accessor that ends with an error
   answers what stands for nothing (mpack_tree_flag_error, mpack_node_map_str_impl,
   mpack_node_wrap_lookup_optional).                                         *)
THEOREM ErrorsAreSilent == Spec => []ErrorsSilence
<1>1. Init => Inv /\ ErrorsSilence
  BY InitInv, Zenon DEF Init, ErrorsSilence
<1>2. (Inv /\ ErrorsSilence) /\ [Next]_vars => (Inv /\ ErrorsSilence)'
  BY NextInv, NextSilence
<1> QED
  BY <1>1, <1>2, PTL DEF Spec

------------------------------------------------------------------------------
(* What is stored stays of its type: a parsed node has a type that a head may
   have and lies at a place, and no length, no count and no number of nodes
   left in a page becomes negative (mpack_tree_parse_node,
   mpack_tree_parse_children).                                               *)
THEOREM TypeCorrect == Spec => [](tree \in Tree)
<1>1. Init => Inv
  BY InitInv
<1>2. Inv /\ [Next]_vars => Inv'
  BY NextInv
<1>3. Inv => tree \in Tree
  BY DEF Inv, Sound
<1> QED
  BY <1>1, <1>2, <1>3, PTL DEF Spec
===============================================================================
