----------------------------- MODULE MCMPackPipe -----------------------------
(***************************************************************************)
(* Instances of MPackPipe: the calls a program makes, grouped by what they *)
(* are about, and the writers and readers they go through.                 *)
(***************************************************************************)
EXTENDS MPackPipe

Scalar(type, n)   == Call("scalar", type, n, <<>>)
Ints(ns)          == [i \in DOMAIN ns |-> Scalar("int", ns[i])]
Uints(ns)         == [i \in DOMAIN ns |-> Scalar("uint", ns[i])]
Str(body)         == Call("str", "str", 0, body)
Utf8(body)        == Call("utf8", "str", 0, body)
Bin(body)         == Call("bin", "bin", 0, body)
Object(body)      == Call("object", "str", Len(body), body)
Piece(body)       == Call("bytes", "none", 0, body)
OpenStr(body)     == Call("open", "str", 0, body)
OpenBin(body)     == Call("open", "bin", 0, body)
Close(type)       == Call("close", type, 0, <<>>)
Start(type, n)    == Call("start", type, n, <<>>)
Finish(type)      == Call("finish", type, 0, <<>>)
Build(type)       == Call("build", type, 0, <<>>)
Complete(type)    == Call("complete", type, 0, <<>>)
HeadOnly(type, n) == Call("head", type, n, <<>>)
FlushMessage      == Call("flush", "none", 0, <<>>)

Letters(n) == [i \in 1 .. n |-> 97 + (i % 26)]
Ok == <<111, 107>>

\* Overlong, a surrogate, past the last code point, cut short, no lead byte.
MCNotUtf8 == {<<\hc0, \h80>>, <<\hed, \ha0, \h80>>, <<\hf4, \h90, \h80, \h80>>,
              <<\he2, \h82>>, <<\h80, \h61>>, <<\he0, \h9f, \hbf>>, <<\hff>>}
SomeUtf8 == {<<\hc3, \ha9>>, <<\he2, \h82, \hac>>, <<\hf0, \h9f, \h98, \h80>>, <<\h61, 0, \h62>>}

------------------------------------------------------------------------------
(* Numbers at both sides of every limit of every width, and the rest.       *)
Numbers ==
  { Uints(<<0, 127, 128, 255>>), Uints(<<256, 65535, 65536>>),
    Uints(<<UMax(4), UMax(4) + 1, UMax(8)>>),
    Ints(<<3, -1, -32, -33>>), Ints(<<-128, -129, -32768>>),
    Ints(<<-32769, IMin(4), IMin(4) - 1, IMin(8)>>),
    <<Scalar("nil", 0), Scalar("bool", 0), Scalar("bool", 1)>>,
    <<Scalar("float", 9), Scalar("double", -9), Scalar("float", -1)>> }

\* Heads at both sides of every limit.
Heads ==
  { <<HeadOnly(type, n)>> :
      type \in {"str", "bin", "array", "map"},
      n \in {15, 16, 31, 32, 255, 256, 65535, 65536, UMax(4)} }

Strings ==
  { <<Str(body), Scalar("nil", 0)>> : body \in MCNotUtf8 \union SomeUtf8 \union {<<>>, Ok} }
  \union { <<Utf8(body), Scalar("nil", 0)>> : body \in {<<\hc0, \h80>>, Ok, Letters(32)} }
  \union { <<Str(Letters(n)), Scalar("uint", 300)>> : n \in {31, 32, 40, 80} }
  \union { <<Bin(Letters(n)), Scalar("uint", 1)>> : n \in {0, 30, 33, 80} }
  \union { <<Object(Ok), OpenStr(Letters(40)), Piece(Letters(7)),
             Piece(SubSeq(Letters(40), 8, 40)), Close("str"), Bin(Ok)>>,
           <<OpenBin(Letters(3)), Piece(Letters(3)), Close("bin"), Str(Ok)>> }

Nested ==
  { <<Start("array", 3), Scalar("uint", 1), Start("map", 1), Str(Ok), Bin(Letters(34)), Finish("map"),
      Start("array", 0), Finish("array"), Finish("array"), Str(Letters(35))>>,
    <<Start("map", 2), Str(Ok), Scalar("int", -200), Scalar("uint", 1), Start("array", 1),
      Scalar("nil", 0), Finish("array"), Finish("map"), FlushMessage,
      Start("array", 1), Str(Letters(36)), Finish("array"), FlushMessage, Scalar("bool", 1)>> }

\* Built containers: nested, with plain ones inside, with content past a page and at its end.
Builds ==
  { <<Scalar("uint", 300), Build("array"), Scalar("uint", 1), Build("map"), Str(Ok), Build("array"),
      Complete("array"), Scalar("uint", 2), Scalar("nil", 0), Complete("map"), Scalar("bool", 1),
      Complete("array"), Str(Ok)>>,
    <<Build("map"), Str(Ok), Start("array", 2), Scalar("nil", 0), Str(Letters(40)), Finish("array"),
      Scalar("uint", 9), Bin(Letters(150)), Complete("map"), Scalar("nil", 0)>> }
  \union { <<Build("array"), Bin(Letters(n)), Build("array"), Scalar("uint", 1), Complete("array"),
             Scalar("nil", 0), Build("map"), Complete("map"), Complete("array"), Scalar("bool", 0)>> :
           n \in {0, 3, 6, 20, 27, 36, 37} }

\* Calls that break the rules of the API.
Misuse ==
  { <<Start("array", 2), Scalar("nil", 0), Finish("array"), Scalar("nil", 0)>>,
    <<Start("array", 1), Scalar("nil", 0), Scalar("nil", 0), Finish("array")>>,
    <<Start("map", 1), Str(Ok), Finish("map")>>,
    <<Start("array", 0), Finish("map")>>,
    <<Start("array", 1), Scalar("nil", 0)>>,
    <<Finish("array"), Scalar("nil", 0)>>,
    <<OpenStr(Ok), Piece(<<111>>), Close("str")>>,
    <<OpenStr(<<111>>), Piece(Ok), Close("str")>>,
    <<OpenBin(Ok), Scalar("nil", 0), Piece(Ok), Close("bin")>>,
    <<Start("array", 1), Piece(Ok), Scalar("nil", 0), Finish("array")>>,
    <<Build("map"), Str(Ok), Complete("map")>>,
    <<Build("array"), Scalar("nil", 0), Finish("array")>>,
    <<Build("array"), Start("array", 1), Complete("array"), Complete("array")>>,
    <<Start("array", 0), Complete("array")>> }

------------------------------------------------------------------------------
Memory(tracking)              == NewReader(<<>>, "none", "none", 0, 0, tracking)
Pieces(size, chunk, tracking) == NewReader(<<>>, "chunks", "none", size, chunk, tracking)
File(size, skip, tracking)    == NewReader(<<>>, "file", skip, size, 0, tracking)

Pair(writer, reader) == [w |-> writer, r |-> reader]

MCSetups ==
  { Pair(NewWriter("none", 600, TRUE, 0),      Memory(TRUE)),
    Pair(NewWriter("none", 40, FALSE, 0),      Memory(FALSE)),
    Pair(NewWriter("growable", 32, TRUE, 0),   File(40, "fill", TRUE)),
    Pair(NewWriter("growable", 31, FALSE, 0),  File(40, "fill", FALSE)),
    Pair(NewWriter("file", 32, FALSE, 0),      Pieces(32, 1, FALSE)),
    Pair(NewWriter("file", 37, TRUE, 0),       Pieces(64, 5, TRUE)),
    Pair(NewWriter("file", 32, FALSE, 1),      File(64, "seek", FALSE)),
    Pair(NewWriter("file", 33, TRUE, 2),       Pieces(33, 40, TRUE)) }

Case(calls, setup) == [script |-> calls, w |-> setup.w, r |-> setup.r]

PipeCases ==
  { Case(calls, setup) : calls \in Numbers \union Strings \union Nested \union Builds, setup \in MCSetups }
  \union { Case(calls, setup) : calls \in Heads, setup \in {s \in MCSetups : ~s.w.tracking} }
  \union { Case(calls, setup) : calls \in Misuse, setup \in {s \in MCSetups : s.w.tracking} }

\* Strings of ASCII and of other characters.
MatchCases == { Case(<<Str(body)>>, setup) : body \in SomeUtf8 \union {Ok}, setup \in MCSetups }

\* Builds of every length, written to memory, in pages of the real alignment.
BuilderCases ==
  { Case(<<Build("array"), Str(Letters(n)), Build("array"), Scalar("uint", 1), Complete("array"),
           Scalar("nil", 0), Complete("array")>>, Pair(NewWriter("none", 600, TRUE, 0), Memory(TRUE))) :
    n \in 32 .. 50 }
==============================================================================
