--------------------------- MODULE MCModelDriver ---------------------------
(***************************************************************************)
(* Small documents for ModelDriver, and what a slip of the pen makes of    *)
(* them: a token deleted, or exchanged for another.                        *)
(***************************************************************************)
EXTENDS ModelDriver

T(type) == [type |-> type, value |-> 0]
s == [type |-> "S32", value |-> 3]
\* With two decimals printed: -1.5, 1.046, read as 1, and 2.996, printed as 3.00.
r == [type |-> "R32", value |-> -1500]
short == [type |-> "R32", value |-> 1046]
long == [type |-> "R32", value |-> 2996]
List(elements) == <<T("(")>> \o elements \o <<T(")")>>
Chunk(name, content) == <<T("("), T(name)>> \o content \o <<T(")")>>

Tuples == {List(<<s, r, s>>), List(<<short, s, r>>), List(<<r, long, s>>)}
IndexLists == {List(e) : e \in {<<>>, <<s>>, <<long>>, <<s, long>>, <<s, s>>, <<s, s, s>>, <<s, s, s, s>>}}

\* Up to two, one after the other.
UpToTwo(items) == {<<>>} \union items \union {i \o j : i, j \in items}

Chunk0 == {Chunk("positions", c) : c \in UpToTwo(Tuples)} \union {Chunk("indices", c) : c \in UpToTwo(IndexLists)}
Small0 == {Chunk("positions", List(<<s, r, s>>)), Chunk("indices", List(<<s, r>>)), Chunk("indices", List(<<s>>)),
           Chunk("indices", List(<<r>>)), Chunk("indices", List(<<>>)), Chunk("indices", <<>>), Chunk("positions", <<>>)}
Chunk1 == {Chunk("geometry", c) : c \in UpToTwo(Small0)}
Chunk2 == {Chunk("version", List(<<s, s>>) \o c) : c \in {<<>>} \union Small0 \union Chunk1}

MCDocuments == {<<>>} \union Chunk0 \union Chunk1 \union Chunk2

Without(d, i) == SubSeq(d, 1, i - 1) \o SubSeq(d, i + 1, Len(d))
With(d, i, token) == [d EXCEPT ![i] = token]
MCSources ==
  MCDocuments \union UNION {{Without(d, i) : i \in DOMAIN d} \union
                          {With(d, i, T(t)) : i \in DOMAIN d, t \in {"(", ")", "normals", "error"}} : d \in MCDocuments}
=============================================================================
