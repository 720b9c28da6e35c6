---------------------------- MODULE MCBulkIndex ----------------------------
(* Instances of BulkIndex for TLC: streams of a few documents, cut into    *)
(* chunks of three characters so that documents end inside a chunk, at its *)
(* end, span it, or contain whole chunks.                                  *)
EXTENDS BulkIndex, TLC

StreamSymmetry == Permutations(Streams)

\* Good documents: the empty stream, and a document across the end of a chunk.
CleanTexts == { << >>, <<"c", "n", "c", "n">> }

\* One document fails, inside a chunk, across its end, in the writer, and a last
\* document without newline.
FaultyTexts ==
  { <<"c", "n", "c", "b", "n", "c", "n">>, <<"c", "n", "c", "n", "w", "n">>,
    <<"c", "n", "c", "n", "c">> }

\* Documents that end with a chunk and reach from chunk to chunk; a first document
\* that does not parse.
MoreTexts ==
  { <<"c", "c", "n", "c", "n">>, <<"c", "n", "c", "c", "n", "c", "n">>, <<"b", "n", "c", "n", "c", "n">> }

\* Documents that contain whole chunks.
LongTexts ==
  { <<"c", "n", "c", "c", "c", "c", "c", "c", "n">>, <<"c", "c", "c", "c", "c", "c", "c", "n">> }

Request(formats, texts, facets) == [format : formats, text : texts, facets : {facets}]

MixedRequests ==
  Request({"csv"}, CleanTexts \cup FaultyTexts, FALSE)
  \cup Request({"json"}, { <<"c", "n", "c", "b", "n">> }, FALSE)
  \cup Request({"csvchars"}, { <<"c", "n", "c", "n", "c">> }, FALSE)

LiveRequests ==
  Request({"csv"}, MoreTexts \cup LongTexts, FALSE)
  \cup Request({"json", "csvchars"}, FaultyTexts \cup { <<"c", "c", "n", "c", "n">> }, FALSE)
  \cup Request({"json"}, { <<"c", "n", "c", "c", "c", "c", "c", "c", "n">> }, FALSE)

\* The facets of the last document cannot be built, and it spans two chunks.
FacetRequests == Request({"csv"}, { <<"c", "n", "u", "n">> }, TRUE)
=============================================================================
