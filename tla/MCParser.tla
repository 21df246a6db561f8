------------------------------ MODULE MCParser ------------------------------
(***************************************************************************)
(* ParserMachine over one octet of each class that consume() tells apart.  *)
(* The shortest request with a folded header has 26 octets, so exploration *)
(* begins not only at the empty history but also after well-formed starts  *)
(* of requests, and goes on from each for up to MaxOctets in all.          *)
(***************************************************************************)
EXTENDS ParserMachine

CONSTANT MaxMore  \* bound: octets after the start of a history

MCAlphabet == {"digit", "dot", "/", "colon", "sp", "tab", "cr", "lf",
               "hi", "H", "T", "P"}

Line == <<"word", "sp", "/file", "sp", "H", "T", "T", "P", "/", "digit",
          "dot", "digit", "cr", "lf">>

Field == <<"word", "colon", "sp", "hi", "cr", "lf">>

\* What may still follow: the blank line, the end of a line before it, the
\* rest of a folded line, of a field and of the version.
MCContinuations == {
  <<"cr", "lf">>,
  <<"cr", "lf", "cr", "lf">>,
  <<"word", "cr", "lf", "cr", "lf">>,
  SubSeq(Field, 2, 6) \o <<"cr", "lf">>,
  SubSeq(Line, 9, 14) \o Field \o <<"cr", "lf">> }

\* The starts: nothing, the request line cut before its version, after the
\* slash in it, and whole, then the header field begun, and whole.
Starts == {<<>>, SubSeq(Line, 1, 4), SubSeq(Line, 1, 9), Line,
           Line \o SubSeq(Field, 1, 2), Line \o Field}

MCInit ==
  \E start \in Starts :
    /\ parser = Parse[<<NewParser, start>>].parser
    /\ result = Parse[<<NewParser, start>>].result
    /\ input = start
    /\ resumed = FALSE

MCNext == Next /\ \E start \in Starts :
                    /\ IsPrefix(start, input')
                    /\ Len(input') <= Len(start) + MaxMore

MCSpec == MCInit /\ [][MCNext]_vars
=============================================================================
