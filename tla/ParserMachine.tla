--------------------------- MODULE ParserMachine ---------------------------
(***************************************************************************)
(* The parser object of one connection over its life, one octet per step:  *)
(* the loop of request_parser::parse calls consume for the octets of one   *)
(* completed read after the other.  The object is constructed once and is  *)
(* NEVER reset (request_parser::reset has no caller), so that the call of  *)
(* parse that follows a verdict goes on from wherever the last one stopped.*)
(***************************************************************************)
EXTENDS RequestGrammar

CONSTANTS Alphabet,      \* the octets the environment sends
          Continuations, \* what a client may still have meant to send
          MaxOctets,     \* bound: octets consumed in one history
          MaxWord,       \* bound: octets in a method or a URI
          MaxHeaders     \* bound: headers in one request

ASSUME BoundsAssumption ==
  /\ Alphabet \subseteq Octet
  /\ Continuations \subseteq Seq(Octet)
  /\ MaxOctets \in Nat
  /\ MaxWord \in Nat
  /\ MaxHeaders \in Nat

VARIABLES parser,     \* the request_parser and the request it fills
          result,     \* the result of the last call of consume
          resumed,    \* history: an octet was consumed after a verdict
          input       \* history: the octets consumed, until resumed

vars == <<parser, result, resumed, input>>

Init ==
  /\ parser = NewParser
  /\ result = "indeterminate"
  /\ resumed = FALSE
  /\ input = <<>>

\* The bounds of the environment, no part of the code.
WithinBounds(p) ==
  /\ Len(p.method) <= MaxWord
  /\ Len(p.uri) <= MaxWord
  /\ p.headers <= MaxHeaders

Call(c) ==
  LET end == Consume(parser, c)
  IN  /\ WithinBounds(end.parser)
      /\ parser' = end.parser
      /\ result' = end.result

\* The next octet of a request on which there is no verdict yet: of the same
\* read, or of the next one.
Continue(c) ==
  /\ result = "indeterminate"
  /\ ~resumed
  /\ Len(input) < MaxOctets
  /\ Call(c)
  /\ input' = Append(input, c)
  /\ UNCHANGED resumed

\* An octet of a read that completes after a verdict was reached: the same
\* parser, the same request, no reset.
Resume(c) ==
  /\ result # "indeterminate" \/ resumed
  /\ Call(c)
  /\ resumed' = TRUE
  /\ input' = <<>>

Next == \E c \in Alphabet : Continue(c) \/ Resume(c)

Spec == Init /\ [][Next]_vars

-----------------------------------------------------------------------------
\* The parser's state is one of the enumerators, the request's words are made
\* of octets, and the result is one of the three of result_type.
TypeOK ==
  /\ parser \in Parser
  /\ result \in Result
  /\ resumed \in BOOLEAN
  /\ input \in Seq(Octet)

\* The states in which consume() may write to req.headers.back().
WritesBack == {"header_name", "header_lws", "header_value",
               "space_before_header_value", "expecting_newline_2"}

\* consume() calls req.headers.back(), undefined on an empty vector, only
\* after a header was pushed: also when the parser goes on after a verdict.
HeadersBackDefined == parser.state_ \in WritesBack => parser.headers > 0

\* Until the first verdict, however the octets were cut into reads: it is good
\* exactly when the octets are one header section of the grammar.  Nothing
\* malformed is accepted, no header section is left without the verdict, and
\* it comes with the last octet of the blank line, neither earlier nor later.
GoodIffHeaderSection ==
  ~resumed => (result = "good" <=> IsHeaderSection(input))

\* The first verdict is bad only on octets that no continuation completes to
\* a header section: consume() never gives up a request too early, however
\* far the client has come, and a client that was answered 400 has sent
\* something no grammatical request begins with.
RefusedIsHopeless ==
  ~resumed /\ result = "bad" =>
    \A more \in Continuations : ~IsHeaderSection(input \o more)

\* Once a request was accepted, whatever octets follow it on the connection
\* the request is not touched again, and only a line feed is not refused: what
\* the server does with the second read of a POST rests on it.
AcceptedIsFinal ==
  [][result = "good" => /\ parser' = parser
                        /\ result' # "indeterminate"]_vars
=============================================================================
