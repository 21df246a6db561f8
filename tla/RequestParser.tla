--------------------------- MODULE RequestParser ---------------------------
(***************************************************************************)
(* The push parser of the HTTP server: class request_parser               *)
(* (src/HTTP/request_parser.cpp, request_parser.hpp).  Pure operators, no *)
(* state of their own: ParserMachine drives them one octet at a time, and *)
(* HttpServer once per completed read.                                    *)
(*                                                                         *)
(* An octet is represented by its class, or, where the rest of the server *)
(* must tell words apart, by a lexeme: a run of octets of one class that  *)
(* the parser consumes without changing state after the first of them     *)
(* ("GET", "POST", "word", a path).  The digits of the HTTP version and   *)
(* the text of the headers are not kept, the server never reads them;     *)
(* the NUMBER of headers is, because consume() asks whether it is zero    *)
(* and writes to the last one.                                             *)
(***************************************************************************)
EXTENDS Naturals, Sequences, SequencesExt

Digit == {"digit"}

\* Lexemes whose octets are all CHAR, neither CTL nor tspecial.
Token == {"GET", "POST", "PUT", "H", "T", "P", "word", "dot"} \cup Digit

\* Lexemes that begin with the tspecial octet "/": the octet itself and the
\* absolute paths that the handlers of requests tell apart.
Path == {"/", "/file", "/file?used", "/missing", "/..", "/%zz",
         "/mission/group/", "/api/robots/control/"}

\* CTL octets.  A tab is a CTL and a tspecial at once.
Ctl == {"cr", "lf", "tab", "nul"}

Octet == Token \cup Path \cup Ctl \cup {"colon", "sp", "hi"}

\* Octets that may begin or continue a method or a header name: is_char and
\* neither is_ctl nor is_tspecial ("hi" stands for a negative char, the
\* high half of the octets).
NameOctet == Token

\* Octets that may occur in a URI or a header value: not is_ctl.
TextOctet == Octet \ Ctl

State == {"method_start", "method", "uri", "http_version_h",
          "http_version_t_1", "http_version_t_2", "http_version_p",
          "http_version_slash", "http_version_major_start",
          "http_version_major", "http_version_minor_start",
          "http_version_minor", "expecting_newline_1", "header_line_start",
          "header_lws", "header_name", "space_before_header_value",
          "header_value", "expecting_newline_2", "expecting_newline_3"}

Result == {"good", "bad", "indeterminate"}

(***************************************************************************)
(* The parser object together with the request it fills in.  headers is    *)
(* the length of req.headers.                                              *)
(***************************************************************************)
Parser == [state_ : State, method : Seq(Octet), uri : Seq(Octet),
           headers : Nat]

NewParser == [state_ |-> "method_start", method |-> <<>>, uri |-> <<>>,
              headers |-> 0]

(***************************************************************************)
(* The switch of consume(), one row per branch that does not return bad:   *)
(* in state from, an octet of on leads to state to and is kept as keep     *)
(* says: appended to the method or the URI, pushed as a new header, or     *)
(* appended to headers.back().  The branch of expecting_newline_3 that     *)
(* returns good leaves state_ as it is, and has no row.                    *)
(***************************************************************************)
Branch(from, on, to, keep) == [from |-> from, on |-> on, to |-> to, keep |-> keep]

Branches == {
  Branch("method_start", NameOctet, "method", "method"),
  Branch("method", {"sp"}, "uri", "none"),
  Branch("method", NameOctet, "method", "method"),
  Branch("uri", {"sp"}, "http_version_h", "none"),
  Branch("uri", TextOctet \ {"sp"}, "uri", "uri"),
  Branch("http_version_h", {"H"}, "http_version_t_1", "none"),
  Branch("http_version_t_1", {"T"}, "http_version_t_2", "none"),
  Branch("http_version_t_2", {"T"}, "http_version_p", "none"),
  Branch("http_version_p", {"P"}, "http_version_slash", "none"),
  Branch("http_version_slash", {"/"}, "http_version_major_start", "none"),
  Branch("http_version_major_start", Digit, "http_version_major", "none"),
  Branch("http_version_major", {"dot"}, "http_version_minor_start", "none"),
  Branch("http_version_major", Digit, "http_version_major", "none"),
  Branch("http_version_minor_start", Digit, "http_version_minor", "none"),
  Branch("http_version_minor", {"cr"}, "expecting_newline_1", "none"),
  Branch("http_version_minor", Digit, "http_version_minor", "none"),
  Branch("expecting_newline_1", {"lf"}, "header_line_start", "none"),
  Branch("header_line_start", {"cr"}, "expecting_newline_3", "none"),
  Branch("header_line_start", {"sp", "tab"}, "header_lws", "none"),
  Branch("header_line_start", NameOctet, "header_name", "push"),
  Branch("header_lws", {"cr"}, "expecting_newline_2", "none"),
  Branch("header_lws", {"sp", "tab"}, "header_lws", "none"),
  Branch("header_lws", TextOctet \ {"sp"}, "header_value", "back"),
  Branch("header_name", {"colon"}, "space_before_header_value", "none"),
  Branch("header_name", NameOctet, "header_name", "back"),
  Branch("space_before_header_value", {"sp"}, "header_value", "none"),
  Branch("header_value", {"cr"}, "expecting_newline_2", "none"),
  Branch("header_value", TextOctet, "header_value", "back"),
  Branch("expecting_newline_2", {"lf"}, "header_line_start", "none") }

\* The cases of the switch.
Case == [s \in State |-> {b \in Branches : b.from = s}]

\* Mutant: folding is not refused on the first header line.
TakenUnguarded(p, c, b) == c \in b.on

\* Mutant: folding is refused behind the first header field.
TakenLate(p, c, b) ==
  /\ c \in b.on
  /\ b.from = "header_line_start" /\ b.to = "header_lws" => p.headers > 1

\* The branch taken on octet c: folding (a line that begins with white space)
\* is legal only after a first header.
Taken(p, c, b) ==
  /\ c \in b.on
  /\ b.from = "header_line_start" /\ b.to = "header_lws" => p.headers > 0

\* The first octet of a header line pushes a header.
HeaderCount(p, b) == IF b.keep = "push" THEN p.headers + 1 ELSE p.headers

\* Mutant: a header line leads to a state the switch has no case for.
ApplyUnknownState(p, c, b) ==
  [state_  |-> IF b.from = "expecting_newline_2" THEN "body" ELSE b.to,
   method  |-> IF b.keep = "method" THEN Append(p.method, c) ELSE p.method,
   uri     |-> IF b.keep = "uri" THEN Append(p.uri, c) ELSE p.uri,
   headers |-> HeaderCount(p, b)]

\* What the branch does to the parser and to the words of the request line.
Apply(p, c, b) ==
  [state_  |-> b.to,
   method  |-> IF b.keep = "method" THEN Append(p.method, c) ELSE p.method,
   uri     |-> IF b.keep = "uri" THEN Append(p.uri, c) ELSE p.uri,
   headers |-> HeaderCount(p, b)]

\* Mutant: the last line feed of the header section is not checked.
ConsumeAnyEnd(p, c) ==
  LET enabled == {b \in Case[p.state_] : Taken(p, c, b)}
  IN  IF p.state_ = "expecting_newline_3"
      THEN [parser |-> p, result |-> "good"]
      ELSE IF enabled = {}
      THEN [parser |-> p, result |-> "bad"]
      ELSE [parser |-> Apply(p, c, CHOOSE b \in enabled : TRUE),
            result |-> "indeterminate"]

\* Mutant: after the blank line the parser is ready for another header line.
ConsumeReopens(p, c) ==
  LET enabled == {b \in Case[p.state_] : Taken(p, c, b)}
  IN  IF p.state_ = "expecting_newline_3" /\ c = "lf"
      THEN [parser |-> [p EXCEPT !.state_ = "header_line_start"],
            result |-> "good"]
      ELSE IF enabled = {}
      THEN [parser |-> p, result |-> "bad"]
      ELSE [parser |-> Apply(p, c, CHOOSE b \in enabled : TRUE),
            result |-> "indeterminate"]

(***************************************************************************)
(* consume(req, input): the new parser and the result.  Where no branch is *)
(* taken the code returns bad and changes nothing.                         *)
(***************************************************************************)
Consume(p, c) ==
  LET enabled == {b \in Case[p.state_] : Taken(p, c, b)}
  IN  IF p.state_ = "expecting_newline_3" /\ c = "lf"
      THEN [parser |-> p, result |-> "good"]
      ELSE IF enabled = {}
      THEN [parser |-> p, result |-> "bad"]
      ELSE [parser |-> Apply(p, c, CHOOSE b \in enabled : TRUE),
            result |-> "indeterminate"]

(***************************************************************************)
(* parse(req, begin, end) of the parser call[1] and the octets call[2]:    *)
(* consume until a verdict; the octets after it are not looked at.         *)
(***************************************************************************)
Advance(done, c) ==
  IF done.result = "indeterminate" THEN Consume(done.parser, c) ELSE done

Parse[call \in Parser \X Seq(Octet)] ==
  IF call[2] = <<>>
  THEN [parser |-> call[1], result |-> "indeterminate"]
  ELSE Advance(Parse[<<call[1], Front(call[2])>>], Last(call[2]))
=============================================================================
