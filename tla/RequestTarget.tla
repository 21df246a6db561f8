---------------------------- MODULE RequestTarget ----------------------------
(***************************************************************************)
(* From the URI of a GET to the file that answers it: url_decode, the      *)
(* parsing of the query by record2map and the naming of the file in        *)
(* handle_request_GET (src/HTTP/request_handler.cpp), and the file's type  *)
(* (mime_types.cpp).  A step is a turn of a loop of the code, or the       *)
(* straight code between two loops.                                        *)
(*                                                                         *)
(* A character is its code, for that is what an escape is turned into.     *)
(* Positions count from 0, as in the code, and -1 is the code's npos: its  *)
(* unsigned numbers come out the same, for npos + 1 is 0, and a difference *)
(* below 0 is a count that goes beyond the end of every string.            *)
(***************************************************************************)
EXTENDS Integers, SequencesExt

CONSTANT Targets  \* the URIs of the requests

Char == 0..255

ASSUME TargetAssumption == Targets \subseteq Seq(Char)

VARIABLES
  uri,     \* req.uri
  pc,      \* where the handler is, or how it left
  i,       \* how much of the URI url_decode has read
  path,    \* request_path
  rest,    \* fake: what the loop of record2map has still to read
  params,  \* the map that record2map returns
  file     \* the file that is opened, and its type

vars == <<uri, pc, i, path, rest, params, file>>

Param == [name : Seq(Char), value : Seq(Char)]
NoFile == [name |-> <<>>, type |-> "none"]

Init ==
  /\ uri \in Targets /\ pc = "decoding"
  /\ i = 0 /\ path = <<>>
  /\ rest = <<>> /\ params = {} /\ file = NoFile

-----------------------------------------------------------------------------
(***************************************************************************)
(* url_decode.                                                             *)
(***************************************************************************)
Percent == 37
Plus == 43
Minus == 45
Space == 32

HexDigit == (48..57) \cup (65..70) \cup (97..102)
HexValue(c) == CASE c \in 48..57 -> c - 48
                 [] c \in 65..70 -> c - 55
                 [] c \in 97..102 -> c - 87

(***************************************************************************)
(* What is >> std::hex makes of two characters; no element where it fails. *)
(* It takes a sign, stops at what is no digit, and after "0x" wants one    *)
(* more.  A URI has no white space for it to skip.                         *)
(***************************************************************************)
HexNumber(a, b) ==
  CASE a \in HexDigit /\ b \in HexDigit -> {16 * HexValue(a) + HexValue(b)}
    [] a = Plus /\ b \in HexDigit       -> {HexValue(b)}
    [] a = Minus /\ b \in HexDigit      -> {-HexValue(b)}
    [] a \in HexDigit \ {48} /\ b \notin HexDigit -> {HexValue(a)}
    [] a = 48 /\ b \notin HexDigit \cup {88, 120} -> {0}
    [] OTHER -> {}

\* Mutant: the number is not cut to a char.
ToCharWide(n) == n

\* static_cast<char>.
ToChar(n) == n % 256

\* The character at i, and the number behind it where it begins an escape.
At(c) == i < Len(uri) /\ uri[i + 1] = c
Escape == IF i + 3 <= Len(uri) THEN HexNumber(uri[i + 2], uri[i + 3]) ELSE {}

\* Mutant: the two digits are not passed over.
DecodeEscapeOnly ==
  /\ pc = "decoding" /\ At(Percent)
  /\ \E n \in Escape : path' = Append(path, ToChar(n))
  /\ i' = i + 1
  /\ UNCHANGED <<uri, pc, rest, params, file>>

DecodeEscape ==
  /\ pc = "decoding" /\ At(Percent)
  /\ \E n \in Escape : path' = Append(path, ToChar(n))
  /\ i' = i + 3
  /\ UNCHANGED <<uri, pc, rest, params, file>>

RefuseEscape ==
  /\ pc = "decoding" /\ At(Percent)
  /\ Escape = {}
  /\ pc' = "refused"
  /\ UNCHANGED <<uri, i, path, rest, params, file>>

DecodePlus ==
  /\ pc = "decoding" /\ At(Plus)
  /\ path' = Append(path, Space)
  /\ i' = i + 1
  /\ UNCHANGED <<uri, pc, rest, params, file>>

Copy ==
  /\ pc = "decoding"
  /\ i < Len(uri) /\ uri[i + 1] \notin {Percent, Plus}
  /\ path' = Append(path, uri[i + 1])
  /\ i' = i + 1
  /\ UNCHANGED <<uri, pc, rest, params, file>>

-----------------------------------------------------------------------------
(***************************************************************************)
(* std::string's find and substr.                                          *)
(***************************************************************************)

\* Mutant: a character that is not there is at the end.
FindOrEnd(str, c) ==
  IF Contains(str, c) THEN SelectInSeq(str, LAMBDA e : e = c) - 1 ELSE Len(str)

Find(str, c) == SelectInSeq(str, LAMBDA e : e = c) - 1

\* Mutant: the first one is taken for the last.
FindAsLast(str, c) == SelectInSeq(str, LAMBDA e : e = c) - 1

FindLast(str, c) == SelectLastInSeq(str, LAMBDA e : e = c) - 1

\* substr throws where pos is beyond the end of str.
Substr(str, pos, count) ==
  SubSeq(str, pos + 1,
         IF count < 0 \/ pos + count > Len(str) THEN Len(str) ELSE pos + count)
From(str, pos) == SubSeq(str, pos + 1, Len(str))

-----------------------------------------------------------------------------
(***************************************************************************)
(* The check of the path, and record2map.                                  *)
(***************************************************************************)
Dot == 46
Slash == 47
Ampersand == 38
Equals == 61
Question == 63

\* Absolute, and without "..".
UnderRoot(str) ==
  /\ str # <<>> /\ str[1] = Slash
  /\ \A k \in 1..(Len(str) - 1) : ~(str[k] = Dot /\ str[k + 1] = Dot)

\* Mutant: the URI is checked instead of what it decodes to.
AcceptedEarly == i = Len(uri) /\ UnderRoot(uri)

Accepted == i = Len(uri) /\ UnderRoot(path)

Refuse ==
  /\ pc = "decoding" /\ i = Len(uri)
  /\ ~Accepted
  /\ pc' = "refused"
  /\ UNCHANGED <<uri, i, path, rest, params, file>>

\* The name from first to the next '=', and the value from there up to stop.
Pair(str, first, stop) ==
  LET equals == Find(str, Equals)
  IN  [name |-> Substr(str, first, equals - first),
       value |-> Substr(str, equals + 1, stop - equals - 1)]

\* Mutant: the value is assigned to the name.
InsertOrAssign(map, p) == {q \in map : q.name # p.name} \cup {p}

\* map::insert keeps the value of a name that is there.
Insert(map, p) == IF \E q \in map : q.name = p.name THEN map ELSE map \cup {p}

\* The code goes on if none of the positions is beyond the end of str.
Goes(str, positions, next) ==
  pc' = IF \E p \in positions : p > Len(str) THEN "thrown" ELSE next

\* Mutant: the position is compared as it is, without a sign.
MoreUnsigned(str) == Find(str, Ampersand) # 0

\* (int)find('&') > 0.
More(str) == Find(str, Ampersand) > 0

FirstPair ==
  LET first == Find(path, Question) + 1
      next == Find(path, Ampersand)
  IN  /\ pc = "decoding" /\ Accepted /\ next > 0
      /\ params' = Insert(params, Pair(path, first, next))
      /\ rest' = From(path, next + 1)
      /\ Goes(path, {first, Find(path, Equals) + 1, next + 1}, "pairing")
      /\ UNCHANGED <<uri, i, path, file>>

NextPair ==
  LET next == Find(rest, Ampersand)
  IN  /\ pc = "pairing" /\ More(rest)
      /\ params' = Insert(params, Pair(rest, 0, next))
      /\ rest' = From(rest, next + 1)
      /\ Goes(rest, {Find(rest, Equals) + 1, next + 1}, "pairing")
      /\ UNCHANGED <<uri, i, path, file>>

LastPair ==
  /\ pc = "pairing" /\ ~More(rest)
  /\ params' = Insert(params, Pair(rest, 0, Len(rest)))
  /\ Goes(rest, {Find(rest, Equals) + 1}, "naming")
  /\ UNCHANGED <<uri, i, path, rest, file>>

OnlyPair ==
  LET first == Find(path, Question) + 1
  IN  /\ pc = "decoding" /\ Accepted
      /\ Find(path, Ampersand) <= 0 /\ first > 1
      /\ params' = Insert(params, Pair(path, first, Len(path)))
      /\ Goes(path, {first, Find(path, Equals) + 1}, "naming")
      /\ UNCHANGED <<uri, i, path, rest, file>>

NoPair ==
  /\ pc = "decoding" /\ Accepted
  /\ Find(path, Ampersand) <= 0 /\ Find(path, Question) <= 0
  /\ pc' = "naming"
  /\ UNCHANGED <<uri, i, path, rest, params, file>>

-----------------------------------------------------------------------------
(***************************************************************************)
(* The file and its type.                                                  *)
(***************************************************************************)
DemoJson == <<100, 101, 109, 111, 46, 106, 115, 111, 110>>

Mappings == {[extension |-> <<103, 105, 102>>, mime_type |-> "image/gif"],
             [extension |-> <<104, 116, 109>>, mime_type |-> "text/html"],
             [extension |-> <<104, 116, 109, 108>>, mime_type |-> "text/html"],
             [extension |-> <<106, 112, 103>>, mime_type |-> "image/jpeg"],
             [extension |-> <<112, 110, 103>>, mime_type |-> "image/png"]}

TypeOf(extension) ==
  IF \E m \in Mappings : m.extension = extension
  THEN (CHOOSE m \in Mappings : m.extension = extension).mime_type
  ELSE "text/plain"

\* The path without its query; demo.json in what ends like a directory.
Named ==
  LET cut == Substr(path, 0, Find(path, Question))
  IN  IF cut[Len(cut)] = Slash THEN cut \o DemoJson ELSE cut

ExtensionOf(name) ==
  IF FindLast(name, Dot) > FindLast(name, Slash)
  THEN From(name, FindLast(name, Dot) + 1) ELSE <<>>

\* The name that c_str() hands to the file system ends at a zero.
Open ==
  /\ pc = "naming"
  /\ file' = [name |-> Substr(Named, 0, Find(Named, 0)),
              type |-> TypeOf(ExtensionOf(Named))]
  /\ pc' = "opened"
  /\ UNCHANGED <<uri, i, path, rest, params>>

-----------------------------------------------------------------------------
Decode == DecodeEscape \/ RefuseEscape \/ DecodePlus \/ Copy \/ Refuse
ReadQuery == FirstPair \/ NextPair \/ LastPair \/ OnlyPair \/ NoPair
Next == Decode \/ ReadQuery \/ Open

Spec == Init /\ [][Next]_vars

\* A thread that is in the handler goes on.
FairSpec == Spec /\ WF_vars(Next)

-----------------------------------------------------------------------------
MimeType == {m.mime_type : m \in Mappings} \cup {"text/plain"}

TypeOK ==
  /\ uri \in Seq(Char)
  /\ pc \in {"decoding", "refused", "pairing", "naming", "opened", "thrown"}
  /\ i \in 0..Len(uri)
  /\ path \in Seq(Char) /\ rest \in Seq(Char)
  /\ params \subseteq Param
  /\ file.name \in Seq(Char) /\ file.type \in MimeType \cup {"none"}

\* Every '%' is followed by two digits of its own.
WellEscaped(str) ==
  \A k \in DOMAIN str :
    str[k] = Percent => k + 2 <= Len(str) /\ {str[k + 1], str[k + 2]} \subseteq HexDigit

\* What it stands for: each character for itself, a plus for a space, and an
\* escape, with its second digit, for the number.
Begins(str, k) == k \in DOMAIN str /\ str[k] = Percent

Meaning[str \in Seq(Char)] ==
  IF str = <<>> THEN <<>>
  ELSE LET n == Len(str)
           before == Meaning[SubSeq(str, 1, n - 1)]
       IN  CASE Begins(str, n - 2) ->
                  Append(before, 16 * HexValue(str[n - 1]) + HexValue(str[n]))
             [] Begins(str, n - 1) \/ Begins(str, n) -> before
             [] str[n] = Plus -> Append(before, Space)
             [] OTHER -> Append(before, str[n])

\* A well-formed URI is refused exactly if what it stands for leaves the
\* document root, and else the path is what it stands for
\* (request_handler.cpp:309-346).
DecodedExactly ==
  WellEscaped(uri) =>
    /\ pc = "refused" => ~UnderRoot(Meaning[uri])
    /\ pc \notin {"decoding", "refused"} => path = Meaning[uri]

\* Whatever the escapes and the query hide, the file that is opened lies under
\* the document root (request_handler.cpp:237-243, :290): the path is checked
\* after it was decoded, and what is cut off or added later does not undo it.
OpenedUnderRoot == pc = "opened" => UnderRoot(file.name)

\* The parts of a query between its '&'.
Parts(str) ==
  LET ends == {0, Len(str) + 1} \cup {k \in DOMAIN str : str[k] = Ampersand}
  IN  {p \in ends \X ends : p[1] < p[2] /\ ~\E k \in ends : p[1] < k /\ k < p[2]}

\* Each part has one '=', and one '?' stands before them all.
WellFormedQuery(str, query) ==
  /\ {k \in DOMAIN str : str[k] \in {Ampersand, Equals, Question}} \subseteq query..Len(str)
  /\ {k \in DOMAIN str : str[k] = Question} = {query}
  /\ \A p \in Parts(From(str, query)) :
       \E k \in (p[1] + 1)..(p[2] - 1) :
         {l \in (p[1] + 1)..(p[2] - 1) : str[query + l] = Equals} = {k}

\* A part's '=', the name before it, and the two as record2map keeps them.
EqualsOf(str, p) == CHOOSE k \in (p[1] + 1)..(p[2] - 1) : str[k] = Equals

NameOf(str, p) == SubSeq(str, p[1] + 1, EqualsOf(str, p) - 1)

ParamOf(str, p) == [name |-> NameOf(str, p),
                    value |-> SubSeq(str, EqualsOf(str, p) + 1, p[2] - 1)]

\* The parts whose name no part before them has.
FirstParts(str) ==
  {p \in Parts(str) :
     ~\E q \in Parts(str) : q[1] < p[1] /\ NameOf(str, q) = NameOf(str, p)}

\* A well-formed query is read part for part, and of several values of a name
\* the first is kept (record2map, request_handler.cpp:39-87).
QueryReadExactly ==
  \A query \in DOMAIN path :
    pc = "naming" /\ WellFormedQuery(path, query) =>
      LET str == From(path, query)
      IN  params = {ParamOf(str, p) : p \in FirstParts(str)}

\* The type goes with the end of the name, of which neither the query nor a
\* directory is part (request_handler.cpp:279-286, :305).  A name cut at a zero has
\* the type of what was cut off.
TypeFitsName ==
  pc = "opened" /\ ~Contains(path, 0) =>
    file.type = IF \E m \in Mappings : IsSuffix(<<Dot>> \o m.extension, file.name)
                THEN (CHOOSE m \in Mappings :
                        IsSuffix(<<Dot>> \o m.extension, file.name)).mime_type
                ELSE "text/plain"

\* No substr of record2map throws (request_handler.cpp:49-77), which would end
\* the server, whatever separators the path has, in whichever order.
NeverThrows == pc # "thrown"

\* Every request gets its reply: the loops end, that of record2map because npos
\* is a negative int (request_handler.cpp:55-56).
HandlerEnds == <>(pc \in {"refused", "opened"})
=============================================================================
