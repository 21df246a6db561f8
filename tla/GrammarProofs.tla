--------------------------- MODULE GrammarProofs ---------------------------
(***************************************************************************)
(* That consume(), octet by octet, follows the grammar: what the octets    *)
(* are like that lead the parser to each of its states, and that where it  *)
(* returns bad nothing that may follow makes a header section of them.     *)
(*                                                                         *)
(* RequestGrammar says what a header section is by cutting it; here the    *)
(* same is said by the positions of its octets, from which both follow.    *)
(***************************************************************************)
EXTENDS RequestGrammar, InductionFacts

-----------------------------------------------------------------------------
(***************************************************************************)
(* Lines by the positions of their octets: m is where a line starts, e     *)
(* where its break begins, n how much of it there is.                      *)
(***************************************************************************)
Start(s, m) == m = 1 \/ (m > 2 /\ BreakAt(s, m - 2))

Unbroken(s, m, n) == \A j \in m..n : ~BreakAt(s, j)

Ends(s, m, e) == m <= e /\ BreakAt(s, e) /\ Unbroken(s, m, e - 1)

\* The octet at j of a request line: a and b are its spaces, d its dot.
RequestRole(o, j, a, b, d) ==
  \/ j < a /\ o \in NameOctet
  \/ j \in {a, b} /\ o = "sp"
  \/ a < j /\ j < b /\ o \in TextOctet \ {"sp"}
  \/ j = b + 1 /\ o = "H"
  \/ j \in {b + 2, b + 3} /\ o = "T"
  \/ j = b + 4 /\ o = "P"
  \/ j = b + 5 /\ o = "/"
  \/ b + 5 < j /\ j # d /\ o = "digit"
  \/ j = d /\ o = "dot"

Marks(a, b, d) == 1 < a /\ a < b /\ b + 6 < d

RequestTo(s, n, a, b, d) ==
  Marks(a, b, d) /\ \A j \in 1..n : RequestRole(s[j], j, a, b, d)

\* The octet at j of a header field that starts at m: a is its colon.
FieldRole(o, j, a) ==
  \/ j < a /\ o \in NameOctet
  \/ j = a /\ o = "colon"
  \/ j = a + 1 /\ o = "sp"
  \/ j > a + 1 /\ o \in TextOctet

FieldTo(s, m, n, a) == m < a /\ \A j \in m..n : FieldRole(s[j], j, a)

\* The octet at j of a folded line: a is the last of its first white space.
FoldRole(o, j, a) ==
  \/ j <= a /\ o \in {"sp", "tab"}
  \/ j = a + 1 /\ o \in TextOctet \ {"sp"}
  \/ j > a + 1 /\ o \in TextOctet

FoldTo(s, m, n, a) == m <= a /\ \A j \in m..n : FoldRole(s[j], j, a)

\* A whole line.
RequestLine(s, e) ==
  \E a, b, d \in 1..(e - 1) : d < e - 1 /\ RequestTo(s, e - 1, a, b, d)

\* A line starts between the request line and the line at m.
Behind(s, m) == \E k \in 2..(m - 1) : Start(s, k)

HeaderLine(s, m, e) ==
  \/ \E a \in m..(e - 1) : a + 1 < e /\ FieldTo(s, m, e - 1, a)
  \/ /\ \E a \in m..(e - 1) : FoldTo(s, m, e - 1, a)
     /\ Behind(s, m)

GoodLine(s, m, e) == IF m = 1 THEN RequestLine(s, e) ELSE HeaderLine(s, m, e)

\* Every line that is whole is good.
GoodLines(s) ==
  \A m, e \in 1..Len(s) : Start(s, m) /\ Ends(s, m, e) => GoodLine(s, m, e)

NoBlank(s) == \A i \in 1..Len(s) : ~BlankAt(s, i)

-----------------------------------------------------------------------------
(***************************************************************************)
(* The states of the parser after n octets, m the start of the last line.  *)
(***************************************************************************)
RequestState(n, a, b, d) ==
  CASE n = 0                  -> "method_start"
    [] 0 < n /\ n < a         -> "method"
    [] a <= n /\ n < b        -> "uri"
    [] n = b                  -> "http_version_h"
    [] n = b + 1              -> "http_version_t_1"
    [] n = b + 2              -> "http_version_t_2"
    [] n = b + 3              -> "http_version_p"
    [] n = b + 4              -> "http_version_slash"
    [] n = b + 5              -> "http_version_major_start"
    [] b + 5 < n /\ n < d     -> "http_version_major"
    [] n = d                  -> "http_version_minor_start"
    [] n > d                  -> "http_version_minor"

FieldState(n, a) == CASE n < a -> "header_name"
                      [] n = a -> "space_before_header_value"
                      [] n > a -> "header_value"

FoldState(n, a) == IF n <= a THEN "header_lws" ELSE "header_value"

\* In the request line, or after the carriage return that ends it.
InRequestLine(p, s) ==
  \E a, b, d \in 1..(Len(s) + 10) :
    RequestTo(s, Len(s), a, b, d) /\ p.state_ = RequestState(Len(s), a, b, d)

InFirstBreak(p, s) ==
  /\ Len(s) > 0 /\ RequestLine(s, Len(s)) /\ s[Len(s)] = "cr"
  /\ p.state_ = "expecting_newline_1"

\* In a line behind the request line, the one that starts at m: before its
\* first octet, after the carriage return of a blank line, in a header field,
\* in a folded line, or after the carriage return that ends either.
BeforeLine(p, s, m) ==
  /\ Len(s) = m - 1 /\ p.state_ = "header_line_start"
  /\ p.headers > 0 <=> Behind(s, m)

InBlank(p, s, m) ==
  Len(s) = m /\ s[m] = "cr" /\ p.state_ = "expecting_newline_3"

InField(p, s, m) ==
  /\ Len(s) >= m /\ p.headers > 0
  /\ \E a \in m..(Len(s) + 2) :
       FieldTo(s, m, Len(s), a) /\ p.state_ = FieldState(Len(s), a)

InFold(p, s, m) ==
  /\ Len(s) >= m /\ p.headers > 0 /\ Behind(s, m)
  /\ \E a \in m..Len(s) : FoldTo(s, m, Len(s), a) /\ p.state_ = FoldState(Len(s), a)

InBreak(p, s, m) ==
  /\ Len(s) >= m /\ p.headers > 0 /\ HeaderLine(s, m, Len(s))
  /\ s[Len(s)] = "cr" /\ p.state_ = "expecting_newline_2"

InHeaderLine(p, s, m) ==
  /\ Start(s, m) /\ Unbroken(s, m, Len(s))
  /\ \/ BeforeLine(p, s, m) \/ InBlank(p, s, m) \/ InField(p, s, m)
     \/ InFold(p, s, m) \/ InBreak(p, s, m)

(***************************************************************************)
(* The octets s have led the parser to p, and no verdict was reached.      *)
(***************************************************************************)
Reads(p, s) ==
  /\ GoodLines(s) /\ NoBlank(s)
  /\ \/ /\ Unbroken(s, 1, Len(s)) /\ p.headers = 0
        /\ InRequestLine(p, s) \/ InFirstBreak(p, s)
     \/ \E m \in 2..(Len(s) + 1) : InHeaderLine(p, s, m)

\* A header section, by its positions.
Section(s) ==
  /\ Len(s) > 4 /\ BlankAt(s, Len(s) - 3)
  /\ \A i \in 1..(Len(s) - 4) : ~BlankAt(s, i)
  /\ \A m, e \in 1..Len(s) :
       Start(s, m) /\ m < Len(s) - 1 /\ Ends(s, m, e) => GoodLine(s, m, e)

-----------------------------------------------------------------------------
(***************************************************************************)
(* Octets, and the switch of consume() written out.                        *)
(***************************************************************************)

\* What the classes of octets have in common, and what not.
LEMMA OctetClasses ==
  /\ NameOctet \subseteq TextOctet \ {"sp", "colon", "hi", "/"} /\ TextOctet \subseteq Octet
  /\ {"H", "T", "P", "dot", "digit"} \subseteq NameOctet
  /\ {"sp", "colon", "/"} \subseteq TextOctet
  /\ {"cr", "lf", "tab", "nul"} \cap TextOctet = {}
  /\ {"cr", "lf", "tab", "nul"} \subseteq Octet
BY DEF NameOctet, TextOctet, Token, Digit, Path, Ctl, Octet

\* The octets on which consume() goes on from a state.
Accepts(p, c) ==
  LET st == p.state_
  IN  \/ st = "method_start" /\ c \in NameOctet
      \/ st = "method" /\ (c = "sp" \/ c \in NameOctet)
      \/ st = "uri" /\ c \in TextOctet
      \/ st = "http_version_h" /\ c = "H"
      \/ st = "http_version_t_1" /\ c = "T"
      \/ st = "http_version_t_2" /\ c = "T"
      \/ st = "http_version_p" /\ c = "P"
      \/ st = "http_version_slash" /\ c = "/"
      \/ st = "http_version_major_start" /\ c = "digit"
      \/ st = "http_version_major" /\ c \in {"dot", "digit"}
      \/ st = "http_version_minor_start" /\ c = "digit"
      \/ st = "http_version_minor" /\ c \in {"cr", "digit"}
      \/ st = "expecting_newline_1" /\ c = "lf"
      \/ st = "header_line_start" /\ (c = "cr" \/ c \in NameOctet)
      \/ st = "header_line_start" /\ c \in {"sp", "tab"} /\ p.headers > 0
      \/ st = "header_lws" /\ (c \in {"cr", "sp", "tab"} \/ c \in TextOctet)
      \/ st = "header_name" /\ (c = "colon" \/ c \in NameOctet)
      \/ st = "space_before_header_value" /\ c = "sp"
      \/ st = "header_value" /\ (c = "cr" \/ c \in TextOctet)
      \/ st = "expecting_newline_2" /\ c = "lf"

\* Where it goes.
Target(st, c) ==
  CASE st = "method_start" -> "method"
    [] st = "method" -> IF c = "sp" THEN "uri" ELSE "method"
    [] st = "uri" -> IF c = "sp" THEN "http_version_h" ELSE "uri"
    [] st = "http_version_h" -> "http_version_t_1"
    [] st = "http_version_t_1" -> "http_version_t_2"
    [] st = "http_version_t_2" -> "http_version_p"
    [] st = "http_version_p" -> "http_version_slash"
    [] st = "http_version_slash" -> "http_version_major_start"
    [] st = "http_version_major_start" -> "http_version_major"
    [] st = "http_version_major" ->
         IF c = "dot" THEN "http_version_minor_start" ELSE "http_version_major"
    [] st = "http_version_minor_start" -> "http_version_minor"
    [] st = "http_version_minor" ->
         IF c = "cr" THEN "expecting_newline_1" ELSE "http_version_minor"
    [] st = "expecting_newline_1" -> "header_line_start"
    [] st = "header_line_start" -> IF c = "cr" THEN "expecting_newline_3"
                                   ELSE IF c \in {"sp", "tab"} THEN "header_lws"
                                   ELSE "header_name"
    [] st = "header_lws" -> IF c = "cr" THEN "expecting_newline_2"
                            ELSE IF c \in {"sp", "tab"} THEN "header_lws"
                            ELSE "header_value"
    [] st = "header_name" ->
         IF c = "colon" THEN "space_before_header_value" ELSE "header_name"
    [] st = "space_before_header_value" -> "header_value"
    [] st = "header_value" -> IF c = "cr" THEN "expecting_newline_2" ELSE "header_value"
    [] st = "expecting_newline_2" -> "header_line_start"

\* The table says so.
LEMMA BranchGoes ==
  ASSUME NEW p \in Parser, NEW c \in Octet, NEW b \in Branches,
         b.from = p.state_, Taken(p, c, b)
  PROVE  /\ Accepts(p, c) /\ b.to = Target(p.state_, c)
         /\ b.keep = "push" <=> p.state_ = "header_line_start" /\ b.to = "header_name"
BY OctetClasses DEF Branches, Branch, Taken, Accepts, Target, Digit

\* Where an octet is accepted, some branch of the switch takes it.
LEMMA BranchThere ==
  ASSUME NEW p \in Parser, NEW c \in Octet, Accepts(p, c)
  PROVE  \E b \in Branches : b.from = p.state_ /\ Taken(p, c, b)
BY OctetClasses DEF Branches, Branch, Taken, Accepts, Digit

(***************************************************************************)
(* consume() by the two: it goes on, returns good, or returns bad.         *)
(***************************************************************************)
LEMMA ConsumeIs ==
  ASSUME NEW p \in Parser, NEW c \in Octet, NEW r, r = Consume(p, c)
  PROVE  /\ r.result \in {"good", "bad", "indeterminate"}
         /\ r.result = "good" => p.state_ = "expecting_newline_3" /\ c = "lf"
         /\ r.result = "bad" => /\ ~Accepts(p, c)
                               /\ ~(p.state_ = "expecting_newline_3" /\ c = "lf")
         /\ r.result = "indeterminate" =>
              /\ Accepts(p, c)
              /\ r.parser.state_ = Target(p.state_, c)
              /\ r.parser.headers = IF /\ p.state_ = "header_line_start"
                                       /\ Target(p.state_, c) = "header_name"
                                    THEN p.headers + 1 ELSE p.headers
<1> DEFINE enabled == {b \in Case[p.state_] : Taken(p, c, b)}
<1>1. p.state_ \in State
  BY DEF Parser
<1>2. \A b : b \in enabled <=> b \in Branches /\ b.from = p.state_ /\ Taken(p, c, b)
  BY <1>1 DEF Case
<1>3. CASE p.state_ = "expecting_newline_3" /\ c = "lf"
  BY <1>3 DEF Consume
<1>4. CASE ~(p.state_ = "expecting_newline_3" /\ c = "lf") /\ enabled = {}
  <2>1. r = [parser |-> p, result |-> "bad"]
    BY <1>4 DEF Consume
  <2>2. ~Accepts(p, c)
    BY <1>2, <1>4, BranchThere
  <2> QED
    BY <1>4, <2>1, <2>2
<1>5. CASE ~(p.state_ = "expecting_newline_3" /\ c = "lf") /\ enabled # {}
  <2> DEFINE b == CHOOSE x \in enabled : TRUE
  <2>1. b \in enabled
    BY <1>5
  <2>2. r = [parser |-> Apply(p, c, b), result |-> "indeterminate"]
    BY <1>5 DEF Consume
  <2>3. b \in Branches /\ b.from = p.state_ /\ Taken(p, c, b)
    BY <2>1, <1>2
  <2> HIDE DEF b, enabled
  <2>4. /\ Accepts(p, c) /\ b.to = Target(p.state_, c)
        /\ b.keep = "push" <=> p.state_ = "header_line_start" /\ b.to = "header_name"
    BY <2>3, BranchGoes
  <2> QED
    BY <2>2, <2>4 DEF Apply, HeaderCount
<1> QED
  BY <1>3, <1>4, <1>5

-----------------------------------------------------------------------------
(***************************************************************************)
(* What the octets that follow do not change.                              *)
(***************************************************************************)
Begins(s, u) == /\ s \in Seq(Octet) /\ u \in Seq(Octet) /\ Len(s) <= Len(u)
                /\ \A i \in 1..Len(s) : u[i] = s[i]

\* A line break within the beginning s of u is one of u.
LEMMA BeginsBreak ==
  ASSUME NEW s, NEW u, Begins(s, u), NEW j \in Nat, j < Len(s)
  PROVE  BreakAt(s, j) <=> BreakAt(u, j)
BY DEF Begins, BreakAt

\* A line that starts within s or right behind it starts in u, and conversely.
LEMMA BeginsStart ==
  ASSUME NEW s, NEW u, Begins(s, u), NEW m \in Nat, m <= Len(s) + 1
  PROVE  Start(s, m) <=> Start(u, m)
<1>1. CASE m > 2
  <2>1. m - 2 \in Nat /\ m - 2 < Len(s)
    BY <1>1 DEF Begins
  <2> QED
    BY <1>1, <2>1, BeginsBreak DEF Start
<1> QED
  BY <1>1 DEF Start

\* What has no line break in s has none in u, and conversely.
LEMMA BeginsUnbroken ==
  ASSUME NEW s, NEW u, Begins(s, u), NEW m \in Nat, NEW n \in Int, n < Len(s)
  PROVE  Unbroken(s, m, n) <=> Unbroken(u, m, n)
<1>1. \A j \in m..n : j \in Nat /\ j < Len(s)
  BY DEF Begins
<1>2. \A j \in m..n : BreakAt(s, j) <=> BreakAt(u, j)
  BY <1>1, BeginsBreak
<1> QED
  BY <1>2 DEF Unbroken

\* A line that ends within s ends there in u, and conversely.
LEMMA BeginsEnds ==
  ASSUME NEW s, NEW u, Begins(s, u), NEW m \in Nat, NEW e \in Nat, e < Len(s)
  PROVE  Ends(s, m, e) <=> Ends(u, m, e)
<1>1. BreakAt(s, e) <=> BreakAt(u, e)
  BY BeginsBreak
<1>2. Unbroken(s, m, e - 1) <=> Unbroken(u, m, e - 1)
  BY BeginsUnbroken DEF Begins
<1> QED
  BY <1>1, <1>2 DEF Ends

\* A line that is whole in s is good in s exactly if it is in u.
LEMMA BeginsLine ==
  ASSUME NEW s, NEW u, Begins(s, u), NEW m \in Nat \ {0}, NEW e \in Nat,
         m <= e, e <= Len(s) + 1
  PROVE  GoodLine(s, m, e) <=> GoodLine(u, m, e)
<1>1. \A i \in 1..(e - 1) : u[i] = s[i]
  BY DEF Begins
<1>2. \A a, b, d : RequestTo(s, e - 1, a, b, d) <=> RequestTo(u, e - 1, a, b, d)
  BY <1>1 DEF RequestTo
<1>3. RequestLine(s, e) <=> RequestLine(u, e)
  BY <1>2 DEF RequestLine
<1>4. \A j \in m..(e - 1) : u[j] = s[j]
  BY <1>1
<1>5. \A a : /\ FieldTo(s, m, e - 1, a) <=> FieldTo(u, m, e - 1, a)
             /\ FoldTo(s, m, e - 1, a) <=> FoldTo(u, m, e - 1, a)
  BY <1>4 DEF FieldTo, FoldTo
<1>6. \A k \in 2..(m - 1) : k \in Nat /\ k <= Len(s) + 1
  BY DEF Begins
<1>7. \A k \in 2..(m - 1) : Start(s, k) <=> Start(u, k)
  BY <1>6, BeginsStart
<1>8. HeaderLine(s, m, e) <=> HeaderLine(u, m, e)
  BY <1>5, <1>7 DEF HeaderLine, Behind
<1> QED
  BY <1>3, <1>8 DEF GoodLine

\* Two breaks do not overlap.
LEMMA BreaksApart ==
  ASSUME NEW s \in Seq(Octet), NEW i \in Nat, BreakAt(s, i)
  PROVE  ~BreakAt(s, i + 1)
BY DEF BreakAt

\* A position is in one line only.
LEMMA OneLine ==
  ASSUME NEW s \in Seq(Octet), NEW m \in Nat, NEW k \in Nat, NEW n \in Nat,
         m <= n + 1, k <= n + 1, Start(s, m), Start(s, k), m > 0, k > 0,
         Unbroken(s, m, n), Unbroken(s, k, n)
  PROVE  m = k
<1>1. ASSUME NEW x \in Nat, NEW y \in Nat, x > 0, x < y, y <= n + 1,
             Start(s, x), Start(s, y), Unbroken(s, x, n)
      PROVE  FALSE
  <2>1. y > 2 /\ BreakAt(s, y - 2)
    BY <1>1 DEF Start
  <2>2. ~(y - 2 \in x..n)
    BY <1>1, <2>1 DEF Unbroken
  <2>3. y = x + 1
    BY <1>1, <2>1, <2>2
  <2>4. x > 2 /\ BreakAt(s, x - 2)
    BY <1>1, <2>1, <2>3 DEF Start
  <2>5. ~BreakAt(s, (x - 2) + 1)
    BY <1>1, <2>4, BreaksApart
  <2> QED
    BY <1>1, <2>1, <2>3, <2>5
<1> QED
  BY <1>1

\* A line that is broken somewhere has an end.
LEMMA EndExists ==
  ASSUME NEW s \in Seq(Octet), NEW m \in Nat \ {0}, NEW i \in Nat,
         m <= i, BreakAt(s, i)
  PROVE  \E e \in m..i : Ends(s, m, e)
<1> DEFINE S == {j \in m..i : BreakAt(s, j)}
<1>1. S \subseteq Nat /\ S # {}
  BY DEF S
<1>2. PICK e \in S : \A j \in S : e <= j
  BY <1>1, LeastNumber
<1>3. Unbroken(s, m, e - 1)
  BY <1>2 DEF Unbroken
<1> QED
  BY <1>2, <1>3 DEF Ends

-----------------------------------------------------------------------------
(***************************************************************************)
(* The marks of a request line: where a mark is passed it is determined,   *)
(* and where it is not, any mark further on does.                          *)
(***************************************************************************)
Same(n, a, k) == a = k \/ (a > n /\ k > n)

\* What was read of a request line fixes its marks as far as they are passed.
LEMMA SameMarks ==
  ASSUME NEW s \in Seq(Octet), NEW n \in Nat,
         NEW a \in Nat, NEW b \in Nat, NEW d \in Nat, RequestTo(s, n, a, b, d),
         NEW x \in Nat, NEW y \in Nat, NEW z \in Nat, RequestTo(s, n, x, y, z)
  PROVE  Same(n, a, x) /\ Same(n, b, y) /\ Same(n, d, z)
<1>1. Marks(a, b, d) /\ Marks(x, y, z)
  BY DEF RequestTo
<1>2. \A j \in 1..n : RequestRole(s[j], j, a, b, d) /\ RequestRole(s[j], j, x, y, z)
  BY DEF RequestTo
<1>3. "sp" \notin NameOctet /\ "dot" # "sp" /\ "dot" # "digit"
  BY OctetClasses
<1>4. Same(n, a, x)
  <2>1. a <= n => a \in 1..n /\ s[a] = "sp"
    BY <1>1, <1>2, <1>3 DEF RequestRole, Marks
  <2>2. x <= n => x \in 1..n /\ s[x] = "sp"
    BY <1>1, <1>2, <1>3 DEF RequestRole, Marks
  <2>3. a <= n => ~(a < x)
    BY <1>1, <1>2, <1>3, <2>1 DEF RequestRole, Marks
  <2>4. x <= n => ~(x < a)
    BY <1>1, <1>2, <1>3, <2>2 DEF RequestRole, Marks
  <2> QED
    BY <2>3, <2>4 DEF Same
<1>5. Same(n, b, y)
  <2>1. b <= n => s[b] = "sp" /\ b \in 1..n
    BY <1>1, <1>2, <1>3 DEF RequestRole, Marks
  <2>2. y <= n => s[y] = "sp" /\ y \in 1..n
    BY <1>1, <1>2, <1>3 DEF RequestRole, Marks
  <2>3. b <= n => ~(b < y)
    BY <1>1, <1>2, <1>3, <1>4, <2>1 DEF RequestRole, Marks, Same
  <2>4. y <= n => ~(y < b)
    BY <1>1, <1>2, <1>3, <1>4, <2>2 DEF RequestRole, Marks, Same
  <2> QED
    BY <2>3, <2>4 DEF Same
<1>6. Same(n, d, z)
  <2>1. d <= n => s[d] = "dot" /\ d \in 1..n
    BY <1>1, <1>2, <1>3 DEF RequestRole, Marks
  <2>2. z <= n => s[z] = "dot" /\ z \in 1..n
    BY <1>1, <1>2, <1>3 DEF RequestRole, Marks
  <2>3. d <= n => ~(d < z)
    BY <1>1, <1>2, <1>3, <1>5, <2>1 DEF RequestRole, Marks, Same
  <2>4. z <= n => ~(z < d)
    BY <1>1, <1>2, <1>3, <1>5, <2>2 DEF RequestRole, Marks, Same
  <2> QED
    BY <2>3, <2>4 DEF Same
<1> QED
  BY <1>4, <1>5, <1>6

\* Marks that agree with those of a request line as far as it was read fit it.
LEMMA OtherMarks ==
  ASSUME NEW s \in Seq(Octet), NEW n \in Nat,
         NEW a \in Nat, NEW b \in Nat, NEW d \in Nat, RequestTo(s, n, a, b, d),
         NEW x \in Nat, NEW y \in Nat, NEW z \in Nat, Marks(x, y, z),
         Same(n, a, x), Same(n, b, y), Same(n, d, z)
  PROVE  RequestTo(s, n, x, y, z)
<1> SUFFICES ASSUME NEW j \in 1..n PROVE RequestRole(s[j], j, x, y, z)
  BY DEF RequestTo
<1>1. RequestRole(s[j], j, a, b, d) /\ Marks(a, b, d)
  BY DEF RequestTo
<1> QED
  BY <1>1 DEF RequestRole, Marks, Same

\* The octet that comes next in a request line is one that consume() takes.
LEMMA RequestAccepts ==
  ASSUME NEW p \in Parser, NEW c \in Octet, NEW n \in Nat,
         NEW a \in Nat, NEW b \in Nat, NEW d \in Nat, Marks(a, b, d),
         p.state_ = RequestState(n, a, b, d), RequestRole(c, n + 1, a, b, d)
  PROVE  Accepts(p, c)
<1> USE OctetClasses DEF Marks
<1>1. CASE n < a
  BY <1>1 DEF Accepts, RequestState, RequestRole
<1>2. CASE a <= n /\ n < b
  BY <1>2 DEF Accepts, RequestState, RequestRole
<1>3. CASE b <= n /\ n < b + 5
  BY <1>3 DEF Accepts, RequestState, RequestRole
<1>4. CASE b + 5 <= n
  BY <1>4 DEF Accepts, RequestState, RequestRole
<1> QED
  BY <1>1, <1>2, <1>3, <1>4

\* What consume() takes within a request line goes on with it: with the same
\* marks, or with others further on.
RequestNext(p, c, n, a, b, d, x, y, z) ==
  /\ Marks(x, y, z) /\ Same(n, a, x) /\ Same(n, b, y) /\ Same(n, d, z)
  /\ RequestRole(c, n + 1, x, y, z)
  /\ Target(p.state_, c) = RequestState(n + 1, x, y, z)

\* Where the parser goes on within the request line, the octet has a role in
\* it, for marks that agree with those so far.
LEMMA RequestGoes ==
  ASSUME NEW p \in Parser, NEW c \in Octet, NEW n \in Nat,
         NEW a \in Nat, NEW b \in Nat, NEW d \in Nat, Marks(a, b, d),
         p.state_ = RequestState(n, a, b, d), Accepts(p, c), c # "cr"
  PROVE  \E x, y, z \in 1..(n + 11) : RequestNext(p, c, n, a, b, d, x, y, z)
<1> DEFINE Goal(x, y, z) == RequestNext(p, c, n, a, b, d, x, y, z)
<1> USE DEF RequestNext
<1>1. CASE n < a /\ c # "sp"
  <2>1. p.state_ = (IF n = 0 THEN "method_start" ELSE "method") /\ c \in NameOctet
    BY <1>1 DEF RequestState, Accepts, Marks
  <2>2. Target(p.state_, c) = "method"
    BY <1>1, <2>1 DEF Target
  <2>3. Goal(n + 2, n + 3, n + 10)
    BY <1>1, <2>1, <2>2 DEF Marks, Same, RequestRole, RequestState
  <2> QED
    BY <2>3
<1>2. CASE n < a /\ c = "sp"
  <2>1. n # 0
    <3> SUFFICES ASSUME n = 0 PROVE FALSE
      OBVIOUS
    <3>1. p.state_ = "method_start"
      BY DEF RequestState, Marks
    <3> QED
      BY <1>2, <3>1, OctetClasses DEF Accepts
  <2>4. p.state_ = "method"
    BY <1>2, <2>1 DEF RequestState, Marks
  <2>2. Target(p.state_, c) = "uri"
    BY <1>2, <2>4 DEF Target
  <2>3. Goal(n + 1, n + 3, n + 10)
    BY <1>2, <2>1, <2>2, OctetClasses DEF Marks, Same, RequestRole, RequestState
  <2> QED
    BY <2>3
<1>3. CASE a <= n /\ n < b /\ c # "sp"
  <2>1. p.state_ = "uri" /\ c \in TextOctet
    BY <1>3 DEF RequestState, Accepts, Marks
  <2>2. Target(p.state_, c) = "uri"
    BY <1>3, <2>1 DEF Target
  <2>3. Goal(a, n + 2, n + 10)
    BY <1>3, <2>1, <2>2 DEF Marks, Same, RequestRole, RequestState
  <2> QED
    BY <1>3, <2>3 DEF Marks
<1>4. CASE a <= n /\ n < b /\ c = "sp"
  <2>1. p.state_ = "uri"
    BY <1>4 DEF RequestState, Marks
  <2>2. Target(p.state_, c) = "http_version_h"
    BY <1>4, <2>1 DEF Target
  <2>3. Goal(a, n + 1, n + 10)
    BY <1>4, <2>1, <2>2 DEF Marks, Same, RequestRole, RequestState
  <2> QED
    BY <1>4, <2>3 DEF Marks
<1>5. CASE b <= n /\ n < b + 5
  <2>1. \/ n = b /\ p.state_ = "http_version_h"
        \/ n = b + 1 /\ p.state_ = "http_version_t_1"
        \/ n = b + 2 /\ p.state_ = "http_version_t_2"
        \/ n = b + 3 /\ p.state_ = "http_version_p"
        \/ n = b + 4 /\ p.state_ = "http_version_slash"
    BY <1>5 DEF RequestState, Marks
  <2>2. \/ n = b /\ c = "H" /\ Target(p.state_, c) = "http_version_t_1"
        \/ n = b + 1 /\ c = "T" /\ Target(p.state_, c) = "http_version_t_2"
        \/ n = b + 2 /\ c = "T" /\ Target(p.state_, c) = "http_version_p"
        \/ n = b + 3 /\ c = "P" /\ Target(p.state_, c) = "http_version_slash"
        \/ n = b + 4 /\ c = "/" /\ Target(p.state_, c) = "http_version_major_start"
    BY <2>1 DEF Accepts, Target
  <2>3. Target(p.state_, c) = RequestState(n + 1, a, b, n + 11)
    BY <2>2 DEF RequestState, Marks
  <2>4. RequestRole(c, n + 1, a, b, n + 11)
    BY <2>2 DEF RequestRole, Marks
  <2>5. Goal(a, b, n + 11)
    BY <1>5, <2>3, <2>4 DEF Marks, Same
  <2> QED
    BY <1>5, <2>5 DEF Marks
<1>6. CASE b + 5 <= n /\ n < d
  <2>1. p.state_ = IF n = b + 5 THEN "http_version_major_start" ELSE "http_version_major"
    BY <1>6 DEF RequestState, Marks
  <2>2. \/ c = "digit" /\ Target(p.state_, c) = "http_version_major"
        \/ n > b + 5 /\ c = "dot" /\ Target(p.state_, c) = "http_version_minor_start"
    BY <1>6, <2>1 DEF Accepts, Target
  <2> DEFINE e == IF c = "dot" THEN n + 1 ELSE n + 2
  <2>3. Target(p.state_, c) = RequestState(n + 1, a, b, e)
    BY <1>6, <2>2 DEF RequestState, Marks
  <2>4. RequestRole(c, n + 1, a, b, e)
    BY <1>6, <2>2 DEF RequestRole, Marks
  <2> HIDE DEF Goal
  <2>7. e \in {n + 1, n + 2} /\ (e = n + 1 => n > b + 5)
    BY <2>2
  <2>5. Marks(a, b, e) /\ Same(n, a, a) /\ Same(n, b, b) /\ Same(n, d, e)
    <3> HIDE DEF e
    <3> QED
      BY <1>6, <2>7 DEF Marks, Same
  <2>6. a \in 1..(n + 11) /\ b \in 1..(n + 11) /\ e \in 1..(n + 11)
    BY <1>6 DEF Marks
  <2> QED
    BY <2>3, <2>4, <2>5, <2>6 DEF Goal
<1>7. CASE d <= n
  <2>1. p.state_ = IF n = d THEN "http_version_minor_start" ELSE "http_version_minor"
    BY <1>7 DEF RequestState, Marks
  <2>2. c = "digit" /\ Target(p.state_, c) = "http_version_minor"
    BY <2>1 DEF Accepts, Target
  <2>3. Target(p.state_, c) = RequestState(n + 1, a, b, d)
    BY <1>7, <2>2 DEF RequestState, Marks
  <2>4. RequestRole(c, n + 1, a, b, d)
    BY <1>7, <2>2 DEF RequestRole, Marks
  <2>5. Goal(a, b, d)
    BY <1>7, <2>3, <2>4 DEF Marks, Same
  <2> QED
    BY <1>7, <2>5 DEF Marks
<1> QED
  BY <1>1, <1>2, <1>3, <1>4, <1>5, <1>6, <1>7

\* The same of a header field and of a folded line.
LEMMA FieldIsOne ==
  ASSUME NEW s \in Seq(Octet), NEW m \in Nat, NEW n \in Nat, m <= n,
         NEW a \in Nat, NEW x \in Nat, FieldTo(s, m, n, a), FieldTo(s, m, n, x)
  PROVE  FieldState(n, a) = FieldState(n, x)
<1>1. "colon" \notin NameOctet
  BY OctetClasses
<1>2. ASSUME NEW y \in Nat, NEW z \in Nat, FieldTo(s, m, n, y), FieldTo(s, m, n, z), y <= n
      PROVE  ~(y < z)
  <2>1. y \in m..n
    BY <1>2 DEF FieldTo
  <2>2. FieldRole(s[y], y, y) /\ FieldRole(s[y], y, z)
    BY <1>2, <2>1 DEF FieldTo
  <2> QED
    BY <1>1, <2>1, <2>2 DEF FieldRole
<1>3. (a <= n \/ x <= n) => a = x
  BY <1>2
<1> QED
  BY <1>3 DEF FieldState

\* Within a header field an octet that has a role in it is accepted.
LEMMA FieldAccepts ==
  ASSUME NEW p \in Parser, NEW c \in Octet, NEW n \in Nat, NEW a \in Nat,
         p.state_ = FieldState(n, a), FieldRole(c, n + 1, a)
  PROVE  Accepts(p, c)
BY DEF FieldState, FieldRole, Accepts

\* Where the parser goes on within a header field, the octet has a role in it.
LEMMA FieldGoes ==
  ASSUME NEW p \in Parser, NEW c \in Octet, NEW n \in Nat, NEW m \in Nat, NEW a \in Nat,
         NEW s \in Seq(Octet), m <= n, FieldTo(s, m, n, a), p.state_ = FieldState(n, a),
         Accepts(p, c), c # "cr"
  PROVE  \E x \in m..(n + 3) :
           /\ FieldTo(s, m, n, x) /\ FieldRole(c, n + 1, x)
           /\ Target(p.state_, c) = FieldState(n + 1, x)
<1>1. CASE n < a
  <2>1. p.state_ = "header_name"
    BY <1>1 DEF FieldState
  <2>2. \/ c = "colon" /\ Target(p.state_, c) = "space_before_header_value"
        \/ c \in NameOctet /\ Target(p.state_, c) = "header_name"
    BY <2>1, OctetClasses DEF Accepts, Target
  <2>3. CASE c = "colon"
    <3>1. FieldTo(s, m, n, n + 1) /\ FieldRole(c, n + 1, n + 1)
      BY <1>1, <2>3 DEF FieldTo, FieldRole
    <3>2. Target(p.state_, c) = FieldState(n + 1, n + 1)
      BY <2>2, <2>3, OctetClasses DEF FieldState
    <3> QED
      BY <3>1, <3>2
  <2>4. CASE c # "colon"
    <3>1. FieldTo(s, m, n, n + 2) /\ FieldRole(c, n + 1, n + 2)
      BY <1>1, <2>2, <2>4 DEF FieldTo, FieldRole
    <3>2. Target(p.state_, c) = FieldState(n + 1, n + 2)
      BY <2>2, <2>4 DEF FieldState
    <3> QED
      BY <3>1, <3>2
  <2> QED
    BY <2>3, <2>4
<1>2. CASE n >= a
  <2>1. p.state_ = IF n = a THEN "space_before_header_value" ELSE "header_value"
    BY <1>2 DEF FieldState
  <2>2. /\ IF n = a THEN c = "sp" ELSE c \in TextOctet
        /\ Target(p.state_, c) = "header_value"
    BY <2>1 DEF Accepts, Target
  <2>3. FieldRole(c, n + 1, a) /\ Target(p.state_, c) = FieldState(n + 1, a)
    BY <1>2, <2>2 DEF FieldRole, FieldState
  <2>4. a \in m..(n + 3)
    BY <1>2 DEF FieldTo
  <2> QED
    BY <2>3, <2>4
<1> QED
  BY <1>1, <1>2

\* Whatever is taken for the first white space of a folded line, the parser is
\* in one state.
LEMMA FoldIsOne ==
  ASSUME NEW s \in Seq(Octet), NEW m \in Nat, NEW n \in Nat, m <= n,
         NEW a \in Nat, NEW x \in Nat, FoldTo(s, m, n, a), FoldTo(s, m, n, x)
  PROVE  FoldState(n, a) = FoldState(n, x)
<1>1. ASSUME NEW y \in Nat, NEW z \in Nat, FoldTo(s, m, n, y), FoldTo(s, m, n, z), y < n
      PROVE  z < n
  <2>1. y + 1 \in m..n
    BY <1>1 DEF FoldTo
  <2>2. s[y + 1] \in TextOctet \ {"sp"}
    BY <1>1, <2>1 DEF FoldTo, FoldRole
  <2>3. s[y + 1] \notin {"sp", "tab"}
    BY <2>2, OctetClasses
  <2>4. ~(y + 1 <= z)
    BY <1>1, <2>1, <2>3 DEF FoldTo, FoldRole
  <2> QED
    BY <1>1, <2>4
<1>2. a < n <=> x < n
  BY <1>1
<1> QED
  BY <1>2 DEF FoldState

\* Within a folded line an octet that has a role in it is accepted.
LEMMA FoldAccepts ==
  ASSUME NEW p \in Parser, NEW c \in Octet, NEW n \in Nat, NEW a \in Nat,
         p.state_ = FoldState(n, a), FoldRole(c, n + 1, a)
  PROVE  Accepts(p, c)
BY DEF FoldState, FoldRole, Accepts

\* Where the parser goes on within a folded line, the octet has a role in it.
LEMMA FoldGoes ==
  ASSUME NEW p \in Parser, NEW c \in Octet, NEW n \in Nat, NEW m \in Nat, NEW a \in Nat,
         NEW s \in Seq(Octet), m <= n, a <= n, FoldTo(s, m, n, a), p.state_ = FoldState(n, a),
         Accepts(p, c), c # "cr"
  PROVE  \E x \in m..(n + 1) :
           /\ FoldTo(s, m, n, x) /\ FoldRole(c, n + 1, x)
           /\ Target(p.state_, c) = FoldState(n + 1, x)
<1>1. CASE n = a
  <2>1. p.state_ = "header_lws"
    BY <1>1 DEF FoldState
  <2>2. \/ c \in {"sp", "tab"} /\ Target(p.state_, c) = "header_lws"
        \/ c \in TextOctet \ {"sp"} /\ Target(p.state_, c) = "header_value"
    BY <2>1, OctetClasses DEF Accepts, Target
  <2>3. CASE c \in {"sp", "tab"}
    <3>1. FoldTo(s, m, n, n + 1) /\ FoldRole(c, n + 1, n + 1)
      BY <1>1, <2>3 DEF FoldTo, FoldRole
    <3>2. Target(p.state_, c) = FoldState(n + 1, n + 1)
      BY <2>2, <2>3, OctetClasses DEF FoldState
    <3> QED
      BY <3>1, <3>2
  <2>4. CASE c \notin {"sp", "tab"}
    <3>1. FoldRole(c, n + 1, a) /\ Target(p.state_, c) = FoldState(n + 1, a)
      BY <1>1, <2>2, <2>4 DEF FoldRole, FoldState
    <3> QED
      BY <1>1, <3>1
  <2> QED
    BY <2>3, <2>4
<1>2. CASE n > a
  <2>1. p.state_ = "header_value"
    BY <1>2 DEF FoldState
  <2>2. c \in TextOctet /\ Target(p.state_, c) = "header_value"
    BY <2>1 DEF Accepts, Target
  <2>3. FoldRole(c, n + 1, a) /\ Target(p.state_, c) = FoldState(n + 1, a)
    BY <1>2, <2>2 DEF FoldRole, FoldState
  <2>4. a \in m..(n + 1)
    BY <1>2 DEF FoldTo
  <2> QED
    BY <2>3, <2>4
<1> QED
  BY <1>1, <1>2

-----------------------------------------------------------------------------
(***************************************************************************)
(* One octet more: the parser goes on.                                     *)
(***************************************************************************)
LEMMA OneMore ==
  ASSUME NEW s \in Seq(Octet), NEW c \in Octet
  PROVE  /\ Begins(s, Append(s, c)) /\ Len(s) \in Nat
         /\ Len(Append(s, c)) = Len(s) + 1 /\ Append(s, c)[Len(s) + 1] = c
         /\ \A j \in Nat : BreakAt(Append(s, c), j) <=>
                             \/ BreakAt(s, j)
                             \/ j = Len(s) /\ j > 0 /\ s[j] = "cr" /\ c = "lf"
<1>1. /\ Begins(s, Append(s, c)) /\ Len(s) \in Nat
      /\ Len(Append(s, c)) = Len(s) + 1 /\ Append(s, c)[Len(s) + 1] = c
  BY DEF Begins
<1> QED
  BY <1>1 DEF Begins, BreakAt

\* What is not a line feed breaks no line.
LEMMA SameLines ==
  ASSUME NEW s \in Seq(Octet), NEW c \in Octet, NEW t, t = Append(s, c), c # "lf",
         GoodLines(s), NoBlank(s)
  PROVE  /\ GoodLines(t) /\ NoBlank(t)
         /\ \A m \in Nat : Start(t, m) <=> Start(s, m)
         /\ \A m \in Nat : Unbroken(s, m, Len(s)) => Unbroken(t, m, Len(t))
<1> DEFINE n == Len(s)
<1>1. /\ Begins(s, t) /\ Len(t) = n + 1 /\ n \in Nat
      /\ \A j \in Nat : BreakAt(t, j) <=> BreakAt(s, j)
  <2>1. c # "lf"
    OBVIOUS
  <2> QED
    BY <2>1, OneMore
<1>2. \A m \in Nat : Start(t, m) <=> Start(s, m)
  BY <1>1 DEF Start
<1>3. \A j \in Nat : BreakAt(s, j) => j \in 1..(n - 1)
  BY DEF BreakAt
<1>4. NoBlank(t)
  BY <1>1, <1>3 DEF NoBlank, BlankAt
<1>5. \A m \in Nat : Unbroken(s, m, n) => Unbroken(t, m, n + 1)
  BY <1>1, <1>3 DEF Unbroken
<1>6. GoodLines(t)
  <2> SUFFICES ASSUME NEW m \in 1..Len(t), NEW e \in 1..Len(t), Start(t, m), Ends(t, m, e)
               PROVE  GoodLine(t, m, e)
    BY DEF GoodLines
  <2>1. BreakAt(s, e) /\ e < n /\ m <= e
    BY <1>1, <1>3 DEF Ends
  <2>2. Ends(s, m, e) /\ Start(s, m)
    BY <1>1, <1>2, <2>1, BeginsEnds
  <2>3. GoodLine(s, m, e)
    BY <2>1, <2>2 DEF GoodLines
  <2> QED
    BY <1>1, <2>1, <2>3, BeginsLine
<1> QED
  BY <1>1, <1>2, <1>4, <1>5, <1>6

\* The states within a line.
LEMMA StatesOf ==
  ASSUME NEW n \in Nat, NEW a \in Nat, NEW b \in Nat, NEW d \in Nat, Marks(a, b, d)
  PROVE  /\ RequestState(n, a, b, d) \in
              {"method_start", "method", "uri", "http_version_h", "http_version_t_1",
               "http_version_t_2", "http_version_p", "http_version_slash",
               "http_version_major_start", "http_version_major",
               "http_version_minor_start", "http_version_minor"}
         /\ RequestState(n, a, b, d) = "http_version_minor" => n > d
         /\ n > d => RequestState(n, a, b, d) = "http_version_minor"
<1>1. CASE n < a
  <2>1. RequestState(n, a, b, d) = IF n = 0 THEN "method_start" ELSE "method"
    BY <1>1 DEF RequestState, Marks
  <2> QED
    BY <1>1, <2>1 DEF Marks
<1>2. CASE a <= n /\ n < b
  <2>1. RequestState(n, a, b, d) = "uri"
    BY <1>2 DEF RequestState, Marks
  <2> QED
    BY <1>2, <2>1 DEF Marks
<1>3. CASE b <= n /\ n < b + 5
  <2>1. CASE n = b
    <3>1. RequestState(n, a, b, d) = "http_version_h"
      BY <2>1 DEF RequestState, Marks
    <3> QED
      BY <2>1, <3>1 DEF Marks
  <2>2. CASE n = b + 1
    <3>1. RequestState(n, a, b, d) = "http_version_t_1"
      BY <2>2 DEF RequestState, Marks
    <3> QED
      BY <2>2, <3>1 DEF Marks
  <2>3. CASE n = b + 2
    <3>1. RequestState(n, a, b, d) = "http_version_t_2"
      BY <2>3 DEF RequestState, Marks
    <3> QED
      BY <2>3, <3>1 DEF Marks
  <2>4. CASE n = b + 3
    <3>1. RequestState(n, a, b, d) = "http_version_p"
      BY <2>4 DEF RequestState, Marks
    <3> QED
      BY <2>4, <3>1 DEF Marks
  <2>5. CASE n = b + 4
    <3>1. RequestState(n, a, b, d) = "http_version_slash"
      BY <2>5 DEF RequestState, Marks
    <3> QED
      BY <2>5, <3>1 DEF Marks
  <2> QED
    BY <1>3, <2>1, <2>2, <2>3, <2>4, <2>5 DEF Marks
<1>4. CASE b + 5 <= n /\ n < d
  <2>1. RequestState(n, a, b, d) = IF n = b + 5 THEN "http_version_major_start"
                                   ELSE "http_version_major"
    BY <1>4 DEF RequestState, Marks
  <2> QED
    BY <1>4, <2>1 DEF Marks
<1>5. CASE d <= n
  <2>1. RequestState(n, a, b, d) = IF n = d THEN "http_version_minor_start"
                                   ELSE "http_version_minor"
    BY <1>5 DEF RequestState, Marks
  <2> QED
    BY <1>5, <2>1 DEF Marks
<1> QED
  BY <1>1, <1>2, <1>3, <1>4, <1>5 DEF Marks

\* An octet that the parser accepts in the request line, no line feed, leaves it
\* in the request line or after its carriage return.
LEMMA GoesOnInRequestLine ==
  ASSUME NEW p \in Parser, NEW q \in Parser, NEW s \in Seq(Octet), NEW c \in Octet,
         NEW t, t = Append(s, c), c # "lf", GoodLines(s), NoBlank(s),
         Unbroken(s, 1, Len(s)), p.headers = 0,
         NEW a \in Nat, NEW b \in Nat, NEW d \in Nat, RequestTo(s, Len(s), a, b, d),
         p.state_ = RequestState(Len(s), a, b, d),
         Accepts(p, c), q.state_ = Target(p.state_, c), q.headers = 0
  PROVE  Reads(q, t)
<1> DEFINE n == Len(s)
<1>1. Begins(s, t) /\ Len(t) = n + 1 /\ t[n + 1] = c /\ n \in Nat
  BY OneMore
<1>2. GoodLines(t) /\ NoBlank(t) /\ Unbroken(t, 1, n + 1)
  <2>1. GoodLines(t) /\ NoBlank(t)
    BY SameLines
  <2>2. 1 \in Nat
    OBVIOUS
  <2>3. Unbroken(t, 1, Len(t))
    BY <2>2, SameLines
  <2> QED
    BY <1>1, <2>1, <2>3
<1>3. Marks(a, b, d)
  BY DEF RequestTo
<1>4. CASE c # "cr"
  <2>1. PICK x, y, z \in 1..(n + 11) : RequestNext(p, c, n, a, b, d, x, y, z)
    BY <1>1, <1>3, <1>4, RequestGoes
  <2>2. RequestTo(s, n, x, y, z)
    BY <1>1, <2>1, OtherMarks DEF RequestNext
  <2>3. RequestTo(t, n + 1, x, y, z)
    BY <1>1, <2>1, <2>2 DEF RequestTo, Begins, RequestNext
  <2> QED
    BY <1>1, <1>2, <2>1, <2>3 DEF Reads, InRequestLine, RequestNext
<1>5. CASE c = "cr"
  <2>1. p.state_ = "http_version_minor"
    BY <1>1, <1>3, <1>5, StatesOf, OctetClasses DEF Accepts
  <2>2. n > d /\ q.state_ = "expecting_newline_1"
    BY <1>1, <1>3, <1>5, <2>1, StatesOf DEF Target
  <2>3. RequestTo(t, n, a, b, d)
    BY <1>1 DEF RequestTo, Begins
  <2>4. RequestLine(t, n + 1)
    <3>1. a \in 1..n /\ b \in 1..n /\ d \in 1..n /\ d < n
      BY <1>1, <1>3, <2>2 DEF Marks
    <3> QED
      BY <1>1, <2>3, <3>1 DEF RequestLine
  <2> QED
    BY <1>1, <1>2, <1>5, <2>2, <2>4 DEF Reads, InFirstBreak
<1> QED
  BY <1>4, <1>5

\* An octet that it accepts in a later line, no line feed, leaves it in a later
\* line.
LEMMA GoesOnInHeaderLine ==
  ASSUME NEW p \in Parser, NEW q \in Parser, NEW s \in Seq(Octet), NEW c \in Octet,
         NEW t, t = Append(s, c), c # "lf", GoodLines(s), NoBlank(s),
         NEW m \in 2..(Len(s) + 1), InHeaderLine(p, s, m),
         Accepts(p, c), q.state_ = Target(p.state_, c),
         q.headers = IF p.state_ = "header_line_start" /\ Target(p.state_, c) = "header_name"
                     THEN p.headers + 1 ELSE p.headers
  PROVE  Reads(q, t)
<1> DEFINE n == Len(s)
<1>1. Begins(s, t) /\ Len(t) = n + 1 /\ t[n + 1] = c /\ n \in Nat
  BY OneMore
<1>2. GoodLines(t) /\ NoBlank(t)
  BY SameLines
<1>3. m \in Nat
  OBVIOUS
<1>4. Start(t, m) /\ Unbroken(t, m, Len(t))
  <2>1. Start(s, m) /\ Unbroken(s, m, Len(s))
    BY DEF InHeaderLine
  <2>2. Start(t, m)
    BY <1>3, <2>1, SameLines
  <2>3. Unbroken(t, m, Len(t))
    BY <1>3, <2>1, SameLines
  <2> QED
    BY <2>2, <2>3
<1>5. SUFFICES BeforeLine(q, t, m) \/ InBlank(q, t, m) \/ InField(q, t, m)
               \/ InFold(q, t, m) \/ InBreak(q, t, m)
  BY <1>1, <1>2, <1>4 DEF Reads, InHeaderLine
<1>6. Behind(s, m) <=> Behind(t, m)
  <2>1. \A k \in 2..(m - 1) : k \in Nat
    OBVIOUS
  <2>2. \A k \in Nat : Start(t, k) <=> Start(s, k)
    BY SameLines
  <2> QED
    BY <2>1, <2>2 DEF Behind
<1>7. p.headers \in Nat
  BY DEF Parser
<1>8. \A a : /\ FieldTo(s, m, n, a) => FieldTo(t, m, n, a)
             /\ FoldTo(s, m, n, a) => FoldTo(t, m, n, a)
  BY <1>1 DEF FieldTo, FoldTo, Begins
<1>9. CASE BeforeLine(p, s, m)
  <2>1. n = m - 1 /\ p.state_ = "header_line_start" /\ (p.headers > 0 <=> Behind(s, m))
    BY <1>9 DEF BeforeLine
  <2>2. \/ c = "cr" \/ c \in NameOctet
        \/ c \in {"sp", "tab"} /\ p.headers > 0
    BY <2>1 DEF Accepts
  <2>3. CASE c = "cr"
    <3>1. q.state_ = "expecting_newline_3"
      BY <2>1, <2>3 DEF Target
    <3> QED
      BY <1>1, <2>1, <2>3, <3>1 DEF InBlank
  <2>4. CASE c \in NameOctet
    <3>1. Target(p.state_, c) = "header_name"
      BY <2>1, <2>4, OctetClasses DEF Target
    <3>2. q.headers > 0
      BY <1>7, <2>1, <3>1
    <3>3. FieldTo(t, m, m, m + 1)
      BY <1>1, <2>1, <2>4 DEF FieldTo, FieldRole
    <3>4. q.state_ = FieldState(m, m + 1)
      BY <3>1 DEF FieldState
    <3>5. Len(t) = m /\ m + 1 \in m..(m + 2)
      BY <1>1, <2>1
    <3>6. InField(q, t, m)
      BY <3>2, <3>3, <3>4, <3>5 DEF InField
    <3> QED
      BY <3>6
  <2>5. CASE c \in {"sp", "tab"} /\ p.headers > 0
    <3>1. Target(p.state_, c) = "header_lws"
      BY <2>1, <2>5 DEF Target
    <3>2. q.headers > 0 /\ Behind(t, m)
      BY <1>6, <2>1, <2>5, <3>1
    <3>3. FoldTo(t, m, m, m) /\ q.state_ = FoldState(m, m)
      BY <1>1, <2>1, <2>5, <3>1 DEF FoldTo, FoldRole, FoldState
    <3>4. Len(t) = m /\ m \in m..m
      BY <1>1, <2>1
    <3>5. InFold(q, t, m)
      BY <3>2, <3>3, <3>4 DEF InFold
    <3> QED
      BY <3>5
  <2> QED
    BY <2>2, <2>3, <2>4, <2>5
<1>10. CASE InBlank(p, s, m)
  BY <1>10 DEF InBlank, Accepts
<1>11. CASE InField(p, s, m)
  <2>1. n >= m /\ p.headers > 0
    BY <1>11 DEF InField
  <2>2. PICK a \in m..(n + 2) : FieldTo(s, m, n, a) /\ p.state_ = FieldState(n, a)
    BY <1>11 DEF InField
  <2>3. p.state_ # "header_line_start" /\ q.headers > 0 /\ a \in Nat
    BY <2>1, <2>2 DEF FieldState
  <2>4. CASE c # "cr"
    <3>1. PICK x \in m..(n + 3) :
             /\ FieldTo(s, m, n, x) /\ FieldRole(c, n + 1, x)
             /\ Target(p.state_, c) = FieldState(n + 1, x)
      BY <1>1, <1>3, <2>1, <2>2, <2>3, <2>4, FieldGoes
    <3>2. FieldTo(t, m, n, x)
      BY <1>8, <3>1
    <3>3. FieldTo(t, m, n + 1, x)
      BY <1>1, <3>1, <3>2 DEF FieldTo
    <3>4. InField(q, t, m)
      BY <1>1, <2>1, <2>3, <3>1, <3>3 DEF InField
    <3> QED
      BY <3>4
  <2>5. CASE c = "cr"
    <3>1. p.state_ = "header_value"
      BY <2>2, <2>5, OctetClasses DEF FieldState, Accepts
    <3>2. n > a /\ q.state_ = "expecting_newline_2"
      BY <2>2, <2>5, <3>1 DEF FieldState, Target
    <3>3. FieldTo(t, m, n, a) /\ a \in m..n
      BY <1>8, <2>2, <3>2
    <3>4. HeaderLine(t, m, n + 1)
      BY <1>1, <3>2, <3>3 DEF HeaderLine
    <3>5. InBreak(q, t, m)
      BY <1>1, <2>1, <2>3, <2>5, <3>2, <3>4 DEF InBreak
    <3> QED
      BY <3>5
  <2> QED
    BY <2>4, <2>5
<1>12. CASE InFold(p, s, m)
  <2>1. n >= m /\ p.headers > 0 /\ Behind(t, m)
    BY <1>6, <1>12 DEF InFold
  <2>2. PICK a \in m..n : FoldTo(s, m, n, a) /\ p.state_ = FoldState(n, a)
    BY <1>12 DEF InFold
  <2>3. p.state_ # "header_line_start" /\ q.headers > 0 /\ a \in Nat /\ a <= n
    BY <2>1, <2>2 DEF FoldState
  <2>4. CASE c # "cr"
    <3>1. PICK x \in m..(n + 1) :
             /\ FoldTo(s, m, n, x) /\ FoldRole(c, n + 1, x)
             /\ Target(p.state_, c) = FoldState(n + 1, x)
      BY <1>1, <1>3, <2>1, <2>2, <2>3, <2>4, FoldGoes
    <3>2. FoldTo(t, m, n, x)
      BY <1>8, <3>1
    <3>3. FoldTo(t, m, n + 1, x)
      BY <1>1, <3>1, <3>2 DEF FoldTo
    <3>4. InFold(q, t, m)
      BY <1>1, <2>1, <2>3, <3>1, <3>3 DEF InFold
    <3> QED
      BY <3>4
  <2>5. CASE c = "cr"
    <3>1. q.state_ = "expecting_newline_2"
      BY <2>2, <2>5 DEF FoldState, Target
    <3>2. FoldTo(t, m, n, a)
      BY <1>8, <2>2
    <3>3. HeaderLine(t, m, n + 1)
      BY <1>1, <2>1, <3>2 DEF HeaderLine
    <3>4. InBreak(q, t, m)
      BY <1>1, <2>1, <2>3, <2>5, <3>1, <3>3 DEF InBreak
    <3> QED
      BY <3>4
  <2> QED
    BY <2>4, <2>5
<1>13. CASE InBreak(p, s, m)
  BY <1>13 DEF InBreak, Accepts
<1> QED
  BY <1>9, <1>10, <1>11, <1>12, <1>13 DEF InHeaderLine

\* A line feed ends the line that a carriage return was read of.
LEMMA LineEnds ==
  ASSUME NEW s \in Seq(Octet), NEW t, t = Append(s, "lf"),
         GoodLines(s), NoBlank(s), NEW m \in 1..(Len(s) - 1), s[Len(s)] = "cr",
         Start(s, m), Unbroken(s, m, Len(s)), GoodLine(s, m, Len(s))
  PROVE  GoodLines(t) /\ NoBlank(t) /\ Start(t, Len(s) + 2)
<1> DEFINE n == Len(s)
<1>1. "lf" \in Octet
  BY OctetClasses
<1>2. /\ Begins(s, t) /\ Len(t) = n + 1 /\ t[n + 1] = "lf" /\ n \in Nat
      /\ \A j \in Nat : BreakAt(t, j) <=> BreakAt(s, j) \/ (j = n /\ j > 0 /\ s[j] = "cr")
  BY <1>1, OneMore
<1>3. n > 1 /\ BreakAt(t, n)
  BY <1>2
<1>4. Start(t, n + 2)
  BY <1>2, <1>3 DEF Start
<1>5. \A j \in Nat : BreakAt(s, j) => j \in 1..(n - 1)
  BY DEF BreakAt
<1>6. NoBlank(t)
  <2> SUFFICES ASSUME NEW i \in 1..Len(t), BreakAt(t, i), BreakAt(t, i + 2)
               PROVE  FALSE
    BY DEF NoBlank, BlankAt
  <2>1. i + 2 <= n /\ BreakAt(s, i)
    BY <1>2, <1>5
  <2>2. CASE i + 2 < n
    <3>1. BreakAt(s, i + 2) /\ i \in 1..n
      BY <1>2, <2>1, <2>2
    <3> QED
      BY <2>1, <3>1 DEF NoBlank, BlankAt
  <2>3. CASE i + 2 = n
    <3>1. Start(s, n)
      BY <2>1, <2>3 DEF Start
    <3>2. Unbroken(s, n, n - 1) /\ Unbroken(s, m, n - 1)
      BY DEF Unbroken
    <3>3. m = n
      BY <1>2, <1>3, <3>1, <3>2, OneLine
    <3> QED
      BY <1>2, <3>3
  <2> QED
    BY <2>1, <2>2, <2>3
<1>7. GoodLines(t)
  <2> SUFFICES ASSUME NEW k \in 1..Len(t), NEW e \in 1..Len(t), Start(t, k), Ends(t, k, e)
               PROVE  GoodLine(t, k, e)
    BY DEF GoodLines
  <2>1. k <= e /\ BreakAt(t, e) /\ Unbroken(t, k, e - 1) /\ e <= n
    BY <1>2, <1>5 DEF Ends
  <2>2. Start(s, k)
    BY <1>2, <2>1, BeginsStart
  <2>3. CASE e < n
    <3>1. Ends(s, k, e)
      BY <1>2, <2>3, BeginsEnds
    <3>2. GoodLine(s, k, e)
      BY <2>1, <2>2, <2>3, <3>1 DEF GoodLines
    <3> QED
      BY <1>2, <2>1, <2>3, <3>2, BeginsLine
  <2>4. CASE e = n
    <3>1. Unbroken(s, k, n - 1)
      BY <1>2, <1>3, <2>1, <2>4, BeginsUnbroken
    <3>2. Unbroken(s, m, n - 1)
      BY DEF Unbroken
    <3>3. k = m
      BY <1>2, <1>3, <2>1, <2>2, <2>4, <3>1, <3>2, OneLine
    <3> QED
      BY <1>2, <2>1, <2>4, <3>3, BeginsLine
  <2> QED
    BY <2>1, <2>3, <2>4
<1> QED
  BY <1>4, <1>6, <1>7

\* A line feed that it accepts ends a good line, and the next one starts.
LEMMA GoesToNextLine ==
  ASSUME NEW p \in Parser, NEW q \in Parser, NEW s \in Seq(Octet),
         NEW t, t = Append(s, "lf"), Reads(p, s), Accepts(p, "lf"),
         q.state_ = Target(p.state_, "lf"), q.headers = p.headers
  PROVE  Reads(q, t)
<1> DEFINE n == Len(s)
<1>1. "lf" \in Octet /\ "lf" \notin TextOctet /\ "lf" \notin NameOctet
  BY OctetClasses
<1>2. /\ Begins(s, t) /\ Len(t) = n + 1 /\ n \in Nat
      /\ \A j \in Nat : BreakAt(t, j) <=> BreakAt(s, j) \/ (j = n /\ j > 0 /\ s[j] = "cr")
  BY <1>1, OneMore
<1>3. p.state_ \in {"expecting_newline_1", "expecting_newline_2"}
      /\ q.state_ = "header_line_start"
  <2>1. p.state_ \in {"expecting_newline_1", "expecting_newline_2"}
    BY <1>1 DEF Accepts
  <2> QED
    BY <2>1 DEF Target
<1>4. \A j \in Nat : BreakAt(s, j) => j \in 1..(n - 1)
  BY DEF BreakAt
<1>5. GoodLines(s) /\ NoBlank(s)
  BY DEF Reads
<1>6. Unbroken(t, n + 2, n + 1)
  BY <1>2 DEF Unbroken
<1>7. SUFFICES /\ GoodLines(t) /\ NoBlank(t) /\ Start(t, n + 2)
               /\ q.headers > 0 <=> Behind(t, n + 2)
  <2>1. BeforeLine(q, t, n + 2)
    BY <1>2, <1>3, <1>7 DEF BeforeLine
  <2>2. InHeaderLine(q, t, n + 2)
    BY <1>2, <1>6, <1>7, <2>1 DEF InHeaderLine
  <2>3. n + 2 \in 2..(Len(t) + 1)
    BY <1>2
  <2> QED
    BY <1>7, <2>2, <2>3 DEF Reads
<1>8. CASE /\ Unbroken(s, 1, n) /\ p.headers = 0
           /\ InRequestLine(p, s) \/ InFirstBreak(p, s)
  <2>1. ~InRequestLine(p, s)
    <3> SUFFICES ASSUME NEW a \in 1..(n + 10), NEW b \in 1..(n + 10), NEW d \in 1..(n + 10),
                        Marks(a, b, d), p.state_ = RequestState(n, a, b, d)
                 PROVE  FALSE
      BY DEF InRequestLine, RequestTo
    <3>1. n \in Nat /\ a \in Nat /\ b \in Nat /\ d \in Nat
      BY <1>2
    <3>2. RequestState(n, a, b, d) \notin {"expecting_newline_1", "expecting_newline_2"}
      <4> HIDE DEF n
      <4> QED
        BY <3>1, StatesOf
    <3> QED
      BY <1>3, <3>2, Zenon
  <2>2. RequestLine(s, n) /\ s[n] = "cr" /\ n > 1
    <3>1. RequestLine(s, n) /\ s[n] = "cr"
      BY <1>8, <2>1 DEF InFirstBreak
    <3> QED
      BY <3>1 DEF RequestLine
  <2>3. Start(s, 1) /\ GoodLine(s, 1, n) /\ 1 \in 1..(n - 1)
    BY <1>2, <2>2 DEF Start, GoodLine
  <2>4. GoodLines(t) /\ NoBlank(t) /\ Start(t, n + 2)
    BY <1>5, <1>8, <2>2, <2>3, LineEnds
  <2>5. ~Behind(t, n + 2)
    <3> SUFFICES ASSUME NEW k \in 2..((n + 2) - 1), Start(t, k) PROVE FALSE
      BY DEF Behind
    <3>1. k > 2 /\ BreakAt(t, k - 2) /\ k - 2 \in Nat /\ k - 2 < n
      BY <1>2 DEF Start
    <3>2. BreakAt(s, k - 2)
      BY <1>2, <3>1
    <3> QED
      BY <1>8, <3>1, <3>2 DEF Unbroken
  <2> QED
    BY <1>8, <2>4, <2>5
<1>9. ASSUME NEW m \in 2..(n + 1), InHeaderLine(p, s, m)
      PROVE  /\ GoodLines(t) /\ NoBlank(t) /\ Start(t, n + 2)
             /\ q.headers > 0 <=> Behind(t, n + 2)
  <2>1. ~BeforeLine(p, s, m) /\ ~InBlank(p, s, m) /\ ~InField(p, s, m) /\ ~InFold(p, s, m)
    BY <1>3 DEF BeforeLine, InBlank, InField, InFold, FieldState, FoldState
  <2>2. InBreak(p, s, m) /\ Start(s, m) /\ Unbroken(s, m, n)
    BY <1>9, <2>1 DEF InHeaderLine
  <2>3. n >= m /\ p.headers > 0 /\ HeaderLine(s, m, n) /\ s[n] = "cr"
    BY <2>2 DEF InBreak
  <2>4. m <= n - 1
    BY <2>3 DEF HeaderLine
  <2>5. GoodLine(s, m, n) /\ m \in 1..(n - 1)
    BY <2>3, <2>4 DEF GoodLine
  <2>6. GoodLines(t) /\ NoBlank(t) /\ Start(t, n + 2)
    BY <1>5, <2>2, <2>3, <2>5, LineEnds
  <2>7. Start(t, m) /\ m \in 2..((n + 2) - 1)
    BY <1>2, <2>2, <2>4, BeginsStart
  <2> QED
    BY <2>3, <2>6, <2>7 DEF Behind
<1> QED
  BY <1>8, <1>9 DEF Reads

-----------------------------------------------------------------------------
(***************************************************************************)
(* One octet more: the parser comes to a verdict.                          *)
(***************************************************************************)

\* Where the parser stands when it expects the last line feed.
LEMMA AtLastFeed ==
  ASSUME NEW p \in Parser, NEW s \in Seq(Octet), Reads(p, s),
         p.state_ = "expecting_newline_3"
  PROVE  /\ Len(s) > 2 /\ s[Len(s)] = "cr" /\ BreakAt(s, Len(s) - 2)
         /\ Start(s, Len(s))
<1> DEFINE n == Len(s)
<1>1. n \in Nat
  OBVIOUS
<1>2. ~InFirstBreak(p, s)
  BY DEF InFirstBreak
<1>3. ~InRequestLine(p, s)
  <2> SUFFICES ASSUME NEW a \in 1..(n + 10), NEW b \in 1..(n + 10), NEW d \in 1..(n + 10),
                      Marks(a, b, d), p.state_ = RequestState(n, a, b, d)
               PROVE  FALSE
    BY DEF InRequestLine, RequestTo
  <2>1. n \in Nat /\ a \in Nat /\ b \in Nat /\ d \in Nat
    BY <1>1
  <2>2. RequestState(n, a, b, d) # "expecting_newline_3"
    <3> HIDE DEF n
    <3> QED
      BY <2>1, StatesOf
  <2> QED
    BY <2>2
<1>4. PICK m \in 2..(n + 1) : InHeaderLine(p, s, m)
  BY <1>2, <1>3 DEF Reads
<1>5. InBlank(p, s, m) /\ Start(s, m)
  <2>1. ~BeforeLine(p, s, m) /\ ~InBreak(p, s, m) /\ ~InField(p, s, m) /\ ~InFold(p, s, m)
    BY DEF BeforeLine, InBreak, InField, InFold, FieldState, FoldState
  <2> QED
    BY <1>4, <2>1 DEF InHeaderLine
<1> QED
  BY <1>4, <1>5 DEF InBlank, Start

\* The line feed it calls good ends a header section.
LEMMA GoodIsSection ==
  ASSUME NEW p \in Parser, NEW s \in Seq(Octet), NEW t, t = Append(s, "lf"),
         Reads(p, s), p.state_ = "expecting_newline_3"
  PROVE  Section(t)
<1> DEFINE n == Len(s)
<1>1. "lf" \in Octet
  BY OctetClasses
<1>2. /\ Begins(s, t) /\ Len(t) = n + 1 /\ t[n + 1] = "lf" /\ n \in Nat
      /\ \A j \in Nat : BreakAt(t, j) <=> BreakAt(s, j) \/ (j = n /\ j > 0 /\ s[j] = "cr")
  BY <1>1, OneMore
<1>3. n > 2 /\ s[n] = "cr" /\ BreakAt(s, n - 2) /\ Start(s, n)
  BY AtLastFeed
<1>4. GoodLines(s) /\ NoBlank(s)
  BY DEF Reads
<1>5. \A j \in Nat : BreakAt(s, j) => j \in 1..(n - 1)
  BY DEF BreakAt
<1>6. n # 3
  <2> SUFFICES ASSUME n = 3 PROVE FALSE
    OBVIOUS
  <2>1. Start(s, 1) /\ Ends(s, 1, 1)
    BY <1>3 DEF Start, Ends, Unbroken
  <2>2. RequestLine(s, 1)
    BY <1>3, <1>4, <2>1 DEF GoodLines, GoodLine
  <2> QED
    BY <2>2 DEF RequestLine
<1>7. Len(t) > 4 /\ BlankAt(t, Len(t) - 3)
  <2>1. BreakAt(t, n) /\ BreakAt(t, n - 2)
    BY <1>2, <1>3
  <2>2. BlankAt(t, n - 2)
    <3>1. (n - 2) + 2 = n
      BY <1>2
    <3> QED
      BY <2>1, <3>1 DEF BlankAt
  <2>3. Len(t) = n + 1 /\ n \in Nat /\ n > 2 /\ n # 3
    BY <1>2, <1>3, <1>6
  <2>4. Len(t) - 3 = n - 2 /\ Len(t) > 4
    <3> HIDE DEF n
    <3> QED
      BY <2>3
  <2> QED
    BY <2>2, <2>4
<1>8. ASSUME NEW i \in 1..(Len(t) - 4) PROVE ~BlankAt(t, i)
  <2>1. i < n - 2 /\ i \in 1..n /\ i + 2 \in Nat /\ i + 2 # n
    BY <1>2
  <2>2. BlankAt(t, i) => BlankAt(s, i)
    BY <1>2, <2>1 DEF BlankAt
  <2> QED
    BY <1>4, <2>1, <2>2 DEF NoBlank
<1>9. ASSUME NEW k \in 1..Len(t), NEW e \in 1..Len(t), Start(t, k), k < Len(t) - 1,
             Ends(t, k, e)
      PROVE  GoodLine(t, k, e)
  <2>1. k <= e /\ BreakAt(t, e) /\ Unbroken(t, k, e - 1) /\ e <= n /\ k < n
    BY <1>2, <1>5, <1>9 DEF Ends
  <2>2. Start(s, k)
    BY <1>2, <1>9, <2>1, BeginsStart
  <2>3. e # n
    <3> SUFFICES ASSUME e = n PROVE FALSE
      OBVIOUS
    <3>1. Unbroken(s, k, n - 1)
      BY <1>2, <1>3, <2>1, BeginsUnbroken
    <3>2. Unbroken(s, n, n - 1)
      BY DEF Unbroken
    <3> QED
      BY <1>2, <1>3, <2>1, <2>2, <3>1, <3>2, OneLine
  <2>4. Ends(s, k, e)
    BY <1>2, <1>9, <2>1, <2>3, BeginsEnds
  <2>5. GoodLine(s, k, e)
    BY <1>2, <1>4, <2>1, <2>2, <2>4 DEF GoodLines
  <2> QED
    BY <1>2, <2>1, <2>5, BeginsLine
<1> QED
  BY <1>7, <1>8, <1>9 DEF Section

\* What the parser has read without a verdict is no header section.
LEMMA NotYetSection ==
  ASSUME NEW p, NEW s \in Seq(Octet), Reads(p, s)
  PROVE  ~Section(s)
<1> SUFFICES ASSUME Section(s) PROVE FALSE
  OBVIOUS
<1>1. Len(s) - 3 \in 1..Len(s) /\ BlankAt(s, Len(s) - 3)
  BY DEF Section
<1> QED
  BY <1>1 DEF Reads, NoBlank

(***************************************************************************)
(* The line that the parser is in, in a header section that begins with s: *)
(* it is not the blank one, and ends behind what was read.                 *)
(***************************************************************************)
LEMMA LineGoesOn ==
  ASSUME NEW s \in Seq(Octet), NEW u, Begins(s, u), Section(u), NEW c, c = u[Len(s) + 1],
         Len(u) > Len(s), NEW m \in 1..(Len(s) + 1), Start(s, m), Unbroken(s, m, Len(s)),
         m > 1 => ~(Len(s) = m - 1 /\ c = "cr") /\ ~(Len(s) = m /\ s[m] = "cr" /\ c = "lf")
  PROVE  \E e \in m..Len(u) :
           /\ GoodLine(u, m, e) /\ u[e] = "cr"
           /\ \/ e > Len(s)
              \/ e = Len(s) /\ s[e] = "cr" /\ c = "lf"
<1> DEFINE n == Len(s)
           l == Len(u)
<1>1. /\ u \in Seq(Octet) /\ n \in Nat /\ l \in Nat /\ l > n
      /\ \A i \in 1..n : u[i] = s[i]
  BY DEF Begins
<1>2. l > 4 /\ BreakAt(u, l - 3) /\ BreakAt(u, l - 1)
  BY <1>1 DEF Section, BlankAt
<1>3. Start(u, m)
  BY <1>1, BeginsStart
<1>4. m < l - 1
  <2> SUFFICES ASSUME m >= l - 1 PROVE FALSE
    BY <1>1
  <2>1. m > 2 /\ BreakAt(u, m - 2)
    BY <1>1, <1>2, <1>3 DEF Start
  <2>2. m # l
    <3> SUFFICES ASSUME m = l PROVE FALSE
      OBVIOUS
    <3>1. ~BreakAt(u, (l - 3) + 1)
      BY <1>1, <1>2, BreaksApart
    <3> QED
      BY <1>1, <1>2, <2>1, <3>1
  <2>3. m = l - 1 /\ u[l - 1] = "cr" /\ u[l] = "lf"
    BY <1>1, <1>2, <2>2 DEF BreakAt
  <2>4. m > 1
    BY <2>1
  <2>5. n = m - 1 \/ n = m
    BY <1>1, <2>3
  <2>6. n # m - 1
    <3> SUFFICES ASSUME n = m - 1 PROVE FALSE
      OBVIOUS
    <3>1. c = "cr"
      BY <1>1, <2>3
    <3> QED
      BY <2>4, <3>1
  <2>7. n # m
    <3> SUFFICES ASSUME n = m PROVE FALSE
      OBVIOUS
    <3>1. c = "lf" /\ s[m] = "cr"
      BY <1>1, <2>3
    <3> QED
      BY <2>4, <3>1
  <2> QED
    BY <2>5, <2>6, <2>7
<1>5. PICK e \in m..(l - 1) : Ends(u, m, e)
  <2>1. l - 1 \in Nat /\ m \in Nat \ {0} /\ m <= l - 1
    BY <1>1, <1>4
  <2> HIDE DEF l
  <2> QED
    BY <1>1, <1>2, <2>1, EndExists
<1>6. GoodLine(u, m, e)
  BY <1>1, <1>3, <1>4, <1>5 DEF Section
<1>7. BreakAt(u, e) /\ u[e] = "cr" /\ u[e + 1] = "lf"
  BY <1>5 DEF Ends, BreakAt
<1>8. e >= n
  <2> SUFFICES ASSUME e < n PROVE FALSE
    BY <1>1
  <2>1. BreakAt(s, e) /\ e \in m..n
    BY <1>1, <1>7, BeginsBreak
  <2> QED
    BY <2>1 DEF Unbroken
<1>9. e = n => s[e] = "cr" /\ c = "lf"
  BY <1>1, <1>7
<1> QED
  BY <1>1, <1>5, <1>6, <1>7, <1>8, <1>9

\* No octet of a line is a carriage return.
LEMMA NoReturnInLine ==
  /\ \A j, a, b, d : ~RequestRole("cr", j, a, b, d)
  /\ \A j, a : ~FieldRole("cr", j, a) /\ ~FoldRole("cr", j, a)
BY OctetClasses DEF RequestRole, FieldRole, FoldRole

\* An octet refused in the request line, or where its line feed should be,
\* begins the rest of no header section.
LEMMA HopelessRequestLine ==
  ASSUME NEW p \in Parser, NEW s \in Seq(Octet), NEW c \in Octet, ~Accepts(p, c),
         NEW u, Begins(s, u), Len(u) > Len(s), c = u[Len(s) + 1],
         Unbroken(s, 1, Len(s)), InRequestLine(p, s) \/ InFirstBreak(p, s)
  PROVE  ~Section(u)
<1> SUFFICES ASSUME Section(u) PROVE FALSE
  OBVIOUS
<1> DEFINE n == Len(s)
<1>1. n \in Nat /\ \A i \in 1..n : u[i] = s[i]
  BY DEF Begins
<1>2. PICK e \in 1..Len(u) : /\ GoodLine(u, 1, e) /\ u[e] = "cr"
                             /\ e > n \/ (e = n /\ s[e] = "cr" /\ c = "lf")
  <2>1. Start(s, 1) /\ 1 \in 1..(n + 1) /\ ~(1 > 1)
    BY <1>1 DEF Start
  <2> QED
    BY <2>1, LineGoesOn
<1>3. PICK x \in 1..(e - 1), y \in 1..(e - 1), z \in 1..(e - 1) :
         z < e - 1 /\ RequestTo(u, e - 1, x, y, z)
  BY <1>2 DEF GoodLine, RequestLine
<1>4. Marks(x, y, z) /\ \A j \in 1..(e - 1) : RequestRole(u[j], j, x, y, z)
  BY <1>3 DEF RequestTo
<1>5. CASE InFirstBreak(p, s)
  <2>1. n > 0 /\ s[n] = "cr" /\ p.state_ = "expecting_newline_1"
    BY <1>5 DEF InFirstBreak
  <2>2. c # "lf"
    BY <2>1 DEF Accepts
  <2>3. e > n /\ n \in 1..(e - 1) /\ u[n] = "cr"
    BY <1>1, <1>2, <2>1, <2>2
  <2>4. RequestRole("cr", n, x, y, z)
    BY <1>4, <2>3
  <2> QED
    BY <2>4, NoReturnInLine
<1>6. CASE InRequestLine(p, s)
  <2>1. PICK a, b, d \in 1..(n + 10) :
           RequestTo(s, n, a, b, d) /\ p.state_ = RequestState(n, a, b, d)
    BY <1>6 DEF InRequestLine
  <2>2. e > n
    <3> SUFFICES ASSUME e = n, s[n] = "cr" PROVE FALSE
      BY <1>2
    <3>1. RequestRole("cr", n, a, b, d)
      BY <1>1, <2>1 DEF RequestTo
    <3> QED
      BY <3>1, NoReturnInLine
  <2>3. RequestTo(s, n, x, y, z)
    BY <1>1, <1>4, <2>2 DEF RequestTo
  <2>4. p.state_ = RequestState(n, x, y, z)
    <3>1. Same(n, a, x) /\ Same(n, b, y) /\ Same(n, d, z)
      BY <1>1, <2>1, <2>3, SameMarks
    <3>2. Marks(a, b, d)
      BY <2>1 DEF RequestTo
    <3>3. a \in Nat /\ b \in Nat /\ d \in Nat /\ x \in Nat /\ y \in Nat /\ z \in Nat
      BY <1>1
    <3>4. n \in Nat /\ Marks(x, y, z) /\ p.state_ = RequestState(n, a, b, d)
      BY <1>1, <1>4, <2>1
    <3> HIDE DEF n
    <3> QED
      BY <3>1, <3>2, <3>3, <3>4 DEF Marks, Same, RequestState
  <2>5. CASE e = n + 1
    <3>1. c = "cr" /\ n > z
      BY <1>2, <1>3, <2>5
    <3>2. p.state_ = "http_version_minor"
      <4>1. x \in Nat /\ y \in Nat /\ z \in Nat
        BY <1>1
      <4>2. n > z => RequestState(n, x, y, z) = "http_version_minor"
        <5> HIDE DEF n
        <5> QED
          BY <1>1, <1>4, <4>1, StatesOf
      <4> QED
        BY <2>4, <3>1, <4>2
    <3> QED
      BY <3>1, <3>2 DEF Accepts
  <2>6. CASE e > n + 1
    <3>1. RequestRole(c, n + 1, x, y, z)
      BY <1>1, <1>4, <2>6
    <3>2. x \in Nat /\ y \in Nat /\ z \in Nat
      BY <1>1
    <3> HIDE DEF n
    <3> QED
      BY <1>1, <1>4, <2>4, <3>1, <3>2, RequestAccepts
  <2> QED
    BY <1>1, <2>2, <2>5, <2>6
<1> QED
  BY <1>5, <1>6

\* Nor does one refused in a later line.
LEMMA HopelessHeaderLine ==
  ASSUME NEW p \in Parser, NEW s \in Seq(Octet), NEW c \in Octet, ~Accepts(p, c),
         ~(p.state_ = "expecting_newline_3" /\ c = "lf"),
         NEW u, Begins(s, u), Len(u) > Len(s), c = u[Len(s) + 1],
         NEW m \in 2..(Len(s) + 1), InHeaderLine(p, s, m)
  PROVE  ~Section(u)
<1> SUFFICES ASSUME Section(u) PROVE FALSE
  OBVIOUS
<1> DEFINE n == Len(s)
<1>1. n \in Nat /\ m \in Nat /\ \A i \in 1..n : u[i] = s[i]
  BY DEF Begins
<1>2. /\ Start(s, m) /\ Unbroken(s, m, n)
      /\ \/ BeforeLine(p, s, m) \/ InBlank(p, s, m) \/ InField(p, s, m)
         \/ InFold(p, s, m) \/ InBreak(p, s, m)
  BY DEF InHeaderLine
<1>3. ~(n = m - 1 /\ c = "cr")
  <2> SUFFICES ASSUME n = m - 1, c = "cr" PROVE FALSE
    OBVIOUS
  <2>1. BeforeLine(p, s, m)
    BY <1>1, <1>2 DEF InBlank, InField, InFold, InBreak
  <2> QED
    BY <2>1 DEF BeforeLine, Accepts
<1>4. ~(n = m /\ s[m] = "cr" /\ c = "lf")
  <2> SUFFICES ASSUME n = m, s[m] = "cr", c = "lf" PROVE FALSE
    OBVIOUS
  <2>1. ~BeforeLine(p, s, m) /\ ~InBlank(p, s, m)
    BY <1>1 DEF BeforeLine, InBlank
  <2>2. ~InField(p, s, m)
    BY <1>1, NoReturnInLine DEF InField, FieldTo
  <2>3. ~InFold(p, s, m)
    BY <1>1, NoReturnInLine DEF InFold, FoldTo
  <2>4. ~InBreak(p, s, m)
    BY <1>1 DEF InBreak, HeaderLine
  <2> QED
    BY <1>2, <2>1, <2>2, <2>3, <2>4
<1>5. PICK e \in m..Len(u) : /\ GoodLine(u, m, e) /\ u[e] = "cr"
                             /\ e > n \/ (e = n /\ s[e] = "cr" /\ c = "lf")
  <2>1. m \in 1..(n + 1)
    OBVIOUS
  <2> QED
    BY <1>2, <1>3, <1>4, <2>1, LineGoesOn
<1>6. \/ \E x \in m..(e - 1) : x + 1 < e /\ FieldTo(u, m, e - 1, x)
      \/ Behind(u, m) /\ \E x \in m..(e - 1) : FoldTo(u, m, e - 1, x)
  BY <1>5 DEF GoodLine, HeaderLine
<1>7. m <= e - 1 /\ \A j \in m..(e - 1) : u[j] # "cr"
  BY <1>5, <1>6, NoReturnInLine DEF FieldTo, FoldTo
<1>8. CASE InBlank(p, s, m)
  <2>1. n = m /\ s[n] = "cr" /\ c # "lf"
    BY <1>8 DEF InBlank
  <2> QED
    BY <1>1, <1>5, <1>7, <2>1
<1>9. CASE InBreak(p, s, m)
  <2>1. n >= m /\ s[n] = "cr" /\ c # "lf"
    BY <1>9 DEF InBreak, Accepts
  <2> QED
    BY <1>1, <1>5, <1>7, <2>1
<1>10. CASE BeforeLine(p, s, m)
  <2>1. n = m - 1 /\ p.state_ = "header_line_start" /\ (p.headers > 0 <=> Behind(s, m))
    BY <1>10 DEF BeforeLine
  <2>2. c = u[m]
    BY <1>1, <2>1
  <2>3. CASE \E x \in m..(e - 1) : x + 1 < e /\ FieldTo(u, m, e - 1, x)
    <3>1. c \in NameOctet
      BY <1>1, <1>7, <2>2, <2>3 DEF FieldTo, FieldRole
    <3> QED
      BY <2>1, <3>1 DEF Accepts
  <2>4. CASE Behind(u, m) /\ \E x \in m..(e - 1) : FoldTo(u, m, e - 1, x)
    <3>1. c \in {"sp", "tab"}
      BY <1>1, <1>7, <2>2, <2>4 DEF FoldTo, FoldRole
    <3>2. \A k \in 2..(m - 1) : k \in Nat /\ k <= n + 1
      BY <2>1
    <3>3. Behind(s, m)
      BY <2>4, <3>2, BeginsStart DEF Behind
    <3> QED
      BY <2>1, <3>1, <3>3 DEF Accepts
  <2> QED
    BY <1>6, <2>3, <2>4
<1>11. CASE InField(p, s, m)
  <2>1. PICK a \in m..(n + 2) : FieldTo(s, m, n, a) /\ p.state_ = FieldState(n, a)
    BY <1>11 DEF InField
  <2>2. n >= m
    BY <1>11 DEF InField
  <2>3. e > n
    <3>1. s[n] # "cr"
      BY <1>1, <2>1, <2>2, NoReturnInLine DEF FieldTo
    <3> QED
      BY <1>5, <3>1
  <2>4. s[m] \in NameOctet
    BY <1>1, <2>1, <2>2 DEF FieldTo, FieldRole
  <2>5. ~(\E x \in m..(e - 1) : FoldTo(u, m, e - 1, x))
    <3> SUFFICES ASSUME NEW x \in m..(e - 1), FoldTo(u, m, e - 1, x) PROVE FALSE
      OBVIOUS
    <3>1. u[m] \in {"sp", "tab"}
      BY <1>1, <1>7 DEF FoldTo, FoldRole
    <3> QED
      BY <1>1, <2>2, <2>4, <3>1, OctetClasses
  <2>6. PICK x \in m..(e - 1) : x + 1 < e /\ FieldTo(u, m, e - 1, x)
    BY <1>6, <2>5
  <2>7. FieldTo(s, m, n, x)
    BY <1>1, <2>3, <2>6 DEF FieldTo
  <2>8. p.state_ = FieldState(n, x)
    BY <1>1, <2>1, <2>2, <2>6, <2>7, FieldIsOne
  <2>9. CASE e = n + 1
    <3>1. c = "cr" /\ n > x
      BY <1>5, <2>6, <2>9
    <3>2. p.state_ = "header_value"
      BY <2>8, <3>1 DEF FieldState
    <3> QED
      BY <3>1, <3>2 DEF Accepts
  <2>10. CASE e > n + 1
    <3>1. FieldRole(c, n + 1, x)
      BY <1>1, <2>2, <2>6, <2>10 DEF FieldTo
    <3> QED
      BY <1>1, <2>6, <2>8, <3>1, FieldAccepts
  <2> QED
    BY <1>1, <2>3, <2>9, <2>10
<1>12. CASE InFold(p, s, m)
  <2>1. PICK a \in m..n : FoldTo(s, m, n, a) /\ p.state_ = FoldState(n, a)
    BY <1>12 DEF InFold
  <2>2. n >= m
    BY <1>12 DEF InFold
  <2>3. e > n
    <3>1. s[n] # "cr"
      BY <1>1, <2>1, <2>2, NoReturnInLine DEF FoldTo
    <3> QED
      BY <1>5, <3>1
  <2>4. s[m] \in {"sp", "tab"}
    BY <1>1, <2>1, <2>2 DEF FoldTo, FoldRole
  <2>5. ~(\E x \in m..(e - 1) : x + 1 < e /\ FieldTo(u, m, e - 1, x))
    <3> SUFFICES ASSUME NEW x \in m..(e - 1), FieldTo(u, m, e - 1, x) PROVE FALSE
      OBVIOUS
    <3>1. u[m] \in NameOctet
      BY <1>1, <1>7 DEF FieldTo, FieldRole
    <3> QED
      BY <1>1, <2>2, <2>4, <3>1, OctetClasses
  <2>6. PICK x \in m..(e - 1) : FoldTo(u, m, e - 1, x)
    BY <1>6, <2>5
  <2>7. FoldTo(s, m, n, x)
    BY <1>1, <2>3, <2>6 DEF FoldTo
  <2>8. p.state_ = FoldState(n, x)
    BY <1>1, <2>1, <2>2, <2>6, <2>7, FoldIsOne
  <2>9. CASE e = n + 1
    <3>1. c = "cr"
      BY <1>5, <2>9
    <3> QED
      BY <2>8, <3>1 DEF FoldState, Accepts
  <2>10. CASE e > n + 1
    <3>1. FoldRole(c, n + 1, x)
      BY <1>1, <2>2, <2>6, <2>10 DEF FoldTo
    <3> QED
      BY <1>1, <2>6, <2>8, <3>1, FoldAccepts
  <2> QED
    BY <1>1, <2>3, <2>9, <2>10
<1> QED
  BY <1>2, <1>8, <1>9, <1>10, <1>11, <1>12

(***************************************************************************)
(* consume() and the grammar: where it goes on the octets are read, where  *)
(* it returns good they are a header section, and where it returns bad no  *)
(* header section begins with them.                                        *)
(***************************************************************************)
LEMMA StepReads ==
  ASSUME NEW p \in Parser, NEW s \in Seq(Octet), NEW c \in Octet, Reads(p, s),
         NEW r, r = Consume(p, c), r.parser \in Parser, NEW t, t = Append(s, c)
  PROVE  /\ r.result = "indeterminate" => Reads(r.parser, t)
         /\ r.result = "good" => Section(t)
         /\ r.result = "bad" => \A u : Begins(t, u) => ~Section(u)
<1>1. /\ Begins(s, t) /\ Len(t) = Len(s) + 1 /\ t[Len(s) + 1] = c /\ Len(s) \in Nat
  BY OneMore
<1>2. ASSUME r.result = "indeterminate" PROVE Reads(r.parser, t)
  <2>1. /\ Accepts(p, c) /\ r.parser.state_ = Target(p.state_, c)
        /\ r.parser.headers = IF /\ p.state_ = "header_line_start"
                                 /\ Target(p.state_, c) = "header_name"
                              THEN p.headers + 1 ELSE p.headers
    BY <1>2, ConsumeIs
  <2>2. CASE c = "lf"
    <3>1. "lf" \notin TextOctet /\ "lf" \notin NameOctet
      BY OctetClasses
    <3>2. p.state_ # "header_line_start"
      BY <2>1, <2>2, <3>1 DEF Accepts
    <3>3. r.parser.headers = p.headers
      BY <2>1, <3>2
    <3> QED
      BY <2>1, <2>2, <3>3, GoesToNextLine
  <2>3. CASE c # "lf"
    <3>1. GoodLines(s) /\ NoBlank(s)
      BY DEF Reads
    <3>2. CASE Unbroken(s, 1, Len(s)) /\ p.headers = 0 /\ InRequestLine(p, s)
      <4>1. PICK a, b, d \in 1..(Len(s) + 10) :
              RequestTo(s, Len(s), a, b, d) /\ p.state_ = RequestState(Len(s), a, b, d)
        BY <3>2 DEF InRequestLine
      <4>2. a \in Nat /\ b \in Nat /\ d \in Nat /\ Marks(a, b, d)
        BY <4>1 DEF RequestTo
      <4>3. RequestState(Len(s), a, b, d) # "header_line_start"
        <5>1. Len(s) \in Nat
          BY <1>1
        <5> QED
          BY <4>2, <5>1, StatesOf
      <4>4. r.parser.headers = 0
        BY <2>1, <3>2, <4>1, <4>3
      <4> QED
        BY <2>1, <2>3, <3>1, <3>2, <4>1, <4>2, <4>4, GoesOnInRequestLine
    <3>3. ~InFirstBreak(p, s)
      BY <2>1, <2>3 DEF InFirstBreak, Accepts
    <3>4. ASSUME NEW m \in 2..(Len(s) + 1), InHeaderLine(p, s, m)
          PROVE  Reads(r.parser, t)
      BY <2>1, <2>3, <3>1, <3>4, GoesOnInHeaderLine
    <3> QED
      BY <3>2, <3>3, <3>4 DEF Reads
  <2> QED
    BY <2>2, <2>3
<1>3. ASSUME r.result = "good" PROVE Section(t)
  <2>1. p.state_ = "expecting_newline_3" /\ c = "lf"
    BY <1>3, ConsumeIs
  <2> QED
    BY <2>1, GoodIsSection
<1>4. ASSUME r.result = "bad", NEW u, Begins(t, u) PROVE ~Section(u)
  <2>1. ~Accepts(p, c) /\ ~(p.state_ = "expecting_newline_3" /\ c = "lf")
    BY <1>4, ConsumeIs
  <2>2. Begins(s, u) /\ Len(u) > Len(s) /\ c = u[Len(s) + 1]
    BY <1>1, <1>4 DEF Begins
  <2>3. CASE Unbroken(s, 1, Len(s)) /\ (InRequestLine(p, s) \/ InFirstBreak(p, s))
    BY <2>1, <2>2, <2>3, HopelessRequestLine
  <2>4. ASSUME NEW m \in 2..(Len(s) + 1), InHeaderLine(p, s, m) PROVE ~Section(u)
    BY <2>1, <2>2, <2>4, HopelessHeaderLine
  <2> QED
    BY <2>3, <2>4 DEF Reads
<1> QED
  BY <1>2, <1>3, <1>4

\* A new parser has read nothing.
LEMMA NewReads == Reads(NewParser, <<>>)
<1>1. Len(<<>>) = 0 /\ \A j : ~BreakAt(<<>>, j)
  BY DEF BreakAt
<1>2. RequestTo(<<>>, 0, 2, 3, 10) /\ RequestState(0, 2, 3, 10) = "method_start"
  BY DEF RequestTo, Marks, RequestState
<1>3. InRequestLine(NewParser, <<>>)
  BY <1>1, <1>2 DEF InRequestLine, NewParser
<1> QED
  BY <1>1, <1>3 DEF Reads, GoodLines, NoBlank, Unbroken, NewParser

-----------------------------------------------------------------------------
(***************************************************************************)
(* The grammar by positions: what RequestGrammar cuts out of s.            *)
(***************************************************************************)

\* The octets of s from x to y, and what stands left and right of k in them.
LEMMA Cut ==
  ASSUME NEW s \in Seq(Octet), NEW x \in Nat \ {0}, NEW y \in Nat,
         x <= y + 1, y <= Len(s), NEW v, v = SubSeq(s, x, y)
  PROVE  /\ v \in Seq(Octet) /\ Len(v) = (y - x) + 1 /\ DOMAIN v = 1..((y - x) + 1)
         /\ \A i \in 1..((y - x) + 1) : v[i] = s[(x + i) - 1]
         /\ \A i \in 1..((y - x) + 1) :
              /\ SubSeq(v, 1, i - 1) = SubSeq(s, x, (x + i) - 2)
              /\ SubSeq(v, 1, i) = SubSeq(s, x, (x + i) - 1)
              /\ SubSeq(v, i + 1, Len(v)) = SubSeq(s, x + i, y)
<1>1. /\ v \in Seq(Octet) /\ Len(v) = (y - x) + 1 /\ DOMAIN v = 1..((y - x) + 1)
      /\ \A i \in 1..((y - x) + 1) : v[i] = s[(x + i) - 1]
  BY SubSeqProperties
<1>2. ASSUME NEW i \in 1..((y - x) + 1)
      PROVE  /\ SubSeq(v, 1, i - 1) = SubSeq(s, x, (x + i) - 2)
             /\ SubSeq(v, 1, i) = SubSeq(s, x, (x + i) - 1)
             /\ SubSeq(v, i + 1, Len(v)) = SubSeq(s, x + i, y)
  BY <1>1
<1> QED
  BY <1>1, <1>2

\* What the words of the grammar ask of a part of s, by its positions.
LEMMA AllInCut ==
  ASSUME NEW s \in Seq(Octet), NEW x \in Nat \ {0}, NEW y \in Nat,
         x <= y + 1, y <= Len(s), NEW S
  PROVE  /\ AllIn(SubSeq(s, x, y), S) <=> \A j \in x..y : s[j] \in S
         /\ NonEmptyWord(SubSeq(s, x, y), S) <=> x <= y /\ \A j \in x..y : s[j] \in S
         /\ SubSeq(s, x, y) = <<>> <=> x = y + 1
<1> DEFINE v == SubSeq(s, x, y)
<1>1. /\ v \in Seq(Octet) /\ Len(v) = (y - x) + 1 /\ DOMAIN v = 1..((y - x) + 1)
      /\ \A i \in 1..((y - x) + 1) : v[i] = s[(x + i) - 1]
  BY Cut
<1> HIDE DEF v
<1>2. \A j \in x..y : /\ (j - x) + 1 \in 1..((y - x) + 1)
                      /\ v[(j - x) + 1] = s[j]
  BY <1>1
<1>3. \A i \in 1..((y - x) + 1) : (x + i) - 1 \in x..y
  OBVIOUS
<1>4. AllIn(v, S) <=> \A j \in x..y : s[j] \in S
  BY <1>1, <1>2, <1>3 DEF AllIn
<1>5. v = <<>> <=> x = y + 1
  BY <1>1
<1> QED
  BY <1>4, <1>5 DEF NonEmptyWord, v

\* A version number, and the rest of a request line from its second space on.
VersionIn(s, x, y) ==
  /\ x + 5 <= y /\ s[x] = "H" /\ s[x + 1] = "T" /\ s[x + 2] = "T" /\ s[x + 3] = "P"
  /\ s[x + 4] = "/"
  /\ \E d \in (x + 6)..(y - 1) : /\ s[d] = "dot"
                                 /\ \A j \in (x + 5)..(d - 1) : s[j] = "digit"
                                 /\ \A j \in (d + 1)..y : s[j] = "digit"

\* A version, by its positions.
LEMMA VersionIs ==
  ASSUME NEW s \in Seq(Octet), NEW x \in Nat \ {0}, NEW y \in Nat,
         x <= y + 1, y <= Len(s)
  PROVE  IsVersion(SubSeq(s, x, y)) <=> VersionIn(s, x, y)
<1> DEFINE v == SubSeq(s, x, y)
           w == SubSeq(s, x + 5, y)
<1>1. /\ v \in Seq(Octet) /\ Len(v) = (y - x) + 1
      /\ \A i \in 1..((y - x) + 1) : v[i] = s[(x + i) - 1]
  BY Cut
<1>2. CASE x + 5 <= y
  <2>1. Len(v) > 5 /\ v[1] = s[x] /\ v[2] = s[x + 1] /\ v[3] = s[x + 2] /\ v[4] = s[x + 3]
        /\ v[5] = s[x + 4]
    <3>1. /\ 1 \in 1..((y - x) + 1) /\ 2 \in 1..((y - x) + 1) /\ 3 \in 1..((y - x) + 1)
          /\ 4 \in 1..((y - x) + 1) /\ 5 \in 1..((y - x) + 1) /\ Len(v) > 5
      BY <1>1, <1>2
    <3>2. /\ v[1] = s[(x + 1) - 1] /\ v[2] = s[(x + 2) - 1] /\ v[3] = s[(x + 3) - 1]
          /\ v[4] = s[(x + 4) - 1] /\ v[5] = s[(x + 5) - 1]
      BY <1>1, <3>1
    <3>3. /\ (x + 1) - 1 = x /\ (x + 2) - 1 = x + 1 /\ (x + 3) - 1 = x + 2
          /\ (x + 4) - 1 = x + 3 /\ (x + 5) - 1 = x + 4
      OBVIOUS
    <3> QED
      BY <3>1, <3>2, <3>3
  <2>2. SubSeq(v, 1, 5) = <<"H", "T", "T", "P", "/">> <=>
          /\ v[1] = "H" /\ v[2] = "T" /\ v[3] = "T" /\ v[4] = "P" /\ v[5] = "/"
    <3> DEFINE h == SubSeq(v, 1, 5)
               k == <<"H", "T", "T", "P", "/">>
    <3> HIDE DEF v
    <3>1. h \in Seq(Octet) /\ Len(h) = 5 /\ \A i \in 1..5 : h[i] = v[i]
      BY <1>1, <2>1
    <3>2. h[1] = v[1] /\ h[2] = v[2] /\ h[3] = v[3] /\ h[4] = v[4] /\ h[5] = v[5]
      BY <3>1
    <3>3. /\ k \in Seq(Octet) /\ Len(k) = 5
          /\ k[1] = "H" /\ k[2] = "T" /\ k[3] = "T" /\ k[4] = "P" /\ k[5] = "/"
      <4>1. "H" \in Octet /\ "T" \in Octet /\ "P" \in Octet /\ "/" \in Octet
        BY DEF Octet, Token, Path
      <4> QED
        BY <4>1
    <3> HIDE DEF h, k
    <3>4. (\A i \in 1..5 : h[i] = k[i]) => h = k
      <4> SUFFICES ASSUME \A i \in 1..5 : h[i] = k[i] PROVE h = k
        OBVIOUS
      <4>1. Len(h) = Len(k) /\ \A i \in 1..Len(h) : h[i] = k[i]
        BY <3>1, <3>3
      <4> QED
        BY <3>1, <3>3, <4>1, SeqEqual
    <3>5. (h[1] = k[1] /\ h[2] = k[2] /\ h[3] = k[3] /\ h[4] = k[4] /\ h[5] = k[5]) => h = k
      BY <3>4
    <3>6. h = k <=> (v[1] = "H" /\ v[2] = "T" /\ v[3] = "T" /\ v[4] = "P" /\ v[5] = "/")
      BY <3>2, <3>3, <3>5
    <3> QED
      BY <3>6 DEF h, k
  <2>3. SubSeq(v, 6, Len(v)) = w
    <3>1. 5 \in 1..((y - x) + 1)
      BY <1>2
    <3>2. SubSeq(v, 5 + 1, Len(v)) = SubSeq(s, x + 5, y)
      BY <3>1, Cut
    <3>3. 5 + 1 = 6
      OBVIOUS
    <3> QED
      BY <3>2, <3>3
  <2>4. IsVersion(v) <=> /\ v[1] = "H" /\ v[2] = "T" /\ v[3] = "T" /\ v[4] = "P" /\ v[5] = "/"
                         /\ SplitAt(w, "dot", IsNumber, IsNumber)
    <3> HIDE DEF v, w
    <3> QED
      BY <2>1, <2>2, <2>3 DEF IsVersion
  <2> DEFINE z == (y - (x + 5)) + 1
  <2>5. /\ DOMAIN w = 1..z /\ \A i \in 1..z : /\ w[i] = s[((x + 5) + i) - 1]
                                             /\ SubSeq(w, 1, i - 1) = SubSeq(s, x + 5, ((x + 5) + i) - 2)
                                             /\ SubSeq(w, i + 1, Len(w)) = SubSeq(s, (x + 5) + i, y)
    <3>1. x + 5 \in Nat \ {0} /\ x + 5 <= y + 1
      BY <1>2
    <3> QED
      BY <3>1, Cut
  <2>6. \A i \in 1..z :
          /\ IsNumber(SubSeq(w, 1, i - 1)) <=>
               (1 < i /\ \A j \in (x + 5)..(((x + 5) + i) - 2) : s[j] = "digit")
          /\ IsNumber(SubSeq(w, i + 1, Len(w))) <=>
               (i < z /\ \A j \in ((x + 5) + i)..y : s[j] = "digit")
    <3> SUFFICES ASSUME NEW i \in 1..z
                 PROVE  /\ IsNumber(SubSeq(w, 1, i - 1)) <=>
                             (1 < i /\ \A j \in (x + 5)..(((x + 5) + i) - 2) : s[j] = "digit")
                        /\ IsNumber(SubSeq(w, i + 1, Len(w))) <=>
                             (i < z /\ \A j \in ((x + 5) + i)..y : s[j] = "digit")
      OBVIOUS
    <3>1. /\ x + 5 \in Nat \ {0} /\ ((x + 5) + i) - 2 \in Nat /\ (x + 5) + i \in Nat \ {0}
          /\ ((x + 5) + i) - 2 <= y /\ (x + 5) + i <= y + 1 /\ x + 5 <= (((x + 5) + i) - 2) + 1
      BY <1>2
    <3>2. IsNumber(SubSeq(s, x + 5, ((x + 5) + i) - 2)) <=>
            (x + 5 <= ((x + 5) + i) - 2 /\ \A j \in (x + 5)..(((x + 5) + i) - 2) : s[j] \in Digit)
      BY <3>1, AllInCut DEF IsNumber
    <3>3. IsNumber(SubSeq(s, (x + 5) + i, y)) <=>
            ((x + 5) + i <= y /\ \A j \in ((x + 5) + i)..y : s[j] \in Digit)
      BY <3>1, AllInCut DEF IsNumber
    <3>4. \A o : o \in Digit <=> o = "digit"
      BY DEF Digit
    <3>5. (x + 5 <= ((x + 5) + i) - 2 <=> 1 < i) /\ ((x + 5) + i <= y <=> i < z)
      BY <1>2
    <3> HIDE DEF z, w
    <3> QED
      BY <2>5, <3>2, <3>3, <3>4, <3>5
  <2>7. SplitAt(w, "dot", IsNumber, IsNumber) <=>
          \E i \in 1..z : /\ s[((x + 5) + i) - 1] = "dot" /\ 1 < i /\ i < z
                          /\ \A j \in (x + 5)..(((x + 5) + i) - 2) : s[j] = "digit"
                          /\ \A j \in ((x + 5) + i)..y : s[j] = "digit"
    <3> HIDE DEF z, w
    <3> QED
      BY <2>5, <2>6 DEF SplitAt
  <2>8. (\E i \in 1..z : /\ s[((x + 5) + i) - 1] = "dot" /\ 1 < i /\ i < z
                         /\ \A j \in (x + 5)..(((x + 5) + i) - 2) : s[j] = "digit"
                         /\ \A j \in ((x + 5) + i)..y : s[j] = "digit")
        <=> \E d \in (x + 6)..(y - 1) : /\ s[d] = "dot"
                                        /\ \A j \in (x + 5)..(d - 1) : s[j] = "digit"
                                        /\ \A j \in (d + 1)..y : s[j] = "digit"
    <3>1. ASSUME NEW i \in 1..z, s[((x + 5) + i) - 1] = "dot", 1 < i, i < z,
                 \A j \in (x + 5)..(((x + 5) + i) - 2) : s[j] = "digit",
                 \A j \in ((x + 5) + i)..y : s[j] = "digit"
          PROVE  \E d \in (x + 6)..(y - 1) : /\ s[d] = "dot"
                                             /\ \A j \in (x + 5)..(d - 1) : s[j] = "digit"
                                             /\ \A j \in (d + 1)..y : s[j] = "digit"
      <4> DEFINE d == ((x + 5) + i) - 1
      <4>1. d \in (x + 6)..(y - 1) /\ d - 1 = ((x + 5) + i) - 2 /\ d + 1 = (x + 5) + i
        BY <3>1
      <4>2. s[d] = "dot"
        BY <3>1
      <4> HIDE DEF d
      <4> QED
        BY <3>1, <4>1, <4>2
    <3>2. ASSUME NEW d \in (x + 6)..(y - 1), s[d] = "dot",
                 \A j \in (x + 5)..(d - 1) : s[j] = "digit",
                 \A j \in (d + 1)..y : s[j] = "digit"
          PROVE  \E i \in 1..z : /\ s[((x + 5) + i) - 1] = "dot" /\ 1 < i /\ i < z
                                 /\ \A j \in (x + 5)..(((x + 5) + i) - 2) : s[j] = "digit"
                                 /\ \A j \in ((x + 5) + i)..y : s[j] = "digit"
      <4> DEFINE i == (d - (x + 5)) + 1
      <4>1. /\ i \in 1..z /\ 1 < i /\ i < z /\ d = ((x + 5) + i) - 1
            /\ d - 1 = ((x + 5) + i) - 2 /\ d + 1 = (x + 5) + i
        OBVIOUS
      <4> HIDE DEF i, z
      <4> QED
        BY <3>2, <4>1
    <3> QED
      BY <3>1, <3>2
  <2> HIDE DEF v, w, z
  <2>9. IsVersion(v) <=> VersionIn(s, x, y)
    BY <1>2, <2>1, <2>4, <2>7, <2>8 DEF VersionIn
  <2> QED
    BY <2>9 DEF v
<1>3. CASE ~(x + 5 <= y)
  <2>1. ~(Len(v) > 5)
    BY <1>1, <1>3
  <2> QED
    BY <1>3, <2>1 DEF IsVersion, VersionIn
<1> QED
  BY <1>2, <1>3

UriIn(s, x, y) ==
  \E b \in x..y : /\ s[b] = "sp"
                  /\ \A j \in x..(b - 1) : s[j] \in TextOctet \ {"sp"}
                  /\ VersionIn(s, b + 1, y)

\* A URI and a version, by their positions.
LEMMA UriIs ==
  ASSUME NEW s \in Seq(Octet), NEW x \in Nat \ {0}, NEW y \in Nat,
         x <= y + 1, y <= Len(s)
  PROVE  IsUriAndVersion(SubSeq(s, x, y)) <=> UriIn(s, x, y)
<1> DEFINE v == SubSeq(s, x, y)
           z == (y - x) + 1
<1>1. /\ DOMAIN v = 1..z
      /\ \A i \in 1..z : /\ v[i] = s[(x + i) - 1]
                         /\ SubSeq(v, 1, i - 1) = SubSeq(s, x, (x + i) - 2)
                         /\ SubSeq(v, i + 1, Len(v)) = SubSeq(s, x + i, y)
  BY Cut
<1>2. \A i \in 1..z :
        /\ IsUri(SubSeq(v, 1, i - 1)) <=>
             \A j \in x..((x + i) - 2) : s[j] \in TextOctet \ {"sp"}
        /\ IsVersion(SubSeq(v, i + 1, Len(v))) <=> VersionIn(s, x + i, y)
  <2> SUFFICES ASSUME NEW i \in 1..z
               PROVE  /\ IsUri(SubSeq(v, 1, i - 1)) <=>
                           \A j \in x..((x + i) - 2) : s[j] \in TextOctet \ {"sp"}
                      /\ IsVersion(SubSeq(v, i + 1, Len(v))) <=> VersionIn(s, x + i, y)
    OBVIOUS
  <2>1. /\ (x + i) - 2 \in Nat /\ x + i \in Nat \ {0} /\ (x + i) - 2 <= y /\ x + i <= y + 1
        /\ x <= ((x + i) - 2) + 1 /\ (x + i) - 2 <= Len(s)
    OBVIOUS
  <2>2. IsUri(SubSeq(s, x, (x + i) - 2)) <=>
          \A j \in x..((x + i) - 2) : s[j] \in TextOctet \ {"sp"}
    BY <2>1, AllInCut DEF IsUri
  <2>3. IsVersion(SubSeq(s, x + i, y)) <=> VersionIn(s, x + i, y)
    BY <2>1, VersionIs
  <2> HIDE DEF v, z
  <2> QED
    BY <1>1, <2>2, <2>3
<1>3. IsUriAndVersion(v) <=>
        \E i \in 1..z : /\ s[(x + i) - 1] = "sp"
                        /\ \A j \in x..((x + i) - 2) : s[j] \in TextOctet \ {"sp"}
                        /\ VersionIn(s, x + i, y)
  <2> HIDE DEF v, z
  <2> QED
    BY <1>1, <1>2 DEF IsUriAndVersion, SplitAt
<1>4. ASSUME NEW i \in 1..z, s[(x + i) - 1] = "sp",
             \A j \in x..((x + i) - 2) : s[j] \in TextOctet \ {"sp"},
             VersionIn(s, x + i, y)
      PROVE  UriIn(s, x, y)
  <2> DEFINE b == (x + i) - 1
  <2>1. b \in x..y /\ b - 1 = (x + i) - 2 /\ b + 1 = x + i /\ s[b] = "sp"
    BY <1>4
  <2> HIDE DEF b
  <2> QED
    BY <1>4, <2>1 DEF UriIn
<1>5. ASSUME NEW b \in x..y, s[b] = "sp",
             \A j \in x..(b - 1) : s[j] \in TextOctet \ {"sp"}, VersionIn(s, b + 1, y)
      PROVE  \E i \in 1..z : /\ s[(x + i) - 1] = "sp"
                             /\ \A j \in x..((x + i) - 2) : s[j] \in TextOctet \ {"sp"}
                             /\ VersionIn(s, x + i, y)
  <2> DEFINE i == (b - x) + 1
  <2>1. i \in 1..z /\ (x + i) - 1 = b /\ (x + i) - 2 = b - 1 /\ x + i = b + 1
    OBVIOUS
  <2> HIDE DEF i, z
  <2> QED
    BY <1>5, <2>1
<1>6. UriIn(s, x, y) => IsUriAndVersion(v)
  <2> HIDE DEF v, z
  <2> QED
    BY <1>3, <1>5 DEF UriIn
<1>7. IsUriAndVersion(v) => UriIn(s, x, y)
  <2> HIDE DEF v, z
  <2> QED
    BY <1>3, <1>4
<1> QED
  BY <1>6, <1>7

\* A request line is one, however it is said.
LEMMA RequestLineIs ==
  ASSUME NEW s \in Seq(Octet), NEW y \in Nat, y <= Len(s)
  PROVE  IsRequestLine(SubSeq(s, 1, y)) <=> RequestLine(s, y + 1)
<1> DEFINE v == SubSeq(s, 1, y)
           Parts(a) == /\ s[a] = "sp" /\ 1 < a
                       /\ \A j \in 1..(a - 1) : s[j] \in NameOctet
                       /\ UriIn(s, a + 1, y)
<1>1. /\ DOMAIN v = 1..y
      /\ \A i \in 1..y : /\ v[i] = s[i]
                         /\ SubSeq(v, 1, i - 1) = SubSeq(s, 1, i - 1)
                         /\ SubSeq(v, i + 1, Len(v)) = SubSeq(s, i + 1, y)
  <2>1. (y - 1) + 1 = y /\ \A i \in 1..y : (1 + i) - 1 = i /\ (1 + i) - 2 = i - 1 /\ 1 + i = i + 1
    OBVIOUS
  <2>2. /\ DOMAIN v = 1..((y - 1) + 1)
        /\ \A i \in 1..((y - 1) + 1) : /\ v[i] = s[(1 + i) - 1]
                                       /\ SubSeq(v, 1, i - 1) = SubSeq(s, 1, (1 + i) - 2)
                                       /\ SubSeq(v, i + 1, Len(v)) = SubSeq(s, 1 + i, y)
    <3>1. 1 \in Nat \ {0} /\ 1 <= y + 1
      OBVIOUS
    <3> QED
      BY <3>1, Cut
  <2> HIDE DEF v
  <2> QED
    BY <2>1, <2>2
<1>2. \A i \in 1..y :
        /\ IsMethod(SubSeq(v, 1, i - 1)) <=> (1 < i /\ \A j \in 1..(i - 1) : s[j] \in NameOctet)
        /\ IsUriAndVersion(SubSeq(v, i + 1, Len(v))) <=> UriIn(s, i + 1, y)
  <2> SUFFICES ASSUME NEW i \in 1..y
               PROVE  /\ IsMethod(SubSeq(v, 1, i - 1)) <=>
                           (1 < i /\ \A j \in 1..(i - 1) : s[j] \in NameOctet)
                      /\ IsUriAndVersion(SubSeq(v, i + 1, Len(v))) <=> UriIn(s, i + 1, y)
    OBVIOUS
  <2>1. /\ i - 1 \in Nat /\ i + 1 \in Nat \ {0} /\ i + 1 <= y + 1
        /\ 1 <= (i - 1) + 1 /\ i - 1 <= Len(s) /\ 1 \in Nat \ {0} /\ (1 <= i - 1 <=> 1 < i)
    OBVIOUS
  <2>2. IsMethod(SubSeq(s, 1, i - 1)) <=> (1 <= i - 1 /\ \A j \in 1..(i - 1) : s[j] \in NameOctet)
    BY <2>1, AllInCut DEF IsMethod
  <2>3. IsUriAndVersion(SubSeq(s, i + 1, y)) <=> UriIn(s, i + 1, y)
    BY <2>1, UriIs
  <2> HIDE DEF v
  <2> QED
    BY <1>1, <2>1, <2>2, <2>3
<1>3. IsRequestLine(v) <=> \E a \in 1..y : Parts(a)
  <2> HIDE DEF v
  <2> QED
    BY <1>1, <1>2 DEF IsRequestLine, SplitAt
<1>4. ASSUME NEW a \in 1..y, Parts(a) PROVE RequestLine(s, y + 1)
  <2>1. PICK b \in (a + 1)..y : /\ s[b] = "sp"
                                /\ \A j \in (a + 1)..(b - 1) : s[j] \in TextOctet \ {"sp"}
                                /\ VersionIn(s, b + 1, y)
    BY <1>4 DEF UriIn
  <2>2. /\ b + 6 <= y /\ s[b + 1] = "H" /\ s[b + 2] = "T" /\ s[b + 3] = "T" /\ s[b + 4] = "P"
        /\ s[b + 5] = "/"
    <3>1. (b + 1) + 5 = b + 6 /\ (b + 1) + 1 = b + 2 /\ (b + 1) + 2 = b + 3 /\ (b + 1) + 3 = b + 4
          /\ (b + 1) + 4 = b + 5
      OBVIOUS
    <3> QED
      BY <2>1, <3>1 DEF VersionIn
  <2>3. PICK d \in (b + 7)..(y - 1) : /\ s[d] = "dot"
                                      /\ \A j \in (b + 6)..(d - 1) : s[j] = "digit"
                                      /\ \A j \in (d + 1)..y : s[j] = "digit"
    <3>1. (b + 1) + 6 = b + 7 /\ (b + 1) + 5 = b + 6
      OBVIOUS
    <3> QED
      BY <2>1, <3>1 DEF VersionIn
  <2>4. Marks(a, b, d) /\ a \in 1..y /\ b \in 1..y /\ d \in 1..y /\ d < y
    BY <1>4, <2>1, <2>3 DEF Marks
  <2>5. ASSUME NEW j \in 1..y PROVE RequestRole(s[j], j, a, b, d)
    <3>1. a \in Nat /\ b \in Nat /\ d \in Nat /\ j \in Nat /\ a < b /\ b + 7 <= d
      BY <2>1, <2>3
    <3>2. CASE j <= a
      <4>1. \A k \in 1..(a - 1) : s[k] \in NameOctet
        BY <1>4
      <4>2. s[a] = "sp"
        BY <1>4
      <4>3. j \in 1..(a - 1) \/ j = a
        BY <3>1, <3>2
      <4> QED
        BY <3>1, <4>1, <4>2, <4>3 DEF RequestRole
    <3>3. CASE a < j /\ j <= b
      <4>1. j \in (a + 1)..(b - 1) \/ j = b
        BY <3>1, <3>3
      <4> QED
        BY <3>1, <3>3, <4>1, <2>1 DEF RequestRole
    <3>4. CASE b < j /\ j <= b + 5
      <4>1. j = b + 1 \/ j = b + 2 \/ j = b + 3 \/ j = b + 4 \/ j = b + 5
        BY <3>1, <3>4
      <4> QED
        BY <4>1, <2>2 DEF RequestRole
    <3>5. CASE b + 5 < j
      <4>1. j \in (b + 6)..(d - 1) \/ j = d \/ j \in (d + 1)..y
        BY <3>1, <3>5
      <4>2. j = d => s[j] = "dot"
        BY <2>3
      <4>3. j # d => s[j] = "digit"
        BY <2>3, <4>1
      <4> QED
        BY <3>5, <4>2, <4>3 DEF RequestRole
    <3> QED
      BY <3>1, <3>2, <3>3, <3>4, <3>5
  <2>6. RequestTo(s, y, a, b, d)
    BY <2>4, <2>5 DEF RequestTo
  <2>7. (y + 1) - 1 = y
    OBVIOUS
  <2> QED
    BY <2>4, <2>6, <2>7 DEF RequestLine
<1>5. ASSUME NEW a \in 1..y, NEW b \in 1..y, NEW d \in 1..y, d < y, RequestTo(s, y, a, b, d)
      PROVE  Parts(a)
  <2>1. 1 < a /\ a < b /\ b + 6 < d /\ \A j \in 1..y : RequestRole(s[j], j, a, b, d)
    BY <1>5 DEF RequestTo, Marks
  <2>2. s[a] = "sp" /\ \A j \in 1..(a - 1) : s[j] \in NameOctet
    BY <1>5, <2>1 DEF RequestRole
  <2>3. s[b] = "sp" /\ \A j \in (a + 1)..(b - 1) : s[j] \in TextOctet \ {"sp"}
    BY <1>5, <2>1 DEF RequestRole
  <2>4. VersionIn(s, b + 1, y)
    <3>1. /\ (b + 1) + 5 <= y /\ s[b + 1] = "H" /\ s[(b + 1) + 1] = "T" /\ s[(b + 1) + 2] = "T"
          /\ s[(b + 1) + 3] = "P" /\ s[(b + 1) + 4] = "/"
      BY <1>5, <2>1 DEF RequestRole
    <3>2. /\ d \in ((b + 1) + 6)..(y - 1) /\ s[d] = "dot"
          /\ \A j \in ((b + 1) + 5)..(d - 1) : s[j] = "digit"
          /\ \A j \in (d + 1)..y : s[j] = "digit"
      BY <1>5, <2>1 DEF RequestRole
    <3> QED
      BY <3>1, <3>2 DEF VersionIn
  <2>5. b \in (a + 1)..y
    BY <1>5, <2>1
  <2> QED
    BY <2>1, <2>2, <2>3, <2>4, <2>5 DEF UriIn
<1>6. RequestLine(s, y + 1) <=> \E a, b, d \in 1..y : d < y /\ RequestTo(s, y, a, b, d)
  <2>1. (y + 1) - 1 = y
    OBVIOUS
  <2> QED
    BY <2>1 DEF RequestLine
<1> HIDE DEF v, Parts
<1>7. IsRequestLine(v) <=> RequestLine(s, y + 1)
  BY <1>3, <1>4, <1>5, <1>6
<1> QED
  BY <1>7 DEF v

\* The same of a header field.
LEMMA HeaderFieldIs ==
  ASSUME NEW s \in Seq(Octet), NEW x \in Nat \ {0}, NEW y \in Nat,
         x <= y + 1, y <= Len(s)
  PROVE  IsHeaderField(SubSeq(s, x, y)) <=>
           \E a \in x..y : a < y /\ FieldTo(s, x, y, a)
<1> DEFINE v == SubSeq(s, x, y)
           z == (y - x) + 1
           Value(i) == /\ SubSeq(s, x + i, y) # <<>> /\ SubSeq(s, x + i, y)[1] = "sp"
                       /\ AllIn(SubSeq(s, x + i, y), TextOctet)
<1>1. /\ DOMAIN v = 1..z
      /\ \A i \in 1..z : /\ v[i] = s[(x + i) - 1]
                         /\ SubSeq(v, 1, i - 1) = SubSeq(s, x, (x + i) - 2)
                         /\ SubSeq(v, i + 1, Len(v)) = SubSeq(s, x + i, y)
  BY Cut
<1>2. IsHeaderField(v) <=>
        \E i \in 1..z : /\ s[(x + i) - 1] = "colon"
                        /\ IsMethod(SubSeq(s, x, (x + i) - 2)) /\ Value(i)
  <2> HIDE DEF v, z
  <2> QED
    BY <1>1 DEF IsHeaderField, SplitAt
<1>3. ASSUME NEW i \in 1..z
      PROVE  /\ IsMethod(SubSeq(s, x, (x + i) - 2)) <=>
                  (1 < i /\ \A j \in x..((x + i) - 2) : s[j] \in NameOctet)
             /\ Value(i) <=> /\ x + i <= y /\ s[x + i] = "sp"
                             /\ \A j \in (x + i)..y : s[j] \in TextOctet
  <2>1. /\ (x + i) - 2 \in Nat /\ x + i \in Nat \ {0} /\ (x + i) - 2 <= y /\ x + i <= y + 1
        /\ x <= ((x + i) - 2) + 1 /\ (x + i) - 2 <= Len(s) /\ (x <= (x + i) - 2 <=> 1 < i)
    OBVIOUS
  <2>2. IsMethod(SubSeq(s, x, (x + i) - 2)) <=>
          (1 < i /\ \A j \in x..((x + i) - 2) : s[j] \in NameOctet)
    <3>1. IsMethod(SubSeq(s, x, (x + i) - 2)) <=>
            (x <= (x + i) - 2 /\ \A j \in x..((x + i) - 2) : s[j] \in NameOctet)
      BY <2>1, AllInCut DEF IsMethod
    <3> QED
      BY <2>1, <3>1
  <2>3. /\ AllIn(SubSeq(s, x + i, y), TextOctet) <=> \A j \in (x + i)..y : s[j] \in TextOctet
        /\ SubSeq(s, x + i, y) = <<>> <=> x + i = y + 1
    BY <2>1, AllInCut
  <2>4. x + i <= y => SubSeq(s, x + i, y)[1] = s[x + i]
    <3> SUFFICES ASSUME x + i <= y PROVE SubSeq(s, x + i, y)[1] = s[x + i]
      OBVIOUS
    <3>1. 1 \in 1..((y - (x + i)) + 1) /\ ((x + i) + 1) - 1 = x + i
      OBVIOUS
    <3>2. SubSeq(s, x + i, y)[1] = s[((x + i) + 1) - 1]
      BY <2>1, <3>1, Cut
    <3> QED
      BY <3>1, <3>2
  <2> QED
    BY <2>1, <2>2, <2>3, <2>4
<1>4. ASSUME NEW i \in 1..z, s[(x + i) - 1] = "colon",
             IsMethod(SubSeq(s, x, (x + i) - 2)), Value(i)
      PROVE  \E a \in x..y : a < y /\ FieldTo(s, x, y, a)
  <2> DEFINE a == (x + i) - 1
  <2>1. a \in x..y /\ a - 1 = (x + i) - 2 /\ a + 1 = x + i /\ s[a] = "colon" /\ 1 < i /\ x < a
    BY <1>3, <1>4
  <2>2. /\ \A j \in x..(a - 1) : s[j] \in NameOctet
        /\ a + 1 <= y /\ s[a + 1] = "sp" /\ \A j \in (a + 1)..y : s[j] \in TextOctet
    <3> HIDE DEF Value, a
    <3> QED
      BY <1>3, <1>4, <2>1
  <2> HIDE DEF a, Value, z
  <2>3. FieldTo(s, x, y, a)
    BY <2>1, <2>2 DEF FieldTo, FieldRole
  <2> QED
    BY <2>1, <2>2, <2>3
<1>5. ASSUME NEW a \in x..y, a < y, FieldTo(s, x, y, a)
      PROVE  \E i \in 1..z : /\ s[(x + i) - 1] = "colon"
                             /\ IsMethod(SubSeq(s, x, (x + i) - 2)) /\ Value(i)
  <2> DEFINE i == (a - x) + 1
  <2>1. i \in 1..z /\ (x + i) - 1 = a /\ (x + i) - 2 = a - 1 /\ x + i = a + 1
    OBVIOUS
  <2>2. x < a /\ 1 < i
    BY <1>5 DEF FieldTo
  <2>3. s[a] = "colon" /\ s[a + 1] = "sp"
    BY <1>5, <2>2 DEF FieldTo, FieldRole
  <2>4. \A j \in x..(a - 1) : s[j] \in NameOctet
    BY <1>5, <2>2 DEF FieldTo, FieldRole
  <2>5. \A j \in (a + 1)..y : s[j] \in TextOctet
    BY <1>5, <2>2, OctetClasses DEF FieldTo, FieldRole
  <2> HIDE DEF i, Value, z
  <2> QED
    BY <1>3, <1>5, <2>1, <2>2, <2>3, <2>4, <2>5
<1> HIDE DEF v, z, Value
<1>6. IsHeaderField(v) <=> \E a \in x..y : a < y /\ FieldTo(s, x, y, a)
  BY <1>2, <1>4, <1>5
<1> QED
  BY <1>6 DEF v

\* The same of a folded line, of which the white space is taken to the end.
LEMMA FoldedIs ==
  ASSUME NEW s \in Seq(Octet), NEW x \in Nat \ {0}, NEW y \in Nat,
         x <= y + 1, y <= Len(s)
  PROVE  IsFolded(SubSeq(s, x, y)) <=> \E a \in x..y : FoldTo(s, x, y, a)
<1> DEFINE v == SubSeq(s, x, y)
           z == (y - x) + 1
<1>1. /\ DOMAIN v = 1..z
      /\ \A i \in 1..z : /\ SubSeq(v, 1, i) = SubSeq(s, x, (x + i) - 1)
                         /\ SubSeq(v, i + 1, Len(v)) = SubSeq(s, x + i, y)
  <2>1. DOMAIN v = 1..z
    BY Cut
  <2>2. \A i \in 1..z : SubSeq(v, 1, i) = SubSeq(s, x, (x + i) - 1)
    BY Cut
  <2>3. \A i \in 1..z : SubSeq(v, i + 1, Len(v)) = SubSeq(s, x + i, y)
    BY Cut
  <2> QED
    BY <2>1, <2>2, <2>3
<1>2. ASSUME NEW i \in 1..z
      PROVE  /\ AllIn(SubSeq(v, 1, i), {"sp", "tab"}) <=>
                  \A j \in x..((x + i) - 1) : s[j] \in {"sp", "tab"}
             /\ AllIn(SubSeq(v, i + 1, Len(v)), TextOctet) <=>
                  \A j \in (x + i)..y : s[j] \in TextOctet
  <2>1. /\ (x + i) - 1 \in Nat /\ x + i \in Nat \ {0} /\ (x + i) - 1 <= y /\ x + i <= y + 1
        /\ x <= ((x + i) - 1) + 1 /\ (x + i) - 1 <= Len(s)
    OBVIOUS
  <2>2. AllIn(SubSeq(s, x, (x + i) - 1), {"sp", "tab"}) <=>
          \A j \in x..((x + i) - 1) : s[j] \in {"sp", "tab"}
    BY <2>1, AllInCut
  <2>3. AllIn(SubSeq(s, x + i, y), TextOctet) <=> \A j \in (x + i)..y : s[j] \in TextOctet
    BY <2>1, AllInCut
  <2> HIDE DEF v, z
  <2> QED
    BY <1>1, <2>2, <2>3
<1>3. IsFolded(v) <=> \E i \in 1..z : /\ \A j \in x..((x + i) - 1) : s[j] \in {"sp", "tab"}
                                      /\ \A j \in (x + i)..y : s[j] \in TextOctet
  <2> HIDE DEF v, z
  <2> QED
    BY <1>1, <1>2 DEF IsFolded
<1>4. ASSUME NEW i \in 1..z, \A j \in x..((x + i) - 1) : s[j] \in {"sp", "tab"},
             \A j \in (x + i)..y : s[j] \in TextOctet
      PROVE  \E a \in x..y : FoldTo(s, x, y, a)
  <2> DEFINE text == {j \in x..y : s[j] \notin {"sp", "tab"}}
  <2>1. x \in x..((x + i) - 1) /\ x <= y
    OBVIOUS
  <2>2. CASE text = {}
    <3>1. FoldTo(s, x, y, y)
      BY <2>1, <2>2 DEF FoldTo, FoldRole
    <3> QED
      BY <2>1, <3>1
  <2>3. CASE text # {}
    <3>1. text \subseteq Nat
      OBVIOUS
    <3>2. PICK k \in text : \A j \in text : k <= j
      BY <2>3, <3>1, LeastNumber
    <3>3. k \in x..y /\ s[k] \notin {"sp", "tab"} /\ \A j \in x..(k - 1) : s[j] \in {"sp", "tab"}
      BY <3>2
    <3>4. k >= x + i
      <4> SUFFICES ASSUME k < x + i PROVE FALSE
        BY <3>3
      <4>1. k \in x..((x + i) - 1)
        BY <3>3
      <4> QED
        BY <1>4, <3>3, <4>1
    <3>5. \A j \in k..y : s[j] \in TextOctet
      BY <1>4, <3>3, <3>4
    <3>6. FoldTo(s, x, y, k - 1)
      BY <3>3, <3>4, <3>5 DEF FoldTo, FoldRole
    <3>7. k - 1 \in x..y
      BY <3>3, <3>4
    <3> QED
      BY <3>6, <3>7
  <2> QED
    BY <2>2, <2>3
<1>5. ASSUME NEW a \in x..y, FoldTo(s, x, y, a)
      PROVE  \E i \in 1..z : /\ \A j \in x..((x + i) - 1) : s[j] \in {"sp", "tab"}
                             /\ \A j \in (x + i)..y : s[j] \in TextOctet
  <2> DEFINE i == (a - x) + 1
  <2>1. i \in 1..z /\ (x + i) - 1 = a /\ x + i = a + 1
    OBVIOUS
  <2>2. \A j \in x..a : s[j] \in {"sp", "tab"}
    BY <1>5 DEF FoldTo, FoldRole
  <2>3. \A j \in (a + 1)..y : s[j] \in TextOctet
    BY <1>5 DEF FoldTo, FoldRole
  <2> HIDE DEF i, z
  <2> QED
    BY <2>1, <2>2, <2>3
<1> HIDE DEF v, z
<1>6. IsFolded(v) <=> \E a \in x..y : FoldTo(s, x, y, a)
  BY <1>3, <1>4, <1>5
<1> QED
  BY <1>6 DEF v

\* The line that starts at m, by its end.
LEMMA LineAtIs ==
  ASSUME NEW s \in Seq(Octet), NEW m \in Nat \ {0}, NEW e \in Nat, Ends(s, m, e)
  PROVE  LineAt(s, m) = SubSeq(s, m, e - 1)
<1> DEFINE End(j) == BreakAt(s, j) /\ \A k \in m..(j - 1) : ~BreakAt(s, k)
<1>1. e \in m..Len(s) /\ End(e)
  BY DEF Ends, Unbroken, BreakAt
<1>2. ASSUME NEW j \in m..Len(s), End(j) PROVE j = e
  <2>1. ~(j < e)
    BY <1>1, <1>2
  <2>2. ~(e < j)
    BY <1>1, <1>2
  <2> QED
    BY <1>1, <1>2, <2>1, <2>2
<1>3. (CHOOSE j \in m..Len(s) : End(j)) = e
  BY <1>1, <1>2
<1> QED
  BY <1>3 DEF LineAt

\* The end of the header section is the first blank line.
LEMMA HeaderEndIs ==
  ASSUME NEW s \in Seq(Octet), NEW n \in Nat \ {0}
  PROVE  HeaderEnd(s) = n <=> BlankAt(s, n) /\ \A i \in 1..(n - 1) : ~BlankAt(s, i)
<1> DEFINE blanks == {i \in DOMAIN s : BlankAt(s, i)}
<1>1. \A i : BlankAt(s, i) => i \in DOMAIN s /\ i \in Nat /\ i > 0
  BY DEF BlankAt, BreakAt
<1>2. \A i : i \in blanks <=> BlankAt(s, i)
  BY <1>1
<1>3. blanks \subseteq Nat
  BY <1>1
<1>4. CASE blanks = {}
  <2>1. HeaderEnd(s) = 0
    BY <1>4 DEF HeaderEnd
  <2> QED
    BY <1>2, <1>4, <2>1
<1>5. CASE blanks # {}
  <2>1. HeaderEnd(s) = Min(blanks)
    BY <1>5 DEF HeaderEnd
  <2> HIDE DEF blanks
  <2>2. PICK x \in blanks : \A y \in blanks : x <= y
    BY <1>3, <1>5, LeastNumber
  <2>3. Min(blanks) \in blanks /\ \A y \in blanks : Min(blanks) <= y
    BY <2>2 DEF Min
  <2>4. ASSUME HeaderEnd(s) = n
        PROVE  BlankAt(s, n) /\ \A i \in 1..(n - 1) : ~BlankAt(s, i)
    BY <1>2, <2>1, <2>3, <2>4
  <2>5. ASSUME BlankAt(s, n), \A i \in 1..(n - 1) : ~BlankAt(s, i)
        PROVE  HeaderEnd(s) = n
    <3>1. n \in blanks /\ Min(blanks) <= n /\ Min(blanks) \in Nat /\ Min(blanks) > 0
      BY <1>1, <1>2, <1>3, <2>3, <2>5
    <3>2. ~(Min(blanks) < n)
      BY <1>2, <2>3, <2>5, <3>1
    <3> QED
      BY <2>1, <3>1, <3>2
  <2> QED
    BY <2>4, <2>5
<1> QED
  BY <1>4, <1>5

\* A header section is one, however it is said.
LEMMA SectionIs ==
  ASSUME NEW s \in Seq(Octet)
  PROVE  IsHeaderSection(s) <=> Section(s)
<1> DEFINE l == Len(s)
           fields == {i \in LineStarts(s) : i > 1 /\ i < l - 1}
<1>1. l \in Nat
  OBVIOUS
<1>2. CASE ~(l > 4 /\ BlankAt(s, l - 3) /\ \A i \in 1..(l - 4) : ~BlankAt(s, i))
  <2>1. l > 4 => l - 3 \in Nat \ {0} /\ (l - 3) - 1 = l - 4
    BY <1>1
  <2>2. ~(l > 4 /\ HeaderEnd(s) = l - 3)
    <3> SUFFICES ASSUME l > 4, HeaderEnd(s) = l - 3 PROVE FALSE
      OBVIOUS
    <3>1. BlankAt(s, l - 3) /\ \A i \in 1..((l - 3) - 1) : ~BlankAt(s, i)
      BY <2>1, HeaderEndIs
    <3> QED
      BY <1>2, <2>1, <3>1
  <2>3. ~IsHeaderSection(s)
    BY <2>2 DEF IsHeaderSection
  <2>4. ~Section(s)
    BY <1>2 DEF Section
  <2> QED
    BY <2>3, <2>4
<1>3. CASE l > 4 /\ BlankAt(s, l - 3) /\ \A i \in 1..(l - 4) : ~BlankAt(s, i)
  <2>1. HeaderEnd(s) = l - 3
    <3>1. l - 3 \in Nat \ {0} /\ (l - 3) - 1 = l - 4
      <4>1. l \in Nat /\ l > 4
        BY <1>1, <1>3
      <4> HIDE DEF l
      <4> QED
        BY <4>1
    <3>2. BlankAt(s, l - 3) /\ \A i \in 1..((l - 3) - 1) : ~BlankAt(s, i)
      BY <1>3, <3>1
    <3> HIDE DEF l
    <3> QED
      BY <3>1, <3>2, HeaderEndIs
  <2>2. BreakAt(s, l - 1)
    <3>1. (l - 3) + 2 = l - 1
      BY <1>1
    <3> QED
      BY <1>3, <3>1 DEF BlankAt
  <2>3. \A i : i \in fields <=> i \in 2..(l - 2) /\ Start(s, i)
    <3>1. \A i : i \in LineStarts(s) <=> i = 1 \/ \E j \in DOMAIN s : BreakAt(s, j) /\ i = j + 2
      BY DEF LineStarts
    <3>2. ASSUME NEW i \in 2..(l - 2), Start(s, i) PROVE i \in fields
      <4>1. i - 2 \in DOMAIN s /\ BreakAt(s, i - 2) /\ i = (i - 2) + 2
        BY <1>1, <3>2 DEF Start, BreakAt
      <4>2. i > 1 /\ i < l - 1
        BY <1>1
      <4> QED
        BY <3>1, <4>1, <4>2
    <3>3. ASSUME NEW i \in fields PROVE i \in 2..(l - 2) /\ Start(s, i)
      <4>1. PICK j \in DOMAIN s : BreakAt(s, j) /\ i = j + 2
        BY <3>1
      <4>2. j \in Nat /\ j > 0 /\ (j + 2) - 2 = j /\ i < l - 1
        BY <4>1 DEF BreakAt
      <4> QED
        BY <1>1, <4>1, <4>2 DEF Start
    <3> HIDE DEF fields
    <3> QED
      BY <3>2, <3>3
  <2>4. ASSUME NEW m \in 1..(l - 2), Start(s, m)
        PROVE  \E e \in m..(l - 1) : Ends(s, m, e)
    <3>1. l - 1 \in Nat /\ m <= l - 1 /\ m \in Nat \ {0}
      BY <1>1
    <3> HIDE DEF l
    <3> QED
      BY <2>2, <3>1, EndExists
  <2>5. ASSUME NEW m \in Nat \ {0}, NEW e \in Nat, Ends(s, m, e)
        PROVE  /\ m <= e /\ e <= l /\ LineAt(s, m) = SubSeq(s, m, e - 1)
               /\ e - 1 \in Nat /\ m <= (e - 1) + 1 /\ (e - 1) + 1 = e
    BY <2>5, LineAtIs DEF Ends, BreakAt
  <2>6. ASSUME NEW e \in 1..l, Ends(s, 1, e)
        PROVE  IsRequestLine(LineAt(s, 1)) <=> GoodLine(s, 1, e)
    <3>1. 1 \in Nat \ {0}
      OBVIOUS
    <3>2. LineAt(s, 1) = SubSeq(s, 1, e - 1) /\ e - 1 \in Nat /\ (e - 1) + 1 = e /\ e - 1 <= Len(s)
      BY <1>1, <2>5, <2>6, <3>1
    <3>3. IsRequestLine(SubSeq(s, 1, e - 1)) <=> RequestLine(s, (e - 1) + 1)
      BY <3>2, RequestLineIs
    <3> QED
      BY <3>2, <3>3 DEF GoodLine
  <2>7. ASSUME NEW m \in fields, NEW e \in 1..l, Ends(s, m, e)
        PROVE  (IF \A j \in fields : m <= j
                THEN IsHeaderField(LineAt(s, m))
                ELSE IsHeaderField(LineAt(s, m)) \/ IsFolded(LineAt(s, m)))
               <=> GoodLine(s, m, e)
    <3>1. m \in 2..(l - 2) /\ Start(s, m)
      BY <2>3
    <3>2. /\ LineAt(s, m) = SubSeq(s, m, e - 1) /\ e - 1 \in Nat /\ (e - 1) + 1 = e
          /\ e - 1 <= Len(s) /\ m <= (e - 1) + 1 /\ m \in Nat \ {0}
      BY <1>1, <2>5, <2>7, <3>1
    <3>3. IsHeaderField(LineAt(s, m)) <=>
            \E a \in m..(e - 1) : a < e - 1 /\ FieldTo(s, m, e - 1, a)
      BY <3>2, HeaderFieldIs
    <3>4. IsFolded(LineAt(s, m)) <=> \E a \in m..(e - 1) : FoldTo(s, m, e - 1, a)
      BY <3>2, FoldedIs
    <3>5. Behind(s, m) <=> ~(\A j \in fields : m <= j)
      <4>1. ASSUME Behind(s, m) PROVE ~(\A j \in fields : m <= j)
        <5>1. PICK k \in 2..(m - 1) : Start(s, k)
          BY <4>1 DEF Behind
        <5>2. k \in 2..(l - 2) /\ ~(m <= k)
          BY <1>1, <3>1, <5>1
        <5>3. k \in fields
          BY <2>3, <5>1, <5>2
        <5> QED
          BY <5>2, <5>3
      <4>2. ASSUME NEW j \in fields, ~(m <= j) PROVE Behind(s, m)
        <5>1. j \in 2..(l - 2) /\ Start(s, j)
          BY <2>3
        <5>2. j \in 2..(m - 1)
          BY <1>1, <3>1, <4>2, <5>1
        <5> QED
          BY <5>1, <5>2 DEF Behind
      <4> HIDE DEF fields
      <4> QED
        BY <4>1, <4>2
    <3>6. \A a \in m..(e - 1) : a < e - 1 <=> a + 1 < e
      BY <3>2
    <3>7. m # 1
      BY <3>1
    <3> HIDE DEF fields, l
    <3> QED
      BY <3>3, <3>4, <3>5, <3>6, <3>7 DEF GoodLine, HeaderLine
  <2>8. Section(s) <=> \A m, e \in 1..l : Start(s, m) /\ m < l - 1 /\ Ends(s, m, e) => GoodLine(s, m, e)
    BY <1>3 DEF Section
  <2>9. IsHeaderSection(s) <=>
          /\ IsRequestLine(LineAt(s, 1))
          /\ \A m \in fields : IF \A j \in fields : m <= j
                               THEN IsHeaderField(LineAt(s, m))
                               ELSE IsHeaderField(LineAt(s, m)) \/ IsFolded(LineAt(s, m))
    BY <1>3, <2>1 DEF IsHeaderSection
  <2>10. ASSUME Section(s) PROVE IsHeaderSection(s)
    <3>1. IsRequestLine(LineAt(s, 1))
      <4>1. 1 \in 1..(l - 2) /\ Start(s, 1)
        BY <1>1, <1>3 DEF Start
      <4>2. PICK e \in 1..(l - 1) : Ends(s, 1, e)
        BY <2>4, <4>1
      <4>3. 1 < l - 1 /\ e \in 1..l /\ 1 \in 1..l
        BY <1>1, <4>1, <4>2
      <4>4. GoodLine(s, 1, e)
        BY <2>8, <2>10, <4>1, <4>2, <4>3
      <4> QED
        BY <2>6, <4>2, <4>3, <4>4
    <3>2. ASSUME NEW m \in fields
          PROVE  IF \A j \in fields : m <= j
                 THEN IsHeaderField(LineAt(s, m))
                 ELSE IsHeaderField(LineAt(s, m)) \/ IsFolded(LineAt(s, m))
      <4>1. m \in 2..(l - 2) /\ Start(s, m)
        BY <2>3
      <4>2. m \in 1..(l - 2) /\ m \in 1..l /\ m < l - 1
        BY <1>1, <4>1
      <4>3. PICK e \in m..(l - 1) : Ends(s, m, e)
        BY <2>4, <4>1, <4>2
      <4>4. e \in 1..l
        BY <1>1, <4>1, <4>3
      <4>5. GoodLine(s, m, e)
        BY <2>8, <2>10, <4>1, <4>2, <4>3, <4>4
      <4> HIDE DEF fields, l
      <4> QED
        BY <2>7, <4>3, <4>4, <4>5
    <3> HIDE DEF fields, l
    <3> QED
      BY <2>9, <3>1, <3>2
  <2>11. ASSUME IsHeaderSection(s) PROVE Section(s)
    <3> SUFFICES ASSUME NEW m \in 1..l, NEW e \in 1..l, Start(s, m), m < l - 1, Ends(s, m, e)
                 PROVE  GoodLine(s, m, e)
      BY <2>8
    <3>1. CASE m = 1
      BY <2>6, <2>9, <2>11, <3>1
    <3>2. CASE m # 1
      <4>1. m \in 2..(l - 2)
        BY <1>1, <3>2
      <4>2. m \in fields
        BY <2>3, <4>1
      <4> HIDE DEF fields, l
      <4> QED
        BY <2>7, <2>9, <2>11, <4>2
    <3> QED
      BY <3>1, <3>2
  <2> QED
    BY <2>10, <2>11
<1> QED
  BY <1>2, <1>3

-----------------------------------------------------------------------------
(***************************************************************************)
(* consume() keeps the parser what it is.                                  *)
(***************************************************************************)

\* consume() keeps the parser well formed.
LEMMA ConsumeType ==
  ASSUME NEW p \in Parser, NEW c \in Octet
  PROVE  Consume(p, c) \in [parser : Parser, result : Result]
<1> DEFINE enabled == {b \in Case[p.state_] : Taken(p, c, b)}
<1>1. CASE p.state_ = "expecting_newline_3" /\ c = "lf"
  BY <1>1 DEF Consume, Result
<1>2. CASE ~(p.state_ = "expecting_newline_3" /\ c = "lf") /\ enabled = {}
  BY <1>2 DEF Consume, Result
<1>3. CASE ~(p.state_ = "expecting_newline_3" /\ c = "lf") /\ enabled # {}
  <2> DEFINE b == CHOOSE x \in enabled : TRUE
  <2>1. b \in enabled
    BY <1>3
  <2>2. Consume(p, c) = [parser |-> Apply(p, c, b), result |-> "indeterminate"]
    BY <1>3 DEF Consume
  <2>3. b \in Branches
    BY <2>1 DEF Case, Parser
  <2> HIDE DEF b, enabled
  <2>4. b.to \in State
    BY <2>3 DEF Branches, Branch, State
  <2>5. Append(p.method, c) \in Seq(Octet) /\ Append(p.uri, c) \in Seq(Octet)
    BY DEF Parser
  <2>6. Apply(p, c, b) \in Parser
    BY <2>4, <2>5 DEF Apply, HeaderCount, Parser
  <2> QED
    BY <2>2, <2>6 DEF Result
<1> QED
  BY <1>1, <1>2, <1>3

\* No row of the switch leaves expecting_newline_3: from there consume()
\* changes nothing and gives a verdict.
LEMMA Newline3IsFinal ==
  ASSUME NEW p \in Parser, NEW c \in Octet, p.state_ = "expecting_newline_3"
  PROVE  Consume(p, c).parser = p /\ Consume(p, c).result # "indeterminate"
<1> DEFINE enabled == {b \in Case[p.state_] : Taken(p, c, b)}
<1>1. \A b \in Branches : b.from # "expecting_newline_3"
  BY DEF Branches, Branch
<1>2. enabled = {}
  BY <1>1 DEF Case, State
<1> QED
  BY <1>2 DEF Consume

-----------------------------------------------------------------------------
(***************************************************************************)
(* parse(), octet by octet.                                                *)
(***************************************************************************)
ParseStep(before, octets) == Advance(before, Last(octets))

\* The recursion of Parse has a solution for each parser, and so Parse is one.
LEMMA ParseIs ==
  \A call \in Parser \X Seq(Octet) :
    Parse[call] = IF call[2] = <<>>
                  THEN [parser |-> call[1], result |-> "indeterminate"]
                  ELSE ParseStep(Parse[<<call[1], Front(call[2])>>], call[2])
<1> DEFINE Call == [parser : Parser, result : Result]
           base(p) == [parser |-> p, result |-> "indeterminate"]
           step == [x \in Call \X Seq(Octet) |->
                      IF x[2] = <<>> THEN x[1] ELSE ParseStep(x[1], x[2])]
           Of(f, p) == Recurs(f, Octet, base(p), step)
           Is(g) == g = [call \in Parser \X Seq(Octet) |->
                           IF call[2] = <<>>
                           THEN [parser |-> call[1], result |-> "indeterminate"]
                           ELSE ParseStep(g[<<call[1], Front(call[2])>>], call[2])]
<1>1. ASSUME NEW done \in Call, NEW octets \in Seq(Octet), octets # <<>>
      PROVE  ParseStep(done, octets) \in Call
  <2>1. Last(octets) \in Octet
    BY <1>1, CutSeq DEF Last
  <2> QED
    BY <2>1, <1>1, ConsumeType DEF ParseStep, Advance
<1>2. step \in [Call \X Seq(Octet) -> Call]
  <2>1. ASSUME NEW x \in Call \X Seq(Octet)
        PROVE  (IF x[2] = <<>> THEN x[1] ELSE ParseStep(x[1], x[2])) \in Call
    BY <1>1
  <2> QED
    BY <2>1
<1>3. ASSUME NEW p \in Parser PROVE \E f \in [Seq(Octet) -> Call] : Of(f, p)
  <2>1. base(p) \in Call
    BY DEF Result
  <2> HIDE DEF step, base, Call
  <2> QED
    BY <1>2, <2>1, FrontRecursion
<1> DEFINE F == [p \in Parser |-> CHOOSE f \in [Seq(Octet) -> Call] : Of(f, p)]
<1>4. ASSUME NEW p \in Parser PROVE F[p] \in [Seq(Octet) -> Call] /\ Of(F[p], p)
  <2> HIDE DEF Of, Call
  <2> QED
    BY <1>3
<1> HIDE DEF F
<1> DEFINE G == [call \in Parser \X Seq(Octet) |-> F[call[1]][call[2]]]
<1>5. ASSUME NEW p \in Parser, NEW s \in Seq(Octet)
      PROVE  G[<<p, s>>] = IF s = <<>>
                           THEN [parser |-> p, result |-> "indeterminate"]
                           ELSE ParseStep(G[<<p, Front(s)>>], s)
  <2>1. G[<<p, s>>] = F[p][s]
    OBVIOUS
  <2>2. CASE s = <<>>
    BY <1>4, <2>1, <2>2 DEF Recurs
  <2>3. CASE s # <<>>
    <3>1. Front(s) = SubSeq(s, 1, Len(s) - 1) /\ Front(s) \in Seq(Octet)
      BY <2>3, CutSeq DEF Front
    <3>2. G[<<p, Front(s)>>] = F[p][Front(s)] /\ F[p][Front(s)] \in Call
      BY <1>4, <3>1
    <3>3. F[p][s] = step[<<F[p][Front(s)], s>>]
      <4> HIDE DEF step, base, Call, G
      <4>1. Recurs(F[p], Octet, base(p), step)
        BY <1>4
      <4>2. F[p][s] = step[<<F[p][SubSeq(s, 1, Len(s) - 1)], s>>]
        BY <4>1, <2>3 DEF Recurs
      <4> QED
        BY <3>1, <4>2
    <3> DEFINE x == <<F[p][Front(s)], s>>
    <3>4. x \in Call \X Seq(Octet) /\ x[1] = F[p][Front(s)] /\ x[2] = s
      BY <3>2
    <3> HIDE DEF x, Call
    <3>5. step[x] = ParseStep(x[1], x[2])
      BY <2>3, <3>4
    <3> QED
      BY <2>1, <2>3, <3>2, <3>3, <3>4, <3>5 DEF x
  <2> QED
    BY <2>2, <2>3
<1>6. Is(G)
  <2>1. ASSUME NEW call \in Parser \X Seq(Octet)
        PROVE  G[call] = IF call[2] = <<>>
                         THEN [parser |-> call[1], result |-> "indeterminate"]
                         ELSE ParseStep(G[<<call[1], Front(call[2])>>], call[2])
    <3>1. PICK p \in Parser, s \in Seq(Octet) : call = <<p, s>>
      OBVIOUS
    <3> HIDE DEF G
    <3> QED
      BY <3>1, <1>5
  <2>2. G = [call \in Parser \X Seq(Octet) |-> G[call]]
    OBVIOUS
  <2> HIDE DEF G
  <2> QED
    BY <2>1, <2>2
<1>7. Parse = CHOOSE g : Is(g)
  BY DEF Parse, ParseStep
<1>8. Is(Parse)
  <2> HIDE DEF Is
  <2> QED
    BY <1>6, <1>7
<1> QED
  <2> DEFINE Rhs(call) == IF call[2] = <<>>
                          THEN [parser |-> call[1], result |-> "indeterminate"]
                          ELSE ParseStep(Parse[<<call[1], Front(call[2])>>], call[2])
  <2>1. Parse = [call \in Parser \X Seq(Octet) |-> Rhs(call)]
    BY <1>8
  <2> HIDE DEF Rhs
  <2>2. \A call \in Parser \X Seq(Octet) : Parse[call] = Rhs(call)
    BY <2>1
  <2> QED
    BY <2>2 DEF Rhs

\* Called with no octets, parse() comes to no verdict.
LEMMA ParseNone ==
  ASSUME NEW p \in Parser
  PROVE  Parse[<<p, <<>>>>] = [parser |-> p, result |-> "indeterminate"]
<1>1. <<>> \in Seq(Octet)
  OBVIOUS
<1>2. <<p, <<>>>> \in Parser \X Seq(Octet)
  BY <1>1
<1> QED
  BY <1>2, ParseIs

\* Given one octet more, parse() takes one step more, unless it had a verdict.
LEMMA ParseMore ==
  ASSUME NEW p \in Parser, NEW s \in Seq(Octet), NEW c \in Octet
  PROVE  Parse[<<p, Append(s, c)>>] = Advance(Parse[<<p, s>>], c)
<1> DEFINE t == Append(s, c)
<1>1. /\ t \in Seq(Octet) /\ t # <<>> /\ Front(t) = s /\ Last(t) = c
  <2>1. t \in Seq(Octet) /\ Len(t) = Len(s) + 1 /\ t[Len(s) + 1] = c
    BY AppendProperties
  <2>2. SubSeq(t, 1, Len(t) - 1) = s
    BY <2>1
  <2> QED
    BY <2>1, <2>2 DEF Front, Last
<1> HIDE DEF t
<1>2. <<p, t>> \in Parser \X Seq(Octet)
  BY <1>1
<1>3. Parse[<<p, t>>] = ParseStep(Parse[<<p, s>>], t)
  <2>1. Parse[<<p, t>>] = ParseStep(Parse[<<p, Front(t)>>], t)
    BY <1>1, <1>2, ParseIs
  <2> QED
    BY <1>1, <2>1
<1> QED
  BY <1>1, <1>3 DEF ParseStep, t


-----------------------------------------------------------------------------
(***************************************************************************)
(* The words of the request line: what the parser keeps of s.              *)
(***************************************************************************)

\* The first space of s is at a, its second at b.
SpaceAt(s, a) == a \in 1..Len(s) /\ s[a] = "sp" /\ \A j \in 1..(a - 1) : s[j] # "sp"
SpacesAt(s, a, b) == /\ SpaceAt(s, a) /\ b \in (a + 1)..Len(s) /\ s[b] = "sp"
                     /\ \A j \in (a + 1)..(b - 1) : s[j] # "sp"

\* The method and the URI are the two words, or what there is of them yet.
SpelledMethod(p, s) ==
  /\ p.state_ \in {"method_start", "method"}
  /\ p.method = s /\ p.uri = <<>> /\ \A j \in 1..Len(s) : s[j] # "sp"

SpelledUri(p, s) ==
  \E a \in 1..Len(s) : /\ SpaceAt(s, a) /\ \A j \in (a + 1)..Len(s) : s[j] # "sp"
                       /\ p.method = SubSeq(s, 1, a - 1)
                       /\ p.uri = SubSeq(s, a + 1, Len(s))

SpelledBoth(p, s) ==
  \E a, b \in 1..Len(s) : /\ SpacesAt(s, a, b)
                          /\ p.method = SubSeq(s, 1, a - 1)
                          /\ p.uri = SubSeq(s, a + 1, b - 1)

Spelled(p, s) ==
  CASE p.state_ \in {"method_start", "method"} -> SpelledMethod(p, s)
    [] p.state_ = "uri" -> SpelledUri(p, s)
    [] OTHER -> SpelledBoth(p, s)

\* What a branch keeps of an octet that is accepted.
LEMMA ConsumeKeepsWords ==
  ASSUME NEW p \in Parser, NEW c \in Octet, NEW r, r = Consume(p, c),
         r.result = "indeterminate"
  PROVE  /\ r.parser.method = IF r.parser.state_ = "method"
                              THEN Append(p.method, c) ELSE p.method
         /\ r.parser.uri = IF p.state_ = "uri" /\ r.parser.state_ = "uri"
                           THEN Append(p.uri, c) ELSE p.uri
         /\ r.parser.state_ = "method" => p.state_ \in {"method_start", "method"} /\ c # "sp"
         /\ r.parser.state_ = "uri" => \/ p.state_ = "method" /\ c = "sp"
                                       \/ p.state_ = "uri" /\ c # "sp"
         /\ p.state_ = "method_start" => r.parser.state_ = "method"
         /\ p.state_ = "method" => r.parser.state_ \in {"method", "uri"}
         /\ p.state_ = "uri" /\ r.parser.state_ # "uri" => c = "sp"
         /\ r.parser.state_ # "method_start"
<1> DEFINE enabled == {b \in Case[p.state_] : Taken(p, c, b)}
           b == CHOOSE x \in enabled : TRUE
<1>1. enabled # {} /\ r = [parser |-> Apply(p, c, b), result |-> "indeterminate"]
  BY DEF Consume
<1>2. b \in enabled
  BY <1>1
<1>3. b \in Branches /\ b.from = p.state_ /\ c \in b.on
  BY <1>2 DEF Case, Parser, Taken
<1> HIDE DEF b, enabled
<1>4. /\ b.keep = "method" <=> b.to = "method"
      /\ b.keep = "uri" <=> b.from = "uri" /\ b.to = "uri"
      /\ b.to = "method" => b.from \in {"method_start", "method"} /\ c # "sp"
      /\ b.to = "uri" => \/ b.from = "method" /\ c = "sp"
                         \/ b.from = "uri" /\ c # "sp"
      /\ b.from = "method_start" => b.to = "method"
      /\ b.from = "method" => b.to \in {"method", "uri"}
      /\ b.from = "uri" /\ b.to # "uri" => c = "sp"
      /\ b.to # "method_start"
  BY <1>3, OctetClasses DEF Branches, Branch
<1> QED
  BY <1>1, <1>3, <1>4 DEF Apply, HeaderCount

\* A new parser has kept nothing.
LEMMA NewSpelled == Spelled(NewParser, <<>>)
BY DEF Spelled, SpelledMethod, NewParser

\* What is kept of an octet that is accepted.
LEMMA StepSpelled ==
  ASSUME NEW p \in Parser, NEW s \in Seq(Octet), NEW c \in Octet, Spelled(p, s),
         NEW r, r = Consume(p, c), r.result = "indeterminate", NEW t, t = Append(s, c)
  PROVE  Spelled(r.parser, t)
<1>1. /\ t \in Seq(Octet) /\ Len(s) \in Nat /\ Len(t) = Len(s) + 1 /\ t[Len(s) + 1] = c
      /\ \A j \in 1..Len(s) : t[j] = s[j]
  BY AppendProperties
<1>2. \A x \in Nat \ {0}, y \in Int : y <= Len(s) => SubSeq(t, x, y) = SubSeq(s, x, y)
  BY <1>1
<1>3. \A x \in Nat \ {0} : x <= Len(s) + 1 =>
        SubSeq(t, x, Len(t)) = Append(SubSeq(s, x, Len(s)), c)
  BY <1>1
<1>7. /\ r.parser.method = IF r.parser.state_ = "method"
                           THEN Append(p.method, c) ELSE p.method
      /\ r.parser.uri = IF p.state_ = "uri" /\ r.parser.state_ = "uri"
                        THEN Append(p.uri, c) ELSE p.uri
      /\ r.parser.state_ = "method" => c # "sp"
      /\ r.parser.state_ = "uri" => \/ p.state_ = "method" /\ c = "sp"
                                    \/ p.state_ = "uri" /\ c # "sp"
  BY ConsumeKeepsWords
<1>4. CASE p.state_ \in {"method_start", "method"}
  <2>1. SpelledMethod(p, s)
    BY <1>4 DEF Spelled
  <2>2. CASE r.parser.state_ = "method"
    <3>1. c # "sp" /\ r.parser.method = t /\ r.parser.uri = <<>>
      <4>1. c # "sp" /\ r.parser.method = Append(p.method, c)
        BY <2>2, <1>7
      <4>2. r.parser.uri = p.uri
        BY <1>4, <1>7
      <4> QED
        BY <2>1, <4>1, <4>2 DEF SpelledMethod
    <3>2. \A j \in 1..Len(t) : t[j] # "sp"
      BY <1>1, <2>1, <3>1 DEF SpelledMethod
    <3> QED
      BY <2>2, <3>1, <3>2 DEF Spelled, SpelledMethod
  <2>3. CASE r.parser.state_ # "method"
    <3>1. r.parser.state_ = "uri" /\ c = "sp" /\ r.parser.method = s /\ r.parser.uri = <<>>
      BY <1>4, <2>1, <2>3, ConsumeKeepsWords DEF SpelledMethod
    <3> DEFINE a == Len(s) + 1
    <3>2. a \in 1..Len(t) /\ SpaceAt(t, a) /\ a \in Nat \ {0}
      BY <1>1, <2>1, <3>1 DEF SpaceAt, SpelledMethod
    <3>3. SubSeq(t, 1, a - 1) = s /\ SubSeq(t, a + 1, Len(t)) = <<>>
      BY <1>1
    <3>4. \A j \in (a + 1)..Len(t) : t[j] # "sp"
      BY <1>1
    <3> HIDE DEF a
    <3>5. SpelledUri(r.parser, t)
      BY <3>1, <3>2, <3>3, <3>4 DEF SpelledUri
    <3> QED
      BY <3>1, <3>5 DEF Spelled
  <2> QED
    BY <2>2, <2>3
<1>5. CASE p.state_ = "uri"
  <2>1. SpelledUri(p, s)
    BY <1>5 DEF Spelled
  <2>2. PICK a \in 1..Len(s) : /\ SpaceAt(s, a) /\ \A j \in (a + 1)..Len(s) : s[j] # "sp"
                               /\ p.method = SubSeq(s, 1, a - 1)
                               /\ p.uri = SubSeq(s, a + 1, Len(s))
    BY <2>1 DEF SpelledUri
  <2>3. /\ a \in 1..Len(t) /\ SpaceAt(t, a) /\ a \in Nat \ {0}
        /\ SubSeq(t, 1, a - 1) = SubSeq(s, 1, a - 1)
    BY <1>1, <1>2, <2>2 DEF SpaceAt
  <2>4. r.parser.method = p.method
    BY <1>5, ConsumeKeepsWords
  <2>5. CASE r.parser.state_ = "uri"
    <3>1. c # "sp" /\ r.parser.uri = Append(p.uri, c)
      BY <1>5, <2>5, <1>7
    <3>2. SubSeq(t, a + 1, Len(t)) = Append(SubSeq(s, a + 1, Len(s)), c)
      <4>1. a + 1 \in Nat \ {0} /\ a + 1 <= Len(s) + 1
        BY <1>1
      <4> QED
        BY <1>3, <4>1
    <3>3. \A j \in (a + 1)..Len(t) : t[j] # "sp"
      <4>1. \A j \in (a + 1)..Len(s) : s[j] # "sp"
        BY <2>2
      <4>2. ASSUME NEW j \in (a + 1)..Len(t) PROVE t[j] # "sp"
        <5>1. j \in (a + 1)..Len(s) \/ j = Len(s) + 1
          BY <1>1
        <5>2. CASE j \in (a + 1)..Len(s)
          <6>1. j \in 1..Len(s)
            BY <5>2
          <6> QED
            BY <1>1, <4>1, <5>2, <6>1
        <5> QED
          BY <1>1, <3>1, <5>1, <5>2
      <4> QED
        BY <4>2
    <3>4. SpelledUri(r.parser, t)
      BY <2>2, <2>3, <2>4, <3>1, <3>2, <3>3 DEF SpelledUri
    <3> QED
      BY <2>5, <3>4 DEF Spelled
  <2>6. CASE r.parser.state_ # "uri"
    <3>1. c = "sp" /\ r.parser.uri = p.uri /\ r.parser.state_ \notin {"method_start", "method"}
      BY <1>5, <2>6, ConsumeKeepsWords
    <3> DEFINE b == Len(s) + 1
    <3>2. b \in 1..Len(t) /\ SpacesAt(t, a, b) /\ b - 1 = Len(s)
      BY <1>1, <2>2, <2>3, <3>1 DEF SpacesAt
    <3>3. SubSeq(t, a + 1, b - 1) = SubSeq(s, a + 1, Len(s))
      BY <1>1, <1>2
    <3> HIDE DEF b
    <3>4. SpelledBoth(r.parser, t)
      BY <2>2, <2>3, <2>4, <3>1, <3>2, <3>3 DEF SpelledBoth
    <3> QED
      BY <2>6, <3>1, <3>4 DEF Spelled
  <2> QED
    BY <2>5, <2>6
<1>6. CASE p.state_ \notin {"method_start", "method", "uri"}
  <2>1. SpelledBoth(p, s)
    BY <1>6 DEF Spelled
  <2>2. PICK a, b \in 1..Len(s) : /\ SpacesAt(s, a, b)
                                  /\ p.method = SubSeq(s, 1, a - 1)
                                  /\ p.uri = SubSeq(s, a + 1, b - 1)
    BY <2>1 DEF SpelledBoth
  <2>3. /\ a \in 1..Len(t) /\ b \in 1..Len(t) /\ SpacesAt(t, a, b)
        /\ SubSeq(t, 1, a - 1) = SubSeq(s, 1, a - 1)
        /\ SubSeq(t, a + 1, b - 1) = SubSeq(s, a + 1, b - 1)
    BY <1>1, <1>2, <2>2 DEF SpacesAt, SpaceAt
  <2>4. /\ r.parser.method = p.method /\ r.parser.uri = p.uri
        /\ r.parser.state_ \notin {"method_start", "method", "uri"}
    BY <1>6, ConsumeKeepsWords
  <2>5. SpelledBoth(r.parser, t)
    BY <2>2, <2>3, <2>4 DEF SpelledBoth
  <2> QED
    BY <2>4, <2>5 DEF Spelled
<1> QED
  BY <1>4, <1>5, <1>6


\* Both words stay where they are.
LEMMA SpelledGrows ==
  ASSUME NEW p, NEW s, NEW u, Begins(s, u), SpelledBoth(p, s)
  PROVE  SpelledBoth(p, u)
<1>1. PICK a, b \in 1..Len(s) : /\ SpacesAt(s, a, b)
                                /\ p.method = SubSeq(s, 1, a - 1)
                                /\ p.uri = SubSeq(s, a + 1, b - 1)
  BY DEF SpelledBoth
<1>2. /\ s \in Seq(Octet) /\ u \in Seq(Octet) /\ Len(s) \in Nat /\ Len(u) \in Nat
      /\ Len(s) <= Len(u) /\ \A i \in 1..Len(s) : u[i] = s[i]
  BY DEF Begins
<1>3. \A x \in Nat \ {0}, y \in Int : y <= Len(s) => SubSeq(u, x, y) = SubSeq(s, x, y)
  BY <1>2
<1>4. a \in 1..Len(u) /\ b \in 1..Len(u) /\ SpacesAt(u, a, b)
  <2>1. \A j \in 1..(a - 1) : j \in 1..Len(s) /\ s[j] # "sp"
    BY <1>1, <1>2 DEF SpacesAt, SpaceAt
  <2>2. \A j \in (a + 1)..(b - 1) : j \in 1..Len(s) /\ s[j] # "sp"
    BY <1>1, <1>2 DEF SpacesAt
  <2>3. s[a] = "sp" /\ s[b] = "sp" /\ b > a
    BY <1>1, <1>2 DEF SpacesAt, SpaceAt
  <2>4. SpaceAt(u, a)
    BY <1>2, <2>1, <2>3 DEF SpaceAt
  <2> QED
    BY <1>2, <2>2, <2>3, <2>4 DEF SpacesAt
<1>5. SubSeq(u, 1, a - 1) = SubSeq(s, 1, a - 1) /\ SubSeq(u, a + 1, b - 1) = SubSeq(s, a + 1, b - 1)
  <2>1. /\ 1 \in Nat \ {0} /\ a - 1 \in Int /\ a - 1 <= Len(s)
        /\ a + 1 \in Nat \ {0} /\ b - 1 \in Int /\ b - 1 <= Len(s)
    BY <1>2
  <2> QED
    BY <1>3, <2>1
<1> QED
  BY <1>1, <1>4, <1>5 DEF SpelledBoth

\* The first word of s ends before its first space.
LEMMA FirstWordIs ==
  ASSUME NEW s \in Seq(Octet), NEW a, SpaceAt(s, a)
  PROVE  FirstWord(s) = SubSeq(s, 1, a - 1) /\ BehindFirstWord(s) = SubSeq(s, a + 1, Len(s))
<1> DEFINE I == {i \in 1..Len(s) : s[i] = "sp"}
<1>1. a \in I /\ \A i \in I : a <= i
  BY DEF SpaceAt
<1>2. Min(I) = a
  <2>1. Min(I) \in I /\ \A i \in I : Min(I) <= i
    <3> HIDE DEF I
    <3> QED
      BY <1>1 DEF Min
  <2> QED
    BY <1>1, <2>1
<1>3. SelectInSeq(s, LAMBDA o : o = "sp") = a
  BY <1>1, <1>2 DEF SelectInSeq
<1> QED
  BY <1>3 DEF FirstWord, BehindFirstWord

\* They are the words of the request line.
LEMMA SpelledIs ==
  ASSUME NEW p, NEW s \in Seq(Octet), SpelledBoth(p, s)
  PROVE  p.method = MethodOf(s) /\ p.uri = UriOf(s)
<1>1. PICK a, b \in 1..Len(s) : /\ SpacesAt(s, a, b)
                                /\ p.method = SubSeq(s, 1, a - 1)
                                /\ p.uri = SubSeq(s, a + 1, b - 1)
  BY DEF SpelledBoth
<1> DEFINE v == SubSeq(s, a + 1, Len(s))
<1>2. FirstWord(s) = SubSeq(s, 1, a - 1) /\ BehindFirstWord(s) = v
  BY <1>1, FirstWordIs DEF SpacesAt
<1>3. /\ v \in Seq(Octet) /\ Len(v) = Len(s) - a
      /\ \A i \in 1..(Len(s) - a) : v[i] = s[a + i]
  BY <1>1
<1>4. b - a \in 1..(Len(s) - a) /\ s[b] = "sp" /\ a + (b - a) = b
  BY <1>1 DEF SpacesAt
<1>5. SpaceAt(v, b - a)
  <2>1. ASSUME NEW j \in 1..((b - a) - 1) PROVE v[j] # "sp"
    <3>1. a + j \in (a + 1)..(b - 1) /\ j \in 1..(Len(s) - a)
      BY <1>4
    <3> QED
      BY <1>1, <1>3, <3>1 DEF SpacesAt
  <2>2. v[b - a] = "sp"
    BY <1>3, <1>4
  <2> HIDE DEF v
  <2> QED
    BY <1>3, <1>4, <2>1, <2>2 DEF SpaceAt
<1>6. SubSeq(v, 1, (b - a) - 1) = SubSeq(s, a + 1, b - 1)
  BY <1>3, <1>4
<1> HIDE DEF v
<1>7. FirstWord(v) = SubSeq(s, a + 1, b - 1)
  BY <1>3, <1>5, <1>6, FirstWordIs
<1> QED
  BY <1>1, <1>2, <1>7 DEF MethodOf, UriOf

-----------------------------------------------------------------------------
(***************************************************************************)
(* A stream w and its beginnings.                                          *)
(***************************************************************************)
First(w, m) == SubSeq(w, 1, m)

\* The beginnings of w begin it, and each other.
LEMMA FirstBegins ==
  ASSUME NEW w \in Seq(Octet), NEW m \in 0..Len(w)
  PROVE  /\ First(w, m) \in Seq(Octet) /\ Len(First(w, m)) = m
         /\ Begins(First(w, m), w)
         /\ \A n \in m..Len(w) : Begins(First(w, m), First(w, n))
<1>1. ASSUME NEW n \in 0..Len(w)
      PROVE  /\ First(w, n) \in Seq(Octet) /\ Len(First(w, n)) = n
             /\ \A i \in 1..n : First(w, n)[i] = w[i]
  BY DEF First
<1>2. Begins(First(w, m), w)
  BY <1>1 DEF Begins
<1>3. ASSUME NEW n \in m..Len(w) PROVE Begins(First(w, m), First(w, n))
  <2>1. n \in 0..Len(w) /\ 1..m \subseteq 1..n
    OBVIOUS
  <2> QED
    BY <1>1, <2>1 DEF Begins
<1> QED
  BY <1>1, <1>2, <1>3

\* A blank line within the beginning s of u is one of u.
LEMMA BeginsBlank ==
  ASSUME NEW s, NEW u, Begins(s, u), NEW i \in Nat
  PROVE  /\ BlankAt(s, i) => i \in 1..(Len(s) - 3) /\ BlankAt(u, i)
         /\ BlankAt(u, i) /\ i + 3 <= Len(s) => BlankAt(s, i)
<1>1. Len(s) \in Nat
  BY DEF Begins
<1>2. BlankAt(s, i) => i \in 1..(Len(s) - 3)
  BY <1>1 DEF BlankAt, BreakAt
<1>3. i + 3 <= Len(s) => /\ BreakAt(s, i) <=> BreakAt(u, i)
                         /\ BreakAt(s, i + 2) <=> BreakAt(u, i + 2)
  <2> SUFFICES ASSUME i + 3 <= Len(s)
               PROVE  /\ BreakAt(s, i) <=> BreakAt(u, i)
                      /\ BreakAt(s, i + 2) <=> BreakAt(u, i + 2)
    OBVIOUS
  <2>1. i < Len(s) /\ i + 2 < Len(s) /\ i + 2 \in Nat
    BY <1>1
  <2> QED
    BY <2>1, BeginsBreak
<1> QED
  BY <1>1, <1>2, <1>3 DEF BlankAt

\* Where a beginning of w is a header section, w is a request, and this is it.
LEMMA SectionBegins ==
  ASSUME NEW w \in Seq(Octet), NEW k \in 1..Len(w), Section(First(w, k))
  PROVE  IsRequest(w) /\ HeaderEnd(w) = k - 3 /\ k > 4
<1>1. First(w, k) \in Seq(Octet) /\ Len(First(w, k)) = k /\ Begins(First(w, k), w)
  BY FirstBegins
<1>2. /\ k > 4 /\ BlankAt(First(w, k), k - 3)
      /\ \A i \in 1..(k - 4) : ~BlankAt(First(w, k), i)
  BY <1>1 DEF Section
<1>3. BlankAt(w, k - 3) /\ \A i \in 1..((k - 3) - 1) : ~BlankAt(w, i)
  <2>1. BlankAt(w, k - 3)
    <3>1. k - 3 \in Nat
      BY <1>2
    <3> QED
      BY <1>1, <1>2, <3>1, BeginsBlank
  <2>2. ASSUME NEW i \in 1..((k - 3) - 1) PROVE ~BlankAt(w, i)
    <3>1. i \in Nat /\ i \in 1..(k - 4) /\ i + 3 <= k
      BY <1>2
    <3>2. ~BlankAt(First(w, k), i)
      BY <1>2, <3>1
    <3> QED
      BY <1>1, <3>1, <3>2, BeginsBlank
  <2> QED
    BY <2>1, <2>2
<1>4. HeaderEnd(w) = k - 3
  <2>1. k - 3 \in Nat \ {0}
    BY <1>2
  <2> QED
    BY <1>3, <2>1, HeaderEndIs
<1>5. SubSeq(w, 1, HeaderEnd(w) + 3) = First(w, k)
  BY <1>4 DEF First
<1>6. IsHeaderSection(First(w, k))
  BY <1>1, SectionIs
<1>7. HeaderEnd(w) # 0
  BY <1>2, <1>4
<1>8. IsRequest(w)
  BY <1>5, <1>6, <1>7 DEF IsRequest
<1> QED
  BY <1>2, <1>4, <1>8

\* A request begins with a header section.
LEMMA RequestBegins ==
  ASSUME NEW w \in Seq(Octet), IsRequest(w)
  PROVE  LET k == HeaderEnd(w) + 3
         IN  /\ k \in 4..Len(w) /\ Section(First(w, k)) /\ BlankAt(w, k - 3)
             /\ HeaderEnd(w) \in Nat
<1> DEFINE e == HeaderEnd(w)
<1>1. e \in DOMAIN w /\ BlankAt(w, e)
  <2> DEFINE blanks == {i \in DOMAIN w : BlankAt(w, i)}
  <2>1. blanks # {} /\ e = Min(blanks)
    BY DEF IsRequest, HeaderEnd
  <2>2. blanks \subseteq Nat
    OBVIOUS
  <2>3. PICK x \in blanks : \A y \in blanks : x <= y
    BY <2>1, <2>2, LeastNumber
  <2>4. Min(blanks) \in blanks
    <3> HIDE DEF blanks
    <3> QED
      BY <2>3 DEF Min
  <2> QED
    BY <2>1, <2>4
<1>2. e \in 1..(Len(w) - 3)
  BY <1>1 DEF BlankAt, BreakAt
<1> HIDE DEF e
<1>3. e + 3 \in 4..Len(w) /\ e + 3 \in 0..Len(w) /\ (e + 3) - 3 = e
  BY <1>2
<1>4. Section(First(w, e + 3))
  <2>1. First(w, e + 3) \in Seq(Octet)
    BY <1>3, FirstBegins
  <2>2. IsHeaderSection(First(w, e + 3))
    BY DEF IsRequest, First, e
  <2> QED
    BY <2>1, <2>2, SectionIs
<1>5. e \in Nat
  BY <1>2
<1> QED
  BY <1>1, <1>3, <1>4, <1>5 DEF e

-----------------------------------------------------------------------------
(***************************************************************************)
(* What parse makes of the octets of w from position n + 1 to m, for a     *)
(* parser that has read those before without a verdict.                    *)
(***************************************************************************)
Reading(p, w, m) ==
  /\ Reads(p, First(w, m)) /\ Spelled(p, First(w, m))
  /\ \A i \in 1..m : w[i] # "nul"

Accepted(p, w, k) ==
  /\ Section(First(w, k)) /\ p.state_ = "expecting_newline_3" /\ SpelledBoth(p, w)
  /\ \A i \in 1..k : w[i] # "nul"

Hopeless(w, k) ==
  NoBlank(First(w, k - 1)) /\ \A u : Begins(First(w, k), u) => ~Section(u)

Verdict(r, w, m) ==
  /\ r.result = "indeterminate" => Reading(r.parser, w, m)
  /\ r.result = "good" => \E k \in 1..m : Accepted(r.parser, w, k)
  /\ r.result = "bad" => \E k \in 1..m : Hopeless(w, k)

\* One octet more.
LEMMA StepVerdict ==
  ASSUME NEW w \in Seq(Octet), NEW m \in 1..Len(w), NEW p \in Parser,
         Reading(p, w, m - 1), NEW r, r = Consume(p, w[m])
  PROVE  Verdict(r, w, m)
<1> DEFINE c == w[m]
           s == First(w, m - 1)
           t == First(w, m)
<1>1. c \in Octet /\ s \in Seq(Octet) /\ t = Append(s, c) /\ m - 1 \in 0..Len(w)
  <2>1. m - 1 \in 0..Len(w) /\ (m - 1) + 1 = m
    OBVIOUS
  <2>2. c \in Octet /\ s \in Seq(Octet)
    BY <2>1, FirstBegins
  <2>3. t = Append(s, c)
    BY <2>1 DEF First
  <2> QED
    BY <2>1, <2>2, <2>3
<1>2. t \in Seq(Octet) /\ Len(t) = m /\ Begins(t, w) /\ Begins(s, w)
  <2>1. m \in 0..Len(w)
    OBVIOUS
  <2> QED
    BY <1>1, <2>1, FirstBegins
<1>3. r = Consume(p, c) /\ r.parser \in Parser /\ r.result \in Result /\ Reads(p, s) /\ Spelled(p, s)
  BY <1>1, ConsumeType DEF Reading
<1> HIDE DEF s, t, c
<1>4. /\ r.result = "indeterminate" => Reads(r.parser, t)
      /\ r.result = "good" => Section(t)
      /\ r.result = "bad" => \A u : Begins(t, u) => ~Section(u)
  BY <1>1, <1>3, StepReads
<1>9. r.result # "bad" => \A i \in 1..m : w[i] # "nul"
  <2>1. r.result # "bad" => c # "nul"
    BY <1>1, <1>3, ConsumeIs, OctetClasses DEF Accepts, Result
  <2>2. \A i \in 1..m : i \in 1..(m - 1) \/ i = m
    OBVIOUS
  <2>3. \A i \in 1..(m - 1) : w[i] # "nul"
    BY DEF Reading
  <2> QED
    BY <2>1, <2>2, <2>3 DEF c
<1>5. ASSUME r.result = "indeterminate" PROVE Reading(r.parser, w, m)
  <2>1. Spelled(r.parser, t)
    BY <1>1, <1>3, <1>5, StepSpelled
  <2> QED
    BY <1>4, <1>5, <1>9, <2>1 DEF Reading, t
<1>6. ASSUME r.result = "good" PROVE Accepted(r.parser, w, m)
  <2>1. p.state_ = "expecting_newline_3"
    BY <1>1, <1>3, <1>6, ConsumeIs
  <2>2. r.parser = p
    BY <1>1, <1>3, <2>1, Newline3IsFinal
  <2>3. SpelledBoth(p, s)
    BY <1>3, <2>1 DEF Spelled
  <2>4. SpelledBoth(p, w)
    BY <1>2, <2>3, SpelledGrows
  <2> QED
    BY <1>4, <1>6, <1>9, <2>1, <2>2, <2>4 DEF Accepted, t
<1>7. ASSUME r.result = "bad" PROVE Hopeless(w, m)
  <2>1. NoBlank(s)
    BY <1>3 DEF Reads
  <2> QED
    BY <1>4, <1>7, <2>1 DEF Hopeless, s, t
<1>8. m \in 1..m
  OBVIOUS
<1> QED
  BY <1>5, <1>6, <1>7, <1>8 DEF Verdict

\* The octets of one read.
LEMMA ParseVerdict ==
  ASSUME NEW w \in Seq(Octet), NEW n \in Nat, NEW m \in Nat, n <= m, m <= Len(w),
         NEW p \in Parser, Reading(p, w, n)
  PROVE  LET r == Parse[<<p, SubSeq(w, n + 1, m)>>]
         IN  /\ r \in [parser : Parser, result : Result]
             /\ Verdict(r, w, m)
<1> DEFINE R(i) == Parse[<<p, SubSeq(w, n + 1, n + i)>>]
           T == {i \in 0..(m - n) : /\ R(i) \in [parser : Parser, result : Result]
                                    /\ Verdict(R(i), w, n + i)}
<1>1. 0 \in T
  <2>1. SubSeq(w, n + 1, n + 0) = <<>>
    OBVIOUS
  <2>2. R(0) = [parser |-> p, result |-> "indeterminate"]
    BY <2>1, ParseNone
  <2>3. n + 0 = n /\ 0 \in 0..(m - n)
    OBVIOUS
  <2> HIDE DEF R
  <2>4. Verdict(R(0), w, n + 0)
    BY <2>2, <2>3 DEF Verdict
  <2>5. R(0) \in [parser : Parser, result : Result]
    BY <2>2 DEF Result
  <2> QED
    BY <2>3, <2>4, <2>5
<1>2. ASSUME NEW i \in 0..((m - n) - 1), i \in T PROVE i + 1 \in T
  <2> DEFINE c == w[n + i + 1]
             s == SubSeq(w, n + 1, n + i)
  <2>1. /\ c \in Octet /\ s \in Seq(Octet)
        /\ SubSeq(w, n + 1, n + (i + 1)) = Append(s, c)
        /\ n + (i + 1) \in 1..Len(w) /\ (n + (i + 1)) - 1 = n + i
        /\ i + 1 \in 0..(m - n) /\ n + (i + 1) = n + i + 1
    OBVIOUS
  <2>2. R(i + 1) = Advance(R(i), c)
    <3> HIDE DEF s, c
    <3>1. Parse[<<p, Append(s, c)>>] = Advance(Parse[<<p, s>>], c)
      BY <2>1, ParseMore
    <3>2. R(i + 1) = Parse[<<p, Append(s, c)>>]
      BY <2>1
    <3>3. R(i) = Parse[<<p, s>>]
      BY DEF s
    <3> QED
      BY <3>1, <3>2, <3>3
  <2>3. R(i) \in [parser : Parser, result : Result] /\ Verdict(R(i), w, n + i)
    BY <1>2
  <2> HIDE DEF R, s
  <2>4. CASE R(i).result = "indeterminate"
    <3>1. R(i + 1) = Consume(R(i).parser, c) /\ Reading(R(i).parser, w, n + i)
      BY <2>2, <2>3, <2>4 DEF Advance, Verdict
    <3>2. R(i + 1) \in [parser : Parser, result : Result]
      BY <2>1, <2>3, <3>1, ConsumeType
    <3>3. Verdict(R(i + 1), w, n + (i + 1))
      BY <2>1, <2>3, <3>1, StepVerdict
    <3> QED
      BY <2>1, <3>2, <3>3
  <2>5. CASE R(i).result # "indeterminate"
    <3>1. R(i + 1) = R(i)
      BY <2>2, <2>5 DEF Advance
    <3>2. 1..(n + i) \subseteq 1..(n + (i + 1))
      OBVIOUS
    <3>3. Verdict(R(i), w, n + (i + 1))
      BY <2>3, <2>5, <3>2 DEF Verdict
    <3> QED
      BY <2>1, <2>3, <3>1, <3>3
  <2> QED
    BY <2>4, <2>5
<1>3. m - n \in Nat
  OBVIOUS
<1>4. m - n \in T
  <2> HIDE DEF T
  <2>1. \A i \in 0..(m - n) : i \in T
    BY <1>1, <1>2, <1>3, CountUp
  <2> QED
    BY <1>3, <2>1
<1>5. n + (m - n) = m
  OBVIOUS
<1> QED
  BY <1>4, <1>5

\* What parse returns.
LEMMA ParseType ==
  ASSUME NEW p \in Parser, NEW s \in Seq(Octet)
  PROVE  Parse[<<p, s>>] \in [parser : Parser, result : Result]
<1> DEFINE R(i) == Parse[<<p, SubSeq(s, 1, i)>>]
           T == {i \in 0..Len(s) : R(i) \in [parser : Parser, result : Result]}
<1>1. 0 \in T
  <2>1. SubSeq(s, 1, 0) = <<>> /\ 0 \in 0..Len(s)
    OBVIOUS
  <2>2. R(0) = [parser |-> p, result |-> "indeterminate"]
    BY <2>1, ParseNone
  <2> HIDE DEF R
  <2> QED
    BY <2>1, <2>2 DEF Result
<1>2. ASSUME NEW i \in 0..(Len(s) - 1), i \in T PROVE i + 1 \in T
  <2>1. /\ s[i + 1] \in Octet /\ SubSeq(s, 1, i) \in Seq(Octet) /\ i + 1 \in 0..Len(s)
        /\ SubSeq(s, 1, i + 1) = Append(SubSeq(s, 1, i), s[i + 1])
    OBVIOUS
  <2> DEFINE c == s[i + 1]
             t == SubSeq(s, 1, i)
  <2>2. R(i + 1) = Advance(R(i), c)
    <3>1. c \in Octet /\ t \in Seq(Octet) /\ SubSeq(s, 1, i + 1) = Append(t, c)
      BY <2>1
    <3>2. R(i + 1) = Parse[<<p, SubSeq(s, 1, i + 1)>>] /\ R(i) = Parse[<<p, t>>]
      OBVIOUS
    <3> HIDE DEF R, c, t
    <3>3. Parse[<<p, Append(t, c)>>] = Advance(Parse[<<p, t>>], c)
      BY <3>1, ParseMore
    <3> QED
      BY <3>1, <3>2, <3>3
  <2>3. R(i) \in [parser : Parser, result : Result] /\ c \in Octet
    BY <1>2, <2>1
  <2> HIDE DEF R, c
  <2>4. R(i + 1) \in [parser : Parser, result : Result]
    <3>1. CASE R(i).result = "indeterminate"
      <4>1. R(i).parser \in Parser
        BY <2>3
      <4>2. Consume(R(i).parser, c) \in [parser : Parser, result : Result]
        BY <2>3, <4>1, ConsumeType
      <4> QED
        BY <2>2, <3>1, <4>2 DEF Advance
    <3>2. CASE R(i).result # "indeterminate"
      BY <2>2, <2>3, <3>2 DEF Advance
    <3> QED
      BY <3>1, <3>2
  <2> QED
    BY <2>1, <2>4
<1>3. Len(s) \in Nat
  OBVIOUS
<1>4. Len(s) \in T
  <2> HIDE DEF T
  <2>1. \A i \in 0..Len(s) : i \in T
    BY <1>1, <1>2, <1>3, CountUp
  <2> QED
    BY <1>3, <2>1
<1>5. SubSeq(s, 1, Len(s)) = s
  OBVIOUS
<1> QED
  BY <1>4, <1>5

(***************************************************************************)
(* However the octets are cut into calls of parse: two calls, the second   *)
(* where the first came to no verdict, are one.                            *)
(***************************************************************************)
LEMMA ParseJoins ==
  ASSUME NEW w \in Seq(Octet), NEW n \in Nat, NEW m \in Nat, n <= m, m <= Len(w),
         NEW p \in Parser, NEW q, q = Parse[<<p, First(w, n)>>]
  PROVE  /\ q.result = "indeterminate" =>
              Parse[<<p, First(w, m)>>] = Parse[<<q.parser, SubSeq(w, n + 1, m)>>]
         /\ q.result # "indeterminate" => Parse[<<p, First(w, m)>>] = q
<1> DEFINE R(i) == Parse[<<q.parser, SubSeq(w, n + 1, n + i)>>]
           W(i) == Parse[<<p, First(w, n + i)>>]
           T == {i \in 0..(m - n) : W(i) = IF q.result = "indeterminate" THEN R(i) ELSE q}
<1>0. First(w, n) \in Seq(Octet) /\ q \in [parser : Parser, result : Result]
  <2>1. First(w, n) \in Seq(Octet)
    BY DEF First
  <2> QED
    BY <2>1, ParseType
<1>1. 0 \in T
  <2>1. SubSeq(w, n + 1, n + 0) = <<>> /\ n + 0 = n /\ 0 \in 0..(m - n)
    OBVIOUS
  <2>2. R(0) = [parser |-> q.parser, result |-> "indeterminate"]
    BY <1>0, <2>1, ParseNone
  <2>3. W(0) = q
    BY <2>1
  <2> HIDE DEF R, W
  <2>4. q.result = "indeterminate" => q = R(0)
    BY <1>0, <2>2
  <2> QED
    BY <2>1, <2>3, <2>4
<1>2. ASSUME NEW i \in 0..((m - n) - 1), i \in T PROVE i + 1 \in T
  <2> DEFINE c == w[n + i + 1]
             s == SubSeq(w, n + 1, n + i)
             t == First(w, n + i)
  <2>0. /\ i \in Nat /\ n + i \in Nat /\ n + (i + 1) = n + i + 1
        /\ n + i + 1 \in 1..Len(w) /\ n + i \in 0..Len(w) /\ i + 1 \in 0..(m - n)
    OBVIOUS
  <2>1. /\ c \in Octet /\ s \in Seq(Octet)
        /\ SubSeq(w, n + 1, n + (i + 1)) = Append(s, c)
        /\ i + 1 \in 0..(m - n)
    <3>1. c \in Octet
      BY <2>0
    <3>2. s \in Seq(Octet)
      BY <2>0
    <3>3. SubSeq(w, n + 1, n + i + 1) = Append(SubSeq(w, n + 1, n + i), w[n + i + 1])
      BY <2>0
    <3> QED
      BY <2>0, <3>1, <3>2, <3>3
  <2>2. t \in Seq(Octet) /\ First(w, n + (i + 1)) = Append(t, c)
    <3>1. SubSeq(w, 1, n + i) \in Seq(Octet)
      BY <2>0
    <3>2. SubSeq(w, 1, n + i + 1) = Append(SubSeq(w, 1, n + i), w[n + i + 1])
      BY <2>0
    <3> QED
      BY <2>0, <3>1, <3>2 DEF First
  <2>3. R(i) = Parse[<<q.parser, s>>] /\ W(i) = Parse[<<p, t>>]
    OBVIOUS
  <2>4. /\ R(i + 1) = Parse[<<q.parser, Append(s, c)>>]
        /\ W(i + 1) = Parse[<<p, Append(t, c)>>]
    BY <2>1, <2>2
  <2>5. W(i) = IF q.result = "indeterminate" THEN R(i) ELSE q
    BY <1>2
  <2> HIDE DEF R, W, c, s, t
  <2>6. R(i + 1) = Advance(R(i), c) /\ W(i + 1) = Advance(W(i), c)
    BY <1>0, <2>1, <2>2, <2>3, <2>4, ParseMore
  <2>7. q.result # "indeterminate" => Advance(q, c) = q
    BY DEF Advance
  <2>8. W(i + 1) = IF q.result = "indeterminate" THEN R(i + 1) ELSE q
    BY <2>5, <2>6, <2>7
  <2> QED
    BY <2>1, <2>8
<1>3. m - n \in Nat
  OBVIOUS
<1>4. m - n \in T
  <2> HIDE DEF T
  <2>1. \A i \in 0..(m - n) : i \in T
    BY <1>1, <1>2, <1>3, CountUp
  <2> QED
    BY <1>3, <2>1
<1>5. n + (m - n) = m
  OBVIOUS
<1> QED
  BY <1>4, <1>5

\* A parser that has accepted is not changed by what it is called with later.
LEMMA ParseAccepted ==
  ASSUME NEW p \in Parser, p.state_ = "expecting_newline_3", NEW s \in Seq(Octet)
  PROVE  /\ Parse[<<p, s>>] \in [parser : Parser, result : Result]
         /\ Parse[<<p, s>>].parser = p
<1> DEFINE R(i) == Parse[<<p, SubSeq(s, 1, i)>>]
           T == {i \in 0..Len(s) : /\ R(i) \in [parser : Parser, result : Result]
                                   /\ R(i).parser = p}
<1>1. 0 \in T
  <2>1. SubSeq(s, 1, 0) = <<>> /\ 0 \in 0..Len(s)
    OBVIOUS
  <2>2. R(0) = [parser |-> p, result |-> "indeterminate"]
    BY <2>1, ParseNone
  <2> HIDE DEF R
  <2> QED
    BY <2>1, <2>2 DEF Result
<1>2. ASSUME NEW i \in 0..(Len(s) - 1), i \in T PROVE i + 1 \in T
  <2>1. /\ s[i + 1] \in Octet /\ SubSeq(s, 1, i) \in Seq(Octet) /\ i + 1 \in 0..Len(s)
        /\ SubSeq(s, 1, i + 1) = Append(SubSeq(s, 1, i), s[i + 1])
    OBVIOUS
  <2>2. R(i + 1) = Advance(R(i), s[i + 1])
    BY <2>1, ParseMore
  <2>3. R(i) \in [parser : Parser, result : Result] /\ R(i).parser = p
    BY <1>2
  <2> HIDE DEF R
  <2>4. CASE R(i).result = "indeterminate"
    <3>1. R(i + 1) = Consume(p, s[i + 1])
      BY <2>2, <2>3, <2>4 DEF Advance
    <3> QED
      BY <2>1, <3>1, Newline3IsFinal, ConsumeType
  <2>5. CASE R(i).result # "indeterminate"
    BY <2>1, <2>2, <2>3, <2>5 DEF Advance
  <2> QED
    BY <2>4, <2>5
<1>3. Len(s) \in Nat
  OBVIOUS
<1>4. Len(s) \in T
  <2> HIDE DEF T
  <2>1. \A i \in 0..Len(s) : i \in T
    BY <1>1, <1>2, <1>3, CountUp
  <2> QED
    BY <1>3, <2>1
<1>5. SubSeq(s, 1, Len(s)) = s
  OBVIOUS
<1>6. R(Len(s)) = Parse[<<p, s>>]
  BY <1>5
<1>7. R(Len(s)) \in [parser : Parser, result : Result] /\ R(Len(s)).parser = p
  BY <1>4
<1> QED
  BY <1>6, <1>7


-----------------------------------------------------------------------------
(***************************************************************************)
(* The verdicts on a stream that begins with a request.                    *)
(***************************************************************************)

\* No read of it is refused.
LEMMA RequestNotHopeless ==
  ASSUME NEW w \in Seq(Octet), IsRequest(w), NEW k \in 1..Len(w)
  PROVE  ~Hopeless(w, k)
<1> DEFINE e == HeaderEnd(w) + 3
<1>1. e \in 4..Len(w) /\ Section(First(w, e)) /\ BlankAt(w, e - 3)
  BY RequestBegins
<1> HIDE DEF e
<1>2. CASE k <= e
  <2>1. k \in 0..Len(w) /\ e \in k..Len(w)
    BY <1>1, <1>2
  <2>2. Begins(First(w, k), First(w, e))
    BY <2>1, FirstBegins
  <2> QED
    BY <1>1, <2>2 DEF Hopeless
<1>3. CASE k > e
  <2>1. k - 1 \in 0..Len(w) /\ e - 3 \in Nat /\ (e - 3) + 3 <= k - 1 /\ e - 3 \in 1..(k - 1)
    BY <1>1, <1>3
  <2>2. Begins(First(w, k - 1), w) /\ Len(First(w, k - 1)) = k - 1
    BY <2>1, FirstBegins
  <2>3. BlankAt(First(w, k - 1), e - 3)
    BY <1>1, <2>1, <2>2, BeginsBlank
  <2> QED
    BY <2>1, <2>2, <2>3 DEF Hopeless, NoBlank
<1> QED
  BY <1>1, <1>2, <1>3

\* There is a verdict at the end of its header section.
LEMMA ReadingEnds ==
  ASSUME NEW w \in Seq(Octet), IsRequest(w), NEW m \in 0..Len(w), NEW p, Reading(p, w, m)
  PROVE  m < HeaderEnd(w) + 3
<1> DEFINE e == HeaderEnd(w) + 3
<1>1. e \in 4..Len(w) /\ BlankAt(w, e - 3)
  BY RequestBegins
<1> HIDE DEF e
<1>2. Begins(First(w, m), w) /\ Len(First(w, m)) = m
  BY FirstBegins
<1>3. ASSUME m >= e PROVE FALSE
  <2>1. e - 3 \in Nat /\ (e - 3) + 3 <= m /\ e - 3 \in 1..m
    BY <1>1, <1>3
  <2>2. BlankAt(First(w, m), e - 3)
    BY <1>1, <1>2, <2>1, BeginsBlank
  <2> QED
    BY <1>2, <2>1, <2>2 DEF Reading, Reads, NoBlank
<1> QED
  BY <1>1, <1>3 DEF e

\* What is accepted is the request that the stream begins with, and it is kept
\* as its request line spells it.
LEMMA AcceptedIs ==
  ASSUME NEW w \in Seq(Octet), NEW k \in 1..Len(w), NEW p, Accepted(p, w, k)
  PROVE  /\ IsRequest(w) /\ HeaderEnd(w) + 3 = k
         /\ p.method = MethodOf(w) /\ p.uri = UriOf(w)
<1>1. IsRequest(w) /\ HeaderEnd(w) = k - 3 /\ k > 4
  BY SectionBegins DEF Accepted
<1>2. p.method = MethodOf(w) /\ p.uri = UriOf(w)
  BY SpelledIs DEF Accepted
<1> QED
  BY <1>1, <1>2

\* A method that is one lexeme is the first of what was read.
LEMMA MethodIsFirst ==
  ASSUME NEW w \in Seq(Octet), NEW x
  PROVE  /\ MethodOf(w) = <<x>> => w[1] = x
         /\ \A p : \A m \in 0..Len(w) :
              Spelled(p, First(w, m)) /\ p.method = <<x>> => w[1] = x
<1>1. ASSUME NEW y \in Int, y <= Len(w), SubSeq(w, 1, y) = <<x>> PROVE w[1] = x
  <2>1. Len(<<x>>) = 1 /\ <<x>>[1] = x
    OBVIOUS
  <2>2. y = 1
    BY <1>1, <2>1
  <2>3. SubSeq(w, 1, 1)[1] = w[1]
    BY <1>1, <2>2
  <2> QED
    BY <1>1, <2>1, <2>2, <2>3
<1>2. ASSUME MethodOf(w) = <<x>> PROVE w[1] = x
  <2> DEFINE I == {i \in 1..Len(w) : w[i] = "sp"}
             k == SelectInSeq(w, LAMBDA o : o = "sp")
  <2>1. k \in Int /\ k - 1 <= Len(w)
    <3>1. k = IF I # {} THEN Min(I) ELSE 0
      BY DEF SelectInSeq
    <3>2. ASSUME I # {} PROVE Min(I) \in I
      <4>1. PICK i \in I : \A j \in I : i <= j
        <5>1. I \subseteq Nat
          OBVIOUS
        <5> HIDE DEF I
        <5> QED
          BY <3>2, <5>1, LeastNumber
      <4> HIDE DEF I
      <4> QED
        BY <4>1 DEF Min
    <3>3. I \subseteq 1..Len(w)
      OBVIOUS
    <3> HIDE DEF I, k
    <3>4. k = 0 \/ k \in 1..Len(w)
      BY <3>1, <3>2, <3>3
    <3> QED
      BY <3>4
  <2>2. SubSeq(w, 1, k - 1) = <<x>>
    BY <1>2 DEF MethodOf, FirstWord
  <2> HIDE DEF k
  <2> QED
    BY <1>1, <2>1, <2>2
<1>3. ASSUME NEW m \in 0..Len(w), NEW p, Spelled(p, First(w, m)), p.method = <<x>>
      PROVE  w[1] = x
  <2> DEFINE s == First(w, m)
  <2>1. s \in Seq(Octet) /\ Len(s) = m /\ \A i \in 1..m : s[i] = w[i]
    BY DEF First
  <2>2. \A y \in Int : y <= m => SubSeq(s, 1, y) = SubSeq(w, 1, y)
    BY <2>1 DEF First
  <2>3. \/ p.method = s
        \/ \E a \in 1..m : p.method = SubSeq(s, 1, a - 1)
    BY <1>3, <2>1 DEF Spelled, SpelledMethod, SpelledUri, SpelledBoth
  <2>4. CASE p.method = s
    <3>1. SubSeq(w, 1, m) = <<x>>
      BY <1>3, <2>4 DEF First
    <3> QED
      BY <1>1, <3>1
  <2>5. ASSUME NEW a \in 1..m, p.method = SubSeq(s, 1, a - 1) PROVE w[1] = x
    <3>1. a - 1 \in Int /\ a - 1 <= m
      OBVIOUS
    <3>2. SubSeq(w, 1, a - 1) = <<x>>
      BY <1>3, <2>2, <2>5, <3>1
    <3> QED
      BY <1>1, <3>1, <3>2
  <2> QED
    BY <2>3, <2>4, <2>5
<1> QED
  BY <1>2, <1>3

-----------------------------------------------------------------------------
(***************************************************************************)
(* The calls of one connection: a new parser has come to no verdict on the *)
(* first n octets of w, and then it is called with those up to m.          *)
(***************************************************************************)
Unjudged(p, w, n) ==
  Parse[<<NewParser, First(w, n)>>] = [parser |-> p, result |-> "indeterminate"]

\* A new parser is one, and has read nothing.
LEMMA NewUnjudged ==
  ASSUME NEW w \in Seq(Octet)
  PROVE  NewParser \in Parser /\ First(w, 0) = <<>> /\ Unjudged(NewParser, w, 0)
<1>1. NewParser \in Parser
  <2>1. <<>> \in Seq(Octet)
    OBVIOUS
  <2> QED
    BY <2>1 DEF NewParser, Parser, State
<1>2. First(w, 0) = <<>>
  BY DEF First
<1> QED
  BY <1>1, <1>2, ParseNone DEF Unjudged

\* The verdict on the first octets of w.
LEMMA WholeVerdict ==
  ASSUME NEW w \in Seq(Octet), NEW m \in 0..Len(w)
  PROVE  LET r == Parse[<<NewParser, First(w, m)>>]
         IN  r \in [parser : Parser, result : Result] /\ Verdict(r, w, m)
<1>1. NewParser \in Parser /\ First(w, 0) = <<>>
  BY NewUnjudged
<1>2. Reading(NewParser, w, 0)
  BY <1>1, NewReads, NewSpelled DEF Reading
<1>3. SubSeq(w, 0 + 1, m) = First(w, m) /\ 0 <= m /\ m <= Len(w) /\ m \in Nat
  BY DEF First
<1> QED
  BY <1>1, <1>2, <1>3, ParseVerdict

\* A verdict on the first octets is the verdict on more of them.
LEMMA VerdictStays ==
  ASSUME NEW w \in Seq(Octet), NEW n \in Nat, NEW m \in Nat, n <= m, m <= Len(w),
         NEW p \in Parser, Parse[<<p, First(w, n)>>].result # "indeterminate"
  PROVE  Parse[<<p, First(w, m)>>] = Parse[<<p, First(w, n)>>]
<1>1. PICK q : q = Parse[<<p, First(w, n)>>]
  OBVIOUS
<1>2. PICK rest : rest = Parse[<<q.parser, SubSeq(w, n + 1, m)>>]
  OBVIOUS
<1>3. q.result # "indeterminate"
  BY <1>1
<1> QED
  BY <1>1, <1>2, <1>3, ParseJoins

\* A call goes on where the last one stopped, with the verdict on all of it;
\* and what it refuses makes the whole stream malformed.
LEMMA CallVerdict ==
  ASSUME NEW w \in Seq(Octet), NEW n \in Nat, NEW m \in Nat, n <= m, m <= Len(w),
         NEW p, Unjudged(p, w, n), NEW r, r = Parse[<<p, SubSeq(w, n + 1, m)>>]
  PROVE  /\ r \in [parser : Parser, result : Result] /\ Verdict(r, w, m)
         /\ r.result = "indeterminate" => Unjudged(r.parser, w, m)
         /\ r.result # "indeterminate" => Parse[<<NewParser, w>>] = r
<1>1. NewParser \in Parser
  BY NewUnjudged
<1>2. r = Parse[<<NewParser, First(w, m)>>]
  <2> DEFINE q == Parse[<<NewParser, First(w, n)>>]
  <2>1. q.result = "indeterminate" /\ q.parser = p
    BY DEF Unjudged
  <2> QED
    BY <1>1, <2>1, ParseJoins
<1>3. m \in 0..Len(w) /\ First(w, Len(w)) = w /\ Len(w) \in Nat
  BY DEF First
<1>4. r \in [parser : Parser, result : Result] /\ Verdict(r, w, m)
  BY <1>2, <1>3, WholeVerdict
<1>5. r.result = "indeterminate" => Unjudged(r.parser, w, m)
  BY <1>2, <1>4 DEF Unjudged
<1>6. r.result # "indeterminate" => Parse[<<NewParser, w>>] = r
  <2> DEFINE l == Len(w)
             q == Parse[<<NewParser, First(w, m)>>]
  <2>0. l \in Nat /\ m <= l /\ l <= Len(w)
    OBVIOUS
  <2> HIDE DEF l
  <2>1. q.result # "indeterminate" => Parse[<<NewParser, First(w, l)>>] = q
    BY <1>1, <2>0, VerdictStays
  <2> QED
    BY <1>2, <1>3, <2>1 DEF l
<1> QED
  BY <1>4, <1>5, <1>6
=============================================================================
