--------------------------- MODULE RequestGrammar ---------------------------
(***************************************************************************)
(* What a request IS, said without a parser: the lines between line breaks *)
(* and the shape of each.  The reference that the parser of RequestParser  *)
(* is compared with, and the vocabulary in which the properties of the     *)
(* server speak of what a client sent.                                     *)
(***************************************************************************)
EXTENDS RequestParser

\* A line break begins at position i of s.
BreakAt(s, i) == i \in 1..(Len(s) - 1) /\ s[i] = "cr" /\ s[i + 1] = "lf"

\* A blank line, the break that ends a line followed by another, begins at i.
BlankAt(s, i) == BreakAt(s, i) /\ BreakAt(s, i + 2)

\* The end of the header section: the first blank line, 0 if there is none.
HeaderEnd(s) ==
  LET blanks == {i \in DOMAIN s : BlankAt(s, i)}
  IN  IF blanks = {} THEN 0 ELSE Min(blanks)

\* What the client put after the header section.
Payload(s) == SubSeq(s, HeaderEnd(s) + 4, Len(s))

AllIn(s, S) == \A i \in DOMAIN s : s[i] \in S

NonEmptyWord(s, S) == s # <<>> /\ AllIn(s, S)

\* s is left, then the one octet sep, then right, for some left and right
\* that satisfy Left and Right.
SplitAt(s, sep, Left(_), Right(_)) ==
  \E i \in DOMAIN s : /\ s[i] = sep
                      /\ Left(SubSeq(s, 1, i - 1))
                      /\ Right(SubSeq(s, i + 1, Len(s)))

IsNumber(s) == NonEmptyWord(s, Digit)

IsVersion(s) ==
  /\ Len(s) > 5
  /\ SubSeq(s, 1, 5) = <<"H", "T", "T", "P", "/">>
  /\ SplitAt(SubSeq(s, 6, Len(s)), "dot", IsNumber, IsNumber)

IsMethod(s) == NonEmptyWord(s, NameOctet)

IsUri(s) == AllIn(s, TextOctet \ {"sp"})

IsUriAndVersion(s) == SplitAt(s, "sp", IsUri, IsVersion)

IsRequestLine(s) == SplitAt(s, "sp", IsMethod, IsUriAndVersion)

IsHeaderField(s) ==
  SplitAt(s, "colon", IsMethod,
          LAMBDA v : v # <<>> /\ v[1] = "sp" /\ AllIn(v, TextOctet))

\* White space, then text that may hold no further tab.
IsFolded(s) ==
  \E i \in DOMAIN s : /\ AllIn(SubSeq(s, 1, i), {"sp", "tab"})
                      /\ AllIn(SubSeq(s, i + 1, Len(s)), TextOctet)

\* The starts of the lines of s: 1 and whatever follows a break.
LineStarts(s) == {1} \cup {i + 2 : i \in {j \in DOMAIN s : BreakAt(s, j)}}

\* The line that starts at i, without its break.
LineAt(s, i) ==
  LET end == CHOOSE j \in i..Len(s) :
               BreakAt(s, j) /\ \A k \in i..(j - 1) : ~BreakAt(s, k)
  IN  SubSeq(s, i, end - 1)

(***************************************************************************)
(* s is exactly one header section: a request line, then header fields,    *)
(* each of which may be folded over further lines, then a blank line.      *)
(***************************************************************************)
IsHeaderSection(s) ==
  /\ Len(s) > 4
  /\ HeaderEnd(s) = Len(s) - 3
  /\ LET fields == {i \in LineStarts(s) : i > 1 /\ i < Len(s) - 1}
     IN  /\ IsRequestLine(LineAt(s, 1))
         /\ \A i \in fields :
              IF \A j \in fields : i <= j
              THEN IsHeaderField(LineAt(s, i))
              ELSE IsHeaderField(LineAt(s, i)) \/ IsFolded(LineAt(s, i))

\* A complete request: a header section and whatever body follows it.
IsRequest(s) ==
  HeaderEnd(s) # 0 /\ IsHeaderSection(SubSeq(s, 1, HeaderEnd(s) + 3))

\* The octets before the first space of s, and those behind it.
FirstWord(s) == SubSeq(s, 1, SelectInSeq(s, LAMBDA o : o = "sp") - 1)
BehindFirstWord(s) == SubSeq(s, SelectInSeq(s, LAMBDA o : o = "sp") + 1, Len(s))

\* The words of the request line that s begins with.
MethodOf(s) == FirstWord(s)
UriOf(s) == FirstWord(BehindFirstWord(s))
=============================================================================
