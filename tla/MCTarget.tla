------------------------------ MODULE MCTarget ------------------------------
(***************************************************************************)
(* The URIs for RequestTarget: all short ones over the characters that     *)
(* url_decode tells apart, all short ones over the separators of a query,  *)
(* well-formed queries of up to three parts, and names with types.         *)
(***************************************************************************)
EXTENDS RequestTarget

CONSTANTS MaxEscaped,  \* bound: characters of a URI with escapes
          MaxQuery     \* bound: separators and letters of a query

\* Of hexadecimal digits 0, which "0x" begins with, and 2 and e, the code of
\* the dot.
Escapes == SeqOf({Percent, Plus, Minus, Dot, 48, 50, 101, 120}, MaxEscaped)

Queries == SeqOf({Question, Ampersand, Equals, 97}, MaxQuery)

Word == {<<>>, <<97>>, <<98>>}
Part == {n \o <<Equals>> \o v : n \in Word, v \in Word}
WholeQueries ==
  LET Two == {p \o <<Ampersand>> \o q : p \in Part, q \in Part}
  IN  {<<Question>> \o q : q \in Two \cup {p \o <<Ampersand>> \o q : p \in Two, q \in Part}}

Png == <<112, 110, 103>>
Html == <<104, 116, 109, 108>>

\* a.png, a.html, a.a.png, a.png.a, png, a.png/png, a.png/, a.png?a=.html,
\* a?a.png, a.png%00.html, %2e./a, a%3fa=b
Names ==
  LET a == <<97>>
      png == <<Dot>> \o Png
      html == <<Dot>> \o Html
  IN  {a \o png, a \o html, a \o <<Dot>> \o a \o png, a \o png \o <<Dot>> \o a, Png,
       a \o png \o <<Slash>> \o Png, a \o png \o <<Slash>>,
       a \o png \o <<Question>> \o a \o <<Equals>> \o html,
       a \o <<Question>> \o a \o png,
       a \o png \o <<Percent, 48, 48>> \o html,
       <<Percent, 50, 101, Dot, Slash>> \o a,
       a \o <<Percent, 51, 102>> \o a \o <<Equals, 98>>}

MCTargets ==
  SeqOf({Percent, Slash, 50, 102}, MaxEscaped)
  \cup {<<Slash>> \o s : s \in Escapes \cup Queries \cup WholeQueries \cup Names}
=============================================================================
