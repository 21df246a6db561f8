------------------------------- MODULE MCHttp -------------------------------
(***************************************************************************)
(* Instances of the HTTP server for TLC: what clients send, where the      *)
(* network may cut it, what memory holds, which disks it starts with.      *)
(***************************************************************************)
EXTENDS HttpDelivery

HeaderOf(method, uri) ==
  <<method, "sp">> \o uri \o
  <<"sp", "H", "T", "T", "P", "/", "digit", "dot", "digit",
    "cr", "lf", "word", "colon", "sp", "word", "cr", "lf", "cr", "lf">>

Header(method, path) == HeaderOf(method, <<path>>)

\* Two dots that are two lexemes; a query that goes on behind its lexeme.
TwoDots == <<"/", "dot", "dot">>
LongQuery == <<"/file?used", "word">>

\* A POST of a mission whose first header field is none: the parser refuses it
\* at the colon, in front of a blank line and another line break.
BrokenPost ==
  <<"POST", "sp", "/mission/group/", "sp", "H", "T", "T", "P", "/", "digit",
    "dot", "digit", "cr", "lf", "colon", "cr", "lf", "cr", "lf", "cr", "lf">>

OneLine == <<"word", "colon">>
TwoLines == <<"word", "cr", "lf", "hi">>
ZeroOctet == <<"word", "nul", "word">>

\* One request of each kind the code treats differently.
MCRequests ==
  {Header("GET", uri) :
     uri \in {"/", "/file", "/file?used", "/missing", "/..", "/%zz", "word",
              "/mission/group/"}}
  \cup {Header("POST", uri) \o OneLine :
     uri \in {"/file", "/missing", "/..", "/mission/group/", "/api/robots/control/"}}
  \cup {Header("POST", "/mission/group/") \o body : body \in {<<>>, TwoLines, ZeroOctet}}
  \cup {HeaderOf("GET", TwoDots), HeaderOf("POST", TwoDots) \o OneLine,
        HeaderOf("GET", LongQuery), Header("PUT", "/file") \o OneLine, BrokenPost,
        <<"colon", "word", "cr", "lf", "cr", "lf">>,
        <<"POST", "sp", "cr", "lf", "cr", "lf", "word">>}

EveryCut == 1..30

\* Nothing, plain text, or the end of an earlier request with a blank line.
MCResidue == {<<>>, <<"hi">>, <<"cr", "lf", "cr", "lf">>,
              <<"cr", "lf", "cr", "lf", "word">>}

NoResidue == {<<>>}

DiskWith(groupdemo, mission) ==
  [f \in File |-> CASE f = "static" -> <<"static", "content">>
                    [] f = "groupdemo" -> groupdemo
                    [] f = "mission" -> mission
                    [] OTHER -> NoFile]

MCDisks == {DiskWith(<<"reply">>, NoFile), DiskWith(NoFile, <<"old mission">>)}

OneDisk == {DiskWith(<<"reply">>, NoFile)}

\* Two requests that write and read, one with no branch of its own.
FewRequests == {Header("GET", "/file"),
                Header("POST", "/mission/group/") \o OneLine,
                Header("PUT", "/file")}

\* Requests that are finished, and where they may be cut: within the header
\* section, in the middle of the blank line, after it.
FinishedRequests == {Header("GET", "/file"),
                     Header("POST", "/mission/group/") \o OneLine}

FewCuts == {14, 20, 22}

\* A POST without a body, and a method without a branch.
UnansweredRequests == {Header("POST", "/api/robots/control/"),
                       Header("PUT", "/file")}

TwoPosts == {Header("POST", "/mission/group/") \o OneLine}

\* Two missions, each with a text of its own.
TwoMissions == {Header("POST", "/mission/group/") \o body :
                  body \in {<<"word">>, <<"digit">>}}

BrokenPosts == {BrokenPost, Header("GET", "/file")}

\* Where the blank line of a broken POST ends.
CutBehindBlank == {19}
=============================================================================
