------------------------ MODULE ParserMachineProofs ------------------------
(***************************************************************************)
(* Theorems about the parser of one connection, for every alphabet and     *)
(* every bound.  The inductive invariant is the type invariant, the        *)
(* property HeadersBackDefined and the fact GoodState: a parser whose last *)
(* result was good stands in expecting_newline_3.                          *)
(* With it goes, until the first verdict, what GrammarProofs says of the   *)
(* octets that were read (Judged), from which the verdicts follow.         *)
(***************************************************************************)
EXTENDS ParserMachine, GrammarProofs

GoodState == result = "good" => parser.state_ = "expecting_newline_3"

IInv == TypeOK /\ HeadersBackDefined /\ GoodState

HasHeader(p) == p.state_ \in WritesBack => p.headers > 0

-----------------------------------------------------------------------------
\* Every row of the table leads from a state to a state, and a row that leads
\* into the states that write to headers.back() pushes a header, or comes from
\* one of them, or is the folding branch.
LEMMA BranchesType ==
  ASSUME NEW b \in Branches
  PROVE  /\ b.from \in State
         /\ b.to \in State
         /\ b.to \in WritesBack => \/ b.from \in WritesBack
                                   \/ b.keep = "push"
                                   \/ b.from = "header_line_start" /\ b.to = "header_lws"
BY DEF Branches, Branch, State, WritesBack

\* No two branches accept the same octet in the same state: the table is the
\* switch of consume(), which takes one branch, and CHOOSE has no choice.
LEMMA OneBranch ==
  ASSUME NEW p \in Parser, NEW c,
         NEW b1 \in Case[p.state_], Taken(p, c, b1),
         NEW b2 \in Case[p.state_], Taken(p, c, b2)
  PROVE  b1 = b2
<1>1. p.state_ \in State
  BY DEF Parser
<1>2. b1 \in Branches /\ b2 \in Branches /\ b1.from = b2.from
  BY <1>1 DEF Case
<1>3. c \in b1.on /\ c \in b2.on
  BY DEF Taken
<1> QED
  BY <1>2, <1>3 DEF Branches, Branch, NameOctet, TextOctet, Token, Digit,
                    Path, Ctl, Octet

\* consume() keeps the parser well formed, whatever the octet, and keeps a
\* header pushed in the states that write to the last one.
LEMMA ConsumeKeeps ==
  ASSUME NEW p \in Parser, NEW c \in Octet, HasHeader(p)
  PROVE  /\ Consume(p, c).parser \in Parser
         /\ Consume(p, c).result \in Result
         /\ HasHeader(Consume(p, c).parser)
         /\ Consume(p, c).result = "good" =>
              Consume(p, c).parser.state_ = "expecting_newline_3"
<1> DEFINE enabled == {b \in Case[p.state_] : Taken(p, c, b)}
<1>0. Consume(p, c).parser \in Parser /\ Consume(p, c).result \in Result
  BY ConsumeType
<1>1. CASE p.state_ = "expecting_newline_3" /\ c = "lf"
  <2>1. Consume(p, c) = [parser |-> p, result |-> "good"]
    BY <1>1 DEF Consume
  <2> QED
    BY <2>1, <1>0, <1>1
<1>2. CASE ~(p.state_ = "expecting_newline_3" /\ c = "lf") /\ enabled = {}
  <2>1. Consume(p, c) = [parser |-> p, result |-> "bad"]
    BY <1>2 DEF Consume
  <2> QED
    BY <2>1, <1>0
<1>3. CASE ~(p.state_ = "expecting_newline_3" /\ c = "lf") /\ enabled # {}
  <2> DEFINE b == CHOOSE x \in enabled : TRUE
  <2>1. b \in enabled
    BY <1>3
  <2>2. Consume(p, c) = [parser |-> Apply(p, c, b), result |-> "indeterminate"]
    BY <1>3 DEF Consume
  <2>3. p.state_ \in State
    BY DEF Parser
  <2>4. b \in Branches /\ b.from = p.state_ /\ Taken(p, c, b)
    BY <2>1, <2>3 DEF Case
  <2> HIDE DEF b, enabled
  <2>6. HasHeader(Apply(p, c, b))
    <3> SUFFICES ASSUME b.to \in WritesBack
                 PROVE  Apply(p, c, b).headers > 0
      BY DEF HasHeader, Apply, HeaderCount
    <3>1. p.headers \in Nat
      BY DEF Parser
    <3>2. CASE b.keep = "push"
      BY <3>1, <3>2 DEF Apply, HeaderCount
    <3>3. CASE b.keep # "push" /\ b.from \in WritesBack
      BY <3>1, <3>3, <2>4 DEF Apply, HeaderCount, HasHeader
    <3>4. CASE b.keep # "push" /\ b.from = "header_line_start" /\ b.to = "header_lws"
      BY <3>1, <3>4, <2>4 DEF Apply, HeaderCount, Taken
    <3> QED
      BY <3>2, <3>3, <3>4, <2>4, BranchesType
  <2> QED
    BY <1>0, <2>2, <2>6
<1> QED
  BY <1>1, <1>2, <1>3

-----------------------------------------------------------------------------
\* The parser starts in the invariant.
LEMMA InitIInv == Init => IInv
<1> SUFFICES ASSUME Init PROVE IInv
  OBVIOUS
<1>1. <<>> \in Seq(Octet)
  OBVIOUS
<1>2. NewParser \in Parser /\ NewParser.state_ = "method_start"
  BY <1>1 DEF NewParser, Parser, State
<1>3. TypeOK
  BY <1>1, <1>2 DEF Init, TypeOK, Result
<1>4. HeadersBackDefined /\ GoodState
  BY <1>2 DEF Init, HeadersBackDefined, GoodState, WritesBack
<1> QED
  BY <1>3, <1>4 DEF IInv

\* A call of consume() keeps the invariant.
LEMMA CallIInv ==
  ASSUME NEW c \in Octet, IInv, Call(c)
  PROVE  /\ parser' \in Parser /\ result' \in Result
         /\ HeadersBackDefined' /\ GoodState'
<1>1. parser \in Parser /\ HasHeader(parser)
  BY DEF IInv, TypeOK, HeadersBackDefined, HasHeader
<1>2. parser' = Consume(parser, c).parser /\ result' = Consume(parser, c).result
  BY DEF Call
<1> QED
  BY <1>1, <1>2, ConsumeKeeps DEF HeadersBackDefined, GoodState, HasHeader

\* The invariant is inductive.
LEMMA NextIInv == IInv /\ [Next]_vars => IInv'
<1> SUFFICES ASSUME IInv, [Next]_vars PROVE IInv'
  OBVIOUS
<1> USE BoundsAssumption
<1>1. ASSUME NEW c \in Alphabet, Continue(c) PROVE IInv'
  <2>1. c \in Octet /\ Call(c)
    BY <1>1 DEF Continue
  <2>2. input' \in Seq(Octet) /\ resumed' \in BOOLEAN
    BY <1>1, <2>1 DEF Continue, IInv, TypeOK
  <2> QED
    BY <2>1, <2>2, CallIInv DEF IInv, TypeOK
<1>2. ASSUME NEW c \in Alphabet, Resume(c) PROVE IInv'
  <2>1. c \in Octet /\ Call(c)
    BY <1>2 DEF Resume
  <2>2. input' \in Seq(Octet) /\ resumed' \in BOOLEAN
    BY <1>2 DEF Resume
  <2> QED
    BY <2>1, <2>2, CallIInv DEF IInv, TypeOK
<1>3. CASE UNCHANGED vars
  BY <1>3 DEF vars, IInv, TypeOK, HeadersBackDefined, GoodState
<1> QED
  BY <1>1, <1>2, <1>3 DEF Next

\* The invariant holds in every reachable state.
THEOREM Invariance == Spec => []IInv
BY InitIInv, NextIInv, PTL DEF Spec

\* The parser is always in one of its states, with a request made of octets.
THEOREM ParserTypeCorrect == Spec => []TypeOK
<1>1. IInv => TypeOK
  BY DEF IInv
<1> QED
  BY Invariance, <1>1, PTL

\* consume() never calls back() of an empty header vector, for any input of
\* any length, and also when parse is called again after a verdict.
THEOREM HeadersBackAlwaysDefined == Spec => []HeadersBackDefined
<1>1. IInv => HeadersBackDefined
  BY DEF IInv
<1> QED
  BY Invariance, <1>1, PTL

\* An accepted request is never touched again, and whatever follows it gets a
\* verdict at its first octet.
THEOREM AcceptedStaysFinal == Spec => AcceptedIsFinal
<1> USE BoundsAssumption
<1>1. ASSUME IInv, [Next]_vars
      PROVE  [result = "good" => parser' = parser /\ result' # "indeterminate"]_vars
  <2> SUFFICES ASSUME Next, result = "good"
               PROVE  parser' = parser /\ result' # "indeterminate"
    BY <1>1
  <2>1. PICK c \in Alphabet : Continue(c) \/ Resume(c)
    BY DEF Next
  <2>2. Call(c) /\ c \in Octet
    BY <2>1 DEF Continue, Resume
  <2>3. parser \in Parser /\ parser.state_ = "expecting_newline_3"
    BY <1>1 DEF IInv, TypeOK, GoodState
  <2> QED
    BY <2>2, <2>3, Newline3IsFinal DEF Call
<1> QED
  BY Invariance, <1>1, PTL DEF Spec, AcceptedIsFinal


-----------------------------------------------------------------------------
(***************************************************************************)
(* The verdicts and the grammar.  Until the first verdict the octets have  *)
(* been read as far as they go; after good they are a header section, and  *)
(* after bad they begin none.                                              *)
(***************************************************************************)
Judged ==
  CASE result = "indeterminate" -> Reads(parser, input)
    [] result = "good" -> Section(input)
    [] result = "bad" -> \A u : Begins(input, u) => ~Section(u)

GrammarInv == IInv /\ (~resumed => Judged)

\* The parser starts having read nothing.
LEMMA InitJudged == Init => Judged
BY NewReads DEF Init, Judged

\* The next octet of a request is judged as the grammar has it.
LEMMA ContinueJudged ==
  ASSUME NEW c \in Octet, IInv, Judged, Continue(c)
  PROVE  Judged'
<1>1. parser \in Parser /\ input \in Seq(Octet) /\ result = "indeterminate"
  BY DEF IInv, TypeOK, Continue
<1>2. Reads(parser, input)
  BY <1>1 DEF Judged
<1>3. /\ parser' = Consume(parser, c).parser /\ result' = Consume(parser, c).result
      /\ input' = Append(input, c) /\ Call(c)
  BY DEF Continue, Call
<1>4. parser' \in Parser /\ result' \in Result
  BY <1>3, CallIInv
<1>5. /\ result' = "indeterminate" => Reads(parser', input')
      /\ result' = "good" => Section(input')
      /\ result' = "bad" => \A u : Begins(input', u) => ~Section(u)
  <2> DEFINE r == Consume(parser, c)
             t == Append(input, c)
  <2>1. r = Consume(parser, c) /\ r.parser \in Parser /\ t = Append(input, c)
    BY <1>3, <1>4
  <2> HIDE DEF r, t
  <2>2. /\ r.result = "indeterminate" => Reads(r.parser, t)
        /\ r.result = "good" => Section(t)
        /\ r.result = "bad" => \A u : Begins(t, u) => ~Section(u)
    BY <1>1, <1>2, <2>1, StepReads
  <2> QED
    BY <1>3, <2>1, <2>2
<1> QED
  BY <1>4, <1>5 DEF Judged, Result

\* The two together hold at first.
LEMMA InitGrammarInv == Init => GrammarInv
BY InitIInv, InitJudged DEF GrammarInv

\* Every step keeps them.
LEMMA NextGrammarInv == GrammarInv /\ [Next]_vars => GrammarInv'
<1> SUFFICES ASSUME GrammarInv, [Next]_vars PROVE GrammarInv'
  OBVIOUS
<1>1. IInv'
  BY NextIInv DEF GrammarInv
<1>2. ASSUME NEW c \in Alphabet, Continue(c) PROVE Judged'
  <2>1. c \in Octet /\ ~resumed
    BY <1>2, BoundsAssumption DEF Continue
  <2> QED
    BY <1>2, <2>1, ContinueJudged DEF GrammarInv
<1>3. ASSUME NEW c \in Alphabet, Resume(c) PROVE resumed'
  BY <1>3 DEF Resume
<1>4. CASE UNCHANGED vars
  BY <1>1, <1>4 DEF vars, GrammarInv, Judged
<1> QED
  BY <1>1, <1>2, <1>3, <1>4 DEF Next, GrammarInv

\* What was read without a verdict is no header section yet, and what was
\* refused is none.
LEMMA JudgedIs ==
  ASSUME IInv, Judged
  PROVE  /\ result = "good" <=> Section(input)
         /\ result = "bad" => \A u : Begins(input, u) => ~Section(u)
<1>1. input \in Seq(Octet) /\ parser \in Parser /\ result \in Result
  BY DEF IInv, TypeOK
<1>2. CASE result = "indeterminate"
  <2>1. ~Section(input)
    BY <1>1, <1>2, NotYetSection DEF Judged
  <2> QED
    BY <1>2, <2>1
<1>3. CASE result = "good"
  BY <1>3 DEF Judged
<1>4. CASE result = "bad"
  <2>1. Begins(input, input)
    BY <1>1 DEF Begins
  <2> QED
    BY <1>4, <2>1 DEF Judged
<1> QED
  BY <1>1, <1>2, <1>3, <1>4 DEF Result

\* The first verdict of a parser is good exactly at the octet with which what
\* it was given has become one header section, for histories of any length
\* and however they were cut into reads.
THEOREM AcceptsTheGrammar == Spec => []GoodIffHeaderSection
<1>1. GrammarInv => GoodIffHeaderSection
  <2> SUFFICES ASSUME GrammarInv, ~resumed
               PROVE  result = "good" <=> IsHeaderSection(input)
    BY DEF GoodIffHeaderSection
  <2>1. input \in Seq(Octet)
    BY DEF GrammarInv, IInv, TypeOK
  <2> QED
    BY <2>1, JudgedIs, SectionIs DEF GrammarInv
<1> QED
  BY <1>1, InitGrammarInv, NextGrammarInv, PTL DEF Spec

\* A first verdict of bad is never too early: whatever the client still sends,
\* the octets it was refused on begin no header section.
THEOREM RefusesTheHopeless == Spec => []RefusedIsHopeless
<1>1. GrammarInv => RefusedIsHopeless
  <2> SUFFICES ASSUME GrammarInv, ~resumed, result = "bad",
                      NEW more \in Continuations
               PROVE  ~IsHeaderSection(input \o more)
    BY DEF RefusedIsHopeless
  <2>1. input \in Seq(Octet) /\ more \in Seq(Octet)
    BY BoundsAssumption DEF GrammarInv, IInv, TypeOK
  <2>2. input \o more \in Seq(Octet) /\ Begins(input, input \o more)
    BY <2>1 DEF Begins
  <2>3. ~Section(input \o more)
    BY <2>2, JudgedIs DEF GrammarInv
  <2> QED
    BY <2>2, <2>3, SectionIs
<1> QED
  BY <1>1, InitGrammarInv, NextGrammarInv, PTL DEF Spec
=============================================================================
