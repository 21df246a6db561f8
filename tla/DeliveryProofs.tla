--------------------------- MODULE DeliveryProofs ---------------------------
(***************************************************************************)
(* What a client of the HTTP server gets for what it sends, for any number *)
(* of connections, any streams, cuts and buffer contents: that a           *)
(* well-formed GET is served, that only missions change the disk, that the *)
(* body of a POST that comes in one read is exact, and that both files of  *)
(* an acknowledged mission were written, whichever cannot be opened.       *)
(*                                                                         *)
(* The proofs join the control of the server (HttpServerProofs) and what   *)
(* the parser makes of a stream in pieces (GrammarProofs, CallVerdict).    *)
(***************************************************************************)
EXTENDS HttpDelivery, HttpServerProofs, GrammarProofs

-----------------------------------------------------------------------------
(***************************************************************************)
(* AcknowledgedMissionIsWritten is inductive beside the control invariant:  *)
(* OneOperation keeps a request and its reply as they are until the reply  *)
(* has been sent.                                                          *)
(***************************************************************************)
StoreShape == DOMAIN disk = File /\ DOMAIN written = Conn
MissionInv == IInv /\ StoreShape /\ AcknowledgedMissionIsWritten

-----------------------------------------------------------------------------
(***************************************************************************)
(* The handler of a mission.                                               *)
(***************************************************************************)

\* A file, once it holds its text, keeps it when it is written again, opened
\* or not.
LEMMA WriteFileKeeps ==
  ASSUME NEW file \in File, NEW text, NEW files, NEW failing,
         DOMAIN files = File
  PROVE  LET new == WriteFile(file, text, files, failing)
         IN  /\ DOMAIN new = File
             /\ new[file] \in {text, files[file]}
             /\ file \notin failing => new[file] = text
             /\ \A other \in File \ {file} : new[other] = files[other]
BY DEF WriteFile

\* Publishing a mission never damages one that is stored, and where no assert
\* fails both files were opened and hold their texts.
LEMMA PublishMissionStores ==
  ASSUME NEW text, NEW rep, NEW files, NEW failing, DOMAIN files = File, Asserts
  PROVE  LET done == PublishMission(text, rep, files, failing)
         IN  /\ DOMAIN done.disk = File
             /\ files["mission"] = MissionText(text) => done.disk["mission"] = MissionText(text)
             /\ files["feedback"] = FeedbackText => done.disk["feedback"] = FeedbackText
             /\ ~done.aborted => /\ done.disk["mission"] = MissionText(text)
                                 /\ done.disk["feedback"] = FeedbackText
                                 /\ {"feedback", "mission"} \subseteq done.wrote
<1> DEFINE disk1 == WriteFile("feedback", FeedbackText, files, failing)
           disk2 == WriteFile("mission", MissionText(text), disk1, failing)
           done == PublishMission(text, rep, files, failing)
<1>1. "mission" \in File /\ "feedback" \in File /\ "mission" # "feedback"
  BY DEF File
<1>2. /\ DOMAIN disk1 = File
      /\ disk1["feedback"] \in {FeedbackText, files["feedback"]}
      /\ "feedback" \notin failing => disk1["feedback"] = FeedbackText
      /\ disk1["mission"] = files["mission"]
  BY <1>1, WriteFileKeeps
<1>3. /\ DOMAIN disk2 = File
      /\ disk2["mission"] \in {MissionText(text), disk1["mission"]}
      /\ "mission" \notin failing => disk2["mission"] = MissionText(text)
      /\ disk2["feedback"] = disk1["feedback"]
  BY <1>1, <1>2, WriteFileKeeps
<1> HIDE DEF disk1, disk2
<1>4. /\ "feedback" \in failing => done.disk = disk1 /\ done.aborted
      /\ "feedback" \notin failing => /\ done.disk = disk2
                                      /\ done.aborted <=> "mission" \in failing
                                      /\ done.wrote = {"feedback", "mission"} \ failing
  BY Asserts DEF PublishMission, disk1, disk2
<1> QED
  BY <1>2, <1>3, <1>4

\* The same of the handler of any POST; and only a mission that was published
\* is answered with status 200.
LEMMA HandlePOSTStores ==
  ASSUME NEW uri, NEW text, NEW rep, NEW files, NEW failing,
         DOMAIN files = File, Asserts
  PROVE  LET done == HandlePOST(uri, text, rep, files, failing)
         IN  /\ DOMAIN done.disk = File
             /\ files["mission"] = MissionText(text) => done.disk["mission"] = MissionText(text)
             /\ files["feedback"] = FeedbackText => done.disk["feedback"] = FeedbackText
             /\ /\ uri = <<"/mission/group/">> /\ ~done.aborted
                /\ done.reply.status = 200
                => /\ done.disk["mission"] = MissionText(text)
                   /\ done.disk["feedback"] = FeedbackText
                   /\ {"feedback", "mission"} \subseteq done.wrote
<1> DEFINE done == HandlePOST(uri, text, rep, files, failing)
<1>1. CASE Refused(uri)
  BY <1>1 DEF HandlePOST, Answer, StockReply
<1>2. CASE ~Refused(uri) /\ uri = <<"/mission/group/">>
  <2>1. done = PublishMission(text, rep, files, failing)
    BY <1>2 DEF HandlePOST
  <2> QED
    BY <2>1, PublishMissionStores
<1>3. CASE ~Refused(uri) /\ uri # <<"/mission/group/">>
  BY <1>3 DEF HandlePOST, Answer
<1> QED
  BY <1>1, <1>2, <1>3

-----------------------------------------------------------------------------
(***************************************************************************)
(* The steps.                                                              *)
(***************************************************************************)

\* A step that is no handler of a completed read starts no write, and leaves
\* requests, replies and the disk alone.
LEMMA OtherStepsKeep ==
  ASSUME IInv, [Next]_vars, \A c \in Conn : ~ReadCompleted(c)
  PROVE  /\ UNCHANGED <<request_first, reply_, disk, written>>
         /\ \A c \in Conn : write_[c] = "none" => write_'[c] = "none"
<1>1. TypeOK
  BY DEF IInv
<1>2. ASSUME NEW d \in Conn, ConnectionStep(d)
      PROVE  /\ UNCHANGED <<request_first, reply_, disk, written>>
             /\ \A c \in Conn : write_[c] = "none" => write_'[c] = "none"
  <2> USE DEF ConnectionStep
  <2>1. CASE BytesArrive(d) \/ ReadFails(d) \/ ReadAborted(d)
    BY <2>1 DEF BytesArrive, ReadFails, ReadAborted, data
  <2>2. CASE WriteCompletes(d) \/ WriteFails(d) \/ WriteAborted(d)
    BY <2>2, <1>1 DEF WriteCompletes, WriteFails, WriteAborted, data, TypeOK
  <2>3. CASE ReadFailed(d) \/ WriteDone(d)
    BY <2>3, <1>1 DEF ReadFailed, WriteDone, ManagerStop, Cancel, data, TypeOK
  <2> QED
    BY <1>2, <2>1, <2>2, <2>3 DEF Network, Handler, ReadHandler, WriteHandler
<1>3. CASE StopHandler
  BY <1>3, <1>1 DEF StopHandler, ManagerStopAll, Cancel, data, TypeOK
<1> QED
  BY <1>2, <1>3 DEF Next, vars, ConnectionArrives, AcceptFails, SignalArrives,
     AcceptHandler, AcceptTooLate, AcceptConnection, AcceptAgain, RunReturns,
     control, data

\* The handler of a completed read writes a mission before it acknowledges it,
\* and leaves the requests, the replies and the writes of others alone.
LEMMA ReadCompletedStores ==
  ASSUME NEW c \in Conn, MissionInv, ReadCompleted(c), Asserts
  PROVE  StoreShape' /\ AcknowledgedMissionIsWritten'
<1> DEFINE text == Body(c)
<1>1. /\ IInv /\ DOMAIN disk = File /\ DOMAIN written = Conn
      /\ AcknowledgedMissionIsWritten
      /\ TypeOK /\ Shape /\ write_[c] = "none"
  BY DEF MissionInv, StoreShape, IInv, OneOperation, ReadCompleted
<1>2. \A d \in Conn \ {c} : /\ request_first'[d] = request_first[d]
                            /\ reply_'[d] = reply_[d]
                            /\ write_'[d] = write_[d]
  <2>1. ReadOutcome(c) /\ \A d \in Conn \ {c} :
           request_first'[d] = request_first[d] /\ reply_'[d] = reply_[d]
    BY <1>1, ReadCompletedOutcome
  <2> QED
    BY <1>1, <2>1 DEF ReadOutcome, do_read, do_write, TypeOK
<1>3. PICK p \in {Parsed(c)} :
        \/ AwaitBody(c, p) \/ AnswerPOST(c, p) \/ AnswerGET(c, p)
        \/ IgnoreMethod(c, p) \/ RejectBad(c, p) \/ ReadMore(c, p)
  BY DEF ReadCompleted
<1>4. PICK body : Keep(c, p, body)
  BY <1>3 DEF AwaitBody, AnswerPOST, AnswerGET, IgnoreMethod, RejectBad, ReadMore
<1>5. request_first'[c].method = p.parser.method /\ request_first'[c].uri = p.parser.uri
  BY <1>1, <1>4 DEF Keep, Shape
<1> HIDE DEF text
<1>6. /\ DOMAIN disk' = File /\ DOMAIN written' = Conn
      /\ \A d \in Conn \ {c} : written'[d] = written[d]
      /\ disk["mission"] = MissionText(text) => disk'["mission"] = MissionText(text)
      /\ disk["feedback"] = FeedbackText => disk'["feedback"] = FeedbackText
      /\ /\ request_first'[c].method = <<"POST">>
         /\ request_first'[c].uri = <<"/mission/group/">>
         /\ reply_'[c].status = 200
         /\ write_'[c] # "none"
         => /\ disk'["mission"] = MissionText(text) /\ disk'["feedback"] = FeedbackText
            /\ {"feedback", "mission"} \subseteq written'[c]
  <2>1. CASE AnswerPOST(c, p)
    <3>1. PICK failing \in SUBSET MayFail :
            LET done == HandlePOST(p.parser.uri, Body(c), reply_[c], disk, failing)
            IN  /\ reply_' = [reply_ EXCEPT ![c] = done.reply]
                /\ disk' = done.disk
                /\ written' = [written EXCEPT ![c] = written[c] \cup done.wrote]
                /\ IF done.aborted
                   THEN process' = "aborted" /\ UNCHANGED <<read_, write_>>
                   ELSE do_write(c) /\ UNCHANGED process
      BY <2>1 DEF AnswerPOST
    <3> DEFINE done == HandlePOST(p.parser.uri, text, reply_[c], disk, failing)
    <3>2. /\ reply_'[c] = done.reply /\ disk' = done.disk
          /\ written'[c] = written[c] \cup done.wrote
          /\ DOMAIN written' = Conn /\ \A d \in Conn \ {c} : written'[d] = written[d]
          /\ done.aborted => write_'[c] = "none"
      BY <1>1, <3>1 DEF Shape, text
    <3>3. /\ DOMAIN done.disk = File
          /\ disk["mission"] = MissionText(text) => done.disk["mission"] = MissionText(text)
          /\ disk["feedback"] = FeedbackText => done.disk["feedback"] = FeedbackText
          /\ /\ p.parser.uri = <<"/mission/group/">> /\ ~done.aborted
             /\ done.reply.status = 200
             => /\ done.disk["mission"] = MissionText(text)
                /\ done.disk["feedback"] = FeedbackText
                /\ {"feedback", "mission"} \subseteq done.wrote
      BY <1>1, HandlePOSTStores
    <3> HIDE DEF done
    <3> QED
      BY <1>5, <3>2, <3>3
  <2>2. CASE AnswerGET(c, p)
    BY <1>1, <1>5, <2>2 DEF AnswerGET, IsGET
  <2>3. CASE RejectBad(c, p)
    <3>1. reply_'[c].status = 400 /\ disk' = disk /\ written' = written
      BY <1>1, <2>3 DEF RejectBad, StockReply, Shape
    <3> QED
      BY <1>1, <3>1
  <2>4. CASE AwaitBody(c, p) \/ IgnoreMethod(c, p) \/ ReadMore(c, p)
    BY <1>1, <2>4 DEF AwaitBody, IgnoreMethod, ReadMore
  <2> QED
    BY <1>3, <2>1, <2>2, <2>3, <2>4
<1> QED
  BY <1>1, <1>2, <1>6
     DEF StoreShape, AcknowledgedMissionIsWritten, Acknowledged, MissionText

-----------------------------------------------------------------------------
\* The server starts in the invariant: nothing is acknowledged.
LEMMA InitMissionInv == Init => MissionInv
<1> SUFFICES ASSUME Init PROVE MissionInv
  OBVIOUS
<1>1. DOMAIN disk = File /\ DOMAIN written = Conn
  BY ConnectionAssumption DEF Init, ConnectionInit
<1>2. AcknowledgedMissionIsWritten
  BY DEF AcknowledgedMissionIsWritten, Init, ConnectionInit
<1> QED
  BY <1>1, <1>2, InitIInv DEF MissionInv, StoreShape

\* In a build with assertions every step keeps it.
LEMMA NextMissionInv ==
  ASSUME Asserts, MissionInv, [Next]_vars
  PROVE  MissionInv'
<1>1. IInv'
  BY NextIInv DEF MissionInv
<1>2. CASE \E c \in Conn : ReadCompleted(c)
  BY <1>1, <1>2, ReadCompletedStores DEF MissionInv
<1>3. CASE \A c \in Conn : ~ReadCompleted(c)
  <2>1. /\ UNCHANGED <<request_first, reply_, disk, written>>
        /\ \A c \in Conn : write_[c] = "none" => write_'[c] = "none"
    BY <1>3, OtherStepsKeep DEF MissionInv
  <2> QED
    BY <1>1, <2>1
       DEF MissionInv, StoreShape, AcknowledgedMissionIsWritten, Acknowledged, MissionText
<1> QED
  BY <1>2, <1>3

\* A mission whose acknowledgement is sent had both its files opened and
\* written, and they hold what their functions write, whatever fails
\* (request_handler.cpp:116-147, cstjson.cpp:39-91).
THEOREM AcknowledgedIsWritten ==
  ASSUME Asserts
  PROVE  Spec => []AcknowledgedMissionIsWritten
<1>1. Init => MissionInv
  BY InitMissionInv
<1>2. MissionInv /\ [Next]_vars => MissionInv'
  BY Asserts, NextMissionInv
<1>3. MissionInv => AcknowledgedMissionIsWritten
  BY DEF MissionInv
<1> QED
  BY <1>1, <1>2, <1>3, PTL DEF Spec


-----------------------------------------------------------------------------
(***************************************************************************)
(* The octets of the connections.                                          *)
(*                                                                         *)
(* Heard(c) is how much of its stream the parser of c was given: not yet   *)
(* what a completed read, whose handler is still to run, has delivered.    *)
(***************************************************************************)
Heard(c) == IF read_[c] = "ok" THEN start[c] ELSE taken[c]

\* The types of the data, and what is received of each stream.
DataType ==
  /\ stream \in [Conn -> Seq(Octet)] /\ buffer_ \in [Conn -> Seq(Octet)]
  /\ start \in [Conn -> Nat] /\ taken \in [Conn -> Nat]
  /\ parser_ \in [Conn -> Parser]
  /\ DOMAIN reply_ = Conn /\ \A c \in Conn : "status" \in DOMAIN reply_[c]
  /\ \A c \in Conn : start[c] <= taken[c] /\ taken[c] <= Len(stream[c])

\* A socket that was not accepted yet has received nothing; one that was, has
\* a client.
Fresh ==
  \A c \in Conn :
    /\ socket_[c] # "none" => stream[c] \in Streams
    /\ socket_[c] = "none" => /\ taken[c] = 0
                              /\ parser_[c] = NewParser /\ reply_[c] = NoReply

\* In the buffer of a completed read is what the read has delivered.
BufferHoldsRead ==
  process # "aborted" =>
    \A c \in Conn :
      read_[c] = "ok" => SubSeq(buffer_[c], 1, taken[c] - start[c]) =
                           SubSeq(stream[c], start[c] + 1, taken[c])

\* The parser of a client that is not refused has come to no verdict on what
\* it heard, or has accepted the header section.
Follows(p, w, n) == Unjudged(p, w, n) \/ \E k \in 1..n : Accepted(p, w, k)

ParserFollows ==
  process # "aborted" =>
    \A c \in Conn : Malformed(stream[c]) \/ Follows(parser_[c], stream[c], Heard(c))

\* A GET is still read, without a verdict, or it was answered after its header
\* section was read.
Unanswered(c) ==
  /\ reply_[c] = NoReply
  /\ process # "aborted" => Unjudged(parser_[c], stream[c], Heard(c))

StaticReply ==
  [status |-> 200, content |-> disk["static"], length |-> Len(disk["static"])]

Answered(c) ==
  /\ read_[c] = "none" /\ socket_[c] \in {"open", "closed"}
  /\ taken[c] >= HeaderEnd(stream[c]) + 3
  /\ UriOf(stream[c]) \in {<<"/file">>, <<"/file?used">>} => reply_[c] = StaticReply

GetsAreAnswered ==
  \A c \in Conn : stream[c] \in GETs => Unanswered(c) \/ Answered(c)

\* The file that no program writes is there.
StaticIsFile ==
  DOMAIN disk = File /\ disk["static"] \in Seq(STRING) \ {NoFile}

DeliveryInv ==
  /\ IInv /\ DataType /\ Fresh /\ BufferHoldsRead /\ ParserFollows
  /\ GetsAreAnswered /\ StaticIsFile

-----------------------------------------------------------------------------
(***************************************************************************)
(* What a well-formed request is to the parser.                            *)
(***************************************************************************)

\* No well-formed request is refused.
LEMMA WellformedNotMalformed ==
  ASSUME NEW w \in Seq(Octet), IsRequest(w)
  PROVE  ~Malformed(w)
<1>1. Len(w) \in 0..Len(w) /\ First(w, Len(w)) = w
  BY DEF First
<1> DEFINE r == Parse[<<NewParser, First(w, Len(w))>>]
<1>2. Verdict(r, w, Len(w))
  BY <1>1, WholeVerdict
<1>3. r.result # "bad"
  <2> HIDE DEF r
  <2> QED
    BY <1>2, RequestNotHopeless DEF Verdict
<1> QED
  BY <1>1, <1>3 DEF Malformed

\* A GET is no POST.
LEMMA GetIsNoPost ==
  ASSUME NEW w \in Seq(Octet), MethodOf(w) = <<"GET">>, NEW m \in 0..Len(w),
         NEW p, Spelled(p, First(w, m))
  PROVE  p.method # <<"POST">>
<1>1. w[1] = "GET"
  BY MethodIsFirst
<1>2. ASSUME p.method = <<"POST">> PROVE w[1] = "POST"
  BY <1>2, MethodIsFirst
<1> QED
  BY <1>1, <1>2

\* The streams that are well-formed are sequences, requests, and not refused.
LEMMA WellformedIs ==
  ASSUME NEW method, NEW w \in Wellformed(method)
  PROVE  /\ w \in Seq(Octet) /\ MethodOf(w) = <<method>> /\ IsRequest(w)
         /\ ~Malformed(w)
<1>1. w \in Seq(Octet) /\ MethodOf(w) = <<method>> /\ IsRequest(w)
  BY ConnectionAssumption DEF Wellformed
<1> QED
  BY <1>1, WellformedNotMalformed

-----------------------------------------------------------------------------
(***************************************************************************)
(* What parse makes of a completed read.                                   *)
(***************************************************************************)
LEMMA ParsedRead ==
  ASSUME NEW c \in Conn, DeliveryInv, process = "running", read_[c] = "ok",
         NEW p, p = Parsed(c)
  PROVE  LET w == stream[c]
             m == taken[c]
         IN  /\ w \in Seq(Octet) /\ m \in 0..Len(w) /\ p \in [parser : Parser, result : Result]
             /\ Unjudged(parser_[c], w, start[c]) =>
                  /\ Verdict(p, w, m)
                  /\ p.result = "indeterminate" => Unjudged(p.parser, w, m)
                  /\ p.result = "bad" => Malformed(w)
             /\ ~Malformed(w) =>
                  \/ p.result = "indeterminate" /\ Unjudged(p.parser, w, m)
                  \/ \E k \in 1..m : Accepted(p.parser, w, k)
<1> DEFINE w == stream[c]
           n == start[c]
           m == taken[c]
           q == parser_[c]
           s == SubSeq(w, n + 1, m)
<1>1. /\ w \in Seq(Octet) /\ n \in Nat /\ m \in Nat /\ n <= m /\ m <= Len(w) /\ q \in Parser
  BY DEF DeliveryInv, DataType
<1>2. p = Parse[<<q, s>>]
  <2>1. SubSeq(buffer_[c], 1, taken[c] - start[c]) = s
    BY DEF DeliveryInv, BufferHoldsRead
  <2> QED
    BY <2>1 DEF Parsed
<1>3. Malformed(w) \/ Follows(q, w, n)
  BY DEF DeliveryInv, ParserFollows, Heard
<1> HIDE DEF w, n, m, q
<1>4. s \in Seq(Octet)
  BY <1>1
<1>5. p \in [parser : Parser, result : Result]
  BY <1>1, <1>2, <1>4, ParseType
<1>6. ASSUME Unjudged(q, w, n)
      PROVE  /\ Verdict(p, w, m)
             /\ p.result = "indeterminate" => Unjudged(p.parser, w, m)
             /\ p.result # "indeterminate" => Parse[<<NewParser, w>>] = p
  BY <1>1, <1>2, <1>6, CallVerdict
<1>7. ASSUME Unjudged(q, w, n), p.result = "bad" PROVE Malformed(w)
  BY <1>6, <1>7 DEF Malformed
<1>8. ASSUME ~Malformed(w)
      PROVE  \/ p.result = "indeterminate" /\ Unjudged(p.parser, w, m)
             \/ \E k \in 1..m : Accepted(p.parser, w, k)
  <2>1. CASE Unjudged(q, w, n)
    <3>1. p.result \in {"good", "indeterminate"}
      BY <1>5, <1>7, <1>8, <2>1 DEF Result
    <3>2. p.result = "good" => \E k \in 1..m : Accepted(p.parser, w, k)
      BY <1>6, <2>1 DEF Verdict
    <3> QED
      BY <1>6, <2>1, <3>1, <3>2
  <2>2. ASSUME NEW k \in 1..n, Accepted(q, w, k) PROVE \E l \in 1..m : Accepted(p.parser, w, l)
    <3>1. q.state_ = "expecting_newline_3"
      BY <2>2 DEF Accepted
    <3>2. p.parser = q
      BY <1>1, <1>2, <1>4, <3>1, ParseAccepted
    <3>3. k \in 1..m
      BY <1>1
    <3> QED
      BY <2>2, <3>2, <3>3
  <2> QED
    BY <1>3, <1>8, <2>1, <2>2 DEF Follows
<1>9. m \in 0..Len(w)
  BY <1>1
<1> QED
  BY <1>1, <1>5, <1>6, <1>7, <1>8, <1>9 DEF w, n, m, q

-----------------------------------------------------------------------------
(***************************************************************************)
(* The steps.                                                              *)
(***************************************************************************)

\* A step that neither receives, nor parses, nor takes a new client.
QuietStep ==
  /\ UNCHANGED <<stream, start, taken, parser_, reply_, disk>>
  /\ process = "aborted" => process' = "aborted"
  /\ buffer_' \in [Conn -> Seq(Octet)]
  /\ \A c \in Conn :
       /\ read_'[c] = "ok" <=> read_[c] = "ok"
       /\ read_[c] = "ok" => buffer_'[c] = buffer_[c]
       /\ socket_'[c] = "none" <=> socket_[c] = "none"
       /\ socket_[c] \in {"open", "closed"} =>
            /\ socket_'[c] \in {"open", "closed"}
            /\ read_[c] = "none" => read_'[c] = "none"

\* Such a step leaves all that the invariant says of clients and replies.
LEMMA QuietKeeps ==
  ASSUME DeliveryInv, IInv', QuietStep
  PROVE  DeliveryInv'
<1> USE DEF QuietStep
<1>1. \A c \in Conn : Heard(c)' = Heard(c)
  BY DEF Heard
<1>2. DataType'
  BY DEF DeliveryInv, DataType
<1>3. Fresh'
  BY DEF DeliveryInv, Fresh
<1>4. BufferHoldsRead'
  BY DEF DeliveryInv, BufferHoldsRead
<1>5. ParserFollows'
  <2> SUFFICES ASSUME process' # "aborted", NEW c \in Conn
               PROVE  (Malformed(stream[c]) \/ Follows(parser_[c], stream[c], Heard(c)))'
    BY DEF ParserFollows
  <2>1. Malformed(stream[c]) \/ Follows(parser_[c], stream[c], Heard(c))
    BY DEF DeliveryInv, ParserFollows
  <2> QED
    BY <1>1, <2>1
<1>6. GetsAreAnswered'
  <2> SUFFICES ASSUME NEW c \in Conn, stream'[c] \in GETs
               PROVE  Unanswered(c)' \/ Answered(c)'
    BY DEF GetsAreAnswered
  <2>1. Unanswered(c) \/ Answered(c)
    BY DEF DeliveryInv, GetsAreAnswered
  <2>2. ASSUME Unanswered(c) PROVE Unanswered(c)'
    BY <1>1, <2>2 DEF Unanswered
  <2>3. ASSUME Answered(c) PROVE Answered(c)'
    BY <2>3 DEF Answered, StaticReply
  <2> QED
    BY <2>1, <2>2, <2>3
<1>7. StaticIsFile'
  BY DEF DeliveryInv, StaticIsFile
<1> QED
  BY <1>2, <1>3, <1>4, <1>5, <1>6, <1>7 DEF DeliveryInv


\* Every step is quiet but the arrival of a client, the arrival of octets and
\* the handler of a completed read.
LEMMA OtherStepsAreQuiet ==
  ASSUME DeliveryInv, [Next]_vars,
         \A c \in Conn : ~ConnectionArrives(c) /\ ~BytesArrive(c) /\ ~ReadCompleted(c)
  PROVE  QuietStep
<1>1. TypeOK /\ DataType
  BY DEF DeliveryInv, IInv
<1> DEFINE Kept == UNCHANGED <<stream, start, taken, parser_, reply_, disk>>
           Calm(c) == /\ read_'[c] = "ok" <=> read_[c] = "ok"
                      /\ socket_'[c] = "none" <=> socket_[c] = "none"
                      /\ socket_[c] \in {"open", "closed"} =>
                           /\ socket_'[c] \in {"open", "closed"}
                           /\ read_[c] = "none" => read_'[c] = "none"
<1>2. ASSUME Kept, process = "aborted" => process' = "aborted", UNCHANGED buffer_,
             \A c \in Conn : Calm(c)
      PROVE  QuietStep
  BY <1>1, <1>2 DEF QuietStep, DataType
<1>3. ASSUME UNCHANGED <<process, socket_, read_, data>> PROVE QuietStep
  <2>1. Kept /\ UNCHANGED <<process, socket_, read_, buffer_>>
    BY <1>3 DEF data
  <2> QED
    BY <1>2, <2>1
<1>4. ASSUME NEW d \in Conn, ConnectionStep(d) PROVE QuietStep
  <2> USE DEF ConnectionStep
  <2>1. ASSUME UNCHANGED <<process, data>>, \A c \in Conn : Calm(c) PROVE QuietStep
    <3>1. Kept /\ UNCHANGED <<process, buffer_>>
      BY <2>1 DEF data
    <3> HIDE DEF Calm
    <3> QED
      BY <1>2, <2>1, <3>1
  <2>2. CASE ReadFails(d)
    <3>1. \A c \in Conn : Calm(c)
      BY <1>1, <2>2 DEF ReadFails, TypeOK
    <3> QED
      BY <2>1, <2>2, <3>1 DEF ReadFails
  <2>3. CASE ReadAborted(d)
    <3>1. \A c \in Conn : Calm(c)
      BY <1>1, <2>3 DEF ReadAborted, TypeOK
    <3> QED
      BY <2>1, <2>3, <3>1 DEF ReadAborted
  <2>0. ASSUME read_[d] # "none" \/ write_[d] # "none" PROVE socket_[d] \in {"open", "closed"}
    BY <1>1, <2>0 DEF DeliveryInv, IInv, IdleUnlessStarted, TypeOK
  <2>4. CASE ReadFailed(d)
    <3>1. /\ socket_' = [c \in Conn |-> IF c \in {d} THEN "closed" ELSE socket_[c]]
          /\ read_' = [read_ EXCEPT ![d] = "none"] /\ read_[d] = "error"
      BY <2>4 DEF ReadFailed, ManagerStop, Close
    <3>2. \A c \in Conn : Calm(c)
      BY <1>1, <2>0, <3>1 DEF TypeOK
    <3> QED
      BY <2>1, <2>4, <3>2 DEF ReadFailed
  <2>5. CASE WriteDone(d)
    <3>1. /\ socket_' = [c \in Conn |-> IF c \in {d} THEN "closed" ELSE socket_[c]]
          /\ read_' = Cancel(read_, {d}) /\ write_[d] # "none"
      BY <2>5 DEF WriteDone, ManagerStop, Close
    <3>2. \A c \in Conn : read_'[c] = read_[c] \/ (read_[c] = "pending" /\ read_'[c] = "aborted")
      BY <1>1, <3>1 DEF Cancel, TypeOK
    <3>3. \A c \in Conn : Calm(c)
      BY <1>1, <2>0, <3>1, <3>2 DEF TypeOK
    <3> QED
      BY <2>1, <2>5, <3>3 DEF WriteDone
  <2>6. CASE WriteCompletes(d) \/ WriteFails(d) \/ WriteAborted(d)
    BY <1>3, <2>6 DEF WriteCompletes, WriteFails, WriteAborted
  <2> QED
    BY <1>4, <2>2, <2>3, <2>4, <2>5, <2>6
       DEF Network, Handler, ReadHandler, WriteHandler
<1>5. ASSUME NEW d \in Conn, AcceptConnection(d) PROVE QuietStep
  <2>1. /\ read_' = [read_ EXCEPT ![d] = "pending"]
        /\ socket_' = [socket_ EXCEPT ![d] = "open"] /\ socket_[d] = "accepted"
        /\ Kept /\ UNCHANGED process
    BY <1>5 DEF AcceptConnection, ManagerStart
  <2>2. read_[d] = "none"
    BY <2>1 DEF DeliveryInv, IInv, IdleUnlessStarted
  <2>3. PICK junk \in Seq(Octet) : buffer_' = [buffer_ EXCEPT ![d] = junk]
    BY <1>5, ConnectionAssumption DEF AcceptConnection, ManagerStart
  <2>4. \A c \in Conn : Calm(c)
    BY <1>1, <2>1, <2>2 DEF TypeOK
  <2>5. /\ buffer_' \in [Conn -> Seq(Octet)]
        /\ \A c \in Conn : read_[c] = "ok" => buffer_'[c] = buffer_[c]
    BY <1>1, <2>2, <2>3 DEF DataType
  <2> QED
    BY <2>1, <2>4, <2>5 DEF QuietStep
<1>6. CASE AcceptTooLate
  <2>1. \A c \in Conn : Calm(c)
    BY <1>1, <1>6 DEF AcceptTooLate, Close, TypeOK
  <2>2. Kept /\ UNCHANGED <<process, buffer_>>
    BY <1>6 DEF AcceptTooLate, data
  <2> QED
    BY <1>2, <2>1, <2>2
<1>7. CASE StopHandler
  <2>1. \A c \in Conn : Calm(c)
    <3>1. \A c \in connections_ : socket_[c] = "open"
      BY DEF DeliveryInv, IInv, ManagedIsOpen
    <3> QED
      BY <1>1, <1>7, <3>1 DEF StopHandler, ManagerStopAll, Close, Cancel, TypeOK
  <2>2. Kept /\ UNCHANGED <<process, buffer_>>
    BY <1>7 DEF StopHandler, data
  <2> QED
    BY <1>2, <2>1, <2>2
<1>8. CASE RunReturns
  <2>1. Kept /\ UNCHANGED <<socket_, read_, buffer_>> /\ process # "aborted"
    BY <1>8 DEF RunReturns, data
  <2> QED
    BY <1>2, <2>1
<1>9. CASE AcceptFails \/ SignalArrives \/ AcceptAgain \/ UNCHANGED vars
  BY <1>3, <1>9 DEF AcceptFails, SignalArrives, AcceptAgain, vars, control
<1> QED
  BY <1>4, <1>5, <1>6, <1>7, <1>8, <1>9 DEF Next, AcceptHandler

\* A new client has sent nothing yet.
LEMMA ConnectionArrivesKeeps ==
  ASSUME NEW d \in Conn, DeliveryInv, IInv', ConnectionArrives(d)
  PROVE  DeliveryInv'
<1>1. TypeOK /\ DataType
  BY DEF DeliveryInv, IInv
<1>2. PICK s \in Streams : stream' = [stream EXCEPT ![d] = s]
  BY DEF ConnectionArrives
<1>3. /\ process = "running" /\ socket_[d] = "none"
      /\ socket_' = [socket_ EXCEPT ![d] = "accepted"]
      /\ UNCHANGED <<process, read_, start, taken, buffer_, parser_, reply_, disk>>
  BY DEF ConnectionArrives
<1>4. /\ s \in Seq(Octet) /\ stream'[d] = s /\ socket_'[d] = "accepted"
      /\ \A c \in Conn \ {d} : stream'[c] = stream[c] /\ socket_'[c] = socket_[c]
      /\ stream' \in [Conn -> Seq(Octet)]
  BY <1>1, <1>2, <1>3, ConnectionAssumption DEF DataType, TypeOK
<1>5. /\ taken[d] = 0 /\ start[d] = 0 /\ Heard(d) = 0 /\ read_[d] = "none"
      /\ parser_[d] = NewParser /\ reply_[d] = NoReply
  <2>1. /\ taken[d] = 0 /\ parser_[d] = NewParser /\ reply_[d] = NoReply
        /\ read_[d] = "none" /\ start[d] \in Nat /\ start[d] <= taken[d]
    BY <1>3 DEF DeliveryInv, Fresh, DataType, IInv, IdleUnlessStarted
  <2> QED
    BY <2>1 DEF Heard
<1>6. \A c \in Conn : Heard(c)' = Heard(c)
  BY <1>3 DEF Heard
<1>7. Unjudged(NewParser, s, 0)
  BY <1>4, NewUnjudged
<1>8. DataType'
  <2>1. Len(s) \in Nat
    BY <1>4
  <2>2. ASSUME NEW c \in Conn PROVE start[c] <= taken[c] /\ taken[c] <= Len(stream'[c])
    <3>1. CASE c = d
      BY <1>4, <1>5, <2>1, <3>1
    <3>2. CASE c # d
      BY <1>1, <1>4, <3>2 DEF DataType
    <3> QED
      BY <3>1, <3>2
  <2> QED
    BY <1>1, <1>3, <1>4, <2>2 DEF DataType
<1>9. Fresh'
  BY <1>3, <1>4 DEF DeliveryInv, Fresh
<1>10. BufferHoldsRead'
  <2> SUFFICES ASSUME NEW c \in Conn, read_[c] = "ok"
               PROVE  SubSeq(buffer_[c], 1, taken[c] - start[c]) =
                        SubSeq(stream'[c], start[c] + 1, taken[c])
    BY <1>3 DEF BufferHoldsRead
  <2>1. c # d
    BY <1>5
  <2> QED
    BY <1>3, <1>4, <2>1 DEF DeliveryInv, BufferHoldsRead
<1>11. ParserFollows'
  <2> SUFFICES ASSUME NEW c \in Conn
               PROVE  Malformed(stream'[c]) \/ Follows(parser_[c], stream'[c], Heard(c))
    BY <1>3, <1>6 DEF ParserFollows
  <2>1. CASE c = d
    BY <1>4, <1>5, <1>7, <2>1 DEF Follows
  <2>2. CASE c # d
    BY <1>3, <1>4, <2>2 DEF DeliveryInv, ParserFollows
  <2> QED
    BY <2>1, <2>2
<1>12. GetsAreAnswered'
  <2> SUFFICES ASSUME NEW c \in Conn, stream'[c] \in GETs
               PROVE  Unanswered(c)' \/ Answered(c)'
    BY DEF GetsAreAnswered
  <2>1. CASE c = d
    BY <1>3, <1>4, <1>5, <1>6, <1>7, <2>1 DEF Unanswered
  <2>2. CASE c # d
    <3>1. stream'[c] = stream[c] /\ socket_'[c] = socket_[c] /\ Heard(c)' = Heard(c)
      BY <1>4, <1>6, <2>2
    <3>2. Unanswered(c) \/ Answered(c)
      BY <3>1 DEF DeliveryInv, GetsAreAnswered
    <3>3. Unanswered(c) => Unanswered(c)'
      BY <1>3, <3>1 DEF Unanswered
    <3>4. Answered(c) => Answered(c)'
      BY <1>3, <3>1 DEF Answered, StaticReply
    <3> QED
      BY <3>2, <3>3, <3>4
  <2> QED
    BY <2>1, <2>2
<1>13. StaticIsFile'
  BY <1>3 DEF DeliveryInv, StaticIsFile
<1> QED
  BY <1>8, <1>9, <1>10, <1>11, <1>12, <1>13 DEF DeliveryInv


\* What a read has delivered is in the buffer, whatever is behind it.
LEMMA PrefixOfBuffer ==
  ASSUME NEW w \in Seq(Octet), NEW t \in Nat, NEW n \in Nat, t <= n, n <= Len(w),
         NEW junk \in Seq(Octet)
  PROVE  SubSeq(SubSeq(w, t + 1, n) \o junk, 1, n - t) = SubSeq(w, t + 1, n)
<1> DEFINE s == SubSeq(w, t + 1, n)
<1>1. s \in Seq(Octet) /\ Len(s) = n - t
  OBVIOUS
<1> HIDE DEF s
<1>2. SubSeq(s \o junk, 1, Len(s)) = s
  BY <1>1
<1> QED
  BY <1>1, <1>2 DEF s

\* Octets arrive, and are not heard yet.
LEMMA BytesArriveKeeps ==
  ASSUME NEW d \in Conn, DeliveryInv, IInv', BytesArrive(d)
  PROVE  DeliveryInv'
<1>1. TypeOK /\ DataType
  BY DEF DeliveryInv, IInv
<1>2. /\ process = "running" /\ read_[d] = "pending"
      /\ read_' = [read_ EXCEPT ![d] = "ok"]
      /\ start' = [start EXCEPT ![d] = taken[d]]
      /\ UNCHANGED <<process, socket_, stream, parser_, reply_, disk>>
  BY DEF BytesArrive
<1>3. PICK n \in Cuts \cup {Len(stream[d])} :
        /\ taken[d] < n /\ n <= Len(stream[d])
        /\ taken' = [taken EXCEPT ![d] = n]
        /\ \E junk \in IF n - taken[d] = BufSize THEN Residue ELSE {buffer_[d]} :
             buffer_' = [buffer_ EXCEPT
                           ![d] = SubSeq(stream[d], taken[d] + 1, n) \o junk]
  BY DEF BytesArrive
<1>4. PICK junk \in Seq(Octet) :
        buffer_' = [buffer_ EXCEPT ![d] = SubSeq(stream[d], taken[d] + 1, n) \o junk]
  BY <1>1, <1>3, ConnectionAssumption DEF DataType
<1> DEFINE w == stream[d]
           t == taken[d]
<1>5. w \in Seq(Octet) /\ t \in Nat /\ n \in Nat /\ t <= n /\ n <= Len(w)
  BY <1>1, <1>3, ConnectionAssumption DEF DataType
<1>6. /\ start'[d] = t /\ taken'[d] = n /\ read_'[d] = "ok"
      /\ buffer_'[d] = SubSeq(w, t + 1, n) \o junk
      /\ \A c \in Conn \ {d} : /\ start'[c] = start[c] /\ taken'[c] = taken[c]
                               /\ read_'[c] = read_[c] /\ buffer_'[c] = buffer_[c]
  BY <1>1, <1>2, <1>3, <1>4 DEF DataType, TypeOK
<1>7. \A c \in Conn : Heard(c)' = Heard(c) /\ (read_[c] = "none" => taken'[c] = taken[c])
  BY <1>2, <1>6 DEF Heard
<1>8. DataType'
  <2>1. SubSeq(w, t + 1, n) \o junk \in Seq(Octet)
    <3>1. SubSeq(w, t + 1, n) \in Seq(Octet)
      BY <1>5
    <3> HIDE DEF w, t
    <3> QED
      BY <3>1
  <2>2. /\ buffer_' \in [Conn -> Seq(Octet)]
        /\ start' \in [Conn -> Nat] /\ taken' \in [Conn -> Nat]
    BY <1>1, <1>2, <1>3, <1>4, <1>5, <2>1 DEF DataType
  <2>3. ASSUME NEW c \in Conn PROVE start'[c] <= taken'[c] /\ taken'[c] <= Len(stream[c])
    BY <1>1, <1>5, <1>6 DEF DataType
  <2> QED
    BY <1>1, <1>2, <2>2, <2>3 DEF DataType
<1>9. Fresh'
  <2>1. socket_[d] # "none"
    BY <1>2 DEF DeliveryInv, IInv, IdleUnlessStarted
  <2> QED
    BY <1>2, <1>6, <2>1 DEF DeliveryInv, Fresh
<1>10. BufferHoldsRead'
  <2>1. SubSeq(SubSeq(w, t + 1, n) \o junk, 1, n - t) = SubSeq(w, t + 1, n)
    BY <1>5, PrefixOfBuffer
  <2> QED
    BY <1>2, <1>6, <2>1 DEF DeliveryInv, BufferHoldsRead
<1>11. ParserFollows'
  BY <1>2, <1>7 DEF DeliveryInv, ParserFollows
<1>12. GetsAreAnswered'
  <2> SUFFICES ASSUME NEW c \in Conn, stream[c] \in GETs
               PROVE  Unanswered(c)' \/ Answered(c)'
    BY <1>2 DEF GetsAreAnswered
  <2>1. Unanswered(c) \/ Answered(c)
    BY DEF DeliveryInv, GetsAreAnswered
  <2>2. Unanswered(c) => Unanswered(c)'
    BY <1>2, <1>7 DEF Unanswered
  <2>3. Answered(c) => Answered(c)'
    BY <1>2, <1>6 DEF Answered, StaticReply
  <2> QED
    BY <2>1, <2>2, <2>3
<1>13. StaticIsFile'
  BY <1>2 DEF DeliveryInv, StaticIsFile
<1> QED
  BY <1>8, <1>9, <1>10, <1>11, <1>12, <1>13 DEF DeliveryInv

\* No handler of a POST writes the static file.
LEMMA HandlePOSTKeepsStatic ==
  ASSUME NEW uri, NEW text, NEW rep, NEW files, DOMAIN files = File, NEW failing
  PROVE  LET new == HandlePOST(uri, text, rep, files, failing).disk
         IN  DOMAIN new = File /\ new["static"] = files["static"]
<1>1. /\ "static" \in File /\ "feedback" \in File /\ "mission" \in File
      /\ "static" # "feedback" /\ "static" # "mission"
  BY DEF File
<1> DEFINE disk1 == WriteFile("feedback", FeedbackText, files, failing)
           disk2 == WriteFile("mission", MissionText(text), disk1, failing)
<1>2. DOMAIN disk1 = File /\ disk1["static"] = files["static"]
  BY <1>1, WriteFileKeeps
<1>3. DOMAIN disk2 = File /\ disk2["static"] = files["static"]
  BY <1>1, <1>2, WriteFileKeeps
<1> DEFINE new == HandlePOST(uri, text, rep, files, failing).disk
<1>4. new \in {files, disk1, disk2}
  BY DEF HandlePOST, PublishMission, Answer
<1> HIDE DEF disk1, disk2, new
<1>5. DOMAIN new = File /\ new["static"] = files["static"]
  BY <1>2, <1>3, <1>4
<1> QED
  BY <1>5 DEF new

\* A reply has a status, whoever made it; and that of a POST that is not
\* refused, where no assert failed, is 200 or 404.
LEMMA HandlersGiveStatus ==
  ASSUME NEW rep, "status" \in DOMAIN rep
  PROVE  /\ "status" \in DOMAIN StockReply(400)
         /\ \A uri, files : "status" \in DOMAIN HandleGET(uri, rep, files)
         /\ \A uri, text, files, failing :
              LET done == HandlePOST(uri, text, rep, files, failing)
              IN  /\ "status" \in DOMAIN done.reply
                  /\ ~Refused(uri) /\ ~done.aborted => done.reply.status \in {200, 404}
<1>1. \A code : "status" \in DOMAIN StockReply(code) /\ StockReply(code).status = code
  BY DEF StockReply
<1>2. ASSUME NEW file, NEW old, NEW files
      PROVE  /\ "status" \in DOMAIN ServeFile(file, old, files)
             /\ ServeFile(file, old, files).status \in {200, 404}
  BY <1>1 DEF ServeFile
<1>3. ASSUME NEW uri, NEW files PROVE "status" \in DOMAIN HandleGET(uri, rep, files)
  BY <1>1, <1>2 DEF HandleGET
<1>4. ASSUME NEW text, NEW files, NEW failing
      PROVE  LET done == PublishMission(text, rep, files, failing)
             IN  /\ "status" \in DOMAIN done.reply
                 /\ ~done.aborted => done.reply.status \in {200, 404}
  <2> DEFINE done == PublishMission(text, rep, files, failing)
  <2>1. \/ done.reply = rep /\ done.aborted
        \/ done.reply = [rep EXCEPT !.status = 200] /\ done.aborted
        \/ \E file, old, new : done.reply = ServeFile(file, old, new)
    BY DEF PublishMission
  <2> HIDE DEF done
  <2>2. "status" \in DOMAIN [rep EXCEPT !.status = 200]
    OBVIOUS
  <2>3. "status" \in DOMAIN done.reply /\ (~done.aborted => done.reply.status \in {200, 404})
    BY <1>2, <2>1, <2>2
  <2> QED
    BY <2>3 DEF done
<1>5. ASSUME NEW uri, NEW text, NEW files, NEW failing
      PROVE  LET done == HandlePOST(uri, text, rep, files, failing)
             IN  /\ "status" \in DOMAIN done.reply
                 /\ ~Refused(uri) /\ ~done.aborted => done.reply.status \in {200, 404}
  <2> DEFINE done == HandlePOST(uri, text, rep, files, failing)
             obeyed == [rep EXCEPT !.status = 200, !.length = Len(rep.content)]
  <2>1. "status" \in DOMAIN obeyed /\ obeyed.status = 200
    OBVIOUS
  <2> HIDE DEF obeyed
  <2>2. \/ Refused(uri) /\ done.reply = StockReply(400)
        \/ done = PublishMission(text, rep, files, failing)
        \/ done.reply = obeyed
        \/ \E file : done.reply = ServeFile(file, rep, files)
    BY DEF HandlePOST, Answer, obeyed
  <2> HIDE DEF done
  <2>3. /\ "status" \in DOMAIN done.reply
        /\ ~Refused(uri) /\ ~done.aborted => done.reply.status \in {200, 404}
    BY <1>1, <1>2, <1>4, <2>1, <2>2
  <2> QED
    BY <2>3 DEF done
<1> QED
  BY <1>1, <1>3, <1>5

\* The reply of a GET for the static file.
LEMMA StaticServed ==
  ASSUME NEW uri \in {<<"/file">>, <<"/file?used">>}, StaticIsFile
  PROVE  HandleGET(uri, NoReply, disk) = StaticReply
<1>1. ~Refused(uri)
  <2>1. /\ uri # <<>> /\ uri[1] \in {"/file", "/file?used"}
        /\ Len(uri) = 1 /\ DOMAIN uri = {1}
    OBVIOUS
  <2>2. ~Contains(uri, "/%zz") /\ ~Contains(uri, "/..")
    BY <2>1 DEF Contains
  <2> QED
    BY <2>1, <2>2 DEF Refused, Decodes, InRoot, Path
<1>2. FileOfGET(uri) = "static"
  BY DEF FileOfGET
<1>3. disk["static"] \in Seq(STRING) /\ disk["static"] # NoFile
  BY DEF StaticIsFile
<1>4. <<>> \o disk["static"] = disk["static"]
  BY <1>3
<1> QED
  BY <1>1, <1>2, <1>3, <1>4 DEF HandleGET, ServeFile, NoReply, StaticReply


\* A GET whose read has completed is read on, or its file is sent.
LEMMA GetIsRead ==
  ASSUME NEW c \in Conn, DeliveryInv, ReadCompleted(c), stream[c] \in GETs
  PROVE  /\ disk' = disk /\ process' = process
         /\ \/ /\ reply_'[c] = NoReply
               /\ Unjudged(parser_'[c], stream[c], taken[c])
            \/ /\ read_'[c] = "none" /\ socket_[c] \in {"open", "closed"}
               /\ taken[c] >= HeaderEnd(stream[c]) + 3
               /\ UriOf(stream[c]) \in {<<"/file">>, <<"/file?used">>} =>
                    reply_'[c] = StaticReply
<1> DEFINE w == stream[c]
           m == taken[c]
<1>1. TypeOK /\ DataType /\ process = "running" /\ read_[c] = "ok"
  BY DEF DeliveryInv, IInv, ReadCompleted
<1>2. PICK p \in {Parsed(c)} :
        \/ AwaitBody(c, p) \/ AnswerPOST(c, p) \/ AnswerGET(c, p)
        \/ IgnoreMethod(c, p) \/ RejectBad(c, p) \/ ReadMore(c, p)
  BY DEF ReadCompleted
<1>3. w \in Seq(Octet) /\ MethodOf(w) = <<"GET">> /\ IsRequest(w) /\ ~Malformed(w)
  BY WellformedIs DEF GETs
<1>4. reply_[c] = NoReply /\ Unjudged(parser_[c], w, start[c])
  BY <1>1 DEF DeliveryInv, GetsAreAnswered, Unanswered, Answered, Heard
<1>5. /\ m \in 0..Len(w) /\ p \in [parser : Parser, result : Result]
      /\ Verdict(p, w, m)
      /\ p.result = "indeterminate" => Unjudged(p.parser, w, m)
      /\ p.result # "bad"
  BY <1>1, <1>3, <1>4, ParsedRead
<1>6. socket_[c] \in {"open", "closed"}
  BY <1>1 DEF DeliveryInv, IInv, IdleUnlessStarted, TypeOK
<1>7. CASE p.result = "indeterminate"
  <2>1. ~IsPOST(p)
    <3>1. Spelled(p.parser, First(w, m))
      BY <1>5, <1>7 DEF Verdict, Reading
    <3> HIDE DEF w, m
    <3> QED
      BY <1>3, <1>5, <3>1, GetIsNoPost DEF IsPOST
  <2>2. ReadMore(c, p)
    BY <1>2, <1>7, <2>1 DEF AwaitBody, AnswerPOST, AnswerGET, IgnoreMethod, RejectBad, BodyMissing
  <2>3. /\ UNCHANGED <<disk, process, reply_>>
        /\ parser_' = [parser_ EXCEPT ![c] = p.parser]
    BY <2>2 DEF ReadMore, Keep
  <2>4. parser_'[c] = p.parser
    BY <1>1, <2>3 DEF DataType
  <2> QED
    BY <1>4, <1>5, <1>7, <2>3, <2>4
<1>8. CASE p.result = "good"
  <2>1. PICK k \in 1..m : Accepted(p.parser, w, k)
    BY <1>5, <1>8 DEF Verdict
  <2>2. HeaderEnd(w) + 3 = k /\ p.parser.method = <<"GET">> /\ p.parser.uri = UriOf(w)
    <3> HIDE DEF w, m
    <3>1. k \in 1..Len(w)
      BY <1>5
    <3> QED
      BY <1>3, <2>1, <3>1, AcceptedIs
  <2>3. IsGET(p) /\ ~IsPOST(p)
    BY <2>2 DEF IsGET, IsPOST
  <2>4. AnswerGET(c, p)
    BY <1>2, <1>8, <2>3 DEF AwaitBody, AnswerPOST, IgnoreMethod, RejectBad, ReadMore, BodyMissing
  <2>5. /\ UNCHANGED <<disk, process>>
        /\ reply_' = [reply_ EXCEPT ![c] = HandleGET(p.parser.uri, reply_[c], disk)]
        /\ read_' = [read_ EXCEPT ![c] = "none"]
    BY <2>4 DEF AnswerGET, do_write
  <2>6. reply_'[c] = HandleGET(UriOf(w), NoReply, disk) /\ read_'[c] = "none"
    BY <1>1, <1>4, <2>2, <2>5 DEF DataType, TypeOK
  <2>7. UriOf(w) \in {<<"/file">>, <<"/file?used">>} => reply_'[c] = StaticReply
    BY <2>6, StaticServed DEF DeliveryInv
  <2>8. m >= HeaderEnd(w) + 3
    BY <1>5, <2>2
  <2> QED
    BY <1>6, <2>5, <2>6, <2>7, <2>8
<1> QED
  BY <1>5, <1>7, <1>8 DEF Result

\* The handler of a completed read.
LEMMA ReadCompletedKeeps ==
  ASSUME NEW d \in Conn, DeliveryInv, IInv', ReadCompleted(d)
  PROVE  DeliveryInv'
<1>1. TypeOK /\ DataType /\ process = "running" /\ read_[d] = "ok" /\ IInv
  BY DEF DeliveryInv, IInv, ReadCompleted
<1>2. PICK p \in {Parsed(d)} :
        \/ AwaitBody(d, p) \/ AnswerPOST(d, p) \/ AnswerGET(d, p)
        \/ IgnoreMethod(d, p) \/ RejectBad(d, p) \/ ReadMore(d, p)
  BY DEF ReadCompleted
<1>3. PICK body : Keep(d, p, body)
  BY <1>2 DEF AwaitBody, AnswerPOST, AnswerGET, IgnoreMethod, RejectBad, ReadMore
<1>4. /\ parser_' = [parser_ EXCEPT ![d] = p.parser]
      /\ buffer_' = [buffer_ EXCEPT ![d] = <<>>]
      /\ UNCHANGED <<stream, start, taken, socket_>>
  BY <1>3 DEF Keep
<1>5. /\ ReadOutcome(d)
      /\ DOMAIN reply_' = Conn /\ \A c \in Conn \ {d} : reply_'[c] = reply_[c]
  BY <1>1, ReadCompletedOutcome DEF Shape
<1>6. /\ \A c \in Conn \ {d} : read_'[c] = read_[c]
      /\ read_'[d] # "ok" \/ process' = "aborted"
  BY <1>1, <1>5 DEF ReadOutcome, do_read, do_write, Initiated, TypeOK
<1>7. /\ p \in [parser : Parser, result : Result]
      /\ Malformed(stream[d]) \/ Follows(p.parser, stream[d], taken[d])
  BY <1>1, ParsedRead DEF Follows
<1>8. DataType'
  <2>1. buffer_' \in [Conn -> Seq(Octet)] /\ parser_' \in [Conn -> Parser]
    BY <1>1, <1>4, <1>7 DEF DataType
  <2>2. \A c \in Conn : "status" \in DOMAIN reply_'[c]
    <3>1. "status" \in DOMAIN reply_'[d]
      <4>1. PICK rep : /\ reply_'[d] = rep
                       /\ \/ rep = reply_[d] \/ rep = StockReply(400)
                          \/ \E uri, files : rep = HandleGET(uri, reply_[d], files)
                          \/ \E uri, text, files, failing :
                               rep = HandlePOST(uri, text, reply_[d], files, failing).reply
        BY <1>1, <1>2 DEF AwaitBody, AnswerPOST, AnswerGET, IgnoreMethod, RejectBad,
           ReadMore, DataType
      <4> QED
        BY <1>1, <4>1, HandlersGiveStatus DEF DataType
    <3> QED
      BY <1>1, <1>5, <3>1 DEF DataType
  <2> QED
    BY <1>1, <1>4, <1>5, <2>1, <2>2 DEF DataType
<1>9. Fresh'
  <2>1. socket_[d] # "none"
    BY <1>1 DEF IInv, IdleUnlessStarted
  <2>2. \A c \in Conn \ {d} : parser_'[c] = parser_[c] /\ reply_'[c] = reply_[c]
    BY <1>1, <1>4, <1>5 DEF DataType
  <2> QED
    BY <1>4, <2>1, <2>2 DEF DeliveryInv, Fresh
<1>10. \A c \in Conn \ {d} : Heard(c)' = Heard(c)
  BY <1>4, <1>6 DEF Heard
<1>11. process' # "aborted" => Heard(d)' = taken[d]
  BY <1>4, <1>6 DEF Heard
<1>12. BufferHoldsRead'
  <2> SUFFICES ASSUME process' # "aborted", NEW c \in Conn, read_'[c] = "ok"
               PROVE  SubSeq(buffer_'[c], 1, taken[c] - start[c]) =
                        SubSeq(stream[c], start[c] + 1, taken[c])
    BY <1>4 DEF BufferHoldsRead
  <2>1. c # d /\ read_[c] = "ok"
    BY <1>6
  <2>2. buffer_'[c] = buffer_[c]
    BY <1>1, <1>4, <2>1 DEF DataType
  <2> QED
    BY <1>1, <2>1, <2>2 DEF DeliveryInv, BufferHoldsRead
<1>13. ParserFollows'
  <2> SUFFICES ASSUME process' # "aborted", NEW c \in Conn
               PROVE  Malformed(stream[c]) \/ Follows(parser_'[c], stream[c], Heard(c)')
    BY <1>4 DEF ParserFollows
  <2>1. CASE c = d
    <3>1. parser_'[d] = p.parser
      BY <1>1, <1>4 DEF DataType
    <3> QED
      BY <1>7, <1>11, <2>1, <3>1
  <2>2. CASE c # d
    <3>1. parser_'[c] = parser_[c] /\ Heard(c)' = Heard(c)
      BY <1>1, <1>4, <1>10, <2>2 DEF DataType
    <3> QED
      BY <1>1, <3>1 DEF DeliveryInv, ParserFollows
  <2> QED
    BY <2>1, <2>2
<1>14. StaticIsFile' /\ disk'["static"] = disk["static"]
  <2>1. DOMAIN disk = File /\ disk["static"] \in Seq(STRING) \ {NoFile}
    BY DEF DeliveryInv, StaticIsFile
  <2>2. disk' = disk \/ \E uri, text, rep, failing : disk' = HandlePOST(uri, text, rep, disk, failing).disk
    BY <1>2 DEF AwaitBody, AnswerPOST, AnswerGET, IgnoreMethod, RejectBad, ReadMore
  <2>3. DOMAIN disk' = File /\ disk'["static"] = disk["static"]
    BY <2>1, <2>2, HandlePOSTKeepsStatic
  <2> QED
    BY <2>1, <2>3 DEF StaticIsFile
<1>15. GetsAreAnswered'
  <2> SUFFICES ASSUME NEW c \in Conn, stream[c] \in GETs
               PROVE  Unanswered(c)' \/ Answered(c)'
    BY <1>4 DEF GetsAreAnswered
  <2>0. StaticReply' = StaticReply
    BY <1>14 DEF StaticReply
  <2>1. CASE c = d
    <3>1. \/ /\ reply_'[c] = NoReply
             /\ Unjudged(parser_'[c], stream[c], taken[c])
          \/ /\ read_'[c] = "none" /\ socket_[c] \in {"open", "closed"}
             /\ taken[c] >= HeaderEnd(stream[c]) + 3
             /\ UriOf(stream[c]) \in {<<"/file">>, <<"/file?used">>} =>
                  reply_'[c] = StaticReply
      BY <2>1, GetIsRead
    <3>2. ASSUME reply_'[c] = NoReply, Unjudged(parser_'[c], stream[c], taken[c])
          PROVE  Unanswered(c)'
      BY <1>4, <1>11, <2>1, <3>2 DEF Unanswered
    <3>3. ASSUME read_'[c] = "none", socket_[c] \in {"open", "closed"},
                 taken[c] >= HeaderEnd(stream[c]) + 3,
                 UriOf(stream[c]) \in {<<"/file">>, <<"/file?used">>} =>
                   reply_'[c] = StaticReply
          PROVE  Answered(c)'
      BY <1>4, <2>0, <3>3 DEF Answered
    <3> QED
      BY <3>1, <3>2, <3>3
  <2>2. CASE c # d
    <3>1. /\ reply_'[c] = reply_[c] /\ read_'[c] = read_[c] /\ Heard(c)' = Heard(c)
          /\ parser_'[c] = parser_[c]
      BY <1>1, <1>4, <1>5, <1>6, <1>10, <2>2 DEF DataType
    <3>2. Unanswered(c) \/ Answered(c)
      BY DEF DeliveryInv, GetsAreAnswered
    <3>3. Unanswered(c) => Unanswered(c)'
      BY <1>1, <1>4, <3>1 DEF Unanswered
    <3>4. Answered(c) => Answered(c)'
      BY <1>4, <2>0, <3>1 DEF Answered
    <3> QED
      BY <3>2, <3>3, <3>4
  <2> QED
    BY <2>1, <2>2
<1> QED
  BY <1>8, <1>9, <1>12, <1>13, <1>14, <1>15 DEF DeliveryInv

-----------------------------------------------------------------------------
\* At first no client has sent anything.
LEMMA InitDeliveryInv == Init => DeliveryInv
<1> SUFFICES ASSUME Init PROVE DeliveryInv
  OBVIOUS
<1> USE DEF Init, ConnectionInit
<1>1. IInv
  BY InitIInv
<1>2. NewParser \in Parser /\ <<>> \in Seq(Octet) /\ Len(<<>>) = 0
  <2>1. <<>> \in Seq(Octet)
    OBVIOUS
  <2> QED
    BY <2>1, NewUnjudged
<1>3. DataType
  BY <1>2 DEF DataType, NoReply
<1>4. Fresh /\ BufferHoldsRead
  BY DEF Fresh, BufferHoldsRead
<1>5. \A c \in Conn : Unjudged(parser_[c], stream[c], Heard(c))
  BY <1>2, NewUnjudged DEF Heard
<1>6. ParserFollows /\ GetsAreAnswered
  BY <1>5 DEF ParserFollows, Follows, GetsAreAnswered, Unanswered
<1>7. StaticIsFile
  <2>1. disk \in Disks /\ disk \in [File -> Seq(STRING)] /\ disk["static"] # NoFile
    BY ConnectionAssumption
  <2>2. "static" \in File
    BY DEF File
  <2> QED
    BY <2>1, <2>2 DEF StaticIsFile
<1> QED
  BY <1>1, <1>3, <1>4, <1>6, <1>7 DEF DeliveryInv

\* Every step keeps the invariant.
LEMMA NextDeliveryInv == DeliveryInv /\ [Next]_vars => DeliveryInv'
<1> SUFFICES ASSUME DeliveryInv, [Next]_vars PROVE DeliveryInv'
  OBVIOUS
<1>1. IInv'
  BY NextIInv DEF DeliveryInv
<1>2. ASSUME NEW c \in Conn, ConnectionArrives(c) PROVE DeliveryInv'
  BY <1>1, <1>2, ConnectionArrivesKeeps
<1>3. ASSUME NEW c \in Conn, BytesArrive(c) PROVE DeliveryInv'
  BY <1>1, <1>3, BytesArriveKeeps
<1>4. ASSUME NEW c \in Conn, ReadCompleted(c) PROVE DeliveryInv'
  BY <1>1, <1>4, ReadCompletedKeeps
<1>5. CASE \A c \in Conn : ~ConnectionArrives(c) /\ ~BytesArrive(c) /\ ~ReadCompleted(c)
  BY <1>1, <1>5, OtherStepsAreQuiet, QuietKeeps
<1> QED
  BY <1>2, <1>3, <1>4, <1>5

\* What each parser has heard, and what each GET has been answered, in every
\* reachable state: the buffer, the parser and the reply of a connection agree
\* with the octets its client sent (connection::do_read).
THEOREM DeliveryInvariance == Spec => []DeliveryInv
BY InitDeliveryInv, NextDeliveryInv, PTL DEF Spec

\* However the network cuts a well-formed GET for a file that exists, and
\* whatever the buffer held before, its only reply is that file with its whole
\* content and length, and not before the header section was received
\* (connection.cpp:55, request_handler.cpp:180-346).
THEOREM GetsAreServed == Spec => []GetIsServed
<1>1. DeliveryInv => GetIsServed
  <2> SUFFICES ASSUME DeliveryInv, NEW c \in Conn, reply_[c] # NoReply, stream[c] \in GETs,
                      UriOf(stream[c]) \in {<<"/file">>, <<"/file?used">>}
               PROVE  reply_[c] = StaticReply /\ taken[c] >= HeaderEnd(stream[c]) + 3
    BY DEF GetIsServed, StaticReply
  <2>1. Unanswered(c) \/ Answered(c)
    BY DEF DeliveryInv, GetsAreAnswered
  <2> QED
    BY <2>1 DEF Unanswered, Answered
<1> QED
  BY DeliveryInvariance, <1>1, PTL


-----------------------------------------------------------------------------
(***************************************************************************)
(* What changes the disk.                                                  *)
(***************************************************************************)

\* Only a mission writes files.
LEMMA OnlyMissionWrites ==
  ASSUME NEW uri, NEW text, NEW rep, NEW files, NEW failing,
         HandlePOST(uri, text, rep, files, failing).disk # files
  PROVE  uri = <<"/mission/group/">>
BY DEF HandlePOST, Answer

\* Where the parser of a client that is not refused says good, what was read
\* is a request, read as it was written.
LEMMA GoodIsRequest ==
  ASSUME NEW c \in Conn, DeliveryInv, process = "running", read_[c] = "ok",
         NEW p, p = Parsed(c), p.result = "good", ~Malformed(stream[c])
  PROVE  /\ stream[c] \in Streams /\ IsRequest(stream[c])
         /\ taken[c] >= HeaderEnd(stream[c]) + 3
         /\ p.parser.method = MethodOf(stream[c]) /\ p.parser.uri = UriOf(stream[c])
<1> DEFINE w == stream[c]
           m == taken[c]
<1>1. /\ w \in Seq(Octet) /\ m \in 0..Len(w)
      /\ \E k \in 1..m : Accepted(p.parser, w, k)
  BY ParsedRead
<1>2. w \in Streams
  BY DEF DeliveryInv, Fresh, IInv, IdleUnlessStarted
<1> HIDE DEF w, m
<1>3. PICK k \in 1..m : Accepted(p.parser, w, k)
  BY <1>1
<1>4. k \in 1..Len(w)
  BY <1>1
<1>5. /\ IsRequest(w) /\ HeaderEnd(w) + 3 = k
      /\ p.parser.method = MethodOf(w) /\ p.parser.uri = UriOf(w)
  BY <1>1, <1>3, <1>4, AcceptedIs
<1>6. m >= HeaderEnd(w) + 3
  BY <1>1, <1>5
<1> QED
  BY <1>2, <1>5, <1>6 DEF w, m

\* The disk changes only when a mission was received: a well-formed POST with
\* its whole header section, unless the parser refuses what the client sends
\* (connection.cpp:104-123, request_handler.cpp:35-178).
THEOREM DiskChangesForMissions == Spec => OnlyMissionsChangeDisk
<1>1. ASSUME DeliveryInv, [Next]_vars, disk' # disk
      PROVE  \E c \in Conn :
               /\ ReadHandlerRuns(c)
               /\ \/ Malformed(stream[c])
                  \/ /\ stream[c] \in POSTs /\ UriOf(stream[c]) = <<"/mission/group/">>
                     /\ taken[c] >= HeaderEnd(stream[c]) + 3
  <2>1. PICK c \in Conn : ReadCompleted(c)
    <3>1. ASSUME NEW c \in Conn, ConnectionArrives(c) PROVE FALSE
      BY <1>1, <3>1 DEF ConnectionArrives
    <3>2. ASSUME NEW c \in Conn, BytesArrive(c) PROVE FALSE
      BY <1>1, <3>2 DEF BytesArrive
    <3>3. \E c \in Conn : ConnectionArrives(c) \/ BytesArrive(c) \/ ReadCompleted(c)
      BY <1>1, OtherStepsAreQuiet DEF QuietStep
    <3> QED
      BY <3>1, <3>2, <3>3
  <2>2. process = "running" /\ read_[c] = "ok"
    BY <2>1 DEF ReadCompleted
  <2>3. PICK p \in {Parsed(c)} :
          \/ AwaitBody(c, p) \/ AnswerPOST(c, p) \/ AnswerGET(c, p)
          \/ IgnoreMethod(c, p) \/ RejectBad(c, p) \/ ReadMore(c, p)
    BY <2>1 DEF ReadCompleted
  <2>4. AnswerPOST(c, p)
    BY <1>1, <2>3 DEF AwaitBody, AnswerGET, IgnoreMethod, RejectBad, ReadMore
  <2>5. /\ p.result = "good" /\ p.parser.method = <<"POST">>
        /\ \E failing :
             disk' = HandlePOST(p.parser.uri, Body(c), reply_[c], disk, failing).disk
    BY <2>4 DEF AnswerPOST, IsPOST
  <2>6. p.parser.uri = <<"/mission/group/">>
    BY <1>1, <2>5, OnlyMissionWrites
  <2>7. ASSUME ~Malformed(stream[c])
        PROVE  /\ stream[c] \in POSTs /\ UriOf(stream[c]) = <<"/mission/group/">>
               /\ taken[c] >= HeaderEnd(stream[c]) + 3
    <3>1. /\ stream[c] \in Streams /\ IsRequest(stream[c])
          /\ taken[c] >= HeaderEnd(stream[c]) + 3
          /\ p.parser.method = MethodOf(stream[c]) /\ p.parser.uri = UriOf(stream[c])
      BY <1>1, <2>2, <2>5, <2>7, GoodIsRequest
    <3> QED
      BY <2>5, <2>6, <3>1 DEF POSTs, Wellformed
  <2>8. ReadHandlerRuns(c)
    <3>1. TypeOK
      BY <1>1 DEF DeliveryInv, IInv
    <3>2. process' = "aborted" \/ do_write(c)
      BY <2>4 DEF AnswerPOST
    <3> QED
      BY <2>2, <3>1, <3>2 DEF ReadHandlerRuns, do_write, TypeOK
  <2> QED
    BY <2>7, <2>8
<1>2. ASSUME DeliveryInv, [Next]_vars
      PROVE  [disk' # disk =>
                \E c \in Conn :
                  /\ ReadHandlerRuns(c)
                  /\ \/ Malformed(stream[c])
                     \/ /\ stream[c] \in POSTs /\ UriOf(stream[c]) = <<"/mission/group/">>
                        /\ taken[c] >= HeaderEnd(stream[c]) + 3]_vars
  BY <1>1, <1>2
<1> QED
  BY DeliveryInvariance, <1>2, PTL DEF Spec, OnlyMissionsChangeDisk


-----------------------------------------------------------------------------
(***************************************************************************)
(* The body of a POST that comes with the end of its header section.       *)
(***************************************************************************)

\* A stream w of one line of payload: it has one blank line.
LEMMA OneBlank ==
  ASSUME NEW w \in Seq(Octet), IsRequest(w),
         AllIn(Payload(w), Octet \ {"cr", "lf", "nul"}),
         NEW i \in Nat, BlankAt(w, i)
  PROVE  i = HeaderEnd(w)
<1> DEFINE e == HeaderEnd(w)
<1>1. e + 3 \in 4..Len(w) /\ Section(First(w, e + 3)) /\ BlankAt(w, (e + 3) - 3) /\ e \in Nat
  BY RequestBegins
<1>2. e \in Nat \ {0} /\ e + 3 <= Len(w) /\ w[e + 1] = "lf" /\ w[e + 3] = "lf"
  <2>1. (e + 3) - 3 = e
    BY <1>1
  <2> HIDE DEF e
  <2> QED
    BY <1>1, <2>1 DEF BlankAt, BreakAt
<1>3. ASSUME NEW j \in (e + 4)..Len(w) PROVE w[j] \notin {"cr", "lf", "nul"}
  <2>1. j - (e + 3) \in 1..Len(Payload(w)) /\ Payload(w)[j - (e + 3)] = w[j]
    <3> HIDE DEF e
    <3>1. Payload(w) = SubSeq(w, e + 4, Len(w))
      BY DEF Payload, e
    <3> QED
      BY <1>2, <3>1
  <2>2. DOMAIN Payload(w) = 1..Len(Payload(w))
    <3>1. SubSeq(w, e + 4, Len(w)) \in Seq(Octet)
      BY <1>2
    <3> QED
      BY <3>1 DEF Payload
  <2> QED
    BY <2>1, <2>2 DEF AllIn
<1>4. i \in 1..(Len(w) - 3) /\ w[i] = "cr" /\ w[i + 2] = "cr"
  BY DEF BlankAt, BreakAt
<1> HIDE DEF e
<1>5. i >= e
  <2>1. SUFFICES ASSUME i < e PROVE FALSE
    BY <1>2, <1>4
  <2>2. First(w, e + 3) \in Seq(Octet) /\ Len(First(w, e + 3)) = e + 3 /\ Begins(First(w, e + 3), w)
    <3>1. e + 3 \in 0..Len(w)
      BY <1>2
    <3> QED
      BY <3>1, FirstBegins
  <2>3. i \in 1..((e + 3) - 4) /\ i + 3 <= e + 3
    BY <1>2, <1>4, <2>1
  <2>4. ~BlankAt(First(w, e + 3), i)
    BY <1>1, <2>2, <2>3 DEF Section
  <2> QED
    BY <2>2, <2>3, <2>4, BeginsBlank
<1>6. i <= e + 3 /\ i # e + 1 /\ i # e + 3
  BY <1>2, <1>3, <1>4
<1>7. i # e + 2
  BY <1>2, <1>3, <1>4
<1> QED
  BY <1>2, <1>4, <1>5, <1>6, <1>7 DEF e


\* In the end b of such a stream from somewhere in its header section on, the
\* blank line is the last match, and the rest of its line is the payload.
LEMMA PayloadIsMatched ==
  ASSUME NEW w \in Seq(Octet), IsRequest(w),
         AllIn(Payload(w), Octet \ {"cr", "lf", "nul"}),
         NEW n \in Nat, n < HeaderEnd(w), NEW b, b = SubSeq(w, n + 1, Len(w))
  PROVE  LastBlank(b) # 0 /\ RestOfLine(b, LastBlank(b) + 4) = Payload(w)
<1> DEFINE e == HeaderEnd(w)
           m == e - n
<1>1. e + 3 \in 4..Len(w) /\ BlankAt(w, (e + 3) - 3) /\ e \in Nat
  BY RequestBegins
<1>2. e \in Nat /\ e + 3 <= Len(w) /\ m \in Nat \ {0} /\ m + n = e /\ BlankAt(w, e)
  <2>1. (e + 3) - 3 = e
    BY <1>1
  <2> HIDE DEF e
  <2> QED
    BY <1>1, <2>1 DEF e
<1>3. \A i \in Nat : BlankAt(w, i) => i = e
  BY OneBlank
<1>4. Payload(w) = SubSeq(w, e + 4, Len(w))
  BY DEF Payload
<1> HIDE DEF e
<1>5. b \in Seq(Octet) /\ Len(b) = Len(w) - n /\ \A i \in 1..Len(b) : b[i] = w[n + i]
  BY <1>2
<1>6. ASSUME NEW i \in Nat \ {0} PROVE BreakAt(b, i) <=> BreakAt(w, n + i)
  <2>1. i \in 1..(Len(b) - 1) <=> n + i \in 1..(Len(w) - 1)
    BY <1>5
  <2>2. n + i + 1 = n + (i + 1)
    OBVIOUS
  <2> QED
    BY <1>5, <2>1, <2>2 DEF BreakAt
<1>7. ASSUME NEW i \in Nat \ {0} PROVE BlankAt(b, i) <=> i = m
  <2>1. BreakAt(b, i) <=> BreakAt(w, n + i)
    BY <1>6
  <2>2. BreakAt(b, i + 2) <=> BreakAt(w, (n + i) + 2)
    <3>1. i + 2 \in Nat \ {0} /\ n + (i + 2) = (n + i) + 2
      OBVIOUS
    <3> QED
      BY <1>6, <3>1
  <2>3. n + i \in Nat /\ (n + i = e <=> i = m)
    BY <1>2
  <2> QED
    BY <1>2, <1>3, <2>1, <2>2, <2>3 DEF BlankAt
<1> HIDE DEF m
<1>8. ASSUME NEW i \in DOMAIN b PROVE MatchAt(b, i) <=> i = m
  <2>1. i \in Nat \ {0}
    BY <1>5
  <2>2. MatchAt(b, i) => i = m
    BY <1>7, <2>1 DEF MatchAt
  <2>3. ASSUME i = m PROVE MatchAt(b, i)
    <3>1. BlankAt(b, i) /\ BreakAt(b, i)
      BY <1>7, <2>1, <2>3 DEF BlankAt
    <3>2. ~BreakAt(b, i - 2)
      <4>1. ASSUME BreakAt(b, i - 2) PROVE FALSE
        <5>1. i - 2 \in Nat \ {0} /\ (i - 2) + 2 = i
          BY <2>1, <4>1 DEF BreakAt
        <5>2. BlankAt(b, i - 2)
          BY <3>1, <4>1, <5>1 DEF BlankAt
        <5>3. i - 2 = m
          BY <1>7, <5>1, <5>2
        <5> QED
          BY <2>1, <2>3, <5>3
      <4> QED
        BY <4>1
    <3>3. i \in 1..i /\ (i - i) % 4 = 0 /\ \A j \in i..i : j = i
      BY <2>1
    <3> QED
      BY <3>1, <3>2, <3>3 DEF MatchAt
  <2> QED
    BY <2>2, <2>3
<1>9. LastBlank(b) = m
  <2> DEFINE matches == {i \in DOMAIN b : MatchAt(b, i)}
  <2>1. m \in DOMAIN b
    BY <1>2, <1>5 DEF m
  <2>2. matches = {m}
    BY <1>8, <2>1
  <2>3. Max({m}) = m
    BY <1>2 DEF Max
  <2>4. LastBlank(b) = IF matches = {} THEN 0 ELSE Max(matches)
    BY DEF LastBlank
  <2> HIDE DEF matches
  <2> QED
    BY <2>2, <2>3, <2>4
<1>10. SubSeq(b, m + 4, Len(b)) = Payload(w)
  <2>1. /\ n + 1 \in Nat \ {0} /\ Len(w) \in Nat /\ n + 1 <= Len(w) + 1
        /\ m + 3 \in 1..((Len(w) - (n + 1)) + 1)
        /\ (m + 3) + 1 = m + 4 /\ (n + 1) + (m + 3) = e + 4
    BY <1>2
  <2>2. \A i \in 1..((Len(w) - (n + 1)) + 1) :
          SubSeq(b, i + 1, Len(b)) = SubSeq(w, (n + 1) + i, Len(w))
    BY <2>1, Cut
  <2>3. SubSeq(b, (m + 3) + 1, Len(b)) = SubSeq(w, (n + 1) + (m + 3), Len(w))
    BY <2>1, <2>2
  <2> QED
    BY <1>4, <2>1, <2>3
<1>11. SelectInSeq(Payload(w), LAMBDA o : o \in {"cr", "lf"}) = 0
  <2>1. Payload(w) \in Seq(Octet)
    BY <1>2, <1>4
  <2>2. \A i \in 1..Len(Payload(w)) : Payload(w)[i] \notin {"cr", "lf"}
    BY <2>1 DEF AllIn
  <2> QED
    BY <2>1, <2>2 DEF SelectInSeq
<1>12. RestOfLine(b, m + 4) = Payload(w)
  BY <1>10, <1>11 DEF RestOfLine
<1> QED
  BY <1>2, <1>9, <1>12


\* The handler of the read that ends such a POST.
LEMMA PostIsExact ==
  ASSUME NEW c \in Conn, DeliveryInv, ReadCompleted(c), read_'[c] # "ok",
         stream[c] \in OneLinePOSTs, EndsInOneRead(c)
  PROVE  /\ request_first'[c].body = Payload(stream[c])
         /\ reply_'[c].status \in {200, 404}
<1> DEFINE w == stream[c]
           n == start[c]
           m == taken[c]
<1>1. TypeOK /\ Shape /\ DataType /\ process = "running" /\ read_[c] = "ok"
  BY DEF DeliveryInv, IInv, ReadCompleted
<1>2. PICK p \in {Parsed(c)} :
        \/ AwaitBody(c, p) \/ AnswerPOST(c, p) \/ AnswerGET(c, p)
        \/ IgnoreMethod(c, p) \/ RejectBad(c, p) \/ ReadMore(c, p)
  BY DEF ReadCompleted
<1>3. /\ w \in Seq(Octet) /\ MethodOf(w) = <<"POST">> /\ IsRequest(w) /\ ~Malformed(w)
      /\ Payload(w) # <<>> /\ AllIn(Payload(w), Octet \ {"cr", "lf", "nul"})
      /\ ~Refused(UriOf(w))
  BY WellformedIs DEF OneLinePOSTs, POSTs
<1>4. /\ n \in Nat /\ n < HeaderEnd(w) /\ m = Len(w) /\ m \in 0..Len(w)
      /\ buffer_[c] = SubSeq(w, n + 1, Len(w))
  BY <1>1, <1>3 DEF EndsInOneRead, DataType
<1>5. HeaderEnd(w) + 3 \in 4..Len(w) /\ HeaderEnd(w) \in Nat
  BY <1>3, RequestBegins
<1>6. Unjudged(parser_[c], w, n)
  <2>1. Unjudged(parser_[c], w, n) \/ \E k \in 1..n : Accepted(parser_[c], w, k)
    BY <1>1, <1>3 DEF DeliveryInv, ParserFollows, Follows, Heard
  <2>2. ASSUME NEW k \in 1..n, Accepted(parser_[c], w, k) PROVE FALSE
    <3> HIDE DEF w, n
    <3>1. k \in 1..Len(w)
      BY <1>4, <1>5
    <3>2. HeaderEnd(w) + 3 = k
      BY <1>3, <2>2, <3>1, AcceptedIs
    <3> QED
      BY <1>4, <1>5, <3>2
  <2> QED
    BY <2>1, <2>2
<1>7. /\ p \in [parser : Parser, result : Result] /\ Verdict(p, w, m)
      /\ p.result # "bad"
  BY <1>1, <1>3, <1>6, ParsedRead
<1> HIDE DEF w, n, m
<1>8. p.result = "good"
  <2>1. ASSUME p.result = "indeterminate" PROVE FALSE
    <3>1. Reading(p.parser, w, m)
      BY <1>7, <2>1 DEF Verdict
    <3>2. m < HeaderEnd(w) + 3
      BY <1>3, <1>4, <3>1, ReadingEnds
    <3> QED
      BY <1>4, <1>5, <3>2
  <2> QED
    BY <1>7, <2>1 DEF Result
<1>9. PICK k \in 1..m : Accepted(p.parser, w, k)
  BY <1>7, <1>8 DEF Verdict
<1>10. /\ HeaderEnd(w) + 3 = k /\ p.parser.method = <<"POST">>
       /\ p.parser.uri = UriOf(w)
  <2>1. k \in 1..Len(w)
    BY <1>4
  <2> QED
    BY <1>3, <1>9, <2>1, AcceptedIs
<1>11. Text(c) = buffer_[c]
  <2> DEFINE b == buffer_[c]
  <2>1. b \in Seq(Octet) /\ \A i \in 1..Len(b) : b[i] = w[n + i] /\ n + i \in 1..Len(w)
    BY <1>3, <1>4
  <2>2. \A i \in 1..Len(w) : w[i] # "nul"
    <3>1. ASSUME NEW i \in (k + 1)..Len(w) PROVE w[i] # "nul"
      <4>1. /\ i - k \in 1..Len(Payload(w)) /\ Payload(w)[i - k] = w[i]
            /\ DOMAIN Payload(w) = 1..Len(Payload(w))
        <5>1. /\ k + 1 \in Nat \ {0} /\ Len(w) \in Nat /\ k + 1 <= Len(w) + 1
              /\ i - k \in 1..((Len(w) - (k + 1)) + 1) /\ ((k + 1) + (i - k)) - 1 = i
          BY <1>4
        <5>2. Payload(w) = SubSeq(w, k + 1, Len(w))
          <6>1. HeaderEnd(w) + 4 = k + 1
            BY <1>5, <1>10
          <6> QED
            BY <6>1 DEF Payload
        <5>3. /\ Len(Payload(w)) = (Len(w) - (k + 1)) + 1
              /\ DOMAIN Payload(w) = 1..((Len(w) - (k + 1)) + 1)
              /\ \A j \in 1..((Len(w) - (k + 1)) + 1) : Payload(w)[j] = w[((k + 1) + j) - 1]
          BY <1>3, <5>1, <5>2, Cut
        <5> QED
          BY <5>1, <5>3
      <4> QED
        BY <1>3, <4>1 DEF AllIn
    <3>2. \A i \in 1..k : w[i] # "nul"
      BY <1>9 DEF Accepted
    <3> QED
      BY <1>4, <3>1, <3>2
  <2>3. \A i \in 1..Len(b) : b[i] # "nul"
    BY <2>1, <2>2
  <2>4. SelectInSeq(b, LAMBDA o : o = "nul") = 0
    BY <2>1, <2>3 DEF SelectInSeq
  <2> QED
    BY <2>4 DEF Text
<1>12. Body(c) = Payload(w) /\ Body(c) # <<>>
  <2>1. LastBlank(buffer_[c]) # 0 /\ RestOfLine(buffer_[c], LastBlank(buffer_[c]) + 4) = Payload(w)
    BY <1>3, <1>4, PayloadIsMatched
  <2> QED
    BY <1>3, <1>11, <2>1 DEF Body
<1>13. AnswerPOST(c, p)
  <2>1. IsPOST(p) /\ ~IsGET(p) /\ ~BodyMissing(c, p)
    BY <1>10, <1>12 DEF IsPOST, IsGET, BodyMissing
  <2> QED
    BY <1>2, <1>8, <2>1 DEF AwaitBody, AnswerGET, IgnoreMethod, RejectBad, ReadMore
<1>14. request_first'[c].body = Payload(w)
  BY <1>1, <1>12, <1>13 DEF AnswerPOST, Keep, Shape
<1>15. reply_'[c].status \in {200, 404}
  <2>1. PICK failing \in SUBSET MayFail :
          LET done == HandlePOST(p.parser.uri, Body(c), reply_[c], disk, failing)
          IN  /\ reply_' = [reply_ EXCEPT ![c] = done.reply]
              /\ disk' = done.disk
              /\ written' = [written EXCEPT ![c] = written[c] \cup done.wrote]
              /\ IF done.aborted
                 THEN process' = "aborted" /\ UNCHANGED <<read_, write_>>
                 ELSE do_write(c) /\ UNCHANGED process
    BY <1>13 DEF AnswerPOST
  <2> DEFINE done == HandlePOST(p.parser.uri, Body(c), reply_[c], disk, failing)
  <2>2. reply_'[c] = done.reply /\ ~done.aborted
    BY <1>1, <2>1 DEF DataType
  <2>3. ~Refused(p.parser.uri)
    BY <1>3, <1>10
  <2>4. "status" \in DOMAIN reply_[c]
    BY <1>1 DEF DataType
  <2>5. done.reply.status \in {200, 404}
    BY <2>2, <2>3, <2>4, HandlersGiveStatus
  <2> HIDE DEF done
  <2> QED
    BY <2>2, <2>5
<1> QED
  BY <1>14, <1>15 DEF w

\* When the last blank line and the body of a POST come in one read, the
\* handler gets exactly the body, and the request is not called bad, wherever
\* its header section was cut before (connection.cpp:71-123).
THEOREM OneReadPostsAreExact == Spec => OneReadPostIsExact
<1>1. ASSUME DeliveryInv, [Next]_vars
      PROVE  [\A c \in Conn :
                /\ read_[c] = "ok" /\ read_'[c] # "ok"
                /\ stream[c] \in OneLinePOSTs
                /\ EndsInOneRead(c)
                => /\ request_first'[c].body = Payload(stream[c])
                   /\ reply_'[c].status \in {200, 404}]_vars
  <2> SUFFICES ASSUME Next, NEW c \in Conn, read_[c] = "ok", read_'[c] # "ok",
                      stream[c] \in OneLinePOSTs, EndsInOneRead(c)
               PROVE  /\ request_first'[c].body = Payload(stream[c])
                      /\ reply_'[c].status \in {200, 404}
    BY <1>1
  <2>1. ReadHandler(c)
    BY <1>1, ReadTurnIsHandler DEF DeliveryInv
  <2>2. ReadCompleted(c)
    BY <2>1 DEF ReadHandler, ReadFailed, ReadAborted
  <2> QED
    BY <1>1, <2>2, PostIsExact
<1> QED
  BY DeliveryInvariance, <1>1, PTL DEF Spec, OneReadPostIsExact
=============================================================================
