---------------------------- MODULE HttpDelivery ----------------------------
(***************************************************************************)
(* What a client of the HTTP server gets for what it sends: properties of *)
(* HttpServer that relate the octets of a connection, and how the network *)
(* cut them, to the request the handlers saw, the disk and the reply.     *)
(***************************************************************************)
EXTENDS HttpServer

\* What clients may send that is a request of the grammar, by its method.
Wellformed(method) == {s \in Streams : MethodOf(s) = <<method>> /\ IsRequest(s)}
GETs == Wellformed("GET")
POSTs == Wellformed("POST")

\* The POSTs that have a body of one line, without a zero octet, which would
\* end the C string the code takes it from, and a URI that is not refused.
OneLinePOSTs ==
  {s \in POSTs : /\ Payload(s) # <<>>
                 /\ AllIn(Payload(s), Octet \ {"cr", "lf", "nul"})
                 /\ ~Refused(UriOf(s))}

\* What a parser that gets all of it refuses.
Malformed(s) == Parse[<<NewParser, s>>].result = "bad"

-----------------------------------------------------------------------------
\* "For a GET request the original code has no problem" (connection.cpp:55):
\* however the network cuts a well-formed GET, whatever the buffer held before,
\* its only reply is the file it names with the file's whole content and
\* length, and not before its header section was received.
GetIsServed ==
  \A c \in Conn :
    /\ reply_[c] # NoReply
    /\ stream[c] \in GETs /\ UriOf(stream[c]) \in {<<"/file">>, <<"/file?used">>}
    => /\ reply_[c] = [status |-> 200, content |-> disk["static"],
                       length |-> Len(disk["static"])]
       /\ taken[c] >= HeaderEnd(stream[c]) + 3

\* The read that has just completed delivered the end of a POST from somewhere
\* in its header section on, and nothing was behind it in the buffer.
EndsInOneRead(c) ==
  /\ start[c] < HeaderEnd(stream[c])
  /\ taken[c] = Len(stream[c])
  /\ buffer_[c] = SubSeq(stream[c], start[c] + 1, Len(stream[c]))

\* "received in one go" (connection.cpp:73, :91): when the last blank line and
\* the body of a POST come in one read, alone in the buffer, wherever the
\* header section was cut before, the handler gets exactly the body, and the
\* request is not called bad.
OneReadPostIsExact ==
  [][\A c \in Conn :
       /\ read_[c] = "ok" /\ read_'[c] # "ok"
       /\ stream[c] \in OneLinePOSTs
       /\ EndsInOneRead(c)
       => /\ request_first'[c].body = Payload(stream[c])
          /\ reply_'[c].status \in {200, 404}]_vars

\* A mission was handled and its reply says that all is well.
Acknowledged(c) ==
  /\ request_first[c].method = <<"POST">>
  /\ request_first[c].uri = <<"/mission/group/">>
  /\ reply_[c].status = 200

\* No mission is acknowledged for which not both files were opened and written,
\* by its own handler ("assert(fout.is_open())", cstjson.cpp:44, :69), and they
\* hold what their functions write, whichever openings failed, for it or others:
\* in a build with assertions.  That the mission file holds the same text for
\* every mission is another matter: see MissionIsSaved.
AcknowledgedMissionIsWritten ==
  \A c \in Conn :
    Acknowledged(c) /\ write_[c] # "none"
    => /\ {"feedback", "mission"} \subseteq written[c]
       /\ disk["feedback"] = FeedbackText
       /\ disk["mission"] = MissionText(request_first[c].body)

\* The step is the handler of the read that c has completed; where an assert
\* ends the program in it, it starts no operation.
ReadHandlerRuns(c) ==
  read_[c] = "ok" /\ (read_'[c] # "ok" \/ process' = "aborted")

\* The disk changes only in the handler of a connection that has delivered the
\* whole header section of a well-formed POST of a mission: not for a request
\* cut short, refused or of another kind.  Where the parser refuses what the
\* client sends, see ParsedIsComplete.
OnlyMissionsChangeDisk ==
  [][disk' # disk =>
       \E c \in Conn :
         /\ ReadHandlerRuns(c)
         /\ \/ Malformed(stream[c])
            \/ /\ stream[c] \in POSTs /\ UriOf(stream[c]) = <<"/mission/group/">>
               /\ taken[c] >= HeaderEnd(stream[c]) + 3]_vars

\* Under a network that delivers: an open connection whose client sends a
\* whole request is closed again, however the request is cut.
RequestsFinish ==
  \A c \in Conn : (socket_[c] = "open" /\ stream[c] \in GETs \cup OneLinePOSTs)
                    ~> (socket_[c] = "closed" \/ process # "running")

-----------------------------------------------------------------------------
(***************************************************************************)
(* What the comments say and the code does not do.                         *)
(***************************************************************************)

\* "a POST is two TCP segments ... the first data of the POST should be used
\* ... sometimes a POST is also received in one" (connection.cpp:54-61, :95):
\* a well-formed POST with a body is not refused, in one segment or in two.
WellFormedPostIsAccepted ==
  \A c \in Conn :
    stream[c] \in OneLinePOSTs => reply_[c].status # 400

\* "header and body are separated by \r\n\r\n" (connection.cpp:60): the body
\* of an acknowledged POST is what follows the blank line.
BodyFollowsBlankLine ==
  \A c \in Conn :
    reply_[c].status = 200 /\ read_[c] = "none" /\ stream[c] \in POSTs
      => request_first[c].body = Payload(stream[c])

\* "The enum return value is good when a complete request has been parsed, bad
\* if the data is invalid" (request_parser.hpp:36-37): where the last result
\* of a connection is good, what it has received is a complete request.
ParsedIsComplete ==
  \A c \in Conn :
    result_first[c] = "good" => IsRequest(SubSeq(stream[c], 1, taken[c]))

\* "str is turned into JSON and saved to a local file" (request_handler.cpp:198):
\* when a mission is acknowledged whose text no mission before it had, the file
\* does not stay what it was.
MissionIsSaved ==
  [][\A c \in Conn :
       /\ ~Acknowledged(c) /\ Acknowledged(c)'
       /\ \E d \in Conn : Acknowledged(d)
       /\ \A d \in Conn : Acknowledged(d) =>
                            request_first[d].body # request_first'[c].body
       => disk'["mission"] # disk["mission"]]_vars

\* "after parsing, request_handler analyses the data and then the reply class
\* sends the response" (main.cpp:17-18): a request that was parsed is answered,
\* unless its connection or the server ends.
ParsedIsAnswered ==
  \A c \in Conn :
    (result_first[c] = "good")
      ~> (reply_[c] # NoReply \/ socket_[c] = "closed" \/ process # "running")
=============================================================================
