----------------------------- MODULE Connection -----------------------------
(***************************************************************************)
(* The connections of the HTTP server and their manager: class connection *)
(* (src/HTTP/connection.cpp) and class connection_manager                 *)
(* (connection_manager.cpp), with the network at the other end.           *)
(*                                                                         *)
(* The io_context runs on one thread: a completion handler is one step.    *)
(* An asynchronous operation is pending from its initiation until the      *)
(* network completes it or the socket is closed under it; then its handler *)
(* is queued with an error code (ok, error, aborted) until a step runs it. *)
(* A completion already queued as ok stays ok when the socket is closed.   *)
(*                                                                         *)
(* v_data is not a variable: its only push_back is commented out           *)
(* (connection.cpp:68), it is always empty, and the test on it always      *)
(* true, so request_first and result_first are those of the latest read.   *)
(***************************************************************************)
EXTENDS RequestHandler, RequestGrammar

CONSTANTS Conn,     \* the sockets that may be accepted, each at most once
          Streams,  \* what a client may send on one of them
          Cuts,     \* where the network may end a segment of a stream
          Residue,  \* what memory may hold behind the octets of a read
          BufSize,  \* the size of buffer_ (8192 in the code)
          Disks,    \* the disks the server may start with
          MayFail   \* the files that an open for writing may fail for

ASSUME ConnectionAssumption ==
  /\ Streams \subseteq Seq(Octet)
  /\ Cuts \subseteq Nat
  /\ Residue \subseteq Seq(Octet)
  /\ BufSize \in Nat \ {0}
  /\ Disks \subseteq [File -> Seq(STRING)]
  /\ \A d \in Disks : d["static"] # NoFile
  /\ MayFail \subseteq File

VARIABLES
  process,       \* "running", "returned" from run(), "aborted" by an assert
  connections_,  \* connection_manager::connections_
  socket_,       \* "none", "accepted" (not yet a connection), "open", "closed"
  read_,         \* the outstanding async_read_some of each connection
  write_         \* its outstanding async_write

VARIABLES
  stream,        \* what the client of each connection sends
  start,         \* how much of it was received before the latest read
  taken,         \* how much of it was received
  buffer_,       \* the C string in buffer_ up to its terminating zero octet,
                 \* or to the end of what is read as one
  parser_,       \* request_parser_ and request_
  result_first,  \* the latest result of parse, "none" before the first
  request_first, \* the request the handlers get
  reply_,
  disk,
  written        \* history: the files each connection's handler has opened and
                 \* written; no action looks at it

control == <<process, connections_, socket_, read_, write_>>
data == <<stream, start, taken, buffer_, parser_, result_first,
          request_first, reply_, disk, written>>

Operation == {"none", "pending", "ok", "error", "aborted"}
NoRequest == [method |-> <<>>, uri |-> <<>>, body |-> <<>>]

ConnectionInit ==
  /\ process = "running"
  /\ connections_ = {}
  /\ socket_ = [c \in Conn |-> "none"]
  /\ read_ = [c \in Conn |-> "none"]
  /\ write_ = [c \in Conn |-> "none"]
  /\ stream = [c \in Conn |-> <<>>]
  /\ start = [c \in Conn |-> 0]
  /\ taken = [c \in Conn |-> 0]
  /\ buffer_ = [c \in Conn |-> <<>>]
  /\ parser_ = [c \in Conn |-> NewParser]
  /\ result_first = [c \in Conn |-> "none"]
  /\ request_first = [c \in Conn |-> NoRequest]
  /\ reply_ = [c \in Conn |-> NoReply]
  /\ disk \in Disks
  /\ written = [c \in Conn |-> {}]

-----------------------------------------------------------------------------
(***************************************************************************)
(* Operations and their cancellation.                                      *)
(***************************************************************************)

\* What becomes of an operation initiated on the socket of c: asio completes
\* an operation on a closed socket with bad_descriptor.
Initiated(c) == IF socket_[c] = "open" THEN "pending" ELSE "error"

\* do_read(); the octets of buffer_ are the network's until it completes.
do_read(c) == read_' = [read_ EXCEPT ![c] = Initiated(c)]

\* Mutant: the connection reads on while it writes.
do_writeReadingOn(c) ==
  /\ write_' = [write_ EXCEPT ![c] = Initiated(c)]
  /\ read_' = [read_ EXCEPT ![c] = Initiated(c)]

\* do_write(), called by the handler of a read that has completed.
do_write(c) ==
  /\ write_' = [write_ EXCEPT ![c] = Initiated(c)]
  /\ read_' = [read_ EXCEPT ![c] = "none"]

\* The operations op once the sockets of S are closed.
Cancel(op, S) ==
  [c \in Conn |-> IF c \in S /\ op[c] = "pending" THEN "aborted" ELSE op[c]]

Close(S) == socket_' = [c \in Conn |-> IF c \in S THEN "closed" ELSE socket_[c]]

\* Mutant: the manager keeps a moved-from pointer.
ManagerStartMoved(c) ==
  /\ connections_' = connections_ \cup {"null"}
  /\ socket_' = [socket_ EXCEPT ![c] = "open"]
  /\ read_' = [read_ EXCEPT ![c] = "pending"]
  /\ \E junk \in Residue : buffer_' = [buffer_ EXCEPT ![c] = junk]

\* connection_manager::start, with connection::start: the new connection's
\* buffer_ is not initialised.
ManagerStart(c) ==
  /\ connections_' = connections_ \cup {c}
  /\ socket_' = [socket_ EXCEPT ![c] = "open"]
  /\ read_' = [read_ EXCEPT ![c] = "pending"]
  /\ \E junk \in Residue : buffer_' = [buffer_ EXCEPT ![c] = junk]

\* Mutant: the manager does not erase the connection.
ManagerStopKeeps(c, operation) ==
  LET Ended(op, name) == IF operation = name THEN [op EXCEPT ![c] = "none"]
                                             ELSE Cancel(op, {c})
  IN  /\ UNCHANGED connections_
      /\ Close({c})
      /\ read_' = Ended(read_, "read")
      /\ write_' = Ended(write_, "write")

\* connection_manager::stop of c by its handler of operation "read" or "write".
ManagerStop(c, operation) ==
  LET Ended(op, name) == IF operation = name THEN [op EXCEPT ![c] = "none"]
                                             ELSE Cancel(op, {c})
  IN  /\ connections_' = connections_ \ {c}
      /\ Close({c})
      /\ read_' = Ended(read_, "read")
      /\ write_' = Ended(write_, "write")

\* connection_manager::stop_all.
ManagerStopAll ==
  /\ connections_' = {}
  /\ Close(connections_)
  /\ read_' = Cancel(read_, connections_)
  /\ write_' = Cancel(write_, connections_)

-----------------------------------------------------------------------------
(***************************************************************************)
(* The network.                                                            *)
(***************************************************************************)

\* async_read_some completes with the octets up to n, no more than fit into
\* buffer_.  Behind them stays what the buffer held before; a full buffer has
\* no zero octet, and the string runs on into whatever memory follows.
BytesArrive(c) ==
  /\ process = "running"
  /\ read_[c] = "pending"
  /\ \E n \in (Cuts \cup {Len(stream[c])}) :
       /\ taken[c] < n /\ n <= Len(stream[c]) /\ n - taken[c] <= BufSize
       /\ start' = [start EXCEPT ![c] = taken[c]]
       /\ taken' = [taken EXCEPT ![c] = n]
       /\ \E junk \in IF n - taken[c] = BufSize THEN Residue ELSE {buffer_[c]} :
            buffer_' = [buffer_ EXCEPT
                          ![c] = SubSeq(stream[c], taken[c] + 1, n) \o junk]
  /\ read_' = [read_ EXCEPT ![c] = "ok"]
  /\ UNCHANGED <<process, connections_, socket_, write_, stream, parser_,
                 result_first, request_first, reply_, disk, written>>

\* End of file, connection reset: a read fails at any time.
ReadFails(c) ==
  /\ process = "running"
  /\ read_[c] = "pending"
  /\ read_' = [read_ EXCEPT ![c] = "error"]
  /\ UNCHANGED <<process, connections_, socket_, write_, data>>

WriteCompletes(c) ==
  /\ process = "running"
  /\ write_[c] = "pending"
  /\ write_' = [write_ EXCEPT ![c] = "ok"]
  /\ UNCHANGED <<process, connections_, socket_, read_, data>>

\* The peer resets the connection; or a write cancelled between two of the
\* pieces async_write sends goes on to the next and finds the socket closed.
WriteFails(c) ==
  /\ process = "running"
  /\ write_[c] \in {"pending", "aborted"}
  /\ write_' = [write_ EXCEPT ![c] = "error"]
  /\ UNCHANGED <<process, connections_, socket_, read_, data>>

-----------------------------------------------------------------------------
(***************************************************************************)
(* The completion handler of do_read.                                      *)
(***************************************************************************)

\* What parse makes of the octets of this read.
Parsed(c) == Parse[<<parser_[c], SubSeq(buffer_[c], 1, taken[c] - start[c])>>]

\* Mutant: the text is taken after buffer_ was cleared.
TextCleared(c) == <<>>

\* string data = buffer_.data(): up to the first zero octet.
Text(c) ==
  LET zero == SelectInSeq(buffer_[c], LAMBDA o : o = "nul")
  IN  IF zero = 0 THEN buffer_[c] ELSE SubSeq(buffer_[c], 1, zero - 1)

\* A match of "\r\n\r\n.*" begins at i.  Matches are sought from left to right
\* and do not overlap: in a run of line breaks every second one begins one.
MatchAt(s, i) ==
  /\ BlankAt(s, i)
  /\ \E first \in 1..i : /\ (i - first) % 4 = 0
                         /\ ~BreakAt(s, first - 2)
                         /\ \A j \in first..i : (j - first) % 2 = 0 => BreakAt(s, j)

\* Where the last match begins, 0 if there is none.
LastBlank(s) ==
  LET matches == {i \in DOMAIN s : MatchAt(s, i)}
  IN  IF matches = {} THEN 0 ELSE Max(matches)

\* What the "." of the expression matches from position i on: up to the end
\* of the line.
RestOfLine(s, i) ==
  LET rest == SubSeq(s, i, Len(s))
      end == SelectInSeq(rest, LAMBDA o : o \in {"cr", "lf"})
  IN  IF end = 0 THEN rest ELSE SubSeq(rest, 1, end - 1)

\* The text a POST's body is taken from, and the body.
Body(c) == IF LastBlank(Text(c)) = 0
           THEN Text(c)
           ELSE RestOfLine(Text(c), LastBlank(Text(c)) + 4)

\* p is what parse returned for this read, Parsed(c).
IsPOST(p) == p.parser.method = <<"POST">>
IsGET(p) == p.parser.method = <<"GET">>

\* The text ends with its last blank line: the body is to come in another read.
BodyMissing(c, p) == IsPOST(p) /\ LastBlank(Text(c)) # 0 /\ Body(c) = <<>>

\* What every branch of the handler does first when the read is ok: keep the
\* request and the result, clear the buffer.  body is what request_first.body
\* is set to, if it is.
Keep(c, p, body) ==
  /\ parser_' = [parser_ EXCEPT ![c] = p.parser]
  /\ result_first' = [result_first EXCEPT ![c] = p.result]
  /\ request_first' = [request_first EXCEPT
                         ![c] = [method |-> p.parser.method,
                                 uri |-> p.parser.uri, body |-> body]]
  /\ buffer_' = [buffer_ EXCEPT ![c] = <<>>]
  /\ UNCHANGED <<connections_, socket_, stream, start, taken>>

\* Mutant: the body is not read.
AwaitBodyForgets(c, p) ==
  /\ BodyMissing(c, p)
  /\ Keep(c, p, <<>>)
  /\ read_' = [read_ EXCEPT ![c] = "none"]
  /\ UNCHANGED <<process, write_, reply_, disk, written>>

\* A POST without its body: read again, whatever the result was.
AwaitBody(c, p) ==
  /\ BodyMissing(c, p)
  /\ Keep(c, p, <<>>)
  /\ do_read(c)
  /\ UNCHANGED <<process, write_, reply_, disk, written>>

\* Mutant: a POST is answered before its header section is complete.
AnswerPOSTEarly(c, p) ==
  /\ p.result # "bad" /\ IsPOST(p) /\ ~BodyMissing(c, p)
  /\ Keep(c, p, Body(c))
  /\ \E failing \in SUBSET MayFail :
       LET done == HandlePOST(p.parser.uri, Body(c), reply_[c], disk, failing)
       IN  /\ reply_' = [reply_ EXCEPT ![c] = done.reply]
           /\ disk' = done.disk
           /\ written' = [written EXCEPT ![c] = written[c] \cup done.wrote]
           /\ IF done.aborted
              THEN process' = "aborted" /\ UNCHANGED <<read_, write_>>
              ELSE do_write(c) /\ UNCHANGED process

AnswerPOST(c, p) ==
  /\ p.result = "good" /\ IsPOST(p) /\ ~BodyMissing(c, p)
  /\ Keep(c, p, Body(c))
  /\ \E failing \in SUBSET MayFail :
       LET done == HandlePOST(p.parser.uri, Body(c), reply_[c], disk, failing)
       IN  /\ reply_' = [reply_ EXCEPT ![c] = done.reply]
           /\ disk' = done.disk
           /\ written' = [written EXCEPT ![c] = written[c] \cup done.wrote]
           /\ IF done.aborted
              THEN process' = "aborted" /\ UNCHANGED <<read_, write_>>
              ELSE do_write(c) /\ UNCHANGED process

AnswerGET(c, p) ==
  /\ p.result = "good" /\ IsGET(p)
  /\ Keep(c, p, <<>>)
  /\ reply_' = [reply_ EXCEPT ![c] = HandleGET(p.parser.uri, reply_[c], disk)]
  /\ do_write(c)
  /\ UNCHANGED <<process, disk, written>>

\* Any other method: no branch of the handler takes it, no operation follows.
IgnoreMethod(c, p) ==
  /\ p.result = "good" /\ ~IsPOST(p) /\ ~IsGET(p)
  /\ Keep(c, p, <<>>)
  /\ read_' = [read_ EXCEPT ![c] = "none"]
  /\ UNCHANGED <<process, write_, reply_, disk, written>>

RejectBad(c, p) ==
  /\ p.result = "bad" /\ ~BodyMissing(c, p)
  /\ Keep(c, p, <<>>)
  /\ reply_' = [reply_ EXCEPT ![c] = StockReply(400)]
  /\ do_write(c)
  /\ UNCHANGED <<process, disk, written>>

\* Mutant: an incomplete request is not read further.
ReadMoreForgets(c, p) ==
  /\ p.result = "indeterminate" /\ ~BodyMissing(c, p)
  /\ Keep(c, p, <<>>)
  /\ read_' = [read_ EXCEPT ![c] = "none"]
  /\ UNCHANGED <<process, write_, reply_, disk, written>>

ReadMore(c, p) ==
  /\ p.result = "indeterminate" /\ ~BodyMissing(c, p)
  /\ Keep(c, p, <<>>)
  /\ do_read(c)
  /\ UNCHANGED <<process, write_, reply_, disk, written>>

ReadCompleted(c) ==
  /\ process = "running"
  /\ read_[c] = "ok"
  /\ \E p \in {Parsed(c)} :
       \/ AwaitBody(c, p) \/ AnswerPOST(c, p) \/ AnswerGET(c, p)
       \/ IgnoreMethod(c, p) \/ RejectBad(c, p) \/ ReadMore(c, p)

\* The read failed: stop the connection.
ReadFailed(c) ==
  /\ process = "running"
  /\ read_[c] = "error"
  /\ ManagerStop(c, "read")
  /\ UNCHANGED <<process, data>>

\* The read was cancelled: nothing to do.
ReadAborted(c) ==
  /\ process = "running"
  /\ read_[c] = "aborted"
  /\ read_' = [read_ EXCEPT ![c] = "none"]
  /\ UNCHANGED <<process, connections_, socket_, write_, data>>

ReadHandler(c) == ReadCompleted(c) \/ ReadFailed(c) \/ ReadAborted(c)

(***************************************************************************)
(* The completion handler of do_write.                                     *)
(***************************************************************************)

\* The reply was sent, and the socket is shut down, or it could not be sent:
\* either way the connection is stopped.
WriteDone(c) ==
  /\ process = "running"
  /\ write_[c] \in {"ok", "error"}
  /\ ManagerStop(c, "write")
  /\ UNCHANGED <<process, data>>

WriteAborted(c) ==
  /\ process = "running"
  /\ write_[c] = "aborted"
  /\ write_' = [write_ EXCEPT ![c] = "none"]
  /\ UNCHANGED <<process, connections_, socket_, read_, data>>

WriteHandler(c) == WriteDone(c) \/ WriteAborted(c)
=============================================================================
