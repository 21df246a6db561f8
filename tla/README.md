# Specifications of GCRobot-transinfo

TLA+ specifications of the programs in this repository, the TLC configurations
that check them on small instances, and theorems about them that the TLA+ proof
system checks for every instance.

    tlc -workers 2 -config Server.cfg MCHttp.tla     # a run; others in section 3
    tlapm HttpServerProofs.tla                       # the proofs of a module

## 1. The system

The repository is four programs that move data between robots and people.

    robot (Serial-robot)                 browser / operator
       | serial line, COM9 -> COM5              | HTTP, port 8888
       v                                        v
    WebSocket server (WebsocketServer)   HTTP server (HTTP)
       |  |                                     |
       |  +-- F:/json.txt ----------------------+ serves and writes F:/
       v
    WebSocket client (WebsocketClient), port 8888

* **HTTP server** (`src/HTTP`): one process, one thread, one `io_context`. It
  accepts connections, parses one request on each, answers it from the files
  under `F:/`, and closes. A POST to `/mission/group/` writes two files.
* **WebSocket server** (`src/WebsocketServer`): one process, one thread for each
  session. Each session reads frames from the serial port, sends `{...}` frames
  to its client and writes `[...]` frames to `F:/json.txt`.
* **WebSocket client** and **robot simulator**: a loop of blocking reads, and a
  loop that sends two kinds of frames alternately.

### 1.1 Inventory

| component | state | operations | interacts with |
|---|---|---|---|
| request parser, `request_parser.cpp` | `state_`; fills method, uri, version, headers of the request | `parse` (loop over `consume`), `reset` (never called) | called by the connection's read handler |
| connection, `connection.cpp` | socket, `buffer_`, `request_`, `request_parser_`, `reply_`, `request_first`, `result_first`, `v_data` | `start`, `stop`, `do_read`, `do_write` and the completion handler of each | network; parser; request handler; manager |
| connection manager, `connection_manager.cpp` | `connections_` | `start`, `stop`, `stop_all` | called by the accept, read, write and stop handlers |
| server, `server.cpp` | acceptor, signal set | constructor, `run`, `do_accept`, `do_await_stop` and their handlers | network; operator (signals); manager |
| request handler, `request_handler.cpp` | none (document root) | `handle_request_POST`, `handle_request_GET`, `url_decode`, `record2map` | reply; mission files; files under `F:/` |
| reply, `reply.cpp` | status, headers, content | `to_buffers`, `stock_reply` | its memory is `async_write`'s until the write completes |
| mission files, `cstjson.cpp` | `F:/mission/group/res.json`, `F:/demo.json` | one writer for each; three empty hooks | the request handler |
| remote control, `remote.cpp` | none | empty functions | the request handler |
| MIME types, `mime_types.cpp` | none | table lookup | the request handler |
| WebSocket session, `tbwebsocket.cpp` | the stream | accept, then forever: read a frame, relay it | serial port; `F:/json.txt`; its client |
| serial reader, `dealdata.cpp` | 500 octets of uninitialised stack | opens COM5, reads some, closes | the serial line |
| WebSocket client, `websocketclient.cpp` | none | handshake, then reads for ever | WebSocket server |
| robot simulator, `serialtest.cpp` | two fixed frames | writes them alternately, once a second | the serial line |

### 1.2 What is hard, and what makes each part correct

* *Cuts.* TCP delivers a request in pieces of the network's choosing. The parser
  must reach the same verdict however they are cut, at the last octet of the
  header section; the code's own search for a POST's body, which looks at the
  octets of one read, must find it.
* *No reset.* The parser is never reset; the second read of a POST reaches a
  parser that has already accepted.
* *Memory.* `buffer_` is uninitialised before the first read, is not
  zero-terminated after one that fills it, and is read as a C string.
* *Queued completions.* A stop closes sockets whose operations may already have
  completed: their handlers run afterwards. Who erases, who closes, who starts
  what on a closed socket?
* *Something always outstanding.* Before the stop there must always be an accept;
  after it everything must drain, or `run()` never returns. A connection without
  an outstanding operation is forgotten.
* *Lifetime of the reply.* `to_buffers` hands out pointers.
* *Partial failure.* A mission is two files and a reply read from a third.
* *The URI.* It is decoded, checked, taken apart and cut by `find` and `substr`,
  in this order, with `npos` where a separator is missing: what the client sent
  must be what is served, nothing outside the document root may be opened, no
  `substr` may throw (it would end the server), and the loop over the query
  must end.
* *The serial side.* One port opened and closed for each frame by every session:
  a session that meets another's opening throws and ends. Frames are cut by
  `read_some`, begun in the middle, and continued by uninitialised memory. A
  session waits for the robot without a timeout, also when its client has gone.
  `F:/json.txt` is rewritten in place by several threads, under another
  program's eyes, in a process that a failing accept ends.

`PROJECT.json` lists each hazard with its line and the properties that watch it.

## 2. The modules

    RequestParser ---> RequestGrammar ---> ParserMachine ---> MCParser
         |                   |  \                \--> ParserMachineProofs
         |                   |   \--> GrammarProofs --------^
         v                   v
    RequestHandler ---> Connection ---> HttpServer ---> HttpDelivery ---> MCHttp
                                            |  \--> HttpServerProofs
                       ServerLifecycle <----+  (implemented by)

    HttpDelivery, HttpServerProofs, GrammarProofs ---> DeliveryProofs

    SerialBridge ---> MCBridge                    RequestTarget ---> MCTarget
         |   \--> SerialBridgeProofs ---> KindsProofs    \--> RequestTargetProofs
    SessionPool  (implemented by SerialBridge)

    InductionFacts ---> GrammarProofs, RequestTargetProofs, KindsProofs

* **RequestParser**: pure operators. `Branches` is the switch of `consume()`, one
  row per branch that does not return bad; `Consume` takes the row whose octets
  contain the input; `Parse` is the loop of `parse()`, as a recursive
  function of the parser and the octets it is called with.
  An octet is its class; a *lexeme* stands for a run of octets that the parser
  consumes without changing state after the first (`"GET"`, `"word"`, a path).
* **RequestGrammar**: what a request is, said without a parser, by the lines
  between line breaks. It is what the parser is compared with and the vocabulary
  of the delivery properties.
* **ParserMachine**: the parser object over its life, one octet per step:
  `Continue` while there is no verdict, `Resume` for octets after one.
* **RequestHandler**: from a request, the reply object and the disk to the new
  reply object and disk. `Asserts` is TRUE in a build where `assert()` is
  compiled in (Debug) and FALSE in one with `NDEBUG` (Release).
* **Connection**: the connections, their manager and the network. The variables
  in `control` say which operations are outstanding, those in `data` what they
  carry. One variable of `data` is a history variable: `written` is the set of
  the mission files that the handler of a connection has itself opened and
  written. An operation is `pending` until the network completes it (`ok`,
  `error`) or the socket is closed under it (`aborted`); then its handler is
  queued, and runs as one step. The completion handler of a read,
  `ReadCompleted`, is a disjunction of the code's branches: `AwaitBody`,
  `AnswerPOST`, `AnswerGET`, `IgnoreMethod`, `RejectBad`, `ReadMore`.
* **HttpServer**: the acceptor, the signal set and `run()` around the
  connections; the specification, its fairness, the properties of the life
  cycle.
* **HttpDelivery**: properties that relate what a client sent, and how it was
  cut, to what it and the disk got.
* **ServerLifecycle**: the abstract promise: serve, stop once and for good, exit.
  `HttpServer!Implements` is the refinement.
* **RequestTarget**: `handle_request_GET` from the URI to the file and its type,
  a step for each turn of a loop: `url_decode` (`Decode`), `record2map`
  (`ReadQuery`), the naming of the file and the table of `mime_types.cpp`
  (`Open`). Here a character is its code, because an escape is a number that
  becomes one; `RequestHandler`, where what matters is which file a reply is
  made from, keeps URIs as lexemes, and its `Refused` and `FileOfGET` are what
  this module does to the URIs used there. The positions of the code are
  unsigned with `npos` = 2^64 - 1 (2^32 - 1), or `int` after a cast; modelled as
  integers with `npos` = -1, they give the same sums, differences and comparisons
  (the module's head says why).
* **SerialBridge**: the four programs' other half: the robot, the serial line,
  the sessions of the WebSocket server with `dealdata`, their clients, and
  `F:/json.txt`. A frame is a sequence of octets, of which only the brackets, the
  zero octet and octets that no text has (`hi`) are told apart.
* **SessionPool**: the abstract promise of the WebSocket server: while the server
  and the line work, a session is given up only for another one that serves, or
  because its client left. `SerialBridge!Implements` is the refinement.
* **ParserMachineProofs**, **HttpServerProofs**, **DeliveryProofs**,
  **RequestTargetProofs**, **SerialBridgeProofs**, **KindsProofs**: the theorems.
  **GrammarProofs** has the lemmas about `Consume`, `Parse` and the grammar that
  the parser's and the deliveries' theorems share, **InductionFacts** those about
  numbers and sequences.
* **MCParser**, **MCHttp**, **MCTarget**, **MCBridge**: instances for TLC.

Definitions that begin with the comment *Mutant* are variants of the definition
after them, each with a plausible mistake: `PROJECT.json` names, for each
property of each passing run, the variant under which TLC finds it violated.

### 2.1 How the code maps to steps

The `io_context` runs on one thread, so a completion handler is atomic and is
one action with everything it calls: the read handler's action contains the
parse, the body search, the request handler with its file accesses, and the
initiation of the next operation. What happens between handlers, and in any
order, is the network completing operations, clients connecting and the
operator's signal. The model of asio, taken from how the code uses it, is
`Initiated` (an operation started on a closed socket fails), `Cancel` (closing a
socket aborts what is pending and leaves what has completed), and the network's
actions.

| code | actions |
|---|---|
| `server::do_accept` handler | `AcceptTooLate`, `AcceptConnection`, `AcceptAgain` |
| `server::do_await_stop` handler | `StopHandler` |
| `server::run` returns | `RunReturns` |
| `connection::do_read` handler | `ReadCompleted`, `ReadFailed`, `ReadAborted` |
| `connection::do_write` handler | `WriteDone`, `WriteAborted` |
| `connection_manager` | `ManagerStart`, `ManagerStop`, `ManagerStopAll`, inside those |
| `request_handler`, `cstjson`, `reply` | operators inside `AnswerPOST`, `AnswerGET`, `RejectBad` |

The handler of a GET computes on its own data and no other step can come between
its steps; `RequestTarget` looks into it, one request at a time:

| code | actions of RequestTarget |
|---|---|
| `url_decode` | `DecodeEscape`, `RefuseEscape`, `DecodePlus`, `Copy` |
| the check of the path | `Refuse` (and the guard `Accepted` of what follows) |
| `record2map` | `FirstPair`, `NextPair`, `LastPair`; `OnlyPair`; `NoPair` |
| the rest of `handle_request_GET`, `extension_to_type` | `Open` |

The WebSocket server has a thread for each session: a step there is a call that
blocks, or one that another thread or process can see.

| code | actions of SerialBridge |
|---|---|
| `main` of the server | `Accept`; `AcceptFails` (the exception that ends the process) |
| `do_session`, handshake | `Handshake`, `HandshakeFails` |
| `dealdata` | `OpenPort`, `OpenFails`; `ReadSome`, `ReadFails` (each with the closing of the port) |
| `do_session`, a frame in braces | `Relay`, `RelayToGone` |
| `do_session`, a frame in brackets | `OpenFile` (truncates), `OpenFileFails`, `CloseFile` (writes) |
| `websocketclient.cpp` | `Connect`, `ClientReads`, `ClientFails` |
| `serialtest.cpp` | `Transmit` |
| the surroundings | `Unplug`, `ClientLeaves` |

### 2.2 What is abstracted

* Text: octets are classes and lexemes; the content of a file is a name; the
  text of headers, the digits of the version and the wording of replies are not
  kept. The *number* of headers is, because `consume()` depends on it.
* In `RequestHandler` a URI is a sequence of lexemes, each of which stands for
  itself and for what decoding makes of it; `RequestTarget` has the characters. A
  URI is refused when a path made of these has two dots in a row, as one lexeme or
  as two octets. It names a file only as the lexeme of the file's role spells it: a
  doubled slash or a dot at the end, which a system may take for the same file,
  names an absent one. `record2map` computes
  an argument for functions that are empty. A POST calls the same `url_decode`
  and names its file by other rules, which are in `RequestHandler` only.
* The operating system under `SerialBridge`, from how the code uses it: COM5 has
  one owner at a time; octets that come while no one has it open are lost, as are
  those not read when it is closed; `read_some` returns at least one octet and at
  most what has come and what the buffer holds; a write to a connection whose
  peer has gone may be reported or not; a text shorter than a stream's buffer
  reaches the file in one write when the stream is closed. The five settings of
  the port are taken to succeed when its opening does.
* Memory behind the octets of a read is any member of `Junk`: what stands there
  up to the next zero octet.
* The one-second pause of the robot is left out: it writes whenever the line has
  room, which only adds behaviours.
* `v_data` is always empty (its only `push_back` is commented out,
  `connection.cpp:68`), so `request_first` and `result_first` are always those of
  the latest read: the test on `v_data` is always true and has no variable.
* A handler that throws, because memory is exhausted or the regular expression is
  too long for the library, would end `run()`: not modelled.
* Both servers are taken to have bound their ports (both are 8888: on one host the
  second one would not start).

## 3. The runs

| run | configuration | question | distinct states |
|---|---|---|---|
| `parser` | `Parser.cfg` | does the parser accept exactly the grammar, and is it safe to go on after a verdict? | 610 000 |
| `requests` | `Requests.cfg` | what does each kind of request get, however cut, whatever memory holds and whichever files fail? | 383 000 |
| `server` | `Server.cfg` | is the bookkeeping right in every order of events, is the life cycle implemented, and does a stop always end the program? | 78 000 |
| `finish` | `Live.cfg` | is every whole request finished? | 49 000 |
| `target` | `Target.cfg` | what does a URI become: path, parameters, file and type? | 58 000 |
| `bridge` | `Bridge.cfg` | what do a client and the file get from a session, whatever is cut, lost, left in memory or broken? | 196 000 |
| `competing` | `Competing.cfg` | what do two sessions do to each other, over the port and over the file? | 100 000 |
| `post_refused`, `post_body`, `unanswered`, `read_on`, `mission_lost` | | five statements of the code's comments, refuted | |

The runs of the HTTP server, the parser and `target` have `CHECK_DEADLOCK FALSE`:
the server stops by design, and with it every behaviour; a parser with its bound
used up stops, and so does a request that got its file. The runs of the bridge
check deadlock: its robot never stops.

### 3.1 Bounds

* `parser`: one octet of every class that `consume()` tells apart (twelve).
  Exploration begins at six starts, from nothing to a whole request line with a
  header field, and goes on exhaustively for `MaxMore` = 6 octets. From one start
  or another six octets take every branch of the switch, and go on after a
  verdict of each kind. `MaxWord` = 2 and `MaxHeaders` = 2 only bound repetitions
  in which the parser does not change
  state. `Continuations`, with which a refused request is tried to be completed,
  are the ends of requests, from any place where a start or what follows it may
  have left off. The theorems need none of these bounds.
* `requests`: one connection, because connections share nothing but the disk and
  the manager; 23 streams, at least one for every branch of the handlers, among
  them one that the parser refuses in front of a blank line, a GET and a POST
  whose URIs have two dots as two octets, and a GET whose query goes on behind its
  lexeme; every cut
  (`EveryCut`); a buffer of 21 octets, one less than most header sections, so that
  a read may fill it; four contents of uninitialised memory, among them one
  that ends in a blank line; two disks, with and without the file that a mission
  is answered with; both mission files may fail.
* `server`: two connections, so that one may be accepted, served or stopped
  while the other is in any phase, with three requests (a read, a write,
  one that leaves its connection idle) and three cuts. A third connection adds
  no new pair of interacting handlers; the theorems hold for any number. No
  symmetry is used, because liveness is checked.
* `finish`: two connections, a GET and a mission POST.
* `mission_lost`: two connections, two missions with bodies of one octet each;
  nothing is cut and nothing fails. More could only make the refutation longer.
* `target`: every URI of up to four characters over `%`, `/`, `2`, `f`; behind a
  slash, every string of up to four (`MaxEscaped`) over the characters that
  `url_decode`, `istringstream` and the check for `..` tell apart (`%`, `+`, `-`,
  `.`, `0`, `2`, `e`, `x`: an escape and a character, and a second escape that
  the end of the string cuts short), every string of up to five (`MaxQuery`) over
  `?`, `&`, `=` and a letter (three parts with separators missing, repeated and
  in any order), every well-formed query of two and three parts with empty and
  equal names, and twelve names with types, directories and escapes. The
  theorems need no bound on the URI.
* `bridge`: one session, because sessions share only the port and the file, and
  `competing` is about those. The text has an object and an array within it, as
  the robot's has: the shortest in which a part looks like a whole of either
  kind. The line and the buffer hold 8 octets (`MaxLine`, `Size`), one more than
  a frame, so that a read may end in it, at its end and in the next one. Memory
  is zero or goes on with an octet that no text has and a brace. `Faults` lets
  the line and the accept fail, each once.
* `competing`: two sessions, so that one may be in any step while the other opens
  the port or the file; a shorter text (`ShortText`), zeros in memory, nothing
  broken: `bridge` has the rest. The theorems hold for any number of sessions.

Each socket is accepted at most once (a constant's element is one client), and a
client sends one stream. A server that handles more clients goes through the same
steps with more elements.

### 3.2 Fairness

* `HandlerFairness`: the `io_context` takes handlers from its queue in turn
  (`server.cpp:49-56`), so a queued handler runs: weak fairness of each handler,
  and of `run()` returning when nothing is left. For the read handler it is
  stated on the change it makes to `read_[c]` (`ReadTurn`); that only a run of
  the handler makes this change is proved (`ReadTurnIsHandler`). `server` assumes
  nothing else: neither that clients send nor that they receive.
* `NetworkFairness`: octets sent arrive, replies are taken. The code guarantees
  nothing of the kind (it has no timer), so only `finish` and `unanswered`, which
  ask what becomes of a request from a cooperating client, assume it. In
  `unanswered` it makes the counterexample stronger: the request stays unanswered
  though nothing failed.

* `SerialBridge!FairSpec`: threads and processes are scheduled, so weak fairness of
  the robot's next octet, of `main`'s accept, and of each session's next step
  (`Session(s)`, whichever it is), and of a client's taking what has come to it or
  noticing that the connection is closed. Clients need not connect and may leave;
  nothing has to break.
* `RequestTarget!FairSpec`: weak fairness of the next step; a thread in the handler
  goes on.

### 3.3 What the passing runs show

* `GoodIffHeaderSection`, `RefusedIsHopeless`: the first verdict is good exactly
  on the header sections of the grammar, and bad on nothing that could still
  become one: the parser is exact, and neither early nor late.
* `HeadersBackDefined`, `AcceptedIsFinal`: it is safe to be called after an
  acceptance, which the connection does. It is not after a refusal: section 3.4.
* `GetIsServed`: whatever the cuts and the memory, a GET gets its file with the
  right length, and not before its header section was received: "for a GET the
  original code has no problem" (`connection.cpp:55`) holds.
* `OneReadPostIsExact`: a POST is also right when its last blank line and its
  body come in one read with nothing behind them. `post_refused`, `post_body` and
  `unanswered` say what happens otherwise.
* `OnlyMissionsChangeDisk`: although the POST branch is entered before the result
  of the parse is looked at, of what the parser does not refuse nothing but a
  complete well-formed mission writes. The property speaks of those clients only
  because of the fourth finding of section 3.4. The step that writes must be the
  read handler of such a connection, not merely happen while there is one.
* `AcknowledgedMissionIsWritten`: with assertions compiled in, the handler of a
  mission that is acknowledged has itself opened and written both files, which
  hold what their functions write. An earlier mission's writing does not count.
  Whether that is the client's mission is the fifth finding of section 3.4.
* `ManagedIsOpen`, `OneOperation`, `AcceptOutstanding`, `ReplyStable`,
  `OnlyOtherMethodsIdle`, `StoppedForGood`, `Implements`: the hazards of queued
  completions do not bite.
* `StopDrains`, `RequestsFinish`: the two things that must eventually happen.
* `DecodedExactly`: a URI whose escapes are well-formed is decoded to what it
  stands for, which `Meaning` says from the URI's end, and refused only for what
  it stands for. (Others, such as `%+2` or `%2x`, are decoded or refused as `istringstream`
  has it; nothing says what they should be.)
* `OpenedUnderRoot`: no order of escapes, cutting and zero octets opens a file
  with `..` in its name. `TypeFitsName`: the type is that of the end of the name.
* `QueryReadExactly`, `NeverThrows`, `HandlerEnds`: `record2map` reads a
  well-formed query part for part, the first of equal names wins, and neither
  throws nor loops on any other.
* `OnlyBraces`: neither two sessions that write `F:/json.txt` over each other nor
  an accept that fails between its truncation and its writing leave anything in
  it but nothing or a text in braces. It may be the shorter text with the end of
  the longer one behind it, and it may stay empty.
* `KindsKeptApart`: of frames that were read to their end only those of the right
  kind get through, wherever the port was opened. What gets through may lack its
  beginning; kinds are never mixed.
* `PortHeldWhileReading` (in `bridge`, where a read may also throw and the accept
  may fail): every way out of `dealdata` closes the port. `Implements` (in
  `competing`): so competition ends sessions, but never the last one.
* `ReadsEnd`, `ClientsNotQueued`: a read ends, with the robot's next octet or the
  line's failure; clients do not wait for each other's frames.

### 3.4 What the code does not do

* **A POST in two segments is refused** (`post_refused`). The comments at
  `connection.cpp:54-61` and `:95` describe the intended handling; with the
  `push_back` of line 68 commented out, the second read goes through a parser
  that has already accepted, which calls the body bad: 400.
* **The body depends on the cut** (`post_body`). Cut within the blank line, the
  body of an acknowledged POST begins with the rest of the blank line; cut within
  the body, it ends there.
* **Some parsed requests are never answered** (`unanswered`): a POST without a
  body, and any method other than GET and POST.
* **A refused POST may be accepted** (`read_on`). The search for the body comes
  before the look at the result (`connection.cpp:71`, `:103`). A POST that the
  parser has just called bad, but whose read ends in a blank line, is therefore
  read on (`:95`); `consume()` left the state of the refused line, `reset()` is
  not called, and a line break in the next read is taken for the end of the header
  section. The run sends a mission with a colon for a header: what was received
  is no request, the reply is 200, and the mission is written.
* **A mission's text is never saved** (`mission_lost`). The comment over the call
  says that the body is turned into JSON and saved (`request_handler.cpp:198`, also
  `:126`), and the one over the function that it saves the JSON's file
  (`cstjson.cpp:60`). `writeFileJson_mission_allo(str)` does not use `str`: it
  writes a placeholder (`cstjson.cpp:62-91`). The run publishes two missions with
  different texts; both are acknowledged, and the second leaves `F:/demo.json` as
  it was.

Two more behaviours contradict no statement of the repository, and no property
forbids them:

* **A part of a frame may pass the filter.** The robot's object has an object within
  it; a read that ends at the inner closing brace begins and ends with a brace and
  is relayed as a message that is no JSON text. That reads are not accurate is
  known (`dealdata.cpp:24`).
* **A session without a client may stay.** It notices only in `ws.write` that its
  client has gone, and the system need not tell it (`RelayToGone`); until then
  it competes for the port, and may win against one with a client. `SessionPool`
  speaks of sessions, not of clients.

## 4. The proofs

TLC checks the instances above; the theorems hold for every value of the
constants under `BoundsAssumption` (the parser), `ConnectionAssumption` and
`AssertsAssumption` (the server): any number of connections, any streams over the
octet classes, any cuts, any content of memory, any disks on which the file that
no program writes is there (`/file` stands for a name that is, `/missing` for one
that is not), either build; under `TargetAssumption`: URIs of any length over all
octets; and under `BridgeAssumption`: any number of sessions, any text in braces,
any memory, any size of buffer and line, any faults.

**InductionFacts.** Induction over data is not taken from the library, whose
theorems have an operator as a parameter. `LeastNumber` (a set of natural numbers
that is not empty has a least one, from the well-foundedness of `<`) gives
`CountUp`, which has a *set* instead: what holds of 0 and, below `n`, of the next
number holds up to `n`. `FrontRecursion` is the theorem that a function defined
by its value on all of a sequence but its last element exists and satisfies its
definition: it builds the function's graph along the sequence. `Parse` and
`Meaning`, the reference of the decoding, are such functions (`ParseIs`,
`MeaningIs`).

**ParserMachineProofs.** The first invariant is the type invariant with
`headers > 0` in every state of the parser after the first octet of a header
(`WritesBack`). `OneBranch` shows that at most one row of the switch matches an
octet, so `Consume` has a unique outcome; `ConsumeKeeps` that every row keeps the
invariant. From it: `ParserTypeCorrect`, `HeadersBackAlwaysDefined`, and, with
`Newline3IsFinal`, `AcceptedStaysFinal`.

`AcceptsTheGrammar` and `RefusesTheHopeless` need to know what the octets are like
that led the parser where it is: `Judged`, the second part of the invariant, whose
core is `Reads` of GrammarProofs.

**GrammarProofs.** The grammar cuts a header section into lines and words; the
parser sees octets. The proofs say everything a third way, by the *positions* of
the octets: `RequestRole`, `FieldRole` and `FoldRole` are what the octet at a
position may be, given where the spaces, the dot, the colon are.

* `Reads(p, s)`: the octets `s` led to `p` without a verdict. Every line that is
  whole is good, there is no blank line, and the state of `p` is the one that
  belongs to the place in the last line (`RequestState`, `FieldState`,
  `FoldState`). That the first header line is not folded is in `Behind`, and in
  the number of headers.
* `StepReads`: one octet more keeps it, or completes a section, or is one with
  which no continuation at all is a section. The last of these, the argument
  behind `RefusedIsHopeless`, has the positions for its reason: two readings of
  one line have the same spaces and colons (`SameMarks`, `FieldIsOne`,
  `FoldIsOne`), so an octet that does not fit the reading so far fits no other.
* `SectionIs`: by positions and by cutting, a section is the same. With it the
  two theorems follow.
* `ParseVerdict`, `ParseJoins`, `CallVerdict`: the same of `parse()`, over a read
  and over all reads. Two calls with two parts of a stream end as one call with
  both, so where the network cuts does not matter; `Spelled` says that method and
  URI of the request are the words of the grammar (`MethodOf`, `UriOf`).

**HttpServerProofs.** None of the properties is inductive alone. `IInv` adds:
that nothing waits for the network on a socket that is not open
(`PendingIsOpen`); that a socket has no operation before it is started (`IdleUnlessStarted`); that
the acceptor is open exactly before the stop handler and nothing is pending on a
closed one (`AcceptorOpen`); that at most one socket is accepted and not started
(`OneAccepted`); that only a closed socket has cancelled operations
(`CancelledIsClosed`, without which "nothing to do" in the handler of a cancelled
operation could leave an open connection idle); that the stop leaves no
connection (`StopEmpties`). `ReadCompletedOutcome` reduces the branches of the
read handler to what they do to the control variables; then there is one lemma
per action, and `NextIInv` combines them. From `IInv`: the invariants of the life
cycle, `ReplyStaysStable`, `StaysStopped`, and the refinement
`ServerImplementsLifecycle`, with one lemma per action that names the abstract
step it maps to.

**DeliveryProofs.** `AcknowledgedIsWritten`, for a build with assertions: beside
`IInv`, `AcknowledgedMissionIsWritten` is inductive, with `StoreShape`, which says
that `written` and the disk have a place for every connection and file.
`PublishMissionStores` follows the two writings and their asserts, and what the
handler reports of them in `written`; `HandlePOSTStores` says that no POST takes a
stored text away again, so that other connections' missions, failing or not, do no
harm; `OneOperation` keeps request, reply and `written` as they are while the reply
is being sent.

The other three theorems join the control of the server with the parser, in
`DeliveryInv`. `Heard(c)` is how much of its stream the parser of `c` was given: not
what a completed read has delivered whose handler is still to run. The invariant
says that in the buffer of such a read stand the octets of the stream
(`BufferHoldsRead`); that the parser of a stream that is not malformed has come to
no verdict on what it heard, or has accepted its header section (`ParserFollows`);
and that a GET is still in the first of these cases, without a reply, or was
answered behind its header section and is not read any more (`GetsAreAnswered`).
Most steps are quiet for it (`QuietStep`); a client's arrival, an arrival of octets
and the handler of a completed read have a lemma each. Then:

* `GetsAreServed`: a part of the invariant.
* `DiskChangesForMissions`: only `AnswerPOST` writes (`OnlyMissionWrites`), on a
  good result; the parser followed the stream, so what it accepted is a header
  section of it (`GoodIsRequest`).
* `OneReadPostsAreExact`: the last blank line is the only one in the text of the
  read (`OneBlank`), so what the search finds begins with it and ends with the
  line (`PayloadIsMatched`).

**RequestTargetProofs.** The invariant adds `PathChecked`: from the check on, the
path is under the root. `FindRange` places what `find` returns (through the least
element of a set of numbers, from the well-foundedness of `<`); from it every
position handed to `substr` is within the string (`RecordNeverThrows`), cutting
at the query or at a zero octet leaves a path under the root (`CutUnderRoot`), and
so does `demo.json` behind a slash (`DirectoryUnderRoot`): `FileUnderRoot`.

* `DecodedAsMeant`: the invariant `DecodedSoFar` says that the path is the
  `Meaning` of the characters before the loop's position, and that the position is
  not inside an escape. The induction over the URI is the loop's own: each
  action adds to the path what `Meaning` adds (`EscapeOfDigits` for an escape).
* `QueryReadAsWritten`: `QuerySoFar` says how far the query is read: the map has
  what `insert()` made of the parts up to some separator, and what is left begins
  behind it (`ReadTo`). `ParamAt` is one part, `InsertedPart` the rule that the
  first of equal names wins. The search for `=` starts in the path, not behind the
  `?`; that it finds the right one is what `FindBehind` is for.
* `TypeGoesWithName`: `find_last_of` cuts the name at its last dot and its last
  slash (`TypeFits`), and of a path without a zero octet nothing is cut off
  (`OpenedWhole`).

**SerialBridgeProofs.** `PortIsReaders` adds to `PortHeldWhileReading` that only the
port's owner reads. The invariant also has `RoutedIsEnclosed`: a session that relays
or stores holds a string that passed the filter for it, between its reading and
the sending or writing. `OverwrittenEnclosed` is the argument for the file: a text in
braces written over another leaves one in braces, whichever is longer. There is one
lemma per action, then `PortFollowsReader`, `DeliveredInBraces`, and the refinement
`BridgeImplementsPool`: the only step that ends a session of a living client
while all works is a failed opening of the port, and `PortIsReaders` names the
session that has it and goes on.

**KindsProofs.** `FilterKeepsKinds`, for any text and wherever the port is opened. The
property speaks of strings, and what makes it true lies on the line: `LineFollows`
says that what waits there is a stretch of the endlessly repeated frames that ends
where the robot is (`Succ` leads from an octet's position to the next one's), and
`LineClosed` that it is empty while no one has the port. From it, `StringEndsText`:
the octets before the first zero octet are the end of one of the two texts, found by
going back from the zero octet (`BackFromEnd`, by the least place where that would
fail), and so their last octet tells which text it was. The filter looks at that
octet (`WholeIsRouted`).

**Only model-checked.** Liveness (`StopDrains`, `RequestsFinish`, `ReadsEnd`,
`ClientsNotQueued`, `HandlerEnds`) is beyond the prover: it rests on fairness, and
on `ENABLED`. Every other property of a passing run is a theorem.

`ServerLifecycle` states safety only: what it lets a server do it does not oblige
it to do; that a stop ends the program is `StopDrains`.

## 5. What is left

For the proofs: a theorem that relates `RequestHandler`'s lexemes to the characters of
`RequestTarget` (that `Refused` and `FileOfGET` are what `Decode`, `Accepted` and
`Named` make of the URIs they stand for) would join the two views of a GET, which
are now related by comments only. The violated statements of section 3.4 have
positive counterparts: under which cuts a POST of two reads is right, and what the
second read of a refused POST must begin with.

A run with `Asserts = FALSE` (the Release configurations, where the openings of the mission files are not checked) would show an unwritten
mission acknowledged: the constant is there, and the theorems about the control of
the server hold for that build too, but no statement of the repository is about it.

Not modelled: the serialisation of replies (`reply::to_buffers` and the status
lines: constants put one behind the other), the text that programs print, the
five settings of the serial port, the build files (only read, for `NDEBUG`).
Sessions and clients that are never ended by anything, because no code sets a
timeout, are in the models; no property forbids them.
