---------------------------- MODULE SerialBridge ----------------------------
(***************************************************************************)
(* From the robot to those who look at it: the robot simulator             *)
(* (src/Serial-robot/serialtest.cpp) writes frames to a serial line; every *)
(* session of the WebSocket server (src/WebsocketServer/tbwebsocket.cpp)   *)
(* is a thread that takes them from COM5 (dealdata.cpp), relays those in   *)
(* braces to its client (src/WebsocketClient/websocketclient.cpp) and      *)
(* rewrites F:/json.txt, which the HTTP server serves, with those in       *)
(* square brackets.                                                        *)
(*                                                                         *)
(* A step is a call that blocks, or that another thread or process can     *)
(* see: the opening of the port, the read that ends with its closing, the  *)
(* sending of a message, the two accesses to the file.                     *)
(*                                                                         *)
(* The operating system, from how the code uses it: a serial port has one  *)
(* owner at a time; octets that come while no one has the port open are    *)
(* lost, and so are those not read when it is closed; read_some returns    *)
(* any part of what has come, but at least one octet.                      *)
(***************************************************************************)
EXTENDS Integers, SequencesExt

CONSTANTS Sessions,  \* the clients, each with the session that serves it
          NoSession,
          Text,      \* the JSON text of the robot's frames
          Junk,      \* what may stand behind the octets of a read, up to the
                     \* next zero octet, in a buffer that is not initialised
          Size,      \* the size of serialbuf (500 in the code)
          MaxLine,   \* bound: octets that wait on the line
          Faults     \* bound: which of "unplug" and "accept" may happen

\* hi: an octet that no UTF-8 text has.
Octet == {"lbrace", "rbrace", "lbracket", "rbracket", "other", "hi", "nul"}

ASSUME BridgeAssumption ==
  /\ NoSession \notin Sessions
  /\ Text \in Seq(Octet \ {"hi", "nul"}) /\ Len(Text) > 1
  /\ Text[1] = "lbrace" /\ Text[Len(Text)] = "rbrace"
  /\ Junk \subseteq Seq(Octet \ {"nul"})
  /\ Size \in Nat \ {0} /\ MaxLine \in Nat \ {0}

VARIABLES
  at,       \* how much of the two frames the robot has written
  line,     \* the octets that have come to the open port
  com5,     \* the session that has the port open
  plugged,  \* the line to the robot is there
  server,   \* "up", or "down": main has returned
  session,  \* where each session's thread is
  msg,      \* the str of each session, which lasts one turn of its loop
  client,   \* what each client does
  inbox,    \* messages on their way to it
  json      \* the content of F:/json.txt

robot == <<at, line>>
threads == <<com5, session, msg>>
clients == <<client, inbox>>
vars == <<robot, threads, clients, plugged, server, json>>

\* A frame with an object and one with an array, each with its zero octet.
ArrayText == [Text EXCEPT ![1] = "lbracket", ![Len(Text)] = "rbracket"]
Frames == Append(Text, "nul") \o Append(ArrayText, "nul")

\* cut: read_some returned before the end of the frame.
Message == [text : Seq(Octet \ {"nul"}), cut : BOOLEAN]
NoMessage == [text |-> <<>>, cut |-> FALSE]

Loop == {"looping", "reading", "relaying", "storing", "filling"}

Init ==
  /\ at = 0 /\ line = <<>> /\ com5 = NoSession
  /\ plugged = TRUE /\ server = "up"
  /\ session = [s \in Sessions |-> "none"]
  /\ msg = [s \in Sessions |-> NoMessage]
  /\ client = [s \in Sessions |-> "out"]
  /\ inbox = [s \in Sessions |-> <<>>]
  /\ json = <<>>

-----------------------------------------------------------------------------
(***************************************************************************)
(* The robot and the line.                                                 *)
(***************************************************************************)

\* Mutant: the last octet of the second frame is passed.
TransmitPast ==
  /\ Len(line) < MaxLine
  /\ at' = (at + 1) % (Len(Frames) + 1)
  /\ line' = IF com5 # NoSession /\ plugged THEN Append(line, Frames[at + 1])
                                            ELSE line
  /\ UNCHANGED <<threads, clients, plugged, server, json>>

\* The next octet of the frames the robot writes alternately for ever.
Transmit ==
  /\ Len(line) < MaxLine
  /\ at' = (at + 1) % Len(Frames)
  /\ line' = IF com5 # NoSession /\ plugged THEN Append(line, Frames[at + 1])
                                            ELSE line
  /\ UNCHANGED <<threads, clients, plugged, server, json>>

Unplug ==
  /\ "unplug" \in Faults /\ plugged
  /\ plugged' = FALSE
  /\ UNCHANGED <<robot, threads, clients, server, json>>

-----------------------------------------------------------------------------
(***************************************************************************)
(* The WebSocket server: main accepts and detaches a thread per client.    *)
(***************************************************************************)

\* Mutant: main serves a client itself before it accepts the next.
AcceptOneByOne(s) ==
  /\ server = "up"
  /\ client[s] # "out" /\ session[s] = "none"
  /\ \A t \in Sessions : session[t] \in {"none", "ended"}
  /\ session' = [session EXCEPT ![s] = "handshake"]
  /\ UNCHANGED <<robot, com5, msg, clients, plugged, server, json>>

Accept(s) ==
  /\ server = "up"
  /\ client[s] # "out" /\ session[s] = "none"
  /\ session' = [session EXCEPT ![s] = "handshake"]
  /\ UNCHANGED <<robot, com5, msg, clients, plugged, server, json>>

\* ws.accept.
Handshake(s) ==
  /\ session[s] = "handshake" /\ client[s] = "shaking"
  /\ session' = [session EXCEPT ![s] = "looping"]
  /\ client' = [client EXCEPT ![s] = "reading"]
  /\ UNCHANGED <<robot, com5, msg, inbox, plugged, server, json>>

HandshakeFails(s) ==
  /\ session[s] = "handshake" /\ client[s] = "gone"
  /\ session' = [session EXCEPT ![s] = "ended"]
  /\ UNCHANGED <<robot, com5, msg, clients, plugged, server, json>>

-----------------------------------------------------------------------------
(***************************************************************************)
(* dealdata: open COM5, read some, close it on return.                     *)
(***************************************************************************)

OpenPort(s) ==
  /\ session[s] = "looping"
  /\ com5 = NoSession /\ plugged
  /\ com5' = s
  /\ session' = [session EXCEPT ![s] = "reading"]
  /\ UNCHANGED <<robot, msg, clients, plugged, server, json>>

\* The constructor of serial_port throws, and do_session ends.
OpenFails(s) ==
  /\ session[s] = "looping"
  /\ com5 # NoSession \/ ~plugged
  /\ session' = [session EXCEPT ![s] = "ended"]
  /\ UNCHANGED <<robot, com5, msg, clients, plugged, server, json>>

\* Where a zero octet ends the string that begins with these octets.
End(received) ==
  {k \in DOMAIN received :
     received[k] = "nul" /\ \A i \in 1..(k - 1) : received[i] # "nul"}

\* Mutant: zero octets are skipped, as where the count of a read is its length.
StringsOfAll(received) ==
  {[text |-> SelectSeq(received, LAMBDA octet : octet # "nul"), cut |-> FALSE] :
     k \in End(received)}

\* std::string(serialbuf): up to the first zero octet, wherever it is.
StringsOf(received) ==
  {[text |-> SubSeq(received, 1, k - 1), cut |-> FALSE] : k \in End(received)}
  \cup {[text |-> received \o junk, cut |-> TRUE] :
          junk \in {j \in Junk : \A i \in DOMAIN received : received[i] # "nul"}}

\* Mutant: only the opening bracket is looked at.
EnclosedUnclosed(text, open, close) == text # <<>> /\ text[1] = open

\* str[0] is a zero octet, no bracket, in an empty string.
Enclosed(text, open, close) ==
  text # <<>> /\ text[1] = open /\ text[Len(text)] = close

InBraces(text) == Enclosed(text, "lbrace", "rbrace")
InBrackets(text) == Enclosed(text, "lbracket", "rbracket")

\* Where do_session goes with a string.
Route(text) == IF InBraces(text) THEN "relaying"
               ELSE IF InBrackets(text) THEN "storing" ELSE "looping"

\* do_session goes on with what was read, or drops it.
Takes(s, m) ==
  /\ session' = [session EXCEPT ![s] = Route(m.text)]
  /\ msg' = [msg EXCEPT ![s] = IF Route(m.text) = "looping" THEN NoMessage ELSE m]

\* Mutant: the port is not closed by the function that opened it.
ReadKeepingPort(s) ==
  /\ session[s] = "reading"
  /\ \E n \in 1..Len(line) :
       n <= Size /\ \E m \in StringsOf(SubSeq(line, 1, n)) : Takes(s, m)
  /\ line' = <<>>
  /\ UNCHANGED <<com5, at, clients, plugged, server, json>>

ReadSome(s) ==
  /\ session[s] = "reading"
  /\ \E n \in 1..Len(line) :
       n <= Size /\ \E m \in StringsOf(SubSeq(line, 1, n)) : Takes(s, m)
  /\ com5' = NoSession /\ line' = <<>>
  /\ UNCHANGED <<at, clients, plugged, server, json>>

\* Mutant: an interrupted read is tried again.
ReadFailsRetrying(s) ==
  /\ session[s] = "reading" /\ ~plugged
  /\ UNCHANGED vars

\* Mutant: the port is closed behind the read only, not where it throws.
ReadFailsKeepingPort(s) ==
  /\ session[s] = "reading" /\ ~plugged
  /\ session' = [session EXCEPT ![s] = "ended"]
  /\ line' = <<>>
  /\ UNCHANGED <<com5, at, msg, clients, plugged, server, json>>

\* The line is interrupted: read_some throws, the port is closed on the way out.
ReadFails(s) ==
  /\ session[s] = "reading" /\ ~plugged
  /\ session' = [session EXCEPT ![s] = "ended"]
  /\ com5' = NoSession /\ line' = <<>>
  /\ UNCHANGED <<at, msg, clients, plugged, server, json>>

-----------------------------------------------------------------------------
(***************************************************************************)
(* What do_session does with the string, and its end.                      *)
(***************************************************************************)

\* The turn of the loop ends, and str with it.
Leaves(s, next) ==
  /\ session' = [session EXCEPT ![s] = next]
  /\ msg' = [msg EXCEPT ![s] = NoMessage]

\* ws.write of the string and its zero octet; it waits while the client does
\* not take what was sent before.
Relay(s) ==
  /\ session[s] = "relaying" /\ client[s] = "reading"
  /\ inbox[s] = <<>>
  /\ inbox' = [inbox EXCEPT ![s] = Append(@, msg[s])]
  /\ Leaves(s, "looping")
  /\ UNCHANGED <<robot, com5, client, plugged, server, json>>

\* A client that has left is noticed, or not yet.
RelayToGone(s) ==
  /\ session[s] = "relaying" /\ client[s] = "gone"
  /\ \E next \in {"ended", "looping"} : Leaves(s, next)
  /\ UNCHANGED <<robot, com5, clients, plugged, server, json>>

\* os.open truncates the file.
OpenFile(s) ==
  /\ session[s] = "storing"
  /\ json' = <<>>
  /\ session' = [session EXCEPT ![s] = "filling"]
  /\ UNCHANGED <<robot, com5, msg, clients, plugged, server>>

\* The file cannot be opened: writing and closing do nothing, and say nothing.
OpenFileFails(s) ==
  /\ session[s] = "storing"
  /\ Leaves(s, "looping")
  /\ UNCHANGED <<robot, com5, clients, plugged, server, json>>

\* Mutant: the closing bracket is left as it is.
BracedFirst(text) == [text EXCEPT ![1] = "lbrace"]

\* str[0] = '{', str[str.length() - 1] = '}'.
Braced(text) == [text EXCEPT ![1] = "lbrace", ![Len(text)] = "rbrace"]

\* A text written from the start of a file that may hold another by now.
Overwritten(file, text) == text \o SubSeq(file, Len(text) + 1, Len(file))

\* os.close: the text, less than the stream's buffer holds, reaches the file.
CloseFile(s) ==
  /\ session[s] = "filling"
  /\ json' = Overwritten(json, Braced(msg[s].text))
  /\ Leaves(s, "looping")
  /\ UNCHANGED <<robot, com5, clients, plugged, server>>

\* accept throws and main returns, with every thread; a text that had not
\* reached the file may still do.
AcceptFails ==
  /\ "accept" \in Faults /\ server = "up"
  /\ server' = "down"
  /\ session' = [s \in Sessions |-> "ended"]
  /\ com5' = NoSession /\ line' = <<>>
  /\ \/ UNCHANGED json
     \/ \E s \in Sessions : session[s] = "filling"
                            /\ json' = Overwritten(json, Braced(msg[s].text))
  /\ msg' = [s \in Sessions |-> NoMessage]
  /\ UNCHANGED <<at, clients, plugged>>

-----------------------------------------------------------------------------
(***************************************************************************)
(* The clients.                                                            *)
(***************************************************************************)

Gone(s) == /\ client' = [client EXCEPT ![s] = "gone"]
           /\ inbox' = [inbox EXCEPT ![s] = <<>>]

\* Resolve, connect, and send the handshake.
Connect(s) ==
  /\ client[s] = "out" /\ server = "up"
  /\ client' = [client EXCEPT ![s] = "shaking"]
  /\ UNCHANGED <<robot, threads, inbox, plugged, server, json>>

\* What ws.read accepts in a text message, and prints.
IsUTF8(text) == ~Contains(text, "hi")

ClientReads(s) ==
  /\ client[s] = "reading" /\ inbox[s] # <<>>
  /\ IF IsUTF8(Head(inbox[s]).text)
     THEN inbox' = [inbox EXCEPT ![s] = Tail(@)] /\ UNCHANGED client
     ELSE Gone(s)
  /\ UNCHANGED <<robot, threads, plugged, server, json>>

\* The handshake or ws.read throws because the server's end is closed.
ClientFails(s) ==
  /\ client[s] \in {"shaking", "reading"}
  /\ session[s] = "ended" /\ inbox[s] = <<>>
  /\ Gone(s)
  /\ UNCHANGED <<robot, threads, plugged, server, json>>

\* The client's process is ended, or its host disappears.
ClientLeaves(s) ==
  /\ client[s] \in {"shaking", "reading"}
  /\ Gone(s)
  /\ UNCHANGED <<robot, threads, plugged, server, json>>

-----------------------------------------------------------------------------
Dealdata(s) == OpenPort(s) \/ OpenFails(s) \/ ReadSome(s) \/ ReadFails(s)

Session(s) ==
  \/ Handshake(s) \/ HandshakeFails(s) \/ Dealdata(s)
  \/ Relay(s) \/ RelayToGone(s) \/ OpenFile(s) \/ OpenFileFails(s) \/ CloseFile(s)

Client(s) == Connect(s) \/ ClientReads(s) \/ ClientFails(s) \/ ClientLeaves(s)

Next == \/ \E s \in Sessions : Accept(s) \/ Session(s) \/ Client(s)
        \/ Transmit \/ Unplug \/ AcceptFails

Spec == Init /\ [][Next]_vars

(***************************************************************************)
(* Threads are scheduled: the robot, main and every session take the next  *)
(* step they can take, for ever.  So does a client with what has come to   *)
(* it; it need not connect, and may leave.                                 *)
(***************************************************************************)
FairSpec ==
  /\ Spec
  /\ WF_vars(Transmit)
  /\ \A s \in Sessions :
       /\ WF_vars(Accept(s)) /\ WF_vars(Session(s))
       /\ WF_vars(ClientReads(s)) /\ WF_vars(ClientFails(s))

-----------------------------------------------------------------------------
TypeOK ==
  /\ at \in 0..(Len(Frames) - 1)
  /\ line \in Seq(Octet)
  /\ com5 \in Sessions \cup {NoSession}
  /\ plugged \in BOOLEAN
  /\ server \in {"up", "down"}
  /\ session \in [Sessions -> Loop \cup {"none", "handshake", "ended"}]
  /\ msg \in [Sessions -> Message]
  /\ client \in [Sessions -> {"out", "shaking", "reading", "gone"}]
  /\ inbox \in [Sessions -> Seq(Message)]
  /\ json \in Seq(Octet)

\* Whichever way a session leaves dealdata, the port is closed behind it: no
\* session meets a port that nobody reads, and ends for it (dealdata.cpp:11).
PortHeldWhileReading == com5 # NoSession => session[com5] = "reading"

\* What is sent to a client is in braces, and what a reader of F:/json.txt
\* finds is in braces or nothing: also when sessions rewrite the file at the
\* same time, one over the other, and when the server ends on the way.
OnlyBraces ==
  /\ json # <<>> => InBraces(json)
  /\ \A s \in Sessions : \A i \in 1..Len(inbox[s]) : InBraces(inbox[s][i].text)

\* "Filter" (tbwebsocket.cpp:83, :90): of what was read to the end of a frame,
\* from wherever in it the port was opened, only frames in braces go to a
\* client and only frames in brackets to the file, and no client fails on it.
KindsKeptApart ==
  \A s \in Sessions :
    /\ session[s] \in {"storing", "filling"} /\ ~msg[s].cut
         => IsSuffix(msg[s].text, ArrayText)
    /\ \A i \in 1..Len(inbox[s]) :
         ~inbox[s][i].cut => IsSuffix(inbox[s][i].text, Text)

\* A read ends, whatever became of the client and of the line: the session is
\* back at the top of its loop, or gone.
ReadsEnd ==
  \A s \in Sessions :
    session[s] = "reading" ~> session[s] \in {"looping", "ended"}

\* A client that has connected is served or turned away, however long the
\* sessions before it wait for the robot.
ClientsNotQueued ==
  \A s \in Sessions : client[s] = "shaking" ~> client[s] # "shaking"

Pool == INSTANCE SessionPool WITH
  serving <- {s \in Sessions : session[s] \in Loop},
  gone    <- {s \in Sessions : client[s] = "gone"},
  working <- server = "up" /\ plugged

\* Sessions that compete for the port end each other, but never the last one.
Implements == Pool!Spec
=============================================================================
