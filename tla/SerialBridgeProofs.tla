------------------------- MODULE SerialBridgeProofs -------------------------
(***************************************************************************)
(* Theorems about the serial bridge for any number of sessions, any text,  *)
(* any content of memory and any size of the buffer and the line.          *)
(***************************************************************************)
EXTENDS SerialBridge, SequenceTheorems, TLAPS

(***************************************************************************)
(* The inductive invariant.  Beside the properties themselves: only the    *)
(* port's owner reads; a session that relays or stores holds a string that *)
(* passed the filter for it, and one that stores has a string to write.    *)
(***************************************************************************)
PortIsReaders ==
  /\ PortHeldWhileReading
  /\ \A s \in Sessions : session[s] = "reading" => com5 = s

RoutedIsEnclosed ==
  \A s \in Sessions :
    /\ session[s] = "relaying" => InBraces(msg[s].text)
    /\ session[s] \in {"storing", "filling"} => InBrackets(msg[s].text)

IInv == TypeOK /\ PortIsReaders /\ RoutedIsEnclosed /\ OnlyBraces

-----------------------------------------------------------------------------
(***************************************************************************)
(* The operators.                                                          *)
(***************************************************************************)

\* A function on 1..n is a sequence.
LEMMA FunctionIsSeq ==
  ASSUME NEW S, NEW n \in Nat, NEW f \in [1..n -> S]
  PROVE  f \in Seq(S)
BY SeqDef

\* A sequence changed at one place is a sequence of the same length.
LEMMA ChangedSeq ==
  ASSUME NEW S, NEW seq \in Seq(S), NEW i \in 1..Len(seq), NEW e \in S
  PROVE  /\ [seq EXCEPT ![i] = e] \in Seq(S)
         /\ Len([seq EXCEPT ![i] = e]) = Len(seq)
         /\ \A j \in 1..Len(seq) :
              [seq EXCEPT ![i] = e][j] = IF j = i THEN e ELSE seq[j]
BY ExceptSeq

\* The end of a sequence is a sequence with the same last element.
LEMMA EndOfSeq ==
  ASSUME NEW S, NEW seq \in Seq(S), NEW m \in 1..Len(seq)
  PROVE  LET end == SubSeq(seq, m, Len(seq))
         IN  /\ end \in Seq(S)
             /\ Len(end) = Len(seq) - m + 1
             /\ end[Len(end)] = seq[Len(seq)]
<1> DEFINE end == SubSeq(seq, m, Len(seq))
<1>1. Len(seq) \in Nat /\ \A i \in m..Len(seq) : seq[i] \in S
  BY ElementOfSeq, LenProperties
<1>2. end \in Seq(S)
  BY <1>1, SubSeqProperties
<1>3. Len(end) = Len(seq) - m + 1
  BY <1>1
<1>4. end[Len(seq) - m + 1] = seq[m + (Len(seq) - m + 1) - 1]
  BY <1>1
<1>5. m + (Len(seq) - m + 1) - 1 = Len(seq)
  BY <1>1
<1> QED
  BY <1>2, <1>3, <1>4, <1>5

\* The robot's frames are octets, and there is at least one.
LEMMA FramesType == Frames \in Seq(Octet) /\ Len(Frames) \in Nat \ {0}
<1>1. Text \in Seq(Octet)
  BY BridgeAssumption, SeqMonotonic, Octet \ {"hi", "nul"} \subseteq Octet
<1>2. Len(Text) \in Nat /\ Len(Text) > 1
  BY <1>1, BridgeAssumption, LenProperties
<1>3. "lbracket" \in Octet /\ "rbracket" \in Octet /\ "nul" \in Octet
  BY DEF Octet
<1> DEFINE Opened == [Text EXCEPT ![1] = "lbracket"]
<1>4. Opened \in Seq(Octet) /\ Len(Opened) = Len(Text)
  BY <1>1, <1>2, <1>3, ChangedSeq
<1>5. [Opened EXCEPT ![Len(Text)] = "rbracket"] \in Seq(Octet)
  BY <1>2, <1>3, <1>4, ChangedSeq
<1>6. ArrayText \in Seq(Octet)
  BY <1>5 DEF ArrayText
<1> QED
  BY <1>1, <1>3, <1>6 DEF Frames

\* What a read can make of the octets it got is a string of octets.
LEMMA StringsType ==
  ASSUME NEW received \in Seq(Octet), NEW m \in StringsOf(received)
  PROVE  m \in Message
<1>1. CASE \E k \in End(received) :
             m = [text |-> SubSeq(received, 1, k - 1), cut |-> FALSE]
  <2>1. PICK k \in End(received) :
          m = [text |-> SubSeq(received, 1, k - 1), cut |-> FALSE]
    BY <1>1
  <2>2. k \in 1..Len(received) /\ \A i \in 1..(k - 1) : received[i] # "nul"
    BY <2>1 DEF End
  <2>3. \A i \in 1..(k - 1) : received[i] \in Octet \ {"nul"}
    BY <2>2
  <2>4. SubSeq(received, 1, k - 1) \in [1..(k - 1) -> Octet \ {"nul"}]
    <3>1. SubSeq(received, 1, k - 1) \in Seq(Octet)
          /\ Len(SubSeq(received, 1, k - 1)) = k - 1
          /\ \A i \in 1..(k - 1) : SubSeq(received, 1, k - 1)[i] = received[i]
      BY <2>2, SubSeqProperties
    <3> QED
      BY <3>1, <2>2, <2>3, LenProperties
  <2>5. SubSeq(received, 1, k - 1) \in Seq(Octet \ {"nul"})
    BY <2>2, <2>4, FunctionIsSeq, k - 1 \in Nat
  <2> QED
    BY <2>1, <2>5 DEF Message
<1>2. CASE /\ \A i \in DOMAIN received : received[i] # "nul"
           /\ \E junk \in Junk : m = [text |-> received \o junk, cut |-> TRUE]
  <2>1. Len(received) \in Nat /\ received \in [1..Len(received) -> Octet]
    BY LenProperties
  <2>2. received \in [1..Len(received) -> Octet \ {"nul"}]
    BY <1>2, <2>1
  <2>3. received \in Seq(Octet \ {"nul"})
    BY <2>1, <2>2, FunctionIsSeq
  <2>4. PICK junk \in Junk : m = [text |-> received \o junk, cut |-> TRUE]
    BY <1>2
  <2>5. received \o junk \in Seq(Octet \ {"nul"})
    BY <2>3, BridgeAssumption, ConcatProperties
  <2> QED
    BY <2>4, <2>5 DEF Message
<1> QED
  BY <1>1, <1>2 DEF StringsOf

-----------------------------------------------------------------------------
(***************************************************************************)
(* Text in brackets.                                                       *)
(***************************************************************************)

\* What is routed to a client or to the file passed the filter for it.
LEMMA RouteEnclosed ==
  ASSUME NEW text
  PROVE  /\ Route(text) \in {"relaying", "storing", "looping"}
         /\ Route(text) = "relaying" => InBraces(text)
         /\ Route(text) = "storing" => InBrackets(text)
BY DEF Route

\* The brackets of a text in square brackets are replaced by braces.
LEMMA BracedText ==
  ASSUME NEW text \in Seq(Octet), InBrackets(text)
  PROVE  /\ Braced(text) \in Seq(Octet)
         /\ Len(Braced(text)) = Len(text)
         /\ InBraces(Braced(text))
<1>1. Len(text) \in Nat \ {0} /\ text[1] = "lbracket" /\ text[Len(text)] = "rbracket"
  BY EmptySeq DEF InBraces, InBrackets, Enclosed
<1>2. Len(text) > 1
  BY <1>1
<1>3. "lbrace" \in Octet /\ "rbrace" \in Octet
  BY DEF Octet
<1> DEFINE Opened == [text EXCEPT ![1] = "lbrace"]
<1>4. /\ Opened \in Seq(Octet) /\ Len(Opened) = Len(text)
      /\ \A j \in 1..Len(text) : Opened[j] = IF j = 1 THEN "lbrace" ELSE text[j]
  BY <1>1, <1>3, ChangedSeq
<1> DEFINE Closed == [Opened EXCEPT ![Len(text)] = "rbrace"]
<1>5. /\ Closed \in Seq(Octet) /\ Len(Closed) = Len(text)
      /\ \A j \in 1..Len(text) :
           Closed[j] = IF j = Len(text) THEN "rbrace" ELSE Opened[j]
  <2> HIDE DEF Opened
  <2> QED
    BY <1>1, <1>3, <1>4, ChangedSeq
<1>6. Braced(text) = Closed
  BY DEF Braced
<1>7. Closed # <<>> /\ Closed[1] = "lbrace" /\ Closed[Len(Closed)] = "rbrace"
  <2> HIDE DEF Opened, Closed
  <2> QED
    BY <1>1, <1>2, <1>4, <1>5, EmptySeq
<1> HIDE DEF Closed
<1> QED
  BY <1>5, <1>6, <1>7 DEF InBraces, InBrackets, Enclosed

\* Written over another file in braces, or over nothing, a text in braces
\* leaves a file in braces.
LEMMA OverwrittenEnclosed ==
  ASSUME NEW file \in Seq(Octet), NEW text \in Seq(Octet),
         file # <<>> => InBraces(file),
         InBraces(text)
  PROVE  /\ Overwritten(file, text) \in Seq(Octet)
         /\ InBraces(Overwritten(file, text))
<1> DEFINE Rest == SubSeq(file, Len(text) + 1, Len(file))
<1>1. Len(text) \in Nat \ {0} /\ Len(file) \in Nat
  BY EmptySeq, LenProperties DEF InBraces, InBrackets, Enclosed
<1>2. CASE Len(file) <= Len(text)
  <2>1. Rest = <<>>
    BY <1>1, <1>2, SubSeqEmpty
  <2>2. Overwritten(file, text) = text
    BY <2>1, ConcatEmptySeq DEF Overwritten
  <2> QED
    BY <2>2
<1>3. CASE Len(file) > Len(text)
  <2>1. /\ Rest \in Seq(Octet) /\ Len(Rest) = Len(file) - Len(text)
        /\ Rest[Len(Rest)] = file[Len(file)]
    BY <1>1, <1>3, EndOfSeq, Len(text) + 1 \in 1..Len(file)
  <2> HIDE DEF Rest
  <2>2. /\ text \o Rest \in Seq(Octet) /\ Len(text \o Rest) = Len(file)
        /\ (text \o Rest)[1] = text[1]
        /\ (text \o Rest)[Len(file)] = Rest[Len(Rest)]
    BY <1>1, <1>3, <2>1, ConcatProperties
  <2>3. file # <<>>
    BY <1>1, <1>3, EmptySeq
  <2>4. text \o Rest # <<>>
    BY <1>1, <1>3, <2>2, EmptySeq
  <2>5. Overwritten(file, text) = text \o Rest
    BY DEF Overwritten, Rest
  <2> QED
    BY <2>1, <2>2, <2>3, <2>4, <2>5 DEF InBraces, InBrackets, Enclosed
<1> QED
  BY <1>1, <1>2, <1>3

-----------------------------------------------------------------------------
(***************************************************************************)
(* One lemma per action.                                                  *)
(***************************************************************************)

\* An empty string is a message.
LEMMA NoMessageType == NoMessage \in Message
BY EmptySeq DEF NoMessage, Message

\* The cable is not part of the invariant.
LEMMA UnplugKeeps ==
  ASSUME IInv, Unplug
  PROVE  IInv'
<1>1. TypeOK'
  BY DEF IInv, TypeOK, Unplug, robot, threads, clients, Loop
<1>2. PortIsReaders'
  BY DEF IInv, TypeOK, PortIsReaders, PortHeldWhileReading, Unplug, robot,
         threads, clients
<1>3. RoutedIsEnclosed'
  BY DEF IInv, TypeOK, RoutedIsEnclosed, Unplug, robot, threads, clients
<1>4. OnlyBraces'
  BY DEF IInv, TypeOK, OnlyBraces, Unplug, robot, threads, clients
<1> QED
  BY <1>1, <1>2, <1>3, <1>4 DEF IInv

\* A session that shakes hands holds neither the port nor a string.
LEMMA AcceptKeeps ==
  ASSUME IInv, NEW s \in Sessions, Accept(s)
  PROVE  IInv'
<1>1. TypeOK'
  BY DEF IInv, TypeOK, Accept, robot, threads, clients, Loop
<1>2. PortIsReaders'
  BY DEF IInv, TypeOK, PortIsReaders, PortHeldWhileReading, Accept, robot,
         threads, clients
<1>3. RoutedIsEnclosed'
  BY DEF IInv, TypeOK, RoutedIsEnclosed, Accept, robot, threads, clients
<1>4. OnlyBraces'
  BY DEF IInv, TypeOK, OnlyBraces, Accept, robot, threads, clients
<1> QED
  BY <1>1, <1>2, <1>3, <1>4 DEF IInv

\* A session begins its loop with no string and without the port.
LEMMA HandshakeKeeps ==
  ASSUME IInv, NEW s \in Sessions, Handshake(s)
  PROVE  IInv'
<1>1. TypeOK'
  BY DEF IInv, TypeOK, Handshake, robot, threads, clients, Loop
<1>2. PortIsReaders'
  BY DEF IInv, TypeOK, PortIsReaders, PortHeldWhileReading, Handshake, robot,
         threads, clients
<1>3. RoutedIsEnclosed'
  BY DEF IInv, TypeOK, RoutedIsEnclosed, Handshake, robot, threads, clients
<1>4. OnlyBraces'
  BY DEF IInv, TypeOK, OnlyBraces, Handshake, robot, threads, clients
<1> QED
  BY <1>1, <1>2, <1>3, <1>4 DEF IInv

\* A session that ends before its loop held nothing.
LEMMA HandshakeFailsKeeps ==
  ASSUME IInv, NEW s \in Sessions, HandshakeFails(s)
  PROVE  IInv'
<1>1. TypeOK'
  BY DEF IInv, TypeOK, HandshakeFails, robot, threads, clients, Loop
<1>2. PortIsReaders'
  BY DEF IInv, TypeOK, PortIsReaders, PortHeldWhileReading, HandshakeFails,
         robot, threads, clients
<1>3. RoutedIsEnclosed'
  BY DEF IInv, TypeOK, RoutedIsEnclosed, HandshakeFails, robot, threads, clients
<1>4. OnlyBraces'
  BY DEF IInv, TypeOK, OnlyBraces, HandshakeFails, robot, threads, clients
<1> QED
  BY <1>1, <1>2, <1>3, <1>4 DEF IInv

\* The port had no owner, and has the session that now reads.
LEMMA OpenPortKeeps ==
  ASSUME IInv, NEW s \in Sessions, OpenPort(s)
  PROVE  IInv'
<1>1. TypeOK'
  BY DEF IInv, TypeOK, OpenPort, robot, threads, clients, Loop
<1>2. PortIsReaders'
  BY BridgeAssumption
     DEF IInv, TypeOK, PortIsReaders, PortHeldWhileReading, OpenPort, robot,
         threads, clients
<1>3. RoutedIsEnclosed'
  BY DEF IInv, TypeOK, RoutedIsEnclosed, OpenPort, robot, threads, clients
<1>4. OnlyBraces'
  BY DEF IInv, TypeOK, OnlyBraces, OpenPort, robot, threads, clients
<1> QED
  BY <1>1, <1>2, <1>3, <1>4 DEF IInv

\* The session that ends did not get the port.
LEMMA OpenFailsKeeps ==
  ASSUME IInv, NEW s \in Sessions, OpenFails(s)
  PROVE  IInv'
<1>1. TypeOK'
  BY DEF IInv, TypeOK, OpenFails, robot, threads, clients, Loop
<1>2. PortIsReaders'
  BY DEF IInv, TypeOK, PortIsReaders, PortHeldWhileReading, OpenFails, robot,
         threads, clients
<1>3. RoutedIsEnclosed'
  BY DEF IInv, TypeOK, RoutedIsEnclosed, OpenFails, robot, threads, clients
<1>4. OnlyBraces'
  BY DEF IInv, TypeOK, OnlyBraces, OpenFails, robot, threads, clients
<1> QED
  BY <1>1, <1>2, <1>3, <1>4 DEF IInv

\* The session that ends had the port, and closes it.
LEMMA ReadFailsKeeps ==
  ASSUME IInv, NEW s \in Sessions, ReadFails(s)
  PROVE  IInv'
<1>1. TypeOK'
  BY EmptySeq DEF IInv, TypeOK, ReadFails, robot, threads, clients, Loop
<1>2. PortIsReaders'
  BY DEF IInv, TypeOK, PortIsReaders, PortHeldWhileReading, ReadFails, robot,
         threads, clients
<1>3. RoutedIsEnclosed'
  BY DEF IInv, TypeOK, RoutedIsEnclosed, ReadFails, robot, threads, clients
<1>4. OnlyBraces'
  BY DEF IInv, TypeOK, OnlyBraces, ReadFails, robot, threads, clients
<1> QED
  BY <1>1, <1>2, <1>3, <1>4 DEF IInv

\* The string that is sent passed the filter for braces.
LEMMA RelayKeeps ==
  ASSUME IInv, NEW s \in Sessions, Relay(s)
  PROVE  IInv'
<1> DEFINE Sent == Append(inbox[s], msg[s])
<1>0. /\ Sent \in Seq(Message) /\ Len(Sent) = Len(inbox[s]) + 1
      /\ \A i \in 1..Len(Sent) :
           Sent[i] = IF i <= Len(inbox[s]) THEN inbox[s][i] ELSE msg[s]
  BY AppendProperties, LenProperties DEF IInv, TypeOK
<1>1. TypeOK'
  <2>1. inbox' \in [Sessions -> Seq(Message)]
    BY <1>0 DEF IInv, TypeOK, Relay
  <2> QED
    BY <2>1, NoMessageType DEF IInv, TypeOK, Relay, Leaves, robot, Loop
<1>2. PortIsReaders'
  BY DEF IInv, TypeOK, PortIsReaders, PortHeldWhileReading, Relay, Leaves,
         robot, threads, clients
<1>3. RoutedIsEnclosed'
  BY DEF IInv, TypeOK, RoutedIsEnclosed, Relay, Leaves, robot, threads, clients
<1>4. OnlyBraces'
  <2>1. InBraces(msg[s].text)
    BY DEF IInv, RoutedIsEnclosed, Relay
  <2>2. \A i \in 1..Len(Sent) : InBraces(Sent[i].text)
    BY <1>0, <2>1 DEF IInv, OnlyBraces
  <2>3. inbox' = [inbox EXCEPT ![s] = Sent] /\ json' = json
    BY DEF Relay
  <2> HIDE DEF Sent
  <2> QED
    BY <2>2, <2>3 DEF IInv, TypeOK, OnlyBraces
<1> QED
  BY <1>1, <1>2, <1>3, <1>4 DEF IInv

\* Nothing is sent to a client that has left.
LEMMA RelayToGoneKeeps ==
  ASSUME IInv, NEW s \in Sessions, RelayToGone(s)
  PROVE  IInv'
<1>1. TypeOK'
  BY NoMessageType
     DEF IInv, TypeOK, RelayToGone, Leaves, robot, threads, clients, Loop
<1>2. PortIsReaders'
  BY DEF IInv, TypeOK, PortIsReaders, PortHeldWhileReading, RelayToGone, Leaves,
         robot, threads, clients
<1>3. RoutedIsEnclosed'
  BY DEF IInv, TypeOK, RoutedIsEnclosed, RelayToGone, Leaves, robot, threads,
         clients
<1>4. OnlyBraces'
  BY DEF IInv, TypeOK, OnlyBraces, RelayToGone, Leaves, robot, threads, clients
<1> QED
  BY <1>1, <1>2, <1>3, <1>4 DEF IInv

\* An empty file is in order, and the string to write is kept.
LEMMA OpenFileKeeps ==
  ASSUME IInv, NEW s \in Sessions, OpenFile(s)
  PROVE  IInv'
<1>1. TypeOK'
  BY EmptySeq DEF IInv, TypeOK, OpenFile, robot, threads, clients, Loop
<1>2. PortIsReaders'
  BY DEF IInv, TypeOK, PortIsReaders, PortHeldWhileReading, OpenFile, robot,
         threads, clients
<1>3. RoutedIsEnclosed'
  BY DEF IInv, TypeOK, RoutedIsEnclosed, OpenFile, robot, threads, clients
<1>4. OnlyBraces'
  BY DEF IInv, TypeOK, OnlyBraces, OpenFile, robot, threads, clients
<1> QED
  BY <1>1, <1>2, <1>3, <1>4 DEF IInv

\* The string is dropped, the file left alone.
LEMMA OpenFileFailsKeeps ==
  ASSUME IInv, NEW s \in Sessions, OpenFileFails(s)
  PROVE  IInv'
<1>1. TypeOK'
  BY NoMessageType
     DEF IInv, TypeOK, OpenFileFails, Leaves, robot, threads, clients, Loop
<1>2. PortIsReaders'
  BY DEF IInv, TypeOK, PortIsReaders, PortHeldWhileReading, OpenFileFails,
         Leaves, robot, threads, clients
<1>3. RoutedIsEnclosed'
  BY DEF IInv, TypeOK, RoutedIsEnclosed, OpenFileFails, Leaves, robot, threads,
         clients
<1>4. OnlyBraces'
  BY DEF IInv, TypeOK, OnlyBraces, OpenFileFails, Leaves, robot, threads, clients
<1> QED
  BY <1>1, <1>2, <1>3, <1>4 DEF IInv

\* Nothing is on its way to a client that connects.
LEMMA ConnectKeeps ==
  ASSUME IInv, NEW s \in Sessions, Connect(s)
  PROVE  IInv'
<1>1. TypeOK'
  BY DEF IInv, TypeOK, Connect, robot, threads, clients, Loop
<1>2. PortIsReaders'
  BY DEF IInv, TypeOK, PortIsReaders, PortHeldWhileReading, Connect, robot,
         threads, clients
<1>3. RoutedIsEnclosed'
  BY DEF IInv, TypeOK, RoutedIsEnclosed, Connect, robot, threads, clients
<1>4. OnlyBraces'
  BY DEF IInv, TypeOK, OnlyBraces, Connect, robot, threads, clients
<1> QED
  BY <1>1, <1>2, <1>3, <1>4 DEF IInv

\* What the client leaves on its way was on its way before.
LEMMA ClientReadsKeeps ==
  ASSUME IInv, NEW s \in Sessions, ClientReads(s)
  PROVE  IInv'
<1> DEFINE Rest == Tail(inbox[s])
<1>0. /\ Rest \in Seq(Message) /\ <<>> \in Seq(Message) /\ Len(<<>>) = 0
      /\ \A i \in 1..Len(Rest) : Rest[i] = inbox[s][i + 1] /\ i + 1 <= Len(inbox[s])
  BY HeadTailProperties, EmptySeq DEF IInv, TypeOK, ClientReads
<1>1. /\ inbox' \in {[inbox EXCEPT ![s] = Rest], [inbox EXCEPT ![s] = <<>>]}
      /\ client' \in {client, [client EXCEPT ![s] = "gone"]}
      /\ UNCHANGED <<robot, threads, plugged, server, json>>
  BY DEF ClientReads, Gone
<1>2. TypeOK'
  <2> HIDE DEF Rest
  <2> QED
    BY <1>0, <1>1 DEF IInv, TypeOK, robot, threads
<1>3. PortIsReaders'
  BY DEF IInv, TypeOK, PortIsReaders, PortHeldWhileReading, ClientReads, Gone,
         robot, threads, clients
<1>4. RoutedIsEnclosed'
  BY DEF IInv, TypeOK, RoutedIsEnclosed, ClientReads, Gone, robot, threads, clients
<1>5. OnlyBraces'
  <2>1. \A i \in 1..Len(Rest) : InBraces(Rest[i].text)
    <3> TAKE i \in 1..Len(Rest)
    <3>1. Len(Rest) \in Nat /\ Len(inbox[s]) \in Nat
      BY <1>0, LenProperties DEF IInv, TypeOK
    <3> HIDE DEF Rest
    <3>2. i + 1 \in 1..Len(inbox[s])
      BY <1>0, <3>1
    <3>3. Rest[i] = inbox[s][i + 1]
      BY <1>0
    <3> QED
      BY <3>2, <3>3 DEF IInv, OnlyBraces
  <2> HIDE DEF Rest
  <2>2. json' = json /\ (json # <<>> => InBraces(json))
    BY <1>1 DEF IInv, OnlyBraces
  <2>3. CASE inbox' = [inbox EXCEPT ![s] = Rest]
    BY <2>1, <2>2, <2>3 DEF IInv, TypeOK, OnlyBraces
  <2>4. CASE inbox' = [inbox EXCEPT ![s] = <<>>]
    BY <1>0, <2>2, <2>4 DEF IInv, TypeOK, OnlyBraces
  <2> QED
    BY <1>1, <2>3, <2>4
<1> QED
  BY <1>2, <1>3, <1>4, <1>5 DEF IInv

\* What was on its way to a client is lost with it.
LEMMA ClientFailsKeeps ==
  ASSUME IInv, NEW s \in Sessions, ClientFails(s)
  PROVE  IInv'
<1>1. TypeOK'
  BY EmptySeq DEF IInv, TypeOK, ClientFails, Gone, robot, threads, clients, Loop
<1>2. PortIsReaders'
  BY DEF IInv, TypeOK, PortIsReaders, PortHeldWhileReading, ClientFails, Gone,
         robot, threads, clients
<1>3. RoutedIsEnclosed'
  BY DEF IInv, TypeOK, RoutedIsEnclosed, ClientFails, Gone, robot, threads, clients
<1>4. OnlyBraces'
  BY DEF IInv, TypeOK, OnlyBraces, ClientFails, Gone, robot, threads, clients
<1> QED
  BY <1>1, <1>2, <1>3, <1>4 DEF IInv

\* What was on its way to a client is lost with it.
LEMMA ClientLeavesKeeps ==
  ASSUME IInv, NEW s \in Sessions, ClientLeaves(s)
  PROVE  IInv'
<1>1. TypeOK'
  BY EmptySeq DEF IInv, TypeOK, ClientLeaves, Gone, robot, threads, clients, Loop
<1>2. PortIsReaders'
  BY DEF IInv, TypeOK, PortIsReaders, PortHeldWhileReading, ClientLeaves, Gone,
         robot, threads, clients
<1>3. RoutedIsEnclosed'
  BY DEF IInv, TypeOK, RoutedIsEnclosed, ClientLeaves, Gone, robot, threads, clients
<1>4. OnlyBraces'
  BY DEF IInv, TypeOK, OnlyBraces, ClientLeaves, Gone, robot, threads, clients
<1> QED
  BY <1>1, <1>2, <1>3, <1>4 DEF IInv

\* The robot's position stays within its frames.
LEMMA TransmitKeeps ==
  ASSUME IInv, Transmit
  PROVE  IInv'
<1>1. at' \in 0..(Len(Frames) - 1)
  BY FramesType DEF IInv, TypeOK, Transmit
<1>2. line' \in Seq(Octet)
  <2>1. Frames[at + 1] \in Octet
    BY FramesType, ElementOfSeq DEF IInv, TypeOK
  <2> QED
    BY <2>1, AppendProperties DEF IInv, TypeOK, Transmit
<1> QED
  BY <1>1, <1>2
     DEF IInv, TypeOK, PortIsReaders, PortHeldWhileReading, RoutedIsEnclosed,
                    OnlyBraces, Transmit, threads, clients

\* A read ends with the port closed, and with a string that goes where its
\* brackets say.
LEMMA ReadSomeKeeps ==
  ASSUME IInv, NEW s \in Sessions, ReadSome(s)
  PROVE  IInv'
<1>1. PICK m \in Message : Takes(s, m)
  <2>1. PICK n \in 1..Len(line) :
          \E m \in StringsOf(SubSeq(line, 1, n)) : Takes(s, m)
    BY DEF ReadSome
  <2>2. SubSeq(line, 1, n) \in Seq(Octet)
    <3>1. n \in Int /\ \A i \in 1..n : line[i] \in Octet
      BY <2>1, LenProperties, ElementOfSeq DEF IInv, TypeOK
    <3> QED
      BY <3>1, SubSeqProperties
  <2> QED
    BY <2>1, <2>2, StringsType
<1>2. /\ session' = [session EXCEPT ![s] = Route(m.text)]
      /\ msg' = [msg EXCEPT ![s] = IF Route(m.text) = "looping" THEN NoMessage
                                                              ELSE m]
      /\ com5' = NoSession /\ line' = <<>>
      /\ UNCHANGED <<at, clients, plugged, server, json>>
  BY <1>1 DEF Takes, ReadSome
<1>3. /\ Route(m.text) \in {"relaying", "storing", "looping"}
      /\ Route(m.text) = "relaying" => InBraces(m.text)
      /\ Route(m.text) = "storing" => InBrackets(m.text)
  BY RouteEnclosed
<1>4. TypeOK'
  BY <1>2, <1>3, NoMessageType, EmptySeq DEF IInv, TypeOK, clients, Loop
<1>5. PortIsReaders'
  BY <1>2, <1>3, BridgeAssumption
     DEF IInv, TypeOK, PortIsReaders, PortHeldWhileReading, ReadSome
<1>6. RoutedIsEnclosed'
  BY <1>2, <1>3 DEF IInv, TypeOK, RoutedIsEnclosed
<1>7. OnlyBraces'
  BY <1>2 DEF IInv, OnlyBraces, clients
<1> QED
  BY <1>4, <1>5, <1>6, <1>7 DEF IInv

\* What a session writes leaves the file in braces.
LEMMA WrittenInBraces ==
  ASSUME IInv, NEW s \in Sessions, session[s] = "filling"
  PROVE  LET written == Overwritten(json, Braced(msg[s].text))
         IN  written \in Seq(Octet) /\ InBraces(written)
<1>1. msg[s].text \in Seq(Octet) /\ InBrackets(msg[s].text)
  <2>1. msg[s].text \in Seq(Octet \ {"nul"})
    BY DEF IInv, TypeOK, Message
  <2> QED
    BY <2>1, SeqMonotonic, Octet \ {"nul"} \subseteq Octet
       DEF IInv, RoutedIsEnclosed
<1>2. Braced(msg[s].text) \in Seq(Octet) /\ InBraces(Braced(msg[s].text))
  BY <1>1, BracedText
<1> QED
  BY <1>2, OverwrittenEnclosed DEF IInv, TypeOK, OnlyBraces

\* The text that is written was in square brackets, and is put in braces.
LEMMA CloseFileKeeps ==
  ASSUME IInv, NEW s \in Sessions, CloseFile(s)
  PROVE  IInv'
<1>1. json' \in Seq(Octet) /\ InBraces(json')
  BY WrittenInBraces DEF CloseFile
<1>2. /\ session' = [session EXCEPT ![s] = "looping"]
      /\ msg' = [msg EXCEPT ![s] = NoMessage]
      /\ session[s] = "filling"
      /\ UNCHANGED <<robot, com5, clients, plugged, server>>
  BY DEF CloseFile, Leaves
<1>3. TypeOK'
  BY <1>1, <1>2, NoMessageType DEF IInv, TypeOK, robot, clients, Loop
<1>4. PortIsReaders' /\ RoutedIsEnclosed' /\ OnlyBraces'
  BY <1>1, <1>2
     DEF IInv, TypeOK, PortIsReaders, PortHeldWhileReading, RoutedIsEnclosed,
         OnlyBraces, clients
<1> QED
  BY <1>3, <1>4 DEF IInv

\* A text that still reaches the file is one that was to be written.
LEMMA AcceptFailsKeeps ==
  ASSUME IInv, AcceptFails
  PROVE  IInv'
<1>1. json' \in Seq(Octet) /\ (json' # <<>> => InBraces(json'))
  BY WrittenInBraces DEF AcceptFails, IInv, TypeOK, OnlyBraces
<1>2. TypeOK'
  BY <1>1, NoMessageType, EmptySeq DEF IInv, TypeOK, AcceptFails, clients
<1>3. PortIsReaders' /\ RoutedIsEnclosed' /\ OnlyBraces'
  BY <1>1
     DEF IInv, PortIsReaders, PortHeldWhileReading, RoutedIsEnclosed, OnlyBraces,
              AcceptFails, clients
<1> QED
  BY <1>2, <1>3 DEF IInv

-----------------------------------------------------------------------------
(***************************************************************************)
(* The invariant.                                                          *)
(***************************************************************************)

\* It holds at the start.
LEMMA InitIInv == Init => IInv
<1> SUFFICES ASSUME Init PROVE IInv
  OBVIOUS
<1>1. TypeOK
  BY FramesType, NoMessageType, EmptySeq DEF Init, TypeOK
<1>2. PortIsReaders /\ RoutedIsEnclosed /\ OnlyBraces
  BY EmptySeq
     DEF Init, PortIsReaders, PortHeldWhileReading, RoutedIsEnclosed, OnlyBraces
<1> QED
  BY <1>1, <1>2 DEF IInv

\* Every step keeps it.
LEMMA NextIInv == IInv /\ [Next]_vars => IInv'
<1> SUFFICES ASSUME IInv, [Next]_vars PROVE IInv'
  OBVIOUS
<1>1. CASE UNCHANGED vars
  BY <1>1
     DEF vars, robot, threads, clients, IInv, TypeOK, PortIsReaders, PortHeldWhileReading,
              RoutedIsEnclosed, OnlyBraces
<1>2. CASE Transmit \/ Unplug \/ AcceptFails
  BY <1>2, TransmitKeeps, UnplugKeeps, AcceptFailsKeeps
<1>3. CASE \E s \in Sessions : Accept(s)
  BY <1>3, AcceptKeeps
<1>4. ASSUME NEW s \in Sessions, Session(s)
      PROVE  IInv'
  <2>1. CASE Dealdata(s)
    BY <2>1, OpenPortKeeps, OpenFailsKeeps, ReadSomeKeeps, ReadFailsKeeps
       DEF Dealdata
  <2>2. CASE Handshake(s) \/ HandshakeFails(s)
    BY <2>2, HandshakeKeeps, HandshakeFailsKeeps
  <2>3. CASE Relay(s) \/ RelayToGone(s)
    BY <2>3, RelayKeeps, RelayToGoneKeeps
  <2>4. CASE OpenFile(s) \/ OpenFileFails(s) \/ CloseFile(s)
    BY <2>4, OpenFileKeeps, OpenFileFailsKeeps, CloseFileKeeps
  <2> QED
    BY <1>4, <2>1, <2>2, <2>3, <2>4 DEF Session
<1>5. ASSUME NEW s \in Sessions, Client(s)
      PROVE  IInv'
  BY <1>5, ConnectKeeps, ClientReadsKeeps, ClientFailsKeeps, ClientLeavesKeeps
     DEF Client
<1> QED
  BY <1>1, <1>2, <1>3, <1>4, <1>5 DEF Next

\* The inductive invariant holds of every reachable state.
THEOREM BridgeInvariant == Spec => []IInv
BY InitIInv, NextIInv, PTL DEF Spec

\* Every variable keeps its type, whatever is read from the line and from
\* memory behind it (dealdata.cpp:26).
THEOREM BridgeTypeCorrect == Spec => []TypeOK
BY BridgeInvariant, PTL DEF IInv

\* The port is open only while a session waits in read_some: every way out of
\* dealdata closes it (dealdata.cpp:11, :33).
THEOREM PortFollowsReader == Spec => []PortHeldWhileReading
BY BridgeInvariant, PTL DEF IInv, PortIsReaders

\* What clients and readers of F:/json.txt get is in braces, however many
\* sessions write the file at once (tbwebsocket.cpp:83-97).
THEOREM DeliveredInBraces == Spec => []OnlyBraces
BY BridgeInvariant, PTL DEF IInv

-----------------------------------------------------------------------------
(***************************************************************************)
(* The refinement: every step is one of SessionPool's or changes nothing   *)
(* it can see.                                                             *)
(***************************************************************************)

Serving == {s \in Sessions : session[s] \in Loop}
Left == {s \in Sessions : client[s] = "gone"}
Working == server = "up" /\ plugged

\* What the pool sees of the bridge.
LEMMA PoolVars ==
  Pool!vars = <<Serving, Left, Working>>
BY DEF Pool!vars, Serving, Left, Working

\* What a step of a session's own thread is in the pool.
LEMMA SessionStep ==
  ASSUME IInv, NEW s \in Sessions, Session(s)
  PROVE  [Pool!Next]_(Pool!vars)
<1>1. CASE Handshake(s)
  <2>1. Serving' = Serving \cup {s} /\ s \notin Serving \cup Left
    BY <1>1 DEF Handshake, Serving, Left, Loop, IInv, TypeOK
  <2>2. Left' = Left /\ Working' = Working
    BY <1>1 DEF Handshake, Left, Working, IInv, TypeOK
  <2>3. Pool!Join(s)
    BY <2>1, <2>2 DEF Pool!Join, Serving, Left, Working
  <2> QED
    BY <2>3 DEF Pool!Next
<1>2. ASSUME s \in Serving, session' = [session EXCEPT ![s] = "ended"],
             UNCHANGED <<clients, plugged, server>>,
             s \in Left \/ Serving \ {s} # {} \/ ~Working
      PROVE  Pool!Next
  <2>1. Serving' = Serving \ {s}
    BY <1>2 DEF Serving, Loop, IInv, TypeOK
  <2>2. Left' = Left /\ Working' = Working
    BY <1>2 DEF clients, Left, Working
  <2>3. Pool!Drop(s)
    BY <1>2, <2>1, <2>2 DEF Pool!Drop, Serving, Left, Working
  <2> QED
    BY <2>3 DEF Pool!Next
<1>3. ASSUME session[s] \in Loop,
             \E next \in Loop : session' = [session EXCEPT ![s] = next],
             UNCHANGED <<clients, plugged, server>>
      PROVE  UNCHANGED Pool!vars
  <2>1. Serving' = Serving
    BY <1>3 DEF Serving, Loop, IInv, TypeOK
  <2>2. Left' = Left /\ Working' = Working
    BY <1>3 DEF clients, Left, Working
  <2> QED
    BY <2>1, <2>2, PoolVars DEF Serving, Left, Working, Pool!vars
<1>4. CASE HandshakeFails(s)
  <2>1. Serving' = Serving
    BY <1>4 DEF HandshakeFails, Serving, Loop, IInv, TypeOK
  <2>2. Left' = Left /\ Working' = Working
    BY <1>4 DEF HandshakeFails, clients, Left, Working
  <2> QED
    BY <2>1, <2>2 DEF Serving, Left, Working, Pool!vars
<1>5. CASE OpenPort(s)
  BY <1>3, <1>5 DEF OpenPort, Loop
<1>6. CASE OpenFails(s)
  <2>1. s \in Serving
    BY <1>6 DEF OpenFails, Serving, Loop
  <2>2. CASE com5 # NoSession
    <3>1. com5 \in Sessions /\ session[com5] = "reading" /\ com5 # s
      BY <1>6, <2>2 DEF OpenFails, IInv, TypeOK, PortIsReaders, PortHeldWhileReading
    <3>2. com5 \in Serving \ {s}
      BY <3>1 DEF Serving, Loop
    <3> QED
      BY <1>2, <1>6, <2>1, <3>2 DEF OpenFails
  <2>3. CASE ~plugged
    BY <1>2, <1>6, <2>1, <2>3 DEF OpenFails, Working
  <2> QED
    BY <1>6, <2>2, <2>3 DEF OpenFails
<1>7. CASE ReadSome(s)
  <2>1. PICK m : session' = [session EXCEPT ![s] = Route(m.text)]
    BY <1>7 DEF ReadSome, Takes
  <2>2. Route(m.text) \in Loop
    BY RouteEnclosed DEF Loop
  <2> QED
    BY <1>3, <1>7, <2>1, <2>2 DEF ReadSome, Loop
<1>8. CASE ReadFails(s)
  <2>1. s \in Serving /\ ~Working
    BY <1>8 DEF ReadFails, Serving, Loop, Working
  <2> QED
    BY <1>2, <1>8, <2>1 DEF ReadFails
<1>9. CASE Relay(s)
  <2>1. Serving' = Serving
    BY <1>9 DEF Relay, Leaves, Serving, Loop, IInv, TypeOK
  <2>2. Left' = Left /\ Working' = Working
    BY <1>9 DEF Relay, Left, Working
  <2> QED
    BY <2>1, <2>2 DEF Serving, Left, Working, Pool!vars
<1>10. CASE RelayToGone(s)
  <2>1. s \in Serving /\ s \in Left
    BY <1>10 DEF RelayToGone, Serving, Left, Loop
  <2>2. PICK next \in {"ended", "looping"} : Leaves(s, next)
    BY <1>10 DEF RelayToGone
  <2>3. CASE next = "ended"
    BY <1>2, <1>10, <2>1, <2>2, <2>3 DEF RelayToGone, Leaves
  <2>4. CASE next = "looping"
    BY <1>3, <1>10, <2>2, <2>4 DEF RelayToGone, Leaves, Loop
  <2> QED
    BY <2>3, <2>4
<1>11. CASE OpenFile(s) \/ OpenFileFails(s) \/ CloseFile(s)
  BY <1>3, <1>11 DEF OpenFile, OpenFileFails, CloseFile, Leaves, Loop
<1> QED
  BY <1>1, <1>4, <1>5, <1>6, <1>7, <1>8, <1>9, <1>10, <1>11 DEF Session, Dealdata

\* What a step of a client is in the pool: it leaves, or nothing.
LEMMA ClientStep ==
  ASSUME IInv, NEW s \in Sessions, Client(s)
  PROVE  [Pool!Next]_(Pool!vars)
<1>1. Serving' = Serving /\ Working' = Working
  BY DEF Client, Connect, ClientReads, ClientFails, ClientLeaves, threads,
         Serving, Working
<1>2. Left' \in {Left, Left \cup {s}}
  BY DEF Client, Connect, ClientReads, ClientFails, ClientLeaves, Gone, Left,
         IInv, TypeOK
<1>3. CASE Left' = Left
  BY <1>1, <1>3 DEF Serving, Left, Working, Pool!vars
<1>4. CASE Left' = Left \cup {s}
  <2>1. Pool!Leave(s)
    BY <1>1, <1>4 DEF Pool!Leave, Serving, Left, Working
  <2> QED
    BY <2>1 DEF Pool!Next
<1> QED
  BY <1>2, <1>3, <1>4

\* What the remaining steps are in the pool.
LEMMA OtherStep ==
  ASSUME IInv,
         Transmit \/ Unplug \/ AcceptFails \/ \E s \in Sessions : Accept(s)
  PROVE  [Pool!Next]_(Pool!vars)
<1>1. CASE Transmit
  BY <1>1 DEF Transmit, threads, clients, Pool!vars
<1>2. CASE Unplug
  <2>1. Pool!Break
    BY <1>2 DEF Unplug, threads, clients, Pool!Break
  <2> QED
    BY <2>1 DEF Pool!Next
<1>3. CASE AcceptFails
  <2>1. Pool!Break
    BY <1>3 DEF AcceptFails, clients, Loop, Pool!Break
  <2> QED
    BY <2>1 DEF Pool!Next
<1>4. ASSUME NEW s \in Sessions, Accept(s)
      PROVE  UNCHANGED Pool!vars
  <2>1. Serving' = Serving
    BY <1>4 DEF Accept, Serving, Loop, IInv, TypeOK
  <2>2. Left' = Left /\ Working' = Working
    BY <1>4 DEF Accept, clients, Left, Working
  <2> QED
    BY <2>1, <2>2 DEF Serving, Left, Working, Pool!vars
<1> QED
  BY <1>1, <1>2, <1>3, <1>4

\* The bridge refines SessionPool: competition for the port (dealdata.cpp:11)
\* ends a served client's session only while another one is served.
THEOREM BridgeImplementsPool == Spec => Implements
<1>1. Init => Pool!Init
  BY DEF Init, Pool!Init, Loop
<1>2. IInv /\ [Next]_vars => [Pool!Next]_(Pool!vars)
  <2> SUFFICES ASSUME IInv, [Next]_vars PROVE [Pool!Next]_(Pool!vars)
    OBVIOUS
  <2>1. CASE UNCHANGED vars
    BY <2>1 DEF vars, threads, clients, Pool!vars
  <2> QED
    BY <2>1, SessionStep, ClientStep, OtherStep DEF Next
<1> QED
  BY <1>1, <1>2, BridgeInvariant, PTL DEF Spec, Implements, Pool!Spec
=============================================================================
