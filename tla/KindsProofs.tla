----------------------------- MODULE KindsProofs -----------------------------
(***************************************************************************)
(* That the filter of the WebSocket server keeps the two kinds of frames   *)
(* apart, wherever in a frame the port is opened and wherever a read ends, *)
(* for any number of sessions, any text and any sizes.                     *)
(***************************************************************************)
EXTENDS SerialBridgeProofs, InductionFacts

-----------------------------------------------------------------------------
(***************************************************************************)
(* The frames.  Positions in them count from 1, as those of a sequence.    *)
(***************************************************************************)
Size1 == Len(Text) + 1         \* of a frame, with its zero octet
Positions == 1..(Size1 + Size1)

\* The position that the robot writes after p.
Succ(p) == IF p = Size1 + Size1 THEN 1 ELSE p + 1

\* Where the octets of str stand in the frames.
Placed(str, pos) ==
  /\ pos \in [1..Len(str) -> Positions]
  /\ \A j \in 1..Len(str) : str[j] = Frames[pos[j]]
  /\ \A j \in 1..(Len(str) - 1) : pos[j + 1] = Succ(pos[j])

\* What stands where in the frames.
LEMMA FramesAre ==
  /\ Len(Text) \in Nat /\ Len(Text) > 1 /\ Len(Frames) = Size1 + Size1
  /\ \A j \in 1..Len(Text) : Frames[j] = Text[j] /\ Text[j] # "nul"
  /\ Frames[Size1] = "nul"
  /\ \A j \in 1..Len(Text) : Frames[Size1 + j] = ArrayText[j] /\ ArrayText[j] # "nul"
  /\ Frames[Size1 + Size1] = "nul"
  /\ Text \in Seq(Octet) /\ Text[Len(Text)] = "rbrace"
  /\ ArrayText \in Seq(Octet) /\ Len(ArrayText) = Len(Text)
  /\ ArrayText[Len(Text)] = "rbracket"
<1>1. Text \in Seq(Octet) /\ Text \in Seq(Octet \ {"hi", "nul"})
  BY BridgeAssumption, SeqMonotonic, Octet \ {"hi", "nul"} \subseteq Octet
<1>2. /\ Len(Text) \in Nat /\ Len(Text) > 1 /\ Text[Len(Text)] = "rbrace"
      /\ \A j \in 1..Len(Text) : Text[j] # "nul"
  <2>1. \A j \in 1..Len(Text) : Text[j] \in Octet \ {"hi", "nul"}
    BY <1>1, ElementOfSeq
  <2> QED
    BY <1>1, <2>1, BridgeAssumption, LenProperties
<1>3. "lbracket" \in Octet /\ "rbracket" \in Octet /\ "nul" \in Octet
  BY DEF Octet
<1> DEFINE Opened == [Text EXCEPT ![1] = "lbracket"]
<1>4. /\ Opened \in Seq(Octet) /\ Len(Opened) = Len(Text)
      /\ \A j \in 1..Len(Text) : Opened[j] = IF j = 1 THEN "lbracket" ELSE Text[j]
  BY <1>1, <1>2, <1>3, ChangedSeq
<1> HIDE DEF Opened
<1>5. /\ [Opened EXCEPT ![Len(Text)] = "rbracket"] \in Seq(Octet)
      /\ Len([Opened EXCEPT ![Len(Text)] = "rbracket"]) = Len(Text)
      /\ \A j \in 1..Len(Text) :
           [Opened EXCEPT ![Len(Text)] = "rbracket"][j] =
             IF j = Len(Text) THEN "rbracket" ELSE Opened[j]
  BY <1>2, <1>3, <1>4, ChangedSeq
<1>6. ArrayText = [Opened EXCEPT ![Len(Text)] = "rbracket"]
  BY DEF ArrayText, Opened
<1>7. /\ ArrayText \in Seq(Octet) /\ Len(ArrayText) = Len(Text)
      /\ ArrayText[Len(Text)] = "rbracket"
      /\ \A j \in 1..Len(Text) : ArrayText[j] # "nul"
  <2>1. ASSUME NEW j \in 1..Len(Text)
        PROVE  ArrayText[j] # "nul"
    BY <1>2, <1>4, <1>5, <1>6
  <2> QED
    BY <1>2, <1>5, <1>6, <2>1
<1> DEFINE first == Append(Text, "nul")
           second == Append(ArrayText, "nul")
<1>8. /\ first \in Seq(Octet) /\ Len(first) = Size1 /\ first[Size1] = "nul"
      /\ \A j \in 1..Len(Text) : first[j] = Text[j]
  BY <1>1, <1>2, <1>3, AppendProperties DEF Size1
<1>9. /\ second \in Seq(Octet) /\ Len(second) = Size1 /\ second[Size1] = "nul"
      /\ \A j \in 1..Len(Text) : second[j] = ArrayText[j]
  BY <1>2, <1>3, <1>7, AppendProperties DEF Size1
<1> HIDE DEF first, second
<1>10. Frames = first \o second
  BY DEF Frames, first, second
<1>11. /\ Len(Frames) = Size1 + Size1
       /\ \A j \in 1..(Size1 + Size1) :
            Frames[j] = IF j <= Size1 THEN first[j] ELSE second[j - Size1]
  <2>1. /\ Len(first \o second) = Len(first) + Len(second)
        /\ \A j \in 1..(Len(first) + Len(second)) :
             (first \o second)[j] = IF j <= Len(first) THEN first[j]
                                                      ELSE second[j - Len(first)]
    BY <1>8, <1>9, ConcatProperties, Zenon
  <2> QED
    BY <1>8, <1>9, <1>10, <2>1, Zenon
<1>12. ASSUME NEW j \in 1..Size1
       PROVE  Frames[j] = first[j] /\ Frames[Size1 + j] = second[j]
  <2>1. /\ j \in 1..(Size1 + Size1) /\ j <= Size1
        /\ Size1 + j \in 1..(Size1 + Size1) /\ ~(Size1 + j <= Size1)
        /\ (Size1 + j) - Size1 = j
    BY <1>2 DEF Size1
  <2> QED
    BY <1>11, <2>1
<1>13. Size1 \in 1..Size1 /\ \A j \in 1..Len(Text) : j \in 1..Size1
  BY <1>2 DEF Size1
<1> QED
  BY <1>1, <1>2, <1>7, <1>8, <1>9, <1>11, <1>12, <1>13

\* Whoever goes back from the zero octet of a frame meets the frame.
LEMMA BackFromEnd ==
  ASSUME NEW str, NEW pos, Placed(str, pos), Len(str) \in Nat,
         NEW k \in 1..Len(str), str[k] = "nul",
         \A j \in 1..(k - 1) : str[j] # "nul"
  PROVE  \E base \in {0, Size1} :
           \A i \in 0..(k - 1) : i <= Len(Text) /\ pos[k - i] = base + Size1 - i
<1>1. Size1 = Len(Text) + 1 /\ Len(Text) \in Nat /\ Len(Text) > 1
  BY FramesAre DEF Size1
<1>2. \A j \in 1..Len(str) : pos[j] \in Positions /\ str[j] = Frames[pos[j]]
  BY DEF Placed
<1>3. ASSUME NEW p \in Positions
      PROVE  Frames[p] = "nul" <=> p \in {Size1, Size1 + Size1}
  <2>1. CASE p \in 1..Len(Text)
    BY <1>1, <2>1, FramesAre
  <2>2. CASE p \in (Size1 + 1)..(Size1 + Len(Text))
    <3>1. PICK j \in 1..Len(Text) : p = Size1 + j
      <4>1. p - Size1 \in 1..Len(Text) /\ p = Size1 + (p - Size1)
        BY <1>1, <2>2
      <4> QED
        BY <4>1
    <3>2. Frames[p] # "nul"
      BY <3>1, FramesAre
    <3> QED
      BY <1>1, <2>2, <3>2
  <2>3. CASE p \in {Size1, Size1 + Size1}
    BY <2>3, FramesAre
  <2> QED
    BY <1>1, <2>1, <2>2, <2>3 DEF Positions
<1>4. PICK base \in {0, Size1} : pos[k] = base + Size1
  <2>1. pos[k] \in {Size1, Size1 + Size1}
    BY <1>2, <1>3
  <2> QED
    BY <1>1, <2>1
<1> DEFINE Meets(i) == i <= Len(Text) /\ pos[k - i] = base + Size1 - i
           wrong == {i \in 0..(k - 1) : ~Meets(i)}
<1>5. ASSUME wrong # {}
      PROVE  FALSE
  <2>1. PICK i \in wrong : \A j \in wrong : i <= j
    <3>1. wrong \subseteq Nat
      OBVIOUS
    <3> HIDE DEF wrong
    <3> QED
      BY <1>5, <3>1, LeastNumber
  <2>2. i # 0
    <3>1. Meets(0)
      BY <1>1, <1>4
    <3> QED
      BY <2>1, <3>1
  <2>3. i \in 1..(k - 1) /\ i - 1 \in 0..(k - 1) /\ ~(i <= i - 1)
    BY <2>1, <2>2
  <2>4. Meets(i - 1)
    BY <2>1, <2>3
  <2> DEFINE j == k - i
  <2>5. /\ j \in 1..Len(str) /\ j \in 1..(Len(str) - 1) /\ j \in 1..(k - 1)
        /\ k - (i - 1) = j + 1
    BY <2>3
  <2>6. /\ i - 1 <= Len(Text) /\ pos[j + 1] = base + Size1 - (i - 1)
        /\ pos[j] \in Positions /\ pos[j + 1] = Succ(pos[j])
        /\ pos[j] # Size1 /\ pos[j] # Size1 + Size1
    <3>1. i - 1 <= Len(Text) /\ pos[j + 1] = base + Size1 - (i - 1)
      BY <2>4, <2>5
    <3>2. pos[j + 1] = Succ(pos[j])
      BY <2>5 DEF Placed
    <3>3. Frames[pos[j]] # "nul" /\ pos[j] \in Positions
      BY <1>2, <2>5
    <3> QED
      BY <1>3, <3>1, <3>2, <3>3
  <2> HIDE DEF j
  <2>7. pos[j] + 1 = base + Size1 - (i - 1)
    BY <2>6 DEF Succ
  <2>8. i <= Len(Text) /\ pos[j] = base + Size1 - i
    BY <1>1, <1>4, <2>3, <2>6, <2>7 DEF Positions
  <2> QED
    BY <2>1, <2>8 DEF j
<1> QED
  BY <1>4, <1>5

\* The octets up to the first zero octet are the end of one of the two texts.
LEMMA StringEndsText ==
  ASSUME NEW str \in Seq(Octet), NEW pos, Placed(str, pos),
         NEW k \in 1..Len(str), str[k] = "nul",
         \A j \in 1..(k - 1) : str[j] # "nul"
  PROVE  \E frame \in {Text, ArrayText} :
           LET text == SubSeq(str, 1, k - 1)
           IN  /\ IsSuffix(text, frame)
               /\ text # <<>> => text[Len(text)] = frame[Len(Text)]
<1>1. /\ Size1 = Len(Text) + 1 /\ Len(Text) \in Nat /\ Len(Text) > 1
      /\ Len(str) \in Nat
  BY FramesAre, LenProperties DEF Size1
<1>2. PICK base \in {0, Size1} :
        \A i \in 0..(k - 1) : i <= Len(Text) /\ pos[k - i] = base + Size1 - i
  <2>1. Len(str) \in Nat
    BY <1>1
  <2> QED
    BY <2>1, BackFromEnd
<1> DEFINE frame == IF base = 0 THEN Text ELSE ArrayText
           n == k - 1
           text == SubSeq(str, 1, n)
<1>3. n \in 0..Len(Text)
  <2>1. k - 1 \in 0..(k - 1)
    BY <1>1
  <2> QED
    BY <1>2, <2>1
<1>4. /\ text \in Seq(Octet) /\ Len(text) = n
      /\ \A j \in 1..n : text[j] = str[j]
  <2>1. n \in Nat /\ n <= Len(str) /\ \A j \in 1..n : str[j] \in Octet
    BY <1>1, <1>3, ElementOfSeq
  <2> QED
    BY <2>1, SubSeqProperties
<1>5. frame \in Seq(Octet) /\ Len(frame) = Len(Text)
      /\ \A j \in 1..Len(Text) : frame[j] = Frames[base + j]
  <2>1. CASE base = 0
    <3>1. \A j \in 1..Len(Text) : base + j = j
      BY <2>1
    <3> QED
      BY <2>1, <3>1, FramesAre
  <2>2. CASE base = Size1
    BY <1>1, <2>2, FramesAre
  <2> QED
    BY <2>1, <2>2
<1>6. ASSUME NEW j \in 1..n
      PROVE  text[j] = frame[Len(Text) - n + j]
  <2>1. k - j \in 0..(k - 1) /\ k - (k - j) = j /\ j \in 1..Len(str)
    BY <1>1
  <2>2. pos[j] = base + Size1 - (k - j)
    BY <1>2, <2>1
  <2>3. /\ base + Size1 - (k - j) = base + (Len(Text) - n + j)
        /\ Len(Text) - n + j \in 1..Len(Text)
    BY <1>1, <1>3
  <2>4. str[j] = Frames[pos[j]]
    BY <2>1 DEF Placed
  <2> HIDE DEF frame, text
  <2>5. frame[Len(Text) - n + j] = Frames[base + (Len(Text) - n + j)]
    BY <1>5, <2>3
  <2> QED
    BY <1>4, <2>2, <2>3, <2>4, <2>5
<1> HIDE DEF frame, text, n
<1>7. IsSuffix(text, frame)
  <2>1. /\ Reverse(text) = [i \in 1..n |-> text[(n - i) + 1]]
        /\ Reverse(frame) = [i \in 1..Len(Text) |-> frame[(Len(Text) - i) + 1]]
    BY <1>4, <1>5 DEF Reverse
  <2>2. /\ \A i \in 1..n : text[(n - i) + 1] \in Octet
        /\ \A i \in 1..Len(Text) : frame[(Len(Text) - i) + 1] \in Octet
    <3>1. /\ \A i \in 1..n : (n - i) + 1 \in 1..n
          /\ \A i \in 1..Len(Text) : (Len(Text) - i) + 1 \in 1..Len(Text)
      BY <1>1, <1>3
    <3>2. /\ \A j \in 1..n : text[j] \in Octet
          /\ \A j \in 1..Len(Text) : frame[j] \in Octet
      BY <1>4, <1>5, ElementOfSeq
    <3> QED
      BY <3>1, <3>2
  <2>3. /\ Reverse(text) \in Seq(Octet) /\ Len(Reverse(text)) = n
        /\ Reverse(frame) \in Seq(Octet) /\ Len(Reverse(frame)) = Len(Text)
    <3>1. n \in Nat /\ Len(Text) \in Nat
      BY <1>1, <1>3
    <3>2. /\ Reverse(text) \in [1..n -> Octet]
          /\ Reverse(frame) \in [1..Len(Text) -> Octet]
      BY <2>1, <2>2
    <3>3. Reverse(text) \in Seq(Octet) /\ Reverse(frame) \in Seq(Octet)
      BY <3>1, <3>2, FunctionIsSeq
    <3> QED
      BY <3>1, <3>2, <3>3, LenProperties
  <2>4. \A i \in 1..n : Reverse(text)[i] = Reverse(frame)[i]
    <3>1. ASSUME NEW i \in 1..n
          PROVE  text[(n - i) + 1] = frame[(Len(Text) - i) + 1]
      <4>1. (n - i) + 1 \in 1..n
            /\ Len(Text) - n + ((n - i) + 1) = (Len(Text) - i) + 1
        BY <1>1, <1>3
      <4> QED
        BY <1>6, <4>1
    <3>2. \A i \in 1..n : i \in 1..Len(Text)
      BY <1>3
    <3> QED
      BY <2>1, <3>1, <3>2
  <2>5. SubSeq(Reverse(text), 1, n) = SubSeq(Reverse(frame), 1, n)
    <3>1. /\ SubSeq(Reverse(text), 1, n) = [i \in 1..n |-> Reverse(text)[i]]
          /\ SubSeq(Reverse(frame), 1, n) = [i \in 1..n |-> Reverse(frame)[i]]
      BY <1>3, <2>3
    <3> QED
      BY <2>4, <3>1
  <2> QED
    BY <1>3, <2>3, <2>5 DEF IsSuffix, IsPrefix
<1>8. text # <<>> => text[Len(text)] = frame[Len(Text)]
  <2>1. CASE n = 0
    BY <1>4, <2>1, EmptySeq
  <2>2. CASE n # 0
    <3>1. n \in 1..n /\ Len(Text) - n + n = Len(Text)
      BY <1>1, <1>3, <2>2
    <3> QED
      BY <1>4, <1>6, <3>1
  <2> QED
    BY <2>1, <2>2
<1> QED
  BY <1>7, <1>8 DEF frame, text, n

-----------------------------------------------------------------------------
(***************************************************************************)
(* What waits on the line: a run of octets as the robot wrote them, that   *)
(* ends where the robot is.                                                *)
(***************************************************************************)
LineClosed == com5 = NoSession => line = <<>>

LineFollows ==
  \E pos \in [1..Len(line) -> Positions] :
    /\ Placed(line, pos)
    /\ com5 # NoSession /\ plugged /\ line # <<>> => Succ(pos[Len(line)]) = at + 1

LineInv == LineClosed /\ LineFollows

\* Nothing on the line is in order.
LEMMA NothingPlaced ==
  \E pos \in [1..Len(<<>>) -> Positions] : Placed(<<>>, pos)
<1> DEFINE none == [j \in 1..0 |-> 1]
<1>1. Len(<<>>) = 0
  BY EmptySeq
<1>2. none \in [1..0 -> Positions] /\ 1..0 = {} /\ 1..(0 - 1) = {}
  OBVIOUS
<1> HIDE DEF none
<1> QED
  BY <1>1, <1>2 DEF Placed

\* The octet that the robot writes stands where it is, and it goes on from there.
LEMMA TransmitKeepsLine ==
  ASSUME IInv, LineInv, Transmit
  PROVE  LineInv'
<1>1. /\ at \in Nat /\ at + 1 \in Positions /\ at' + 1 = Succ(at + 1)
      /\ Len(Frames) = Size1 + Size1 /\ Size1 \in Nat /\ Size1 > 2
  <2>1. Len(Text) \in Nat /\ Len(Text) > 1 /\ Len(Frames) = Size1 + Size1
    BY FramesAre
  <2>2. /\ Size1 + Size1 \in Nat \ {0} /\ at \in 0..(Size1 + Size1 - 1)
        /\ at' = (at + 1) % (Size1 + Size1) /\ Size1 \in Nat /\ Size1 > 2
    BY <2>1 DEF Size1, IInv, TypeOK, Transmit
  <2>3. CASE at + 1 = Size1 + Size1
    <3>1. (Size1 + Size1) % (Size1 + Size1) = 0
      BY <2>2
    <3> QED
      BY <2>1, <2>2, <2>3, <3>1 DEF Positions, Succ
  <2>4. CASE at + 1 # Size1 + Size1
    <3>1. (at + 1) % (Size1 + Size1) = at + 1
      BY <2>2, <2>4
    <3> QED
      BY <2>1, <2>2, <2>4, <3>1 DEF Positions, Succ
  <2> QED
    BY <2>3, <2>4
<1>2. com5' = com5 /\ plugged' = plugged
  BY DEF Transmit, threads
<1>3. CASE ~(com5 # NoSession /\ plugged)
  <2>1. line' = line
    BY <1>3 DEF Transmit
  <2> QED
    BY <1>2, <1>3, <2>1 DEF LineInv, LineClosed, LineFollows
<1>4. CASE com5 # NoSession /\ plugged
  <2>1. line' = Append(line, Frames[at + 1])
    BY <1>4 DEF Transmit
  <2> DEFINE n == Len(line)
  <2>2. /\ n \in Nat /\ Len(line') = n + 1 /\ line'[n + 1] = Frames[at + 1]
        /\ \A j \in 1..n : line'[j] = line[j]
        /\ line = <<>> <=> n = 0
    <3>1. line \in Seq(Octet) /\ Frames[at + 1] \in Octet
      BY FramesType, ElementOfSeq DEF IInv, TypeOK
    <3> QED
      BY <2>1, <3>1, AppendProperties, LenProperties, EmptySeq
  <2>3. PICK pos \in [1..n -> Positions] :
          /\ Placed(line, pos)
          /\ line # <<>> => Succ(pos[n]) = at + 1
    BY <1>4 DEF LineInv, LineFollows
  <2> DEFINE next == [j \in 1..(n + 1) |-> IF j = n + 1 THEN at + 1 ELSE pos[j]]
  <2>4. /\ next \in [1..(n + 1) -> Positions] /\ next[n + 1] = at + 1
        /\ \A j \in 1..n : next[j] = pos[j]
    BY <1>1, <2>2, <2>3
  <2> HIDE DEF n, next
  <2>5. \A j \in 1..(n + 1) : line'[j] = Frames[next[j]]
    <3>1. \A j \in 1..n : line[j] = Frames[pos[j]]
      BY <2>3 DEF Placed, n
    <3>2. ASSUME NEW j \in 1..(n + 1), j # n + 1
          PROVE  j \in 1..n
      BY <2>2, <3>2
    <3> QED
      BY <2>2, <2>4, <3>1, <3>2
  <2>6. \A j \in 1..((n + 1) - 1) : next[j + 1] = Succ(next[j])
    <3> SUFFICES ASSUME NEW j \in 1..n
                 PROVE  next[j + 1] = Succ(next[j])
      BY <2>2
    <3>1. CASE j = n
      <4>1. line # <<>> /\ n \in 1..n
        BY <2>2, <3>1
      <4> QED
        BY <2>3, <2>4, <3>1, <4>1
    <3>2. CASE j # n
      <4>1. j \in 1..(n - 1) /\ j + 1 \in 1..n
        BY <2>2, <3>2
      <4>2. pos[j + 1] = Succ(pos[j])
        BY <2>3, <4>1 DEF Placed, n
      <4> QED
        BY <2>4, <4>1, <4>2
    <3> QED
      BY <3>1, <3>2
  <2>7. /\ next \in [1..Len(line') -> Positions] /\ Placed(line', next)
        /\ Succ(next[Len(line')]) = at' + 1
    BY <1>1, <2>2, <2>4, <2>5, <2>6 DEF Placed
  <2> QED
    BY <1>2, <1>4, <2>7 DEF LineInv, LineClosed, LineFollows
<1> QED
  BY <1>3, <1>4

\* The line is as the robot wrote it, also after every other step: the port is
\* opened on an empty line, and closed over what was not read.
LEMMA LineStep == IInv /\ LineInv /\ [Next]_vars => LineInv'
<1> SUFFICES ASSUME IInv, LineInv, [Next]_vars PROVE LineInv'
  OBVIOUS
<1>1. ASSUME line' = line, com5' = com5, at' = at, plugged' => plugged
      PROVE  LineInv'
  BY <1>1 DEF LineInv, LineClosed, LineFollows
<1>2. ASSUME line' = <<>>
      PROVE  LineInv'
  BY <1>2, NothingPlaced DEF LineInv, LineClosed, LineFollows
<1>3. CASE UNCHANGED vars
  BY <1>1, <1>3 DEF vars, robot, threads
<1>4. CASE Transmit
  BY <1>4, TransmitKeepsLine
<1>5. CASE Unplug
  BY <1>1, <1>5 DEF Unplug, robot, threads
<1>6. CASE AcceptFails
  BY <1>2, <1>6 DEF AcceptFails
<1>7. ASSUME NEW s \in Sessions, Accept(s) \/ Client(s)
      PROVE  LineInv'
  BY <1>1, <1>7
     DEF Accept, Client, Connect, ClientReads, ClientFails, ClientLeaves, robot,
         threads
<1>8. ASSUME NEW s \in Sessions, Session(s)
      PROVE  LineInv'
  <2>1. CASE OpenPort(s)
    BY <1>2, <2>1 DEF OpenPort, robot, LineInv, LineClosed
  <2>2. CASE ReadSome(s) \/ ReadFails(s)
    BY <1>2, <2>2 DEF ReadSome, ReadFails
  <2>3. CASE OpenFails(s) \/ Handshake(s) \/ HandshakeFails(s)
    BY <1>1, <2>3 DEF OpenFails, Handshake, HandshakeFails, robot
  <2>4. CASE \/ Relay(s) \/ RelayToGone(s)
             \/ OpenFile(s) \/ OpenFileFails(s) \/ CloseFile(s)
    BY <1>1, <2>4
       DEF Relay, RelayToGone, OpenFile, OpenFileFails, CloseFile, Leaves, robot
  <2> QED
    BY <1>8, <2>1, <2>2, <2>3, <2>4 DEF Session, Dealdata
<1> QED
  BY <1>3, <1>4, <1>5, <1>6, <1>7, <1>8 DEF Next

-----------------------------------------------------------------------------
(***************************************************************************)
(* What the sessions make of it.                                           *)
(***************************************************************************)

\* A whole string that a session is about to relay is the end of the object.
RelaysObjects ==
  \A s \in Sessions :
    session[s] = "relaying" /\ ~msg[s].cut => IsSuffix(msg[s].text, Text)

KindsInv == RelaysObjects /\ KindsKeptApart

\* The first octets of the line are as the robot wrote them.
LEMMA ReceivedPlaced ==
  ASSUME NEW str \in Seq(Octet), NEW pos, Placed(str, pos), NEW n \in 1..Len(str)
  PROVE  LET received == SubSeq(str, 1, n)
         IN  /\ received \in Seq(Octet) /\ Len(received) = n
             /\ \E p : Placed(received, p)
<1> DEFINE received == SubSeq(str, 1, n)
           p == [j \in 1..n |-> pos[j]]
<1>1. n \in Nat /\ n <= Len(str) /\ Len(str) \in Nat
  BY LenProperties
<1>2. /\ received \in Seq(Octet) /\ Len(received) = n
      /\ \A j \in 1..n : received[j] = str[j]
  <2>1. \A j \in 1..n : str[j] \in Octet
    BY <1>1, ElementOfSeq
  <2> QED
    BY <1>1, <2>1, SubSeqProperties
<1>3. p \in [1..n -> Positions] /\ \A j \in 1..n : p[j] = pos[j]
  BY <1>1 DEF Placed
<1> HIDE DEF received, p
<1>4. \A j \in 1..n : received[j] = Frames[p[j]]
  BY <1>1, <1>2, <1>3 DEF Placed
<1>5. \A j \in 1..(n - 1) : p[j + 1] = Succ(p[j])
  <2>1. ASSUME NEW j \in 1..(n - 1)
        PROVE  j \in 1..(Len(str) - 1) /\ j \in 1..n /\ j + 1 \in 1..n
    BY <1>1
  <2> QED
    BY <1>3, <2>1 DEF Placed
<1>6. Placed(received, p)
  BY <1>2, <1>3, <1>4, <1>5 DEF Placed
<1> QED
  BY <1>2, <1>6 DEF received

\* What a read makes of them, where it is whole, is the end of a text, and the
\* filter tells of which one.
LEMMA WholeIsRouted ==
  ASSUME NEW received \in Seq(Octet), NEW pos, Placed(received, pos),
         NEW m \in StringsOf(received), ~m.cut
  PROVE  /\ Route(m.text) = "relaying" => IsSuffix(m.text, Text)
         /\ Route(m.text) = "storing" => IsSuffix(m.text, ArrayText)
<1>1. PICK k \in End(received) :
        m = [text |-> SubSeq(received, 1, k - 1), cut |-> FALSE]
  BY DEF StringsOf
<1>2. /\ k \in 1..Len(received) /\ received[k] = "nul"
      /\ \A j \in 1..(k - 1) : received[j] # "nul"
  BY <1>1 DEF End
<1>3. PICK frame \in {Text, ArrayText} :
        /\ IsSuffix(m.text, frame)
        /\ m.text # <<>> => m.text[Len(m.text)] = frame[Len(Text)]
  BY <1>1, <1>2, StringEndsText
<1>4. Text[Len(Text)] = "rbrace" /\ ArrayText[Len(Text)] = "rbracket"
  BY FramesAre
<1>5. /\ Route(m.text) = "relaying" => frame[Len(Text)] = "rbrace"
      /\ Route(m.text) = "storing" => frame[Len(Text)] = "rbracket"
  BY <1>3, RouteEnclosed DEF InBraces, InBrackets, Enclosed
<1> QED
  BY <1>3, <1>4, <1>5

\* A session takes the whole strings of a read where they belong.
LEMMA ReadSomeKeepsKinds ==
  ASSUME IInv, LineInv, KindsInv, NEW s \in Sessions, ReadSome(s)
  PROVE  KindsInv'
<1>1. PICK n \in 1..Len(line) :
        \E m \in StringsOf(SubSeq(line, 1, n)) : Takes(s, m)
  BY DEF ReadSome
<1> DEFINE received == SubSeq(line, 1, n)
<1>2. PICK m \in StringsOf(received) : Takes(s, m)
  BY <1>1
<1>3. received \in Seq(Octet) /\ \E p : Placed(received, p)
  BY ReceivedPlaced DEF IInv, TypeOK, LineInv, LineFollows
<1> HIDE DEF received
<1>4. ~m.cut => /\ Route(m.text) = "relaying" => IsSuffix(m.text, Text)
                /\ Route(m.text) = "storing" => IsSuffix(m.text, ArrayText)
  BY <1>3, WholeIsRouted
<1>5. /\ session' = [session EXCEPT ![s] = Route(m.text)]
      /\ msg' = [msg EXCEPT ![s] = IF Route(m.text) = "looping" THEN NoMessage
                                                              ELSE m]
      /\ inbox' = inbox
  BY <1>2 DEF Takes, ReadSome, clients
<1>6. Route(m.text) \in {"relaying", "storing", "looping"}
  BY RouteEnclosed
<1> QED
  BY <1>4, <1>5, <1>6
     DEF IInv, TypeOK, KindsInv, RelaysObjects, KindsKeptApart

\* What is sent is the string that was to be relayed.
LEMMA RelayKeepsKinds ==
  ASSUME IInv, KindsInv, NEW s \in Sessions, Relay(s)
  PROVE  KindsInv'
<1> DEFINE Sent == Append(inbox[s], msg[s])
<1>1. /\ Len(Sent) = Len(inbox[s]) + 1
      /\ \A i \in 1..Len(Sent) :
           Sent[i] = IF i <= Len(inbox[s]) THEN inbox[s][i] ELSE msg[s]
      /\ Len(inbox[s]) \in Nat
  BY AppendProperties, LenProperties DEF IInv, TypeOK
<1>2. \A i \in 1..Len(Sent) : ~Sent[i].cut => IsSuffix(Sent[i].text, Text)
  <2> HIDE DEF Sent
  <2>1. ~msg[s].cut => IsSuffix(msg[s].text, Text)
    BY DEF KindsInv, RelaysObjects, Relay
  <2>2. \A i \in 1..Len(inbox[s]) :
          ~inbox[s][i].cut => IsSuffix(inbox[s][i].text, Text)
    BY DEF KindsInv, KindsKeptApart
  <2> QED
    BY <1>1, <2>1, <2>2
<1>3. /\ inbox' = [inbox EXCEPT ![s] = Sent]
      /\ session' = [session EXCEPT ![s] = "looping"]
      /\ msg' = [msg EXCEPT ![s] = NoMessage]
  BY DEF Relay, Leaves
<1> HIDE DEF Sent
<1> QED
  BY <1>2, <1>3 DEF IInv, TypeOK, KindsInv, RelaysObjects, KindsKeptApart

\* What a client has not read yet is what was sent to it.
LEMMA ClientKeepsKinds ==
  ASSUME IInv, KindsInv, NEW s \in Sessions, Client(s)
  PROVE  KindsInv'
<1>1. session' = session /\ msg' = msg
  BY DEF Client, Connect, ClientReads, ClientFails, ClientLeaves, threads
<1>2. ASSUME NEW left \in Seq(Message), inbox' = [inbox EXCEPT ![s] = left],
             \A i \in 1..Len(left) : ~left[i].cut => IsSuffix(left[i].text, Text)
      PROVE  KindsInv'
  BY <1>1, <1>2 DEF IInv, TypeOK, KindsInv, RelaysObjects, KindsKeptApart
<1>3. CASE Connect(s)
  BY <1>1, <1>3 DEF Connect, KindsInv, RelaysObjects, KindsKeptApart
<1>4. CASE Gone(s)
  <2>1. <<>> \in Seq(Message) /\ 1..Len(<<>>) = {}
    BY EmptySeq
  <2> QED
    BY <1>2, <1>4, <2>1 DEF Gone
<1>5. CASE ClientReads(s) /\ ~Gone(s)
  <2>1. /\ inbox[s] \in Seq(Message) /\ inbox[s] # <<>>
        /\ inbox' = [inbox EXCEPT ![s] = Tail(inbox[s])]
    BY <1>5 DEF ClientReads, IInv, TypeOK
  <2>2. /\ Tail(inbox[s]) \in Seq(Message)
        /\ Len(Tail(inbox[s])) = Len(inbox[s]) - 1 /\ Len(inbox[s]) \in Nat
        /\ \A i \in 1..Len(Tail(inbox[s])) : Tail(inbox[s])[i] = inbox[s][i + 1]
    BY <2>1, HeadTailProperties, LenProperties
  <2>3. \A i \in 1..Len(Tail(inbox[s])) : i + 1 \in 1..Len(inbox[s])
    BY <2>2
  <2>4. \A i \in 1..Len(inbox[s]) :
          ~inbox[s][i].cut => IsSuffix(inbox[s][i].text, Text)
    BY DEF KindsInv, KindsKeptApart
  <2> QED
    BY <1>2, <2>1, <2>2, <2>3, <2>4
<1> QED
  BY <1>3, <1>4, <1>5 DEF Client, ClientFails, ClientLeaves

\* Every step keeps the kinds apart.
LEMMA KindsStep == IInv /\ LineInv /\ KindsInv /\ [Next]_vars => KindsInv'
<1> SUFFICES ASSUME IInv, LineInv, KindsInv, [Next]_vars PROVE KindsInv'
  OBVIOUS
<1>1. ASSUME session' = session, msg' = msg, inbox' = inbox
      PROVE  KindsInv'
  BY <1>1 DEF KindsInv, RelaysObjects, KindsKeptApart
<1>2. ASSUME NEW s \in Sessions, NEW next,
             next \notin {"relaying", "storing", "filling"},
             session' = [session EXCEPT ![s] = next],
             msg' = msg \/ msg' = [msg EXCEPT ![s] = NoMessage],
             inbox' = inbox
      PROVE  KindsInv'
  BY <1>2 DEF IInv, TypeOK, KindsInv, RelaysObjects, KindsKeptApart
<1>3. CASE UNCHANGED vars
  BY <1>1, <1>3 DEF vars, threads, clients
<1>4. CASE Transmit \/ Unplug
  BY <1>1, <1>4 DEF Transmit, Unplug, threads, clients
<1>5. CASE AcceptFails
  BY <1>5 DEF AcceptFails, clients, KindsInv, RelaysObjects, KindsKeptApart
<1>6. ASSUME NEW s \in Sessions, Accept(s)
      PROVE  KindsInv'
  BY <1>2, <1>6 DEF Accept, clients
<1>7. ASSUME NEW s \in Sessions, Session(s)
      PROVE  KindsInv'
  <2>1. CASE \/ Handshake(s) \/ HandshakeFails(s)
             \/ OpenPort(s) \/ OpenFails(s) \/ ReadFails(s)
    BY <1>2, <2>1
       DEF Handshake, HandshakeFails, OpenPort, OpenFails, ReadFails, clients
  <2>2. CASE ReadSome(s)
    BY <2>2, ReadSomeKeepsKinds
  <2>3. CASE Relay(s)
    BY <2>3, RelayKeepsKinds
  <2>4. CASE RelayToGone(s) \/ OpenFileFails(s) \/ CloseFile(s)
    BY <1>2, <2>4 DEF RelayToGone, OpenFileFails, CloseFile, Leaves, clients
  <2>5. CASE OpenFile(s)
    BY <2>5
       DEF OpenFile, clients, IInv, TypeOK, KindsInv, RelaysObjects, KindsKeptApart
  <2> QED
    BY <1>7, <2>1, <2>2, <2>3, <2>4, <2>5 DEF Session, Dealdata
<1>8. ASSUME NEW s \in Sessions, Client(s)
      PROVE  KindsInv'
  BY <1>8, ClientKeepsKinds
<1> QED
  BY <1>3, <1>4, <1>5, <1>6, <1>7, <1>8 DEF Next

-----------------------------------------------------------------------------
\* Of what was read to the end of a frame, only objects go to clients and only
\* arrays to the file, wherever in a frame the port was opened
\* (dealdata.cpp:26, tbwebsocket.cpp:83, :90).
THEOREM FilterKeepsKinds == Spec => []KindsKeptApart
<1>1. Init => LineInv
  BY NothingPlaced DEF Init, LineInv, LineClosed, LineFollows
<1>2. Init => KindsInv
  <2>1. 1..Len(<<>>) = {}
    BY EmptySeq
  <2> QED
    BY <2>1 DEF Init, KindsInv, RelaysObjects, KindsKeptApart
<1>3. KindsInv => KindsKeptApart
  BY DEF KindsInv
<1> QED
  BY <1>1, <1>2, <1>3, LineStep, KindsStep, BridgeInvariant, PTL DEF Spec
=============================================================================
