------------------------- MODULE RequestTargetProofs -------------------------
(***************************************************************************)
(* Theorems about RequestTarget for URIs of any length over all octets.    *)
(***************************************************************************)
EXTENDS RequestTarget, InductionFacts

(***************************************************************************)
(* The inductive invariant: beside the properties, a path that has passed  *)
(* the check stays as it is.                                               *)
(***************************************************************************)
PathChecked == pc \in {"pairing", "naming", "opened"} => UnderRoot(path)

IInv == TypeOK /\ PathChecked /\ OpenedUnderRoot /\ NeverThrows

-----------------------------------------------------------------------------
(***************************************************************************)
(* Finding characters and cutting strings.                                 *)
(***************************************************************************)

\* The place where the first, or the last, of a non-empty set of places is.
LEMMA MinMaxIn ==
  ASSUME NEW n \in Nat, NEW T \in SUBSET (1..n), T # {}
  PROVE  /\ Min(T) \in T /\ \A y \in T : Min(T) <= y
         /\ Max(T) \in T /\ \A y \in T : Max(T) >= y
<1>1. PICK x \in T : \A y \in T : x <= y
  <2>1. T \subseteq Nat
    OBVIOUS
  <2> QED
    BY <2>1, LeastNumber
<1> DEFINE Mirrored == {m \in 0..n : n - m \in T}
<1>2. n - x \in Mirrored /\ \A y \in T : n - y \in Mirrored
  OBVIOUS
<1>3. PICK m \in Mirrored : \A y \in Mirrored : m <= y
  <2>1. Mirrored \subseteq Nat
    OBVIOUS
  <2> HIDE DEF Mirrored
  <2>2. Mirrored # {}
    BY <1>2
  <2> QED
    BY <2>1, <2>2, LeastNumber
<1>4. n - m \in T /\ \A y \in T : n - m >= y
  BY <1>2, <1>3
<1> QED
  BY <1>1, <1>4 DEF Min, Max

\* A character is found within the string, where it is first or last, or not
\* at all.
LEMMA FindRange ==
  ASSUME NEW str \in Seq(Char), NEW c \in Char
  PROVE  /\ Find(str, c) \in -1..(Len(str) - 1)
         /\ IF Find(str, c) = -1
            THEN \A k \in 1..Len(str) : str[k] # c
            ELSE /\ str[Find(str, c) + 1] = c
                 /\ \A k \in 1..Find(str, c) : str[k] # c
         /\ FindLast(str, c) \in -1..(Len(str) - 1)
         /\ IF FindLast(str, c) = -1
            THEN \A k \in 1..Len(str) : str[k] # c
            ELSE /\ str[FindLast(str, c) + 1] = c
                 /\ \A k \in (FindLast(str, c) + 2)..Len(str) : str[k] # c
<1> DEFINE at == {k \in 1..Len(str) : str[k] = c}
<1>1. /\ Find(str, c) = (IF at # {} THEN Min(at) ELSE 0) - 1
      /\ FindLast(str, c) = (IF at # {} THEN Max(at) ELSE 0) - 1
  BY DEF Find, FindLast, SelectInSeq, SelectLastInSeq
<1>2. Len(str) \in Nat
  OBVIOUS
<1>3. at # {} => /\ Min(at) \in at /\ \A y \in at : Min(at) <= y
                 /\ Max(at) \in at /\ \A y \in at : Max(at) >= y
  BY <1>2, MinMaxIn
<1>4. \A k : k \in at <=> k \in 1..Len(str) /\ str[k] = c
  OBVIOUS
<1> HIDE DEF at
<1>5. CASE at = {}
  BY <1>1, <1>2, <1>4, <1>5
<1>6. CASE at # {}
  <2> DEFINE first == Min(at)
             last == Max(at)
  <2>1. /\ first \in 1..Len(str) /\ str[first] = c
        /\ last \in 1..Len(str) /\ str[last] = c
    BY <1>3, <1>4, <1>6
  <2>2. /\ \A k \in 1..Len(str) : k < first => str[k] # c
        /\ \A k \in 1..Len(str) : k > last => str[k] # c
    BY <1>3, <1>4, <1>6, <2>1
  <2>3. Find(str, c) = first - 1 /\ FindLast(str, c) = last - 1
    BY <1>1, <1>6
  <2> HIDE DEF first, last
  <2>4. /\ Find(str, c) + 1 = first /\ Find(str, c) # -1
        /\ FindLast(str, c) + 1 = last /\ FindLast(str, c) # -1
    BY <2>1, <2>3
  <2>5. \A k \in 1..Find(str, c) : str[k] # c
    BY <1>2, <2>1, <2>2, <2>3
  <2>6. \A k \in (FindLast(str, c) + 2)..Len(str) : str[k] # c
    BY <1>2, <2>1, <2>2, <2>3
  <2>7. Find(str, c) \in -1..(Len(str) - 1) /\ FindLast(str, c) \in -1..(Len(str) - 1)
    BY <1>2, <2>1, <2>3
  <2> QED
    BY <2>1, <2>4, <2>5, <2>6, <2>7
<1> QED
  BY <1>5, <1>6

\* What substr returns is a string, and a prefix of one if it begins at 0.
LEMMA SubstrType ==
  ASSUME NEW str \in Seq(Char), NEW pos \in Nat, NEW count \in Int
  PROVE  /\ Substr(str, pos, count) \in Seq(Char)
         /\ From(str, pos) \in Seq(Char)
<1>1. Len(str) \in Nat /\ \A k \in 1..Len(str) : str[k] \in Char
  BY ElementOfSeq
<1> DEFINE end == IF count < 0 \/ pos + count > Len(str) THEN Len(str) ELSE pos + count
<1>2. end \in Int /\ end <= Len(str) /\ pos + 1 >= 1
  BY <1>1
<1> HIDE DEF end
<1>3. SubSeq(str, pos + 1, end) \in Seq(Char)
  BY <1>1, <1>2, SubSeqProperties
<1>4. SubSeq(str, pos + 1, Len(str)) \in Seq(Char)
  BY <1>1, SubSeqProperties
<1> QED
  BY <1>3, <1>4 DEF Substr, From, end

\* A name and a value are strings.
LEMMA PairType ==
  ASSUME NEW str \in Seq(Char), NEW first \in Nat, NEW stop \in Int
  PROVE  Pair(str, first, stop) \in Param
<1>1. Find(str, Equals) \in -1..(Len(str) - 1)
  BY FindRange, Equals \in Char DEF Equals, Char
<1> DEFINE equals == Find(str, Equals)
<1>2. equals + 1 \in Nat /\ equals - first \in Int /\ stop - equals - 1 \in Int
  BY <1>1
<1>3. /\ Substr(str, first, equals - first) \in Seq(Char)
      /\ Substr(str, equals + 1, stop - equals - 1) \in Seq(Char)
  BY <1>2, SubstrType
<1> QED
  BY <1>3 DEF Pair, Param

-----------------------------------------------------------------------------
(***************************************************************************)
(* Paths under the document root.                                          *)
(***************************************************************************)

\* What is left of a path that is cut behind its first character.
LEMMA CutUnderRoot ==
  ASSUME NEW str \in Seq(Char), UnderRoot(str),
         NEW c \in Char, c # Slash
  PROVE  LET cut == Substr(str, 0, Find(str, c))
         IN  /\ cut \in Seq(Char) /\ UnderRoot(cut)
             /\ Len(cut) \in Nat \ {0}
<1> DEFINE n == IF Find(str, c) = -1 THEN Len(str) ELSE Find(str, c)
           cut == SubSeq(str, 1, n)
<1>1. Len(str) \in Nat \ {0} /\ str[1] = Slash
  BY EmptySeq DEF UnderRoot
<1>2. /\ Find(str, c) \in -1..(Len(str) - 1)
      /\ Find(str, c) # -1 => str[Find(str, c) + 1] = c
  BY FindRange
<1>3. n \in 1..Len(str)
  BY <1>1, <1>2
<1>4. Substr(str, 0, Find(str, c)) = cut
  BY <1>1, <1>2 DEF Substr
<1> HIDE DEF n
<1>5. cut \in Seq(Char) /\ Len(cut) = n /\ \A k \in 1..n : cut[k] = str[k]
  <2>1. \A k \in 1..n : str[k] \in Char
    BY <1>3, ElementOfSeq
  <2> QED
    BY <1>1, <1>3, <2>1, SubSeqProperties
<1> HIDE DEF cut
<1>6. UnderRoot(cut)
  BY <1>1, <1>3, <1>5, EmptySeq DEF UnderRoot
<1> QED
  BY <1>3, <1>4, <1>5, <1>6

\* A directory with demo.json behind it.
LEMMA DirectoryUnderRoot ==
  ASSUME NEW str \in Seq(Char), UnderRoot(str), str[Len(str)] = Slash
  PROVE  str \o DemoJson \in Seq(Char) /\ UnderRoot(str \o DemoJson)
<1> DEFINE name == str \o DemoJson
<1>1. Len(str) \in Nat \ {0} /\ str[1] = Slash
  BY EmptySeq DEF UnderRoot
<1>2. DemoJson \in Seq(Char) /\ Len(DemoJson) = 9
  BY DEF DemoJson, Char
<1>3. ASSUME NEW k \in 1..8
      PROVE  ~(DemoJson[k] = Dot /\ DemoJson[k + 1] = Dot)
  <2>1. /\ DemoJson[1] # Dot /\ DemoJson[2] # Dot /\ DemoJson[3] # Dot
        /\ DemoJson[4] # Dot /\ DemoJson[6] # Dot /\ DemoJson[7] # Dot
        /\ DemoJson[8] # Dot /\ DemoJson[9] # Dot
    BY DEF DemoJson, Dot
  <2>2. k \in {1, 2, 3, 4, 5, 6, 7, 8}
    OBVIOUS
  <2> QED
    BY <2>1, <2>2
<1> HIDE DEF name
<1>4. /\ name \in Seq(Char) /\ Len(name) = Len(str) + Len(DemoJson)
      /\ \A k \in 1..(Len(str) + Len(DemoJson)) :
           name[k] = IF k <= Len(str) THEN str[k] ELSE DemoJson[k - Len(str)]
  BY <1>2, ConcatProperties DEF name
<1>5. name \in Seq(Char) /\ Len(name) = Len(str) + 9
  BY <1>2, <1>4
<1>6. ASSUME NEW k \in 1..Len(str)
      PROVE  name[k] = str[k]
  <2>1. k \in 1..(Len(str) + Len(DemoJson)) /\ k <= Len(str)
    BY <1>1, <1>2
  <2> QED
    BY <1>4, <2>1
<1>7. ASSUME NEW k \in 1..9
      PROVE  name[Len(str) + k] = DemoJson[k]
  <2>1. /\ Len(str) + k \in 1..(Len(str) + Len(DemoJson))
        /\ ~(Len(str) + k <= Len(str)) /\ (Len(str) + k) - Len(str) = k
    BY <1>1, <1>2
  <2>2. name[Len(str) + k] = DemoJson[(Len(str) + k) - Len(str)]
    BY <1>4, <2>1
  <2> QED
    BY <2>1, <2>2
<1>8. ASSUME NEW k \in 1..(Len(name) - 1)
      PROVE  ~(name[k] = Dot /\ name[k + 1] = Dot)
  <2>1. k \in 1..(Len(str) + 8)
    BY <1>1, <1>5
  <2>2. CASE k < Len(str)
    <3>1. k \in 1..(Len(str) - 1) /\ k \in 1..Len(str) /\ k + 1 \in 1..Len(str)
      BY <1>1, <2>1, <2>2
    <3>2. name[k] = str[k] /\ name[k + 1] = str[k + 1]
      BY <1>6, <3>1
    <3> QED
      BY <3>1, <3>2 DEF UnderRoot
  <2>3. CASE k = Len(str)
    <3>1. name[k] = Slash
      BY <1>1, <1>6, <2>3
    <3> QED
      BY <3>1 DEF Slash, Dot
  <2>4. CASE k > Len(str)
    <3>1. PICK l \in 1..8 : k = Len(str) + l
      <4>1. k - Len(str) \in 1..8 /\ k = Len(str) + (k - Len(str))
        BY <1>1, <2>1, <2>4
      <4> QED
        BY <4>1
    <3>2. l \in 1..9 /\ l + 1 \in 1..9 /\ k + 1 = Len(str) + (l + 1)
      BY <1>1, <3>1
    <3>3. name[k] = DemoJson[l] /\ name[k + 1] = DemoJson[l + 1]
      BY <1>7, <3>1, <3>2
    <3> QED
      BY <1>3, <3>3
  <2> QED
    BY <1>1, <2>1, <2>2, <2>3, <2>4
<1>9. name # <<>> /\ name[1] = Slash
  <2>1. Len(name) # 0 /\ 1 \in 1..Len(str)
    BY <1>1, <1>5
  <2> QED
    BY <1>1, <1>6, <2>1, EmptySeq
<1>10. UnderRoot(name)
  BY <1>8, <1>9 DEF UnderRoot
<1> QED
  BY <1>5, <1>10 DEF name

-----------------------------------------------------------------------------
(***************************************************************************)
(* One lemma per step of the handler.                                      *)
(***************************************************************************)

\* The separators are characters, and none is the slash.
LEMMA Separators ==
  /\ {Slash, Dot, Ampersand, Equals, Question, Space, 0} \subseteq Char
  /\ Question # Slash /\ 0 # Slash
BY DEF Slash, Dot, Ampersand, Equals, Question, Space, Char

\* A turn of the loop of url_decode adds a character.
LEMMA DecodeKeeps ==
  ASSUME IInv, Decode
  PROVE  IInv'
<1>1. ASSUME NEW c \in Char, path' = Append(path, c), i' \in 0..Len(uri),
             pc = "decoding", UNCHANGED <<uri, pc, rest, params, file>>
      PROVE  IInv'
  <2>1. path' \in Seq(Char)
    BY <1>1, AppendProperties DEF IInv, TypeOK
  <2> QED
    BY <1>1, <2>1 DEF IInv, TypeOK, PathChecked, OpenedUnderRoot, NeverThrows
<1>2. i \in Nat /\ Len(uri) \in Nat /\ i <= Len(uri)
  BY DEF IInv, TypeOK
<1>3. CASE DecodeEscape
  <2>1. PICK n \in Escape : path' = Append(path, ToChar(n))
    BY <1>3 DEF DecodeEscape
  <2>2. i + 3 <= Len(uri)
    BY <2>1 DEF Escape
  <2>3. n \in Int
    <3>1. \A c \in HexDigit : HexValue(c) \in Int
      BY DEF HexDigit, HexValue
    <3>2. n \in HexNumber(uri[i + 2], uri[i + 3])
      BY <2>1, <2>2 DEF Escape
    <3> QED
      BY <3>1, <3>2 DEF HexNumber
  <2>4. ToChar(n) \in Char
    BY <2>3 DEF ToChar, Char
  <2> QED
    BY <1>1, <1>2, <1>3, <2>1, <2>2, <2>4 DEF DecodeEscape
<1>4. CASE DecodePlus
  BY <1>1, <1>2, <1>4, Separators DEF DecodePlus, At
<1>5. CASE Copy
  <2>1. uri[i + 1] \in Char
    BY <1>2, <1>5, ElementOfSeq DEF IInv, TypeOK, Copy
  <2> QED
    BY <1>1, <1>2, <1>5, <2>1 DEF Copy
<1>6. CASE RefuseEscape \/ Refuse
  BY <1>6 DEF RefuseEscape, Refuse, IInv, TypeOK, PathChecked, OpenedUnderRoot,
              NeverThrows
<1> QED
  BY <1>3, <1>4, <1>5, <1>6 DEF Decode

\* A step of record2map takes names and values from within its string.
LEMMA ReadQueryKeeps ==
  ASSUME IInv, ReadQuery
  PROVE  IInv'
<1>1. ASSUME NEW p \in Param, params' = Insert(params, p), rest' \in Seq(Char),
             UnderRoot(path), pc' \in {"pairing", "naming"},
             UNCHANGED <<uri, i, path, file>>
      PROVE  IInv'
  BY <1>1 DEF Insert, IInv, TypeOK, PathChecked, OpenedUnderRoot, NeverThrows
<1>2. ASSUME NEW str \in Seq(Char), NEW c \in Char
      PROVE  Find(str, c) + 1 \in Nat /\ Find(str, c) + 1 <= Len(str)
  BY <1>2, FindRange
<1>3. /\ path \in Seq(Char) /\ Len(path) \in Nat
      /\ rest \in Seq(Char) /\ Len(rest) \in Nat
  BY LenProperties DEF IInv, TypeOK
<1>4. CASE FirstPair
  <2> DEFINE first == Find(path, Question) + 1
             next == Find(path, Ampersand)
  <2>1. /\ first \in Nat /\ first <= Len(path)
        /\ next + 1 \in Nat /\ next + 1 <= Len(path) /\ next \in Int
        /\ Find(path, Equals) + 1 \in Nat /\ Find(path, Equals) + 1 <= Len(path)
    BY <1>2, <1>3, Separators, FindRange
  <2>2. Pair(path, first, next) \in Param /\ From(path, next + 1) \in Seq(Char)
    BY <1>3, <2>1, PairType, SubstrType
  <2>3. /\ params' = Insert(params, Pair(path, first, next))
        /\ rest' = From(path, next + 1)
        /\ Goes(path, {first, Find(path, Equals) + 1, next + 1}, "pairing")
        /\ Accepted /\ UNCHANGED <<uri, i, path, file>>
    BY <1>4 DEF FirstPair
  <2> HIDE DEF first, next
  <2>4. pc' = "pairing"
    BY <1>3, <2>1, <2>3 DEF Goes
  <2> QED
    BY <1>1, <2>2, <2>3, <2>4 DEF Accepted
<1>5. CASE NextPair
  <2> DEFINE next == Find(rest, Ampersand)
  <2>1. /\ next + 1 \in Nat /\ next + 1 <= Len(rest) /\ next \in Int
        /\ Find(rest, Equals) + 1 \in Nat /\ Find(rest, Equals) + 1 <= Len(rest)
    BY <1>2, <1>3, Separators, FindRange
  <2>2. Pair(rest, 0, next) \in Param /\ From(rest, next + 1) \in Seq(Char)
    BY <1>3, <2>1, PairType, SubstrType
  <2>3. /\ params' = Insert(params, Pair(rest, 0, next))
        /\ rest' = From(rest, next + 1)
        /\ Goes(rest, {Find(rest, Equals) + 1, next + 1}, "pairing")
        /\ pc = "pairing" /\ UNCHANGED <<uri, i, path, file>>
    BY <1>5 DEF NextPair
  <2> HIDE DEF next
  <2>4. pc' = "pairing"
    BY <1>3, <2>1, <2>3 DEF Goes
  <2> QED
    BY <1>1, <2>2, <2>3, <2>4 DEF IInv, PathChecked
<1>6. CASE LastPair
  <2>1. /\ Pair(rest, 0, Len(rest)) \in Param
        /\ Find(rest, Equals) + 1 \in Nat /\ Find(rest, Equals) + 1 <= Len(rest)
    BY <1>2, <1>3, Separators, PairType, LenProperties
  <2>2. /\ params' = Insert(params, Pair(rest, 0, Len(rest)))
        /\ Goes(rest, {Find(rest, Equals) + 1}, "naming")
        /\ pc = "pairing" /\ UNCHANGED <<uri, i, path, rest, file>>
    BY <1>6 DEF LastPair
  <2>3. pc' = "naming"
    BY <1>3, <2>1, <2>2 DEF Goes
  <2> QED
    BY <1>1, <1>3, <2>1, <2>2, <2>3 DEF IInv, PathChecked
<1>7. CASE OnlyPair
  <2> DEFINE first == Find(path, Question) + 1
  <2>1. /\ first \in Nat /\ first <= Len(path)
        /\ Find(path, Equals) + 1 \in Nat /\ Find(path, Equals) + 1 <= Len(path)
    BY <1>2, <1>3, Separators
  <2>2. Pair(path, first, Len(path)) \in Param
    BY <1>3, <2>1, PairType, LenProperties
  <2>3. /\ params' = Insert(params, Pair(path, first, Len(path)))
        /\ Goes(path, {first, Find(path, Equals) + 1}, "naming")
        /\ Accepted /\ UNCHANGED <<uri, i, path, rest, file>>
    BY <1>7 DEF OnlyPair
  <2> HIDE DEF first
  <2>4. pc' = "naming"
    BY <1>3, <2>1, <2>3 DEF Goes
  <2> QED
    BY <1>1, <1>3, <2>2, <2>3, <2>4 DEF Accepted
<1>8. CASE NoPair
  BY <1>8 DEF NoPair, Accepted, IInv, TypeOK, PathChecked, OpenedUnderRoot, NeverThrows
<1> QED
  BY <1>4, <1>5, <1>6, <1>7, <1>8 DEF ReadQuery

\* The name that is opened comes from the checked path.
LEMMA OpenKeeps ==
  ASSUME IInv, Open
  PROVE  IInv'
<1> DEFINE cut == Substr(path, 0, Find(path, Question))
<1>1. path \in Seq(Char) /\ UnderRoot(path)
  BY DEF IInv, TypeOK, PathChecked, Open
<1>2. cut \in Seq(Char) /\ UnderRoot(cut)
  BY <1>1, Separators, CutUnderRoot
<1>3. Named \in Seq(Char) /\ UnderRoot(Named)
  <2>1. Named = IF cut[Len(cut)] = Slash THEN cut \o DemoJson ELSE cut
    BY DEF Named
  <2> HIDE DEF cut
  <2> QED
    BY <1>2, <2>1, DirectoryUnderRoot
<1>4. file'.name \in Seq(Char) /\ UnderRoot(file'.name)
  BY <1>3, Separators, CutUnderRoot DEF Open
<1>5. file'.type \in MimeType
  <2>1. file'.type = TypeOf(ExtensionOf(Named))
    BY DEF Open
  <2>2. ASSUME NEW extension
        PROVE  TypeOf(extension) \in MimeType
    <3>1. CASE \E m \in Mappings : m.extension = extension
      <4>1. (CHOOSE m \in Mappings : m.extension = extension) \in Mappings
        BY <3>1
      <4> QED
        BY <3>1, <4>1 DEF TypeOf, MimeType
    <3> QED
      BY <3>1 DEF TypeOf, MimeType
  <2> QED
    BY <2>1, <2>2
<1> QED
  BY <1>4, <1>5 DEF Open, IInv, TypeOK, PathChecked, OpenedUnderRoot, NeverThrows

-----------------------------------------------------------------------------
(***************************************************************************)
(* The invariant.                                                          *)
(***************************************************************************)

\* It holds at the start.
LEMMA InitIInv == Init => IInv
<1> SUFFICES ASSUME Init PROVE IInv
  OBVIOUS
<1>1. uri \in Seq(Char) /\ Len(uri) \in Nat
  BY TargetAssumption, LenProperties DEF Init
<1> QED
  BY <1>1, EmptySeq DEF Init, NoFile, IInv, TypeOK, PathChecked, OpenedUnderRoot,
                        NeverThrows

\* Every step keeps it.
LEMMA NextIInv == IInv /\ [Next]_vars => IInv'
<1>1. IInv /\ UNCHANGED vars => IInv'
  BY DEF vars, IInv, TypeOK, PathChecked, OpenedUnderRoot, NeverThrows
<1> QED
  BY <1>1, DecodeKeeps, ReadQueryKeeps, OpenKeeps DEF Next

\* The inductive invariant holds of every reachable state.
THEOREM TargetInvariant == Spec => []IInv
BY InitIInv, NextIInv, PTL DEF Spec

\* Strings are made of octets, whatever number an escape stands for
\* (request_handler.cpp:319-323).
THEOREM TargetTypeCorrect == Spec => []TypeOK
BY TargetInvariant, PTL DEF IInv

\* record2map hands no position beyond the end of a string to substr, for any
\* path whatsoever (request_handler.cpp:49-77).
THEOREM RecordNeverThrows == Spec => []NeverThrows
BY TargetInvariant, PTL DEF IInv

\* The file that is opened is under the document root, for any URI
\* (request_handler.cpp:237-290).
THEOREM FileUnderRoot == Spec => []OpenedUnderRoot
BY TargetInvariant, PTL DEF IInv

-----------------------------------------------------------------------------
(***************************************************************************)
(* The type of the file.                                                   *)
(***************************************************************************)

\* A suffix, by its positions.
LEMMA SuffixIs ==
  ASSUME NEW s \in Seq(Char), NEW t \in Seq(Char)
  PROVE  IsSuffix(s, t) <=> /\ Len(s) <= Len(t)
                            /\ \A k \in 1..Len(s) : t[Len(t) - Len(s) + k] = s[k]
<1> DEFINE n == Len(s)
           l == Len(t)
<1>1. n \in Nat /\ l \in Nat
  OBVIOUS
<1> HIDE DEF n, l
<1>2. /\ Reverse(s) = [k \in 1..n |-> s[(n - k) + 1]]
      /\ Reverse(t) = [k \in 1..l |-> t[(l - k) + 1]]
  BY DEF Reverse, n, l
<1>3. \A k \in 1..n : s[k] \in Char
  BY ElementOfSeq DEF n
<1>4. \A k \in 1..l : t[k] \in Char
  BY ElementOfSeq DEF l
<1>5. Reverse(s) \in Seq(Char) /\ Len(Reverse(s)) = n
  BY <1>1, <1>2, <1>3
<1>6. Reverse(t) \in Seq(Char) /\ Len(Reverse(t)) = l
  BY <1>1, <1>2, <1>4
<1>7. CASE n <= l
  <2> DEFINE a == SubSeq(Reverse(s), 1, n)
             b == SubSeq(Reverse(t), 1, n)
  <2>1. \A k \in 1..n : Reverse(s)[k] = s[(n - k) + 1] /\ Reverse(s)[k] \in Char
    BY <1>1, <1>2, <1>3
  <2>2. \A k \in 1..n : Reverse(t)[k] = t[(l - k) + 1] /\ Reverse(t)[k] \in Char
    BY <1>1, <1>2, <1>4, <1>7
  <2>3. a \in Seq(Char) /\ Len(a) = n /\ \A k \in 1..n : a[k] = s[(n - k) + 1]
    <3>1. /\ a \in Seq(Char) /\ Len(a) = IF 1 <= n THEN n - 1 + 1 ELSE 0
          /\ \A k \in 1..(n - 1 + 1) : a[k] = Reverse(s)[1 + k - 1]
      BY <1>1, <2>1, SubSeqProperties
    <3> QED
      BY <1>1, <2>1, <3>1
  <2>4. b \in Seq(Char) /\ Len(b) = n /\ \A k \in 1..n : b[k] = t[(l - k) + 1]
    <3>1. /\ b \in Seq(Char) /\ Len(b) = IF 1 <= n THEN n - 1 + 1 ELSE 0
          /\ \A k \in 1..(n - 1 + 1) : b[k] = Reverse(t)[1 + k - 1]
      BY <1>1, <2>2, SubSeqProperties
    <3> QED
      BY <1>1, <2>2, <3>1
  <2>5. IsSuffix(s, t) <=> a = b
    BY <1>5, <1>6, <1>7 DEF IsSuffix, IsPrefix
  <2> HIDE DEF a, b
  <2>6. a = b <=> \A k \in 1..n : a[k] = b[k]
    BY <2>3, <2>4, SeqEqual
  <2>7. ASSUME \A k \in 1..n : a[k] = b[k], NEW k \in 1..n
        PROVE  t[l - n + k] = s[k]
    <3>1. (n - k) + 1 \in 1..n /\ (n - ((n - k) + 1)) + 1 = k
          /\ (l - ((n - k) + 1)) + 1 = l - n + k
      BY <1>1
    <3> QED
      BY <2>3, <2>4, <2>7, <3>1
  <2>8. ASSUME \A k \in 1..n : t[l - n + k] = s[k], NEW k \in 1..n
        PROVE  a[k] = b[k]
    <3>1. (n - k) + 1 \in 1..n /\ l - n + ((n - k) + 1) = (l - k) + 1
      BY <1>1
    <3> QED
      BY <2>3, <2>4, <2>8, <3>1
  <2> QED
    BY <1>7, <2>5, <2>6, <2>7, <2>8 DEF n, l
<1>8. CASE ~(n <= l)
  BY <1>5, <1>6, <1>8 DEF IsSuffix, IsPrefix, n, l
<1> QED
  BY <1>7, <1>8

\* The extensions of the table are words.
LEMMA ExtensionsAreWords ==
  ASSUME NEW m \in Mappings
  PROVE  /\ m.extension \in Seq(Char) /\ Len(m.extension) \in Nat \ {0}
         /\ \A k \in 1..Len(m.extension) : m.extension[k] \notin {Dot, Slash}
<1> DEFINE e == m.extension
<1>1. e \in {<<103, 105, 102>>, <<104, 116, 109>>, <<104, 116, 109, 108>>,
             <<106, 112, 103>>, <<112, 110, 103>>}
  BY DEF Mappings
<1> HIDE DEF e
<1> DEFINE Word(w) == /\ w \in Seq(Char) /\ Len(w) \in Nat \ {0}
                      /\ \A k \in 1..Len(w) : w[k] \notin {Dot, Slash}
<1>2. ASSUME NEW a \in 97..122, NEW b \in 97..122, NEW c \in 97..122
      PROVE  Word(<<a, b, c>>)
  <2>1. {a, b, c} \subseteq Char /\ Dot \notin {a, b, c} /\ Slash \notin {a, b, c}
    BY DEF Char, Dot, Slash
  <2>2. <<a, b, c>> \in Seq(Char) /\ Len(<<a, b, c>>) = 3
    BY <2>1
  <2>3. \A k \in 1..3 : <<a, b, c>>[k] \in {a, b, c}
    OBVIOUS
  <2> QED
    BY <2>1, <2>2, <2>3
<1>3. Word(<<104, 116, 109, 108>>)
  <2> DEFINE h == <<104, 116, 109, 108>>
  <2>1. h \in Seq(Char) /\ Len(h) = 4
    BY DEF Char
  <2>2. \A k \in 1..4 : h[k] \in {104, 116, 109, 108}
    OBVIOUS
  <2>3. Dot \notin {104, 116, 109, 108} /\ Slash \notin {104, 116, 109, 108}
    BY DEF Dot, Slash
  <2> QED
    BY <2>1, <2>2, <2>3
<1> HIDE DEF Word
<1>4. /\ Word(<<103, 105, 102>>) /\ Word(<<104, 116, 109>>)
      /\ Word(<<106, 112, 103>>) /\ Word(<<112, 110, 103>>)
  <2> DEFINE L == 97..122
  <2>1. {102, 103, 104, 105, 106, 109, 110, 112, 116} \subseteq L
    OBVIOUS
  <2>2. \A a, b, c \in L : Word(<<a, b, c>>)
    BY <1>2
  <2> HIDE DEF L
  <2>3. Word(<<103, 105, 102>>) /\ Word(<<104, 116, 109>>)
    BY <2>1, <2>2, Zenon
  <2>4. Word(<<106, 112, 103>>) /\ Word(<<112, 110, 103>>)
    BY <2>1, <2>2, Zenon
  <2> QED
    BY <2>3, <2>4
<1>5. Word(e)
  BY <1>1, <1>3, <1>4
<1> QED
  BY <1>5 DEF e, Word

\* What the code finds behind the last dot is an extension of the table
\* exactly if the name ends in it.
LEMMA ExtensionFits ==
  ASSUME NEW name \in Seq(Char), NEW m \in Mappings
  PROVE  m.extension = ExtensionOf(name) <=> IsSuffix(<<Dot>> \o m.extension, name)
<1> DEFINE e == m.extension
           w == <<Dot>> \o e
           n == Len(name)
           x == Len(e)
           d == FindLast(name, Dot)
           l == FindLast(name, Slash)
<1>1. /\ e \in Seq(Char) /\ x \in Nat \ {0} /\ n \in Nat
      /\ \A k \in 1..x : e[k] # Dot /\ e[k] # Slash
  BY ExtensionsAreWords, LenProperties
<1>2. Dot \in Char /\ Slash \in Char /\ Dot # Slash
  BY DEF Dot, Slash, Char
<1>3. /\ d \in -1..(n - 1)
      /\ d = -1 => \A k \in 1..n : name[k] # Dot
      /\ d # -1 => name[d + 1] = Dot /\ \A k \in (d + 2)..n : name[k] # Dot
      /\ l \in -1..(n - 1)
      /\ l # -1 => name[l + 1] = Slash
      /\ \A k \in (l + 2)..n : name[k] # Slash
  <2>1. /\ d \in -1..(n - 1)
        /\ IF d = -1 THEN \A k \in 1..n : name[k] # Dot
           ELSE /\ name[d + 1] = Dot
                /\ \A k \in (d + 2)..n : name[k] # Dot
    BY <1>2, FindRange
  <2>2. /\ l \in -1..(n - 1)
        /\ IF l = -1 THEN \A k \in 1..n : name[k] # Slash
           ELSE /\ name[l + 1] = Slash
                /\ \A k \in (l + 2)..n : name[k] # Slash
    BY <1>2, FindRange
  <2> HIDE DEF d, l, n
  <2>3. \A k \in (l + 2)..n : name[k] # Slash
    BY <1>1, <2>2
  <2> QED
    BY <2>1, <2>2, <2>3
<1>4. /\ w \in Seq(Char) /\ Len(w) = x + 1 /\ w[1] = Dot
      /\ \A k \in 1..x : w[k + 1] = e[k]
  <2>1. <<Dot>> \in Seq(Char) /\ Len(<<Dot>>) = 1 /\ <<Dot>>[1] = Dot
    BY <1>2
  <2>2. /\ w \in Seq(Char) /\ Len(w) = Len(<<Dot>>) + x
        /\ \A k \in 1..(Len(<<Dot>>) + x) :
             w[k] = IF k <= Len(<<Dot>>) THEN <<Dot>>[k] ELSE e[k - Len(<<Dot>>)]
    BY <1>1, <2>1, ConcatProperties
  <2> HIDE DEF w, e
  <2> QED
    BY <1>1, <2>1, <2>2
<1>5. IsSuffix(w, name) <=> /\ x + 1 <= n
                            /\ \A k \in 1..(x + 1) : name[n - (x + 1) + k] = w[k]
  <2> HIDE DEF w
  <2>1. IsSuffix(w, name) <=> /\ Len(w) <= Len(name)
                              /\ \A k \in 1..Len(w) :
                                   name[Len(name) - Len(w) + k] = w[k]
    BY <1>4, SuffixIs
  <2> QED
    BY <1>4, <2>1
<1> DEFINE Fits == /\ x + 1 <= n /\ name[n - x] = Dot
                   /\ \A k \in 1..x : name[n - x + k] = e[k]
<1> HIDE DEF w
<1>6. IsSuffix(w, name) <=> Fits
  <2> HIDE DEF e, n, x
  <2>1. ASSUME x + 1 <= n, \A k \in 1..(x + 1) : name[n - (x + 1) + k] = w[k]
        PROVE  Fits
    <3>1. 1 \in 1..(x + 1) /\ n - (x + 1) + 1 = n - x
      BY <1>1
    <3>2. ASSUME NEW k \in 1..x PROVE name[n - x + k] = e[k]
      <4>1. k + 1 \in 1..(x + 1) /\ n - (x + 1) + (k + 1) = n - x + k
        BY <1>1
      <4> QED
        BY <1>4, <2>1, <4>1
    <3> QED
      BY <1>4, <2>1, <3>1, <3>2
  <2>2. ASSUME Fits, NEW k \in 1..(x + 1)
        PROVE  name[n - (x + 1) + k] = w[k]
    <3>1. CASE k = 1
      <4>1. n - (x + 1) + 1 = n - x
        BY <1>1
      <4> QED
        BY <1>4, <2>2, <3>1, <4>1
    <3>2. CASE k # 1
      <4>1. k - 1 \in 1..x /\ (k - 1) + 1 = k /\ n - (x + 1) + k = n - x + (k - 1)
        BY <1>1, <3>2
      <4> QED
        BY <1>4, <2>2, <4>1
    <3> QED
      BY <3>1, <3>2
  <2> QED
    BY <1>5, <2>1, <2>2
<1> DEFINE found == SubSeq(name, d + 2, n)
<1>7. d > l => ExtensionOf(name) = found
  <2>1. (d + 1) + 1 = d + 2
    BY <1>3
  <2> QED
    BY <2>1 DEF ExtensionOf, From
<1>8. ~(d > l) => ExtensionOf(name) = <<>>
  BY DEF ExtensionOf
<1>9. d > l => /\ found \in Seq(Char) /\ Len(found) = n - d - 1
               /\ \A k \in 1..(n - d - 1) : found[k] = name[d + 1 + k]
  <2> SUFFICES ASSUME d > l
               PROVE  /\ found \in Seq(Char) /\ Len(found) = n - d - 1
                      /\ \A k \in 1..(n - d - 1) : found[k] = name[d + 1 + k]
    OBVIOUS
  <2> HIDE DEF d
  <2>1. \A k \in (d + 2)..n : name[k] \in Char
    BY <1>1, <1>3, ElementOfSeq
  <2>2. /\ found \in Seq(Char)
        /\ Len(found) = IF d + 2 <= n THEN n - (d + 2) + 1 ELSE 0
        /\ \A k \in 1..(n - (d + 2) + 1) : found[k] = name[d + 2 + k - 1]
    <3>1. d + 2 \in Int /\ n \in Int
      BY <1>1, <1>3
    <3> QED
      BY <2>1, <3>1, SubSeqProperties
  <2> HIDE DEF found, d, n
  <2> QED
    BY <1>1, <1>3, <2>2
<1> HIDE DEF found, d, l, e, n, x
<1>10. ASSUME e = ExtensionOf(name) PROVE Fits
  <2>1. d > l
    <3>1. x # 0 /\ Len(<<>>) = 0
      BY <1>1
    <3> QED
      BY <1>8, <1>10, <3>1 DEF x
  <2>2. e = found /\ x = n - d - 1 /\ \A k \in 1..x : e[k] = name[d + 1 + k]
    BY <1>7, <1>9, <1>10, <2>1 DEF x
  <2>3. d # -1 /\ n - x = d + 1 /\ x + 1 <= n
    BY <1>1, <1>3, <2>1, <2>2
  <2> QED
    BY <1>1, <1>3, <2>2, <2>3
<1>11. ASSUME Fits PROVE e = ExtensionOf(name)
  <2>1. n - x \in 1..n
    BY <1>1, <1>11
  <2>2. ASSUME NEW k \in (n - x + 1)..n
        PROVE  name[k] # Dot /\ name[k] # Slash
    <3>1. k - (n - x) \in 1..x /\ n - x + (k - (n - x)) = k
      BY <1>1
    <3> QED
      BY <1>1, <1>11, <3>1
  <2>3. d + 1 = n - x
    <3>1. d # -1
      BY <1>3, <1>11, <2>1
    <3>2. ~(d + 1 > n - x)
      <4> SUFFICES ASSUME d + 1 > n - x PROVE FALSE
        OBVIOUS
      <4>1. d + 1 \in (n - x + 1)..n
        BY <1>1, <1>3
      <4> QED
        BY <1>3, <2>2, <3>1, <4>1
    <3>3. ~(d + 1 < n - x)
      <4> SUFFICES ASSUME d + 1 < n - x PROVE FALSE
        OBVIOUS
      <4>1. n - x \in (d + 2)..n
        BY <1>1, <1>3, <2>1
      <4> QED
        BY <1>3, <1>11, <3>1, <4>1
    <3> QED
      BY <1>1, <1>3, <3>2, <3>3
  <2>4. d > l
    <3> SUFFICES ASSUME ~(d > l) PROVE FALSE
      OBVIOUS
    <3>1. l # -1 /\ l + 1 \in (n - x)..n
      BY <1>1, <1>3, <2>1, <2>3
    <3>2. name[l + 1] = Slash
      BY <1>3, <3>1
    <3>3. l + 1 # n - x
      BY <1>2, <1>11, <3>2
    <3>4. l + 1 \in (n - x + 1)..n
      BY <1>1, <3>1, <3>3
    <3> QED
      BY <2>2, <3>2, <3>4
  <2>5. n - d - 1 = x /\ \A k \in 1..x : d + 1 + k = n - x + k
    BY <1>1, <1>3, <2>3
  <2>6. found = e
    <3>1. found \in Seq(Char) /\ Len(found) = x
      BY <1>9, <2>4, <2>5
    <3>2. \A k \in 1..x : found[k] = e[k]
      BY <1>9, <1>11, <2>4, <2>5
    <3> QED
      BY <1>1, <3>1, <3>2, SeqEqual DEF x
  <2> QED
    BY <1>7, <2>4, <2>6
<1> QED
  BY <1>6, <1>10, <1>11 DEF e, w

\* The type that the table gives for what is behind the last dot.
LEMMA TypeFits ==
  ASSUME NEW name \in Seq(Char)
  PROVE  TypeOf(ExtensionOf(name)) =
           IF \E m \in Mappings : IsSuffix(<<Dot>> \o m.extension, name)
           THEN (CHOOSE m \in Mappings :
                   IsSuffix(<<Dot>> \o m.extension, name)).mime_type
           ELSE "text/plain"
<1> DEFINE byCode == {m \in Mappings : m.extension = ExtensionOf(name)}
           byName == {m \in Mappings : IsSuffix(<<Dot>> \o m.extension, name)}
<1>1. \A m \in Mappings : m.extension = ExtensionOf(name)
                            <=> IsSuffix(<<Dot>> \o m.extension, name)
  BY ExtensionFits
<1>2. (CHOOSE m \in Mappings : m.extension = ExtensionOf(name))
        = CHOOSE m \in Mappings : IsSuffix(<<Dot>> \o m.extension, name)
  BY <1>1
<1>3. (\E m \in Mappings : m.extension = ExtensionOf(name))
        <=> \E m \in Mappings : IsSuffix(<<Dot>> \o m.extension, name)
  BY <1>1
<1> QED
  BY <1>2, <1>3 DEF TypeOf

\* A file that is open goes by the name that was made of the path.
OpenedAsNamed ==
  pc = "opened" => file = [name |-> Substr(Named, 0, Find(Named, 0)),
                           type |-> TypeOf(ExtensionOf(Named))]

\* No step but Open opens a file, and none follows it.
LEMMA OpenedAsNamedKept ==
  ASSUME OpenedAsNamed, [Next]_vars
  PROVE  OpenedAsNamed'
<1>1. CASE Open
  <2>1. Named' = Named
    BY <1>1 DEF Open, Named
  <2> QED
    BY <1>1, <2>1 DEF Open, OpenedAsNamed
<1>2. CASE Decode \/ ReadQuery
  <2>1. pc' # "opened"
    BY <1>2 DEF Decode, DecodeEscape, RefuseEscape, DecodePlus, Copy, Refuse,
                ReadQuery, FirstPair, NextPair, LastPair, OnlyPair, NoPair, Goes
  <2> QED
    BY <2>1 DEF OpenedAsNamed
<1>3. CASE UNCHANGED vars
  BY <1>3 DEF vars, OpenedAsNamed, Named
<1> QED
  BY <1>1, <1>2, <1>3 DEF Next

\* A name without a zero is opened whole.
LEMMA OpenedWhole ==
  ASSUME path \in Seq(Char), UnderRoot(path), ~Contains(path, 0)
  PROVE  Named \in Seq(Char) /\ Substr(Named, 0, Find(Named, 0)) = Named
<1> DEFINE cut == Substr(path, 0, Find(path, Question))
           NoZero(s) == \A k \in 1..Len(s) : s[k] # 0
<1>1. cut \in Seq(Char) /\ UnderRoot(cut) /\ Len(cut) \in Nat \ {0}
  BY Separators, CutUnderRoot
<1>2. NoZero(cut)
  <2> DEFINE q == Find(path, Question)
             end == IF q < 0 \/ 0 + q > Len(path) THEN Len(path) ELSE 0 + q
  <2>1. q \in -1..(Len(path) - 1) /\ Len(path) \in Nat
    BY Separators, FindRange, LenProperties
  <2>2. cut = SubSeq(path, 0 + 1, end)
    BY DEF Substr
  <2> HIDE DEF q, cut
  <2>3. end \in 0..Len(path)
    BY <2>1
  <2> HIDE DEF end
  <2>4. \A k \in (0 + 1)..end : path[k] \in Char
    BY <2>1, <2>3, ElementOfSeq
  <2>5. /\ Len(cut) = IF 0 + 1 <= end THEN end - (0 + 1) + 1 ELSE 0
        /\ \A k \in 1..(end - (0 + 1) + 1) : cut[k] = path[0 + 1 + k - 1]
    BY <2>1, <2>2, <2>3, <2>4, SubSeqProperties
  <2>6. \A k \in 1..Len(path) : path[k] # 0
    BY DEF Contains
  <2> QED
    BY <2>1, <2>3, <2>5, <2>6
<1>3. DemoJson \in Seq(Char) /\ NoZero(DemoJson)
  <2>1. DemoJson \in Seq(Char) /\ Len(DemoJson) = 9
    BY DEF DemoJson, Char
  <2>2. \A k \in 1..9 : DemoJson[k] # 0
    BY DEF DemoJson
  <2> QED
    BY <2>1, <2>2
<1>4. Named = IF cut[Len(cut)] = Slash THEN cut \o DemoJson ELSE cut
  BY DEF Named
<1> HIDE DEF cut
<1>5. cut \o DemoJson \in Seq(Char) /\ NoZero(cut \o DemoJson)
  <2>1. /\ cut \o DemoJson \in Seq(Char)
        /\ Len(cut \o DemoJson) = Len(cut) + Len(DemoJson)
        /\ \A k \in 1..(Len(cut) + Len(DemoJson)) :
             (cut \o DemoJson)[k] = IF k <= Len(cut) THEN cut[k]
                                    ELSE DemoJson[k - Len(cut)]
    BY <1>1, <1>3, ConcatProperties
  <2>2. Len(cut) \in Nat /\ Len(DemoJson) \in Nat
    BY <1>1, <1>3, LenProperties
  <2>3. ASSUME NEW k \in 1..(Len(cut) + Len(DemoJson))
        PROVE  (cut \o DemoJson)[k] # 0
    <3>1. CASE k <= Len(cut)
      BY <1>2, <2>1, <2>2, <2>3, <3>1
    <3>2. CASE ~(k <= Len(cut))
      <4>1. k - Len(cut) \in 1..Len(DemoJson)
        BY <2>2, <3>2
      <4> QED
        BY <1>3, <2>1, <2>3, <3>2, <4>1
    <3> QED
      BY <3>1, <3>2
  <2> QED
    BY <2>1, <2>3
<1>6. Named \in Seq(Char) /\ NoZero(Named)
  BY <1>1, <1>2, <1>4, <1>5
<1>7. Find(Named, 0) = -1
  <2>1. /\ Find(Named, 0) \in -1..(Len(Named) - 1)
        /\ Find(Named, 0) # -1 => Named[Find(Named, 0) + 1] = 0
    <3>1. 0 \in Char
      BY Separators
    <3> QED
      BY <1>6, <3>1, FindRange
  <2>2. Len(Named) \in Nat
    BY <1>6, LenProperties
  <2> QED
    BY <1>6, <2>1, <2>2
<1>8. SubSeq(Named, 1, Len(Named)) = Named
  BY <1>6
<1>9. Substr(Named, 0, -1) = SubSeq(Named, 0 + 1, Len(Named))
  BY DEF Substr
<1> QED
  BY <1>6, <1>7, <1>8, <1>9

\* The type of the reply goes with the end of the name, for every URI
\* (request_handler.cpp:279-286, :305).
THEOREM TypeGoesWithName == Spec => []TypeFitsName
<1>1. Init => OpenedAsNamed
  BY DEF Init, OpenedAsNamed
<1>2. OpenedAsNamed /\ [Next]_vars => OpenedAsNamed'
  BY OpenedAsNamedKept
<1>3. IInv /\ OpenedAsNamed => TypeFitsName
  <2> SUFFICES ASSUME IInv, OpenedAsNamed, pc = "opened", ~Contains(path, 0)
               PROVE  TypeFitsName
    BY DEF TypeFitsName
  <2>1. path \in Seq(Char) /\ UnderRoot(path)
    BY DEF IInv, TypeOK, PathChecked
  <2>2. Named \in Seq(Char) /\ file.name = Named /\ file.type = TypeOf(ExtensionOf(Named))
    BY <2>1, OpenedWhole DEF OpenedAsNamed
  <2>3. TypeOf(ExtensionOf(Named)) =
          IF \E m \in Mappings : IsSuffix(<<Dot>> \o m.extension, Named)
          THEN (CHOOSE m \in Mappings :
                  IsSuffix(<<Dot>> \o m.extension, Named)).mime_type
          ELSE "text/plain"
    BY <2>2, TypeFits
  <2> QED
    BY <2>2, <2>3 DEF TypeFitsName
<1> QED
  BY <1>1, <1>2, <1>3, TargetInvariant, PTL DEF Spec

-----------------------------------------------------------------------------
(***************************************************************************)
(* The decoding.                                                           *)
(***************************************************************************)

\* What the k-th character adds to the meaning of those before it.
Added(before, str, k) ==
  CASE Begins(str, k - 2) ->
         Append(before, 16 * HexValue(str[k - 1]) + HexValue(str[k]))
    [] Begins(str, k - 1) \/ Begins(str, k) -> before
    [] str[k] = Plus -> Append(before, Space)
    [] OTHER -> Append(before, str[k])

WithLast(before, str) == Added(before, str, Len(str))

\* Meaning is the function that its definition describes.
LEMMA MeaningIs ==
  /\ Meaning[<<>>] = <<>>
  /\ \A str \in Seq(Char) : str # <<>> =>
       Meaning[str] = WithLast(Meaning[SubSeq(str, 1, Len(str) - 1)], str)
<1> DEFINE Value == Char \cup {16 * HexValue(p[1]) + HexValue(p[2]) : p \in Char \X Char}
           step == [x \in Seq(Value) \X Seq(Char) |->
                      IF x[2] = <<>> THEN <<>> ELSE WithLast(x[1], x[2])]
           Is(f) == f = [str \in Seq(Char) |->
                           IF str = <<>> THEN <<>>
                           ELSE WithLast(f[SubSeq(str, 1, Len(str) - 1)], str)]
<1>1. ASSUME NEW before \in Seq(Value), NEW str \in Seq(Char), str # <<>>
      PROVE  WithLast(before, str) \in Seq(Value)
  <2> DEFINE n == Len(str)
  <2>1. n \in Nat \ {0} /\ \A k \in 1..n : str[k] \in Char
    BY <1>1, EmptySeq, ElementOfSeq
  <2> HIDE DEF n
  <2>2. str[n] \in Value /\ Space \in Value
    BY <2>1 DEF Space, Char
  <2>3. Begins(str, n - 2) => 16 * HexValue(str[n - 1]) + HexValue(str[n]) \in Value
    <3> SUFFICES ASSUME n - 2 \in 1..n
                 PROVE  16 * HexValue(str[n - 1]) + HexValue(str[n]) \in Value
      BY DEF Begins, n
    <3>1. <<str[n - 1], str[n]>> \in Char \X Char
      BY <2>1
    <3> QED
      BY <3>1
  <2> HIDE DEF Value
  <2>4. \A v \in Value : Append(before, v) \in Seq(Value)
    BY AppendProperties
  <2> QED
    BY <2>2, <2>3, <2>4 DEF WithLast, Added, n
<1> HIDE DEF Value
<1>2. step \in [Seq(Value) \X Seq(Char) -> Seq(Value)]
  <2>1. ASSUME NEW x \in Seq(Value) \X Seq(Char)
        PROVE  (IF x[2] = <<>> THEN <<>> ELSE WithLast(x[1], x[2])) \in Seq(Value)
    BY <1>1
  <2> QED
    BY <2>1
<1>3. PICK f \in [Seq(Char) -> Seq(Value)] : Recurs(f, Char, <<>>, step)
  <2>1. <<>> \in Seq(Value)
    OBVIOUS
  <2> HIDE DEF step
  <2> QED
    BY <1>2, <2>1, FrontRecursion
<1>4. Is(f)
  <2>1. ASSUME NEW s \in Seq(Char), s # <<>>
        PROVE  f[s] = WithLast(f[SubSeq(s, 1, Len(s) - 1)], s)
    <3>1. SubSeq(s, 1, Len(s) - 1) \in Seq(Char)
      BY <2>1, CutSeq
    <3>2. <<f[SubSeq(s, 1, Len(s) - 1)], s>> \in Seq(Value) \X Seq(Char)
      BY <3>1
    <3>3. f[s] = step[<<f[SubSeq(s, 1, Len(s) - 1)], s>>]
      BY <1>3, <2>1 DEF Recurs
    <3> DEFINE x == <<f[SubSeq(s, 1, Len(s) - 1)], s>>
    <3>4. x[1] = f[SubSeq(s, 1, Len(s) - 1)] /\ x[2] = s /\ x \in Seq(Value) \X Seq(Char)
      BY <3>2
    <3> HIDE DEF x
    <3>5. step[x] = IF x[2] = <<>> THEN <<>> ELSE WithLast(x[1], x[2])
      BY <3>4
    <3> QED
      BY <2>1, <3>3, <3>4, <3>5 DEF x
  <2>2. f = [s \in Seq(Char) |-> f[s]]
    OBVIOUS
  <2>3. \A s \in Seq(Char) :
          f[s] = IF s = <<>> THEN <<>> ELSE WithLast(f[SubSeq(s, 1, Len(s) - 1)], s)
    BY <1>3, <2>1 DEF Recurs
  <2> QED
    BY <2>2, <2>3
<1>5. Meaning = CHOOSE g : Is(g)
  BY DEF Meaning, WithLast, Added
<1>6. Is(Meaning)
  <2> HIDE DEF Is
  <2> QED
    BY <1>4, <1>5
<1>7. <<>> \in Seq(Char)
  OBVIOUS
<1> QED
  BY <1>6, <1>7

\* What one more character adds to the meaning of the first ones.
LEMMA MeaningOfMore ==
  ASSUME NEW str \in Seq(Char), NEW k \in 1..Len(str)
  PROVE  Meaning[SubSeq(str, 1, k)] =
           Added(Meaning[SubSeq(str, 1, k - 1)], str, k)
<1> DEFINE t == SubSeq(str, 1, k)
<1>1. /\ t \in Seq(Char) /\ Len(t) = k /\ t # <<>>
      /\ \A j \in 1..k : t[j] = str[j]
      /\ SubSeq(t, 1, k - 1) = SubSeq(str, 1, k - 1)
  BY CutAt
<1>2. k \in Nat \ {0} /\ k <= Len(str) /\ Len(str) \in Nat
  OBVIOUS
<1> HIDE DEF t
<1>3. Meaning[t] = WithLast(Meaning[SubSeq(str, 1, k - 1)], t)
  BY <1>1, MeaningIs
<1>4. \A j \in Int : j <= k => (Begins(t, j) <=> Begins(str, j))
  BY <1>1, <1>2 DEF Begins
<1>5. /\ Begins(t, k - 2) <=> Begins(str, k - 2)
      /\ Begins(t, k - 1) <=> Begins(str, k - 1)
      /\ Begins(t, k) <=> Begins(str, k)
      /\ t[k] = str[k] /\ (Begins(str, k - 2) => t[k - 1] = str[k - 1])
  <2>1. k - 2 \in Int /\ k - 1 \in Int /\ k \in Int /\ k - 2 <= k /\ k - 1 <= k /\ k <= k
    BY <1>2
  <2>2. Begins(str, k - 2) => k - 1 \in 1..k
    BY <1>2 DEF Begins
  <2> QED
    BY <1>1, <1>2, <1>4, <2>1, <2>2
<1>6. Added(Meaning[SubSeq(str, 1, k - 1)], t, k) = Added(Meaning[SubSeq(str, 1, k - 1)], str, k)
  BY <1>5 DEF Added
<1> QED
  BY <1>1, <1>3, <1>6 DEF WithLast, t

\* In a well-formed URI the loop stands before no digit of an escape, and the
\* path is what the characters before it stand for.
DecodedSoFar ==
  WellEscaped(uri) =>
    /\ pc = "decoding" => /\ path = Meaning[SubSeq(uri, 1, i)]
                          /\ ~Begins(uri, i) /\ ~Begins(uri, i - 1)
    /\ pc = "refused" => ~UnderRoot(Meaning[uri])
    /\ pc \notin {"decoding", "refused"} => path = Meaning[uri]

\* An escape of two digits is its number, and that is a character.
LEMMA EscapeOfDigits ==
  ASSUME NEW a \in HexDigit, NEW b \in HexDigit
  PROVE  /\ HexNumber(a, b) = {16 * HexValue(a) + HexValue(b)}
         /\ ToChar(16 * HexValue(a) + HexValue(b)) = 16 * HexValue(a) + HexValue(b)
<1>1. HexNumber(a, b) = {16 * HexValue(a) + HexValue(b)}
  <2>1. a # Plus /\ a # Minus
    BY DEF HexDigit, Plus, Minus
  <2> QED
    BY <2>1 DEF HexNumber
<1>2. HexValue(a) \in 0..15 /\ HexValue(b) \in 0..15
  BY DEF HexValue, HexDigit
<1>3. 16 * HexValue(a) + HexValue(b) \in 0..255
  BY <1>2
<1> QED
  BY <1>1, <1>3 DEF ToChar

\* At the end of the URI the path is the meaning of it all.
LEMMA DecodedAll ==
  ASSUME IInv, DecodedSoFar, WellEscaped(uri), pc = "decoding", i = Len(uri)
  PROVE  path = Meaning[uri]
<1>1. uri \in Seq(Char)
  BY DEF IInv, TypeOK
<1>2. SubSeq(uri, 1, Len(uri)) = uri
  BY <1>1
<1> QED
  BY <1>2 DEF DecodedSoFar

\* A turn of the loop that reads one character.
LEMMA OneDecoded ==
  ASSUME IInv, DecodedSoFar, WellEscaped(uri), pc = "decoding", i < Len(uri),
         uri[i + 1] # Percent
  PROVE  /\ Meaning[SubSeq(uri, 1, i + 1)] =
              Append(path, IF uri[i + 1] = Plus THEN Space ELSE uri[i + 1])
         /\ ~Begins(uri, i + 1) /\ ~Begins(uri, (i + 1) - 1)
<1>1. uri \in Seq(Char) /\ i \in Nat /\ Len(uri) \in Nat /\ i + 1 \in 1..Len(uri)
  BY LenProperties DEF IInv, TypeOK
<1>2. path = Meaning[SubSeq(uri, 1, i)] /\ ~Begins(uri, i) /\ ~Begins(uri, i - 1)
  BY DEF DecodedSoFar
<1>3. (i + 1) - 1 = i /\ (i + 1) - 2 = i - 1
  BY <1>1
<1>4. ~Begins(uri, i + 1)
  BY DEF Begins
<1>5. Meaning[SubSeq(uri, 1, i + 1)] = Added(path, uri, i + 1)
  BY <1>1, <1>2, <1>3, MeaningOfMore
<1> QED
  BY <1>2, <1>3, <1>4, <1>5 DEF Added

\* A turn that reads an escape.
LEMMA EscapeDecoded ==
  ASSUME IInv, DecodedSoFar, WellEscaped(uri), pc = "decoding", At(Percent)
  PROVE  /\ i + 3 <= Len(uri)
         /\ \E n : Escape = {n} /\ Meaning[SubSeq(uri, 1, i + 3)] = Append(path, ToChar(n))
         /\ ~Begins(uri, i + 3) /\ ~Begins(uri, (i + 3) - 1)
<1>1. uri \in Seq(Char) /\ i \in Nat /\ Len(uri) \in Nat /\ i + 1 \in 1..Len(uri)
      /\ uri[i + 1] = Percent
  BY LenProperties DEF IInv, TypeOK, At
<1>2. path = Meaning[SubSeq(uri, 1, i)] /\ ~Begins(uri, i) /\ ~Begins(uri, i - 1)
  BY DEF DecodedSoFar
<1>3. i + 3 <= Len(uri) /\ uri[i + 2] \in HexDigit /\ uri[i + 3] \in HexDigit
  <2>1. (i + 1) + 2 <= Len(uri) /\ {uri[(i + 1) + 1], uri[(i + 1) + 2]} \subseteq HexDigit
    <3>1. i + 1 \in DOMAIN uri
      BY <1>1
    <3> QED
      BY <1>1, <3>1 DEF WellEscaped
  <2>2. (i + 1) + 1 = i + 2 /\ (i + 1) + 2 = i + 3
    BY <1>1
  <2> QED
    BY <2>1, <2>2
<1>4. /\ ~Begins(uri, i + 2) /\ ~Begins(uri, i + 3) /\ Begins(uri, i + 1)
      /\ uri[i + 1] # Plus /\ uri[i + 2] # Plus /\ uri[i + 3] # Plus
  <2>1. Percent \notin HexDigit /\ Plus \notin HexDigit /\ Percent # Plus
    BY DEF HexDigit, Percent, Plus
  <2>2. i + 1 \in DOMAIN uri
    BY <1>1
  <2> QED
    BY <1>1, <1>3, <2>1, <2>2 DEF Begins
<1>5. /\ (i + 1) - 1 = i /\ (i + 1) - 2 = i - 1 /\ (i + 2) - 1 = i + 1 /\ (i + 2) - 2 = i
      /\ (i + 3) - 1 = i + 2 /\ (i + 3) - 2 = i + 1
      /\ i + 2 \in 1..Len(uri) /\ i + 3 \in 1..Len(uri)
  BY <1>1, <1>3
<1>6. Meaning[SubSeq(uri, 1, i + 1)] = path
  <2>1. Meaning[SubSeq(uri, 1, i + 1)] = Added(path, uri, i + 1)
    BY <1>1, <1>2, <1>5, MeaningOfMore
  <2> QED
    BY <1>2, <1>4, <1>5, <2>1 DEF Added
<1>7. Meaning[SubSeq(uri, 1, i + 2)] = path
  <2>1. Meaning[SubSeq(uri, 1, i + 2)] = Added(path, uri, i + 2)
    <3> HIDE DEF Added
    <3> QED
      BY <1>1, <1>5, <1>6, MeaningOfMore
  <2> QED
    BY <1>2, <1>4, <1>5, <2>1 DEF Added
<1>8. Meaning[SubSeq(uri, 1, i + 3)] =
        Append(path, 16 * HexValue(uri[i + 2]) + HexValue(uri[i + 3]))
  <2>1. Meaning[SubSeq(uri, 1, i + 3)] = Added(path, uri, i + 3)
    BY <1>1, <1>5, <1>7, MeaningOfMore
  <2> QED
    BY <1>4, <1>5, <2>1 DEF Added
<1>9. Escape = {16 * HexValue(uri[i + 2]) + HexValue(uri[i + 3])}
  <2> DEFINE a == uri[i + 2]
             b == uri[i + 3]
  <2>1. a \in HexDigit /\ b \in HexDigit
    BY <1>3
  <2>2. Escape = HexNumber(a, b)
    BY <1>3 DEF Escape
  <2> HIDE DEF a, b
  <2>3. HexNumber(a, b) = {16 * HexValue(a) + HexValue(b)}
    BY <2>1, EscapeOfDigits
  <2> QED
    BY <2>2, <2>3 DEF a, b
<1> QED
  BY <1>3, <1>4, <1>5, <1>8, <1>9, EscapeOfDigits

\* A step of the loop keeps it.
LEMMA DecodeKeepsMeaning ==
  ASSUME IInv, DecodedSoFar, Decode
  PROVE  DecodedSoFar'
<1> SUFFICES ASSUME WellEscaped(uri) PROVE DecodedSoFar'
  <2>1. uri' = uri
    BY DEF Decode, DecodeEscape, RefuseEscape, DecodePlus, Copy, Refuse
  <2> QED
    BY <2>1 DEF DecodedSoFar
<1>1. ASSUME NEW k, i' = k, pc = "decoding", pc' = pc, uri' = uri,
             path' = Meaning[SubSeq(uri, 1, k)], ~Begins(uri, k), ~Begins(uri, k - 1)
      PROVE  DecodedSoFar'
  BY <1>1 DEF DecodedSoFar
<1>2. CASE DecodeEscape
  <2>1. pc = "decoding" /\ At(Percent)
    BY <1>2 DEF DecodeEscape
  <2>2. PICK n : Escape = {n} /\ Meaning[SubSeq(uri, 1, i + 3)] = Append(path, ToChar(n))
    BY <2>1, EscapeDecoded
  <2>3. ~Begins(uri, i + 3) /\ ~Begins(uri, (i + 3) - 1)
    BY <2>1, EscapeDecoded
  <2>4. path' = Meaning[SubSeq(uri, 1, i + 3)] /\ i' = i + 3
    BY <1>2, <2>2 DEF DecodeEscape
  <2> QED
    BY <1>1, <1>2, <2>3, <2>4 DEF DecodeEscape
<1>3. CASE RefuseEscape
  <2>1. pc = "decoding" /\ At(Percent) /\ Escape = {}
    BY <1>3 DEF RefuseEscape
  <2> QED
    BY <2>1, EscapeDecoded
<1>4. CASE DecodePlus
  <2>1. pc = "decoding" /\ i < Len(uri) /\ uri[i + 1] # Percent /\ uri[i + 1] = Plus
    BY <1>4 DEF DecodePlus, At, Plus, Percent
  <2>2. /\ Meaning[SubSeq(uri, 1, i + 1)] = Append(path, Space)
        /\ ~Begins(uri, i + 1) /\ ~Begins(uri, (i + 1) - 1)
    BY <2>1, OneDecoded
  <2> QED
    BY <1>1, <1>4, <2>2 DEF DecodePlus
<1>5. CASE Copy
  <2>1. pc = "decoding" /\ i < Len(uri) /\ uri[i + 1] # Percent /\ uri[i + 1] # Plus
    BY <1>5 DEF Copy
  <2>2. /\ Meaning[SubSeq(uri, 1, i + 1)] = Append(path, uri[i + 1])
        /\ ~Begins(uri, i + 1) /\ ~Begins(uri, (i + 1) - 1)
    BY <2>1, OneDecoded
  <2> QED
    BY <1>1, <1>5, <2>2 DEF Copy
<1>6. CASE Refuse
  <2>1. path = Meaning[uri] /\ ~UnderRoot(path)
    BY <1>6, DecodedAll DEF Refuse, Accepted
  <2> QED
    BY <1>6, <2>1 DEF Refuse, DecodedSoFar
<1> QED
  BY <1>2, <1>3, <1>4, <1>5, <1>6 DEF Decode

\* What follows the loop leaves the path alone.
LEMMA PathStays ==
  ASSUME IInv, ReadQuery \/ Open
  PROVE  /\ uri' = uri /\ path' = path
         /\ pc' \notin {"decoding", "refused"}
         /\ \/ pc \notin {"decoding", "refused"}
            \/ pc = "decoding" /\ i = Len(uri)
BY DEF ReadQuery, Open, FirstPair, NextPair, LastPair, OnlyPair, NoPair, Goes, Accepted

\* A well-formed URI is decoded to what it stands for, and refused only if
\* that leaves the document root, whatever its length
\* (request_handler.cpp:309-346).
THEOREM DecodedAsMeant == Spec => []DecodedExactly
<1>1. Init => DecodedSoFar
  <2> SUFFICES ASSUME Init PROVE DecodedSoFar
    OBVIOUS
  <2>1. uri \in Seq(Char) /\ i = 0 /\ path = <<>> /\ pc = "decoding"
    BY TargetAssumption DEF Init
  <2>2. SubSeq(uri, 1, 0) = <<>>
    BY <2>1
  <2>3. ~Begins(uri, 0) /\ ~Begins(uri, 0 - 1)
    BY <2>1 DEF Begins
  <2> QED
    BY <2>1, <2>2, <2>3, MeaningIs DEF DecodedSoFar
<1>2. IInv /\ DecodedSoFar /\ [Next]_vars => DecodedSoFar'
  <2> SUFFICES ASSUME IInv, DecodedSoFar, [Next]_vars PROVE DecodedSoFar'
    OBVIOUS
  <2>1. CASE ReadQuery \/ Open
    BY <2>1, PathStays, DecodedAll DEF DecodedSoFar
  <2>2. CASE UNCHANGED vars
    BY <2>2 DEF vars, DecodedSoFar
  <2> QED
    BY <2>1, <2>2, DecodeKeepsMeaning DEF Next
<1>3. DecodedSoFar => DecodedExactly
  BY DEF DecodedSoFar, DecodedExactly
<1> QED
  BY <1>1, <1>2, <1>3, TargetInvariant, PTL DEF Spec

-----------------------------------------------------------------------------
(***************************************************************************)
(* The query.                                                              *)
(***************************************************************************)

\* Where a character is found is where it stands with none before it.
LEMMA FindIs ==
  ASSUME NEW str \in Seq(Char), NEW c \in Char
  PROVE  /\ \A k \in 0..(Len(str) - 1) :
              str[k + 1] = c /\ (\A j \in 1..k : str[j] # c) => Find(str, c) = k
         /\ (\A j \in 1..Len(str) : str[j] # c) => Find(str, c) = -1
<1> DEFINE f == Find(str, c)
<1>1. /\ f \in -1..(Len(str) - 1) /\ Len(str) \in Nat
      /\ IF f = -1 THEN \A k \in 1..Len(str) : str[k] # c
                   ELSE str[f + 1] = c /\ \A k \in 1..f : str[k] # c
  BY FindRange, LenProperties
<1> HIDE DEF f
<1>2. ASSUME NEW k \in 0..(Len(str) - 1), str[k + 1] = c, \A j \in 1..k : str[j] # c
      PROVE  f = k
  <2>1. f # -1
    BY <1>1, <1>2
  <2>2. ~(f < k)
    <3> SUFFICES ASSUME f < k PROVE FALSE
      OBVIOUS
    <3>1. f + 1 \in 1..k
      BY <1>1, <2>1
    <3> QED
      BY <1>1, <1>2, <2>1, <3>1
  <2>3. ~(k < f)
    <3> SUFFICES ASSUME k < f PROVE FALSE
      OBVIOUS
    <3>1. k + 1 \in 1..f
      BY <1>1
    <3> QED
      BY <1>1, <1>2, <2>1, <3>1
  <2> QED
    BY <1>1, <2>2, <2>3
<1>3. ASSUME \A j \in 1..Len(str) : str[j] # c PROVE f = -1
  BY <1>1, <1>3
<1> QED
  BY <1>2, <1>3 DEF f

\* What follows the first q characters of a string.
LEMMA FromIs ==
  ASSUME NEW base \in Seq(Char), NEW q \in 0..Len(base), NEW str, str = From(base, q)
  PROVE  /\ str \in Seq(Char) /\ Len(str) = Len(base) - q
         /\ \A k \in 1..(Len(base) - q) : str[k] = base[q + k]
         /\ \A x \in 1..(Len(str) + 1), y \in 0..Len(str) :
              SubSeq(str, x, y) = SubSeq(base, q + x, q + y)
         /\ \A r \in 0..Len(str) : From(str, r) = From(base, q + r)
<1> DEFINE n == Len(base)
<1>1. n \in Nat /\ \A k \in 1..n : base[k] \in Char
  BY ElementOfSeq, LenProperties
<1>2. str = SubSeq(base, q + 1, n)
  BY DEF From
<1> HIDE DEF n
<1>3. /\ str \in Seq(Char) /\ Len(str) = n - q
      /\ \A k \in 1..(n - q) : str[k] = base[q + k]
  <2>1. q + 1 \in Int /\ n \in Int /\ \A k \in (q + 1)..n : base[k] \in Char
    BY <1>1 DEF n
  <2>2. /\ str \in Seq(Char)
        /\ Len(str) = IF q + 1 <= n THEN n - (q + 1) + 1 ELSE 0
        /\ \A k \in 1..(n - (q + 1) + 1) : str[k] = base[q + 1 + k - 1]
    BY <1>2, <2>1, SubSeqProperties
  <2>3. q \in 0..n
    BY DEF n
  <2> QED
    BY <1>1, <2>2, <2>3
<1>4. ASSUME NEW x \in 1..(Len(str) + 1), NEW y \in 0..Len(str)
      PROVE  SubSeq(str, x, y) = SubSeq(base, q + x, q + y)
  <2> DEFINE a == SubSeq(str, x, y)
             b == SubSeq(base, q + x, q + y)
  <2>1. x \in Int /\ y \in Int /\ q + x \in Int /\ q + y \in Int /\ q \in 0..n
    BY <1>1, <1>3 DEF n
  <2>2. \A k \in x..y : str[k] \in Char /\ str[k] = base[q + k]
    BY <1>1, <1>3, <2>1
  <2>3. \A k \in (q + x)..(q + y) : base[k] \in Char
    BY <1>1, <1>3, <2>1
  <2>4. /\ a \in Seq(Char) /\ Len(a) = IF x <= y THEN y - x + 1 ELSE 0
        /\ \A k \in 1..(y - x + 1) : a[k] = str[x + k - 1]
    BY <2>1, <2>2, SubSeqProperties
  <2>5. /\ b \in Seq(Char)
        /\ Len(b) = IF q + x <= q + y THEN (q + y) - (q + x) + 1 ELSE 0
        /\ \A k \in 1..((q + y) - (q + x) + 1) : b[k] = base[(q + x) + k - 1]
    BY <2>1, <2>3, SubSeqProperties
  <2> HIDE DEF a, b
  <2>6. Len(a) = Len(b)
    BY <2>1, <2>4, <2>5
  <2>7. ASSUME NEW k \in 1..Len(a) PROVE a[k] = b[k]
    <3>1. k \in 1..(y - x + 1) /\ k \in 1..((q + y) - (q + x) + 1) /\ x + k - 1 \in x..y
          /\ (q + x) + k - 1 = q + (x + k - 1)
      BY <2>1, <2>4
    <3> QED
      BY <2>2, <2>4, <2>5, <3>1
  <2>8. a = b
    BY <2>4, <2>5, <2>6, <2>7, SeqEqual
  <2> QED
    BY <2>8 DEF a, b
<1>5. ASSUME NEW r \in 0..Len(str) PROVE From(str, r) = From(base, q + r)
  <2>1. r + 1 \in 1..(Len(str) + 1) /\ Len(str) \in 0..Len(str)
        /\ q + (r + 1) = (q + r) + 1 /\ q + Len(str) = n
    BY <1>1, <1>3 DEF n
  <2> QED
    BY <1>4, <2>1 DEF From, n
<1> QED
  BY <1>3, <1>4, <1>5 DEF n

\* A part of what follows the first q characters, as a part of the whole.
LEMMA FromCut ==
  ASSUME NEW base \in Seq(Char), NEW q \in 0..Len(base),
         NEW x \in 1..(Len(From(base, q)) + 1), NEW y \in 0..Len(From(base, q))
  PROVE  SubSeq(From(base, q), x, y) = SubSeq(base, q + x, q + y)
BY FromIs

\* A character that does not stand before q is found behind it.
LEMMA FindBehind ==
  ASSUME NEW base \in Seq(Char), NEW q \in 0..Len(base), NEW str, str = From(base, q),
         NEW c \in Char, \A k \in 1..q : base[k] # c
  PROVE  /\ Find(str, c) \in -1..(Len(str) - 1)
         /\ Find(base, c) = IF Find(str, c) = -1 THEN -1 ELSE q + Find(str, c)
<1> DEFINE f == Find(str, c)
<1>1. /\ str \in Seq(Char) /\ Len(str) = Len(base) - q /\ Len(base) \in Nat
      /\ \A k \in 1..(Len(base) - q) : str[k] = base[q + k]
  BY FromIs, LenProperties
<1>2. /\ f \in -1..(Len(str) - 1)
      /\ IF f = -1 THEN \A k \in 1..Len(str) : str[k] # c
                   ELSE str[f + 1] = c /\ \A k \in 1..f : str[k] # c
  BY <1>1, FindRange
<1> HIDE DEF f
<1>3. CASE f = -1
  <2>1. ASSUME NEW j \in 1..Len(base) PROVE base[j] # c
    <3>1. CASE j > q
      <4>1. j - q \in 1..Len(str) /\ j - q \in 1..(Len(base) - q) /\ q + (j - q) = j
        BY <1>1, <3>1
      <4>2. str[j - q] = base[j]
        BY <1>1, <4>1
      <4> QED
        BY <1>2, <1>3, <4>1, <4>2
    <3>2. CASE ~(j > q)
      <4>1. j \in 1..q
        BY <1>1, <3>2
      <4> QED
        BY <4>1
    <3> QED
      BY <3>1, <3>2
  <2>2. Find(base, c) = -1
    BY <2>1, FindIs
  <2> QED
    BY <1>2, <1>3, <2>2 DEF f
<1>4. CASE f # -1
  <2>1. f \in 0..(Len(str) - 1) /\ f + 1 \in 1..(Len(base) - q) /\ q + f \in 0..(Len(base) - 1)
        /\ (q + f) + 1 = q + (f + 1)
    BY <1>1, <1>2, <1>4
  <2>2. base[(q + f) + 1] = c
    BY <1>1, <1>2, <1>4, <2>1
  <2>3. ASSUME NEW j \in 1..(q + f) PROVE base[j] # c
    <3>1. CASE j > q
      <4>1. j - q \in 1..f /\ j - q \in 1..(Len(base) - q) /\ q + (j - q) = j
        BY <1>1, <2>1, <3>1
      <4>2. str[j - q] = base[j]
        BY <1>1, <4>1
      <4> QED
        BY <1>2, <1>4, <4>1, <4>2
    <3>2. CASE ~(j > q)
      <4>1. j \in 1..q
        BY <1>1, <3>2
      <4> QED
        BY <4>1
    <3> QED
      BY <3>1, <3>2
  <2>4. Find(base, c) = q + f
    BY <2>1, <2>2, <2>3, FindIs
  <2> QED
    BY <1>2, <1>4, <2>4 DEF f
<1> QED
  BY <1>3, <1>4

\* What Pair cuts out where the '=' lies between first and stop.
LEMMA PairIs ==
  ASSUME NEW base \in Seq(Char), NEW first \in 0..Len(base), NEW e \in Nat,
         Find(base, Equals) = first + e,
         NEW stop \in 0..Len(base), first + e < stop
  PROVE  Pair(base, first, stop) =
           [name |-> SubSeq(base, first + 1, first + e),
            value |-> SubSeq(base, first + e + 2, stop)]
<1> DEFINE f == Find(base, Equals)
           n == Len(base)
<1>1. f = first + e /\ n \in Nat /\ first \in 0..n /\ stop \in 0..n
  BY LenProperties
<1>2. Pair(base, first, stop) = [name |-> Substr(base, first, f - first),
                                 value |-> Substr(base, f + 1, stop - f - 1)]
  BY DEF Pair
<1>3. Substr(base, first, f - first) =
        SubSeq(base, first + 1, IF f - first < 0 \/ first + (f - first) > n THEN n
                                ELSE first + (f - first))
  BY DEF Substr
<1>4. Substr(base, f + 1, stop - f - 1) =
        SubSeq(base, (f + 1) + 1,
               IF stop - f - 1 < 0 \/ (f + 1) + (stop - f - 1) > n THEN n
               ELSE (f + 1) + (stop - f - 1))
  BY DEF Substr
<1> HIDE DEF f, n
<1>5. (IF f - first < 0 \/ first + (f - first) > n THEN n ELSE first + (f - first))
        = first + e
  BY <1>1
<1>6. (f + 1) + 1 = first + e + 2
      /\ (IF stop - f - 1 < 0 \/ (f + 1) + (stop - f - 1) > n THEN n
          ELSE (f + 1) + (stop - f - 1)) = stop
  BY <1>1
<1> QED
  BY <1>2, <1>3, <1>4, <1>5, <1>6

-----------------------------------------------------------------------------
\* A query of which each part has one '='.
OneEquals(str) ==
  \A p \in Parts(str) : \E k \in (p[1] + 1)..(p[2] - 1) :
    \A l \in (p[1] + 1)..(p[2] - 1) : str[l] = Equals <=> l = k

\* Where the parts of a query may end.
EndsOf(str) == {0, Len(str) + 1} \cup {k \in DOMAIN str : str[k] = Ampersand}

\* The parts lie between neighbouring ends.
LEMMA PartsAre ==
  ASSUME NEW str \in Seq(Char)
  PROVE  /\ EndsOf(str) \subseteq 0..(Len(str) + 1)
         /\ \A x, y : <<x, y>> \in Parts(str) <=>
              /\ x \in EndsOf(str) /\ y \in EndsOf(str) /\ x < y
              /\ \A k \in EndsOf(str) : ~(x < k /\ k < y)
         /\ \A p \in Parts(str) : p = <<p[1], p[2]>>
BY DEF Parts, EndsOf

\* The part that begins behind the end r, and how the others lie to it.
LEMMA PartAt ==
  ASSUME NEW str \in Seq(Char), NEW r \in 0..Len(str), r \in EndsOf(str),
         NEW tail, tail = From(str, r), NEW stop,
         stop = IF Find(tail, Ampersand) = -1 THEN Len(str) + 1
                ELSE r + Find(tail, Ampersand) + 1
  PROVE  /\ stop \in (r + 1)..(Len(str) + 1) /\ stop \in EndsOf(str)
         /\ <<r, stop>> \in Parts(str)
         /\ \A q \in Parts(str) : /\ q[1] < r <=> q[2] <= r
                                  /\ q[2] <= stop <=> q[2] <= r \/ q = <<r, stop>>
<1> DEFINE a == Find(tail, Ampersand)
           n == Len(str)
<1>1. /\ tail \in Seq(Char) /\ Len(tail) = n - r
      /\ \A k \in 1..(n - r) : tail[k] = str[r + k]
  BY FromIs
<1>2. n \in Nat /\ DOMAIN str = 1..n /\ r \in 0..n
  BY LenProperties
<1>3. /\ a \in -1..(n - r - 1)
      /\ IF a = -1 THEN \A k \in 1..(n - r) : tail[k] # Ampersand
                   ELSE /\ tail[a + 1] = Ampersand
                        /\ \A k \in 1..a : tail[k] # Ampersand
  <2>1. Ampersand \in Char
    BY Separators
  <2>2. /\ a \in -1..(Len(tail) - 1)
        /\ IF a = -1 THEN \A k \in 1..Len(tail) : tail[k] # Ampersand
                     ELSE /\ tail[a + 1] = Ampersand
                          /\ \A k \in 1..a : tail[k] # Ampersand
    BY <1>1, <2>1, FindRange
  <2> HIDE DEF a, n
  <2> QED
    BY <1>1, <2>2
<1>4. stop = IF a = -1 THEN n + 1 ELSE r + a + 1
  OBVIOUS
<1> HIDE DEF a, n
<1>5. stop \in (r + 1)..(n + 1)
  BY <1>2, <1>3, <1>4
<1>6. \A k : k \in EndsOf(str) <=> k = 0 \/ k = n + 1 \/ (k \in 1..n /\ str[k] = Ampersand)
  BY <1>2 DEF EndsOf, n
<1>7. stop \in EndsOf(str)
  <2>1. CASE a = -1
    BY <1>4, <1>6, <2>1
  <2>2. CASE a # -1
    <3>1. a + 1 \in 1..(n - r) /\ r + (a + 1) = stop /\ stop \in 1..n
      BY <1>2, <1>3, <1>4, <2>2
    <3>2. str[stop] = Ampersand
      BY <1>1, <1>3, <2>2, <3>1
    <3> QED
      BY <1>6, <3>1, <3>2
  <2> QED
    BY <2>1, <2>2
<1>8. ASSUME NEW k \in EndsOf(str), r < k, k < stop PROVE FALSE
  <2>1. k \in 1..n /\ str[k] = Ampersand
    BY <1>2, <1>5, <1>6, <1>8
  <2>2. k - r \in 1..(n - r) /\ r + (k - r) = k /\ (a # -1 => k - r \in 1..a)
    BY <1>2, <1>3, <1>4, <1>8, <2>1
  <2>3. tail[k - r] = Ampersand
    BY <1>1, <2>1, <2>2
  <2> QED
    BY <1>3, <2>2, <2>3
<1>9. <<r, stop>> \in Parts(str)
  <2>1. r < stop
    BY <1>2, <1>5
  <2> QED
    BY <1>7, <1>8, <2>1, PartsAre
<1>10. ASSUME NEW q \in Parts(str)
       PROVE  /\ q[1] < r <=> q[2] <= r
              /\ q[2] <= stop <=> q[2] <= r \/ q = <<r, stop>>
  <2> DEFINE x == q[1]
             y == q[2]
  <2>1. q = <<x, y>>
    BY PartsAre
  <2> HIDE DEF x, y
  <2>2. /\ x \in EndsOf(str) /\ y \in EndsOf(str) /\ x < y
        /\ \A k \in EndsOf(str) : ~(x < k /\ k < y)
    BY <2>1, PartsAre
  <2>3. x \in 0..(n + 1) /\ y \in 0..(n + 1)
    BY <2>2, PartsAre DEF n
  <2>4. x < r <=> y <= r
    BY <1>2, <2>2, <2>3
  <2>5. y <= stop /\ ~(y <= r) => x = r /\ y = stop
    <3> SUFFICES ASSUME y <= stop, ~(y <= r) PROVE x = r /\ y = stop
      OBVIOUS
    <3>1. y = stop
      BY <1>2, <1>5, <1>8, <2>2, <2>3
    <3>2. x >= r /\ x < stop
      BY <1>2, <1>5, <2>2, <2>3, <2>4, <3>1
    <3> QED
      BY <1>2, <1>8, <2>2, <2>3, <3>1, <3>2
  <2>6. y <= r => y <= stop
    BY <1>2, <1>5, <2>3
  <2>7. q = <<r, stop>> => y = stop
    BY <2>1
  <2>8. y = stop => y <= stop
    BY <1>5
  <2> QED
    BY <2>1, <2>4, <2>5, <2>6, <2>7, <2>8 DEF x, y
<1> QED
  BY <1>5, <1>7, <1>9, <1>10 DEF n

\* The '=' of the part that begins behind r is the first one behind r.
LEMMA EqualsAt ==
  ASSUME NEW str \in Seq(Char), OneEquals(str), NEW r \in 0..Len(str),
         NEW stop \in (r + 1)..(Len(str) + 1), <<r, stop>> \in Parts(str),
         NEW tail, tail = From(str, r)
  PROVE  /\ Find(tail, Equals) \in Nat
         /\ r + Find(tail, Equals) + 1 < stop
         /\ EqualsOf(str, <<r, stop>>) = r + Find(tail, Equals) + 1
<1>1. /\ tail \in Seq(Char) /\ Len(tail) = Len(str) - r /\ Len(str) \in Nat
      /\ \A k \in 1..(Len(str) - r) : tail[k] = str[r + k]
  BY FromIs, LenProperties
<1>2. PICK k \in (r + 1)..(stop - 1) :
        \A l \in (r + 1)..(stop - 1) : str[l] = Equals <=> l = k
  BY DEF OneEquals
<1>3. EqualsOf(str, <<r, stop>>) = k
  <2>1. EqualsOf(str, <<r, stop>>) = CHOOSE l \in (r + 1)..(stop - 1) : str[l] = Equals
    BY DEF EqualsOf
  <2> QED
    BY <1>2, <2>1
<1> DEFINE e == k - r - 1
<1>4. e \in 0..(Len(tail) - 1) /\ e + 1 \in 1..(Len(str) - r) /\ r + (e + 1) = k /\ k < stop
  BY <1>1
<1>5. tail[e + 1] = Equals
  BY <1>1, <1>2, <1>4
<1>6. ASSUME NEW j \in 1..e PROVE tail[j] # Equals
  <2>1. j \in 1..(Len(str) - r) /\ r + j \in (r + 1)..(stop - 1) /\ r + j # k
    BY <1>1, <1>4
  <2> QED
    BY <1>1, <1>2, <2>1
<1> HIDE DEF e
<1>7. Find(tail, Equals) = e
  <2>1. Equals \in Char
    BY Separators
  <2> QED
    BY <1>1, <1>4, <1>5, <1>6, <2>1, FindIs
<1> QED
  BY <1>3, <1>4, <1>7

\* The name and the value that are read of it.
LEMMA ParamAt ==
  ASSUME NEW str \in Seq(Char), OneEquals(str), NEW r \in 0..Len(str),
         NEW stop \in (r + 1)..(Len(str) + 1), <<r, stop>> \in Parts(str),
         NEW base \in Seq(Char), NEW first \in 0..Len(base),
         From(base, first) = From(str, r),
         Find(base, Equals) = first + Find(From(base, first), Equals)
  PROVE  Pair(base, first, first + (stop - r - 1)) = ParamOf(str, <<r, stop>>)
<1> DEFINE tail == From(str, r)
           e == Find(tail, Equals)
           len == stop - r - 1
           p == <<r, stop>>
<1>1. /\ e \in Nat /\ r + e + 1 < stop /\ EqualsOf(str, p) = r + e + 1
  BY EqualsAt
<1>2. /\ Len(tail) = Len(str) - r /\ Len(str) \in Nat
      /\ \A x \in 1..(Len(tail) + 1), y \in 0..Len(tail) :
           SubSeq(tail, x, y) = SubSeq(str, r + x, r + y)
  <2>1. tail = From(str, r)
    OBVIOUS
  <2>2. Len(tail) = Len(str) - r
    BY FromIs
  <2> HIDE DEF tail
  <2>3. Len(str) \in Nat
    BY LenProperties
  <2>4. ASSUME NEW x \in 1..(Len(tail) + 1), NEW y \in 0..Len(tail)
        PROVE  SubSeq(tail, x, y) = SubSeq(str, r + x, r + y)
    <3>1. x \in 1..(Len(From(str, r)) + 1) /\ y \in 0..Len(From(str, r))
      BY <2>1
    <3> QED
      BY <2>1, <3>1, FromCut
  <2> QED
    BY <2>2, <2>3, <2>4
<1>3. /\ Len(tail) = Len(base) - first /\ Len(base) \in Nat
      /\ \A x \in 1..(Len(tail) + 1), y \in 0..Len(tail) :
           SubSeq(tail, x, y) = SubSeq(base, first + x, first + y)
  BY FromIs, LenProperties
<1>4. Find(base, Equals) = first + e
  OBVIOUS
<1> HIDE DEF e
<1>5. /\ first + len \in 0..Len(base) /\ first + e < first + len
      /\ len \in 0..Len(tail) /\ e \in 0..Len(tail) /\ e + 2 \in 1..(Len(tail) + 1)
      /\ 1 \in 1..(Len(tail) + 1)
  <2> DEFINE n == Len(str)
             m == Len(base)
             l == Len(tail)
  <2>1. n \in Nat /\ m \in Nat /\ l = n - r /\ l = m - first /\ first \in 0..m
        /\ r \in 0..n /\ stop \in (r + 1)..(n + 1)
    BY <1>2, <1>3
  <2> HIDE DEF n, m, l, tail
  <2>2. /\ first + len \in 0..m /\ first + e < first + len /\ len \in 0..l
        /\ e \in 0..l /\ e + 2 \in 1..(l + 1) /\ 1 \in 1..(l + 1)
    BY <1>1, <2>1
  <2> QED
    BY <2>2 DEF n, m, l
<1>6. Pair(base, first, first + len) = [name |-> SubSeq(base, first + 1, first + e),
                                        value |-> SubSeq(base, first + e + 2, first + len)]
  BY <1>1, <1>4, <1>5, PairIs
<1> HIDE DEF tail
<1>7. SubSeq(base, first + 1, first + e) = SubSeq(str, r + 1, r + e)
  BY <1>2, <1>3, <1>5
<1>8. SubSeq(base, first + (e + 2), first + len) = SubSeq(str, r + (e + 2), r + len)
  BY <1>2, <1>3, <1>5
<1>9. /\ first + (e + 2) = first + e + 2 /\ r + (e + 2) = (r + e + 1) + 1
      /\ r + len = stop - 1 /\ (r + e + 1) - 1 = r + e
  BY <1>1
<1>10. NameOf(str, p) = SubSeq(str, r + 1, r + e)
  BY <1>1, <1>9 DEF NameOf
<1>11. ParamOf(str, p) = [name |-> SubSeq(str, r + 1, r + e),
                          value |-> SubSeq(str, (r + e + 1) + 1, stop - 1)]
  BY <1>1, <1>10 DEF ParamOf
<1> QED
  BY <1>6, <1>7, <1>8, <1>9, <1>11

-----------------------------------------------------------------------------
\* The parameters of the parts up to r, as the map has them.
ParamsTo(str, r) == {ParamOf(str, p) : p \in {q \in FirstParts(str) : q[2] <= r}}

\* insert() makes of those up to r those up to the end of the next part.
LEMMA InsertedPart ==
  ASSUME NEW str \in Seq(Char), NEW r \in 0..Len(str),
         NEW stop \in (r + 1)..(Len(str) + 1), <<r, stop>> \in Parts(str),
         \A q \in Parts(str) : /\ q[1] < r <=> q[2] <= r
                               /\ q[2] <= stop <=> q[2] <= r \/ q = <<r, stop>>
  PROVE  Insert(ParamsTo(str, r), ParamOf(str, <<r, stop>>)) = ParamsTo(str, stop)
<1> DEFINE p == <<r, stop>>
           Earlier == {q \in Parts(str) : q[1] < r /\ NameOf(str, q) = NameOf(str, p)}
<1>1. \A q : ParamOf(str, q).name = NameOf(str, q)
  BY DEF ParamOf
<1>2. FirstParts(str) \subseteq Parts(str) /\ p[1] = r
  BY DEF FirstParts
<1>3. p \in FirstParts(str) <=> Earlier = {}
  BY <1>2 DEF FirstParts
<1>4. \A q \in FirstParts(str) : q[2] <= stop <=> q[2] <= r \/ q = p
  BY <1>2
<1>5. CASE Earlier = {}
  <2>1. ~\E x \in ParamsTo(str, r) : x.name = ParamOf(str, p).name
    <3> SUFFICES ASSUME NEW q \in FirstParts(str), q[2] <= r,
                        ParamOf(str, q).name = ParamOf(str, p).name
                 PROVE  FALSE
      BY DEF ParamsTo
    <3>1. q \in Earlier
      BY <1>1, <1>2
    <3> QED
      BY <1>5, <3>1
  <2>2. ParamsTo(str, stop) = ParamsTo(str, r) \cup {ParamOf(str, p)}
    <3>1. {q \in FirstParts(str) : q[2] <= stop} = {q \in FirstParts(str) : q[2] <= r} \cup {p}
      <4>1. p \in FirstParts(str)
        BY <1>3, <1>5
      <4> HIDE DEF p, Earlier
      <4> QED
        BY <1>4, <4>1
    <3> HIDE DEF p, Earlier
    <3> QED
      BY <3>1 DEF ParamsTo
  <2> QED
    BY <2>1, <2>2 DEF Insert
<1>6. CASE Earlier # {}
  <2> DEFINE starts == {q[1] : q \in Earlier}
  <2>1. starts \subseteq Nat /\ starts # {}
    <3>1. \A q \in Parts(str) : q[1] \in Nat
      <4>1. \A q \in Parts(str) : q[1] \in EndsOf(str)
        BY PartsAre
      <4> QED
        BY <4>1, PartsAre, LenProperties
    <3> QED
      BY <1>6, <3>1
  <2>2. PICK x \in starts : \A y \in starts : x <= y
    <3> HIDE DEF starts
    <3> QED
      BY <2>1, LeastNumber
  <2>3. PICK q \in Earlier : q[1] = x
    BY <2>2
  <2>4. q \in FirstParts(str)
    <3> SUFFICES ASSUME NEW o \in Parts(str), o[1] < q[1], NameOf(str, o) = NameOf(str, q)
                 PROVE  FALSE
      BY <2>3 DEF FirstParts
    <3>1. o[1] < r
      <4>1. o[1] \in Nat /\ q[1] \in Nat /\ q[1] < r /\ r \in Nat
        <5>1. o[1] \in EndsOf(str) /\ q[1] \in EndsOf(str)
          BY <2>3, PartsAre
        <5> QED
          BY <2>3, <5>1, PartsAre, LenProperties
      <4> QED
        BY <4>1
    <3>2. o \in Earlier
      BY <2>3, <3>1
    <3>3. o[1] \in starts /\ x \in Nat /\ o[1] \in Nat
      BY <2>1, <2>2, <3>2
    <3>4. x <= o[1]
      BY <2>2, <3>3
    <3> HIDE DEF starts, Earlier
    <3>5. q[1] = x
      BY <2>3
    <3> QED
      BY <3>3, <3>4, <3>5
  <2>5. q[2] <= r /\ NameOf(str, q) = NameOf(str, p)
    BY <2>3
  <2>6. ParamOf(str, q) \in ParamsTo(str, r)
    BY <2>4, <2>5 DEF ParamsTo
  <2>7. Insert(ParamsTo(str, r), ParamOf(str, p)) = ParamsTo(str, r)
    BY <1>1, <2>5, <2>6 DEF Insert
  <2>8. {o \in FirstParts(str) : o[2] <= stop} = {o \in FirstParts(str) : o[2] <= r}
    <3>1. p \notin FirstParts(str)
      BY <1>3, <1>6
    <3> HIDE DEF p, Earlier
    <3> QED
      BY <1>4, <3>1
  <2> QED
    BY <2>7, <2>8 DEF ParamsTo
<1> QED
  BY <1>5, <1>6

\* Of the parts up to the beginning there are none, and up to the end all.
LEMMA ParamsToEnds ==
  ASSUME NEW str \in Seq(Char)
  PROVE  /\ ParamsTo(str, 0) = {}
         /\ ParamsTo(str, Len(str) + 1) = {ParamOf(str, p) : p \in FirstParts(str)}
<1>1. ASSUME NEW p \in FirstParts(str)
      PROVE  p[2] > 0 /\ p[2] <= Len(str) + 1
  <2>1. p \in Parts(str)
    BY DEF FirstParts
  <2>2. p[1] \in EndsOf(str) /\ p[2] \in EndsOf(str) /\ p[1] < p[2]
    BY <2>1, PartsAre
  <2> QED
    BY <2>2, PartsAre, LenProperties
<1>2. \A p \in FirstParts(str) : ~(p[2] <= 0)
  <2>1. \A p \in FirstParts(str) : p[2] \in Nat
    <3>1. \A p \in FirstParts(str) : p[2] \in EndsOf(str)
      BY PartsAre DEF FirstParts
    <3> QED
      BY <3>1, PartsAre, LenProperties
  <2> QED
    BY <1>1, <2>1
<1> QED
  <2>1. ParamsTo(str, 0) = {}
    BY <1>2 DEF ParamsTo
  <2>2. {q \in FirstParts(str) : q[2] <= Len(str) + 1} = FirstParts(str)
    BY <1>1
  <2> QED
    BY <2>1, <2>2 DEF ParamsTo

-----------------------------------------------------------------------------
\* What is known of a well-formed query: its parts, and where the path's first
\* separators are.
LEMMA QueryIs ==
  ASSUME NEW str \in Seq(Char), UnderRoot(str),
         NEW query \in DOMAIN str, WellFormedQuery(str, query)
  PROVE  /\ query \in 2..Len(str)
         /\ Find(str, Question) + 1 = query
         /\ OneEquals(From(str, query))
         /\ \A k \in 1..query : str[k] # Ampersand /\ str[k] # Equals
<1> DEFINE n == Len(str)
           tail == From(str, query)
<1>1. n \in Nat /\ DOMAIN str = 1..n /\ query \in 1..n /\ query \in 0..n
  BY LenProperties
<1>2. /\ Question # Slash /\ Question # Ampersand /\ Question # Equals
      /\ Question \in Char
  BY DEF Question, Slash, Ampersand, Equals, Char
<1>3. /\ \A k \in 1..n : str[k] \in {Ampersand, Equals, Question} => k \in query..n
      /\ \A k \in 1..n : str[k] = Question <=> k = query
      /\ \A p \in Parts(tail) : \E k \in (p[1] + 1)..(p[2] - 1) :
           {l \in (p[1] + 1)..(p[2] - 1) : str[query + l] = Equals} = {k}
  BY <1>1 DEF WellFormedQuery
<1>4. str[1] = Slash
  BY DEF UnderRoot
<1>5. /\ tail \in Seq(Char) /\ Len(tail) = n - query
      /\ \A k \in 1..(n - query) : tail[k] = str[query + k]
  BY <1>1, FromIs
<1> HIDE DEF n, tail
<1>6. query # 1
  BY <1>1, <1>2, <1>3, <1>4
<1>7. ASSUME NEW k \in 1..query PROVE str[k] # Ampersand /\ str[k] # Equals
  <2>1. k \in 1..n
    BY <1>1
  <2>2. CASE k = query
    BY <1>1, <1>2, <1>3, <2>2
  <2>3. CASE k # query
    <3>1. ~(k \in query..n)
      BY <1>1, <2>3
    <3> QED
      BY <1>3, <2>1, <3>1
  <2> QED
    BY <2>2, <2>3
<1>8. Find(str, Question) = query - 1
  <2>1. query - 1 \in 0..(n - 1) /\ (query - 1) + 1 = query
    BY <1>1
  <2>2. str[(query - 1) + 1] = Question
    BY <1>1, <1>3, <2>1
  <2>3. \A j \in 1..(query - 1) : str[j] # Question
    BY <1>1, <1>3
  <2> QED
    BY <1>2, <2>1, <2>2, <2>3, FindIs DEF n
<1>9. OneEquals(tail)
  <2> SUFFICES ASSUME NEW p \in Parts(tail)
               PROVE  \E k \in (p[1] + 1)..(p[2] - 1) :
                        \A l \in (p[1] + 1)..(p[2] - 1) : tail[l] = Equals <=> l = k
    BY DEF OneEquals
  <2>1. PICK k \in (p[1] + 1)..(p[2] - 1) :
          {l \in (p[1] + 1)..(p[2] - 1) : str[query + l] = Equals} = {k}
    BY <1>3
  <2>2. p[1] \in 0..(n - query + 1) /\ p[2] \in 0..(n - query + 1)
    <3>1. p[1] \in EndsOf(tail) /\ p[2] \in EndsOf(tail)
      BY <1>5, PartsAre
    <3> QED
      BY <1>5, <3>1, PartsAre
  <2>3. ASSUME NEW l \in (p[1] + 1)..(p[2] - 1) PROVE tail[l] = Equals <=> l = k
    <3>1. l \in 1..(n - query)
      BY <1>1, <2>2
    <3>2. tail[l] = str[query + l]
      BY <1>5, <3>1
    <3>3. str[query + l] = Equals <=> l = k
      BY <2>1
    <3> QED
      BY <3>2, <3>3
  <2> QED
    BY <2>3
<1> QED
  BY <1>1, <1>6, <1>7, <1>8, <1>9 DEF n, tail

\* What a turn of record2map's loop does: behind the first characters of base
\* stands what of the query is not read; the pair of its first part is inserted.
LEMMA NextPart ==
  ASSUME NEW str \in Seq(Char), OneEquals(str),
         NEW r \in 0..Len(str), r \in EndsOf(str),
         NEW base \in Seq(Char), NEW first \in 0..Len(base),
         From(base, first) = From(str, r),
         \A k \in 1..first : base[k] # Ampersand /\ base[k] # Equals
  PROVE  LET next == Find(base, Ampersand)
         IN  IF next > 0
             THEN \E stop \in 0..Len(str) :
                    /\ stop \in EndsOf(str) /\ From(base, next + 1) = From(str, stop)
                    /\ Insert(ParamsTo(str, r), Pair(base, first, next)) =
                         ParamsTo(str, stop)
             ELSE Insert(ParamsTo(str, r), Pair(base, first, Len(base))) =
                    ParamsTo(str, Len(str) + 1)
<1> DEFINE tail == From(str, r)
           a == Find(tail, Ampersand)
           stop == IF a = -1 THEN Len(str) + 1 ELSE r + a + 1
           next == Find(base, Ampersand)
           n == Len(str)
           m == Len(base)
<1>1. /\ stop \in (r + 1)..(n + 1) /\ stop \in EndsOf(str) /\ <<r, stop>> \in Parts(str)
      /\ \A q \in Parts(str) : /\ q[1] < r <=> q[2] <= r
                               /\ q[2] <= stop <=> q[2] <= r \/ q = <<r, stop>>
  BY PartAt
<1>2. Ampersand \in Char /\ Equals \in Char
  BY Separators
<1>3. a \in -1..(Len(tail) - 1) /\ next = IF a = -1 THEN -1 ELSE first + a
  BY <1>2, FindBehind
<1>4. /\ Find(tail, Equals) \in Nat /\ r + Find(tail, Equals) + 1 < stop
  <2> HIDE DEF stop
  <2> QED
    BY <1>1, EqualsAt
<1>5. Find(base, Equals) = first + Find(tail, Equals)
  <2>1. Find(base, Equals) = IF Find(tail, Equals) = -1 THEN -1
                             ELSE first + Find(tail, Equals)
    BY <1>2, FindBehind
  <2> HIDE DEF tail
  <2>2. Find(tail, Equals) # -1
    BY <1>4
  <2> QED
    BY <2>1, <2>2
<1>6. Pair(base, first, first + (stop - r - 1)) = ParamOf(str, <<r, stop>>)
  <2> HIDE DEF stop
  <2> QED
    BY <1>1, <1>5, ParamAt
<1>7. Insert(ParamsTo(str, r), Pair(base, first, first + (stop - r - 1))) =
        ParamsTo(str, stop)
  <2> HIDE DEF stop
  <2> QED
    BY <1>1, <1>6, InsertedPart
<1>8. /\ n \in Nat /\ m \in Nat /\ r \in 0..n /\ first \in 0..m
      /\ Len(tail) = n - r /\ Len(tail) = m - first
  <2>1. Len(tail) = n - r
    BY FromIs
  <2>2. Len(tail) = m - first
    BY FromIs
  <2> QED
    BY <2>1, <2>2, LenProperties
<1>9. stop = IF a = -1 THEN n + 1 ELSE r + a + 1
  OBVIOUS
<1>10. ASSUME a # -1 PROVE From(base, next + 1) = From(str, stop)
  <2>1. a + 1 \in 0..Len(tail) /\ next + 1 = first + (a + 1) /\ stop = r + (a + 1)
    BY <1>3, <1>8, <1>9, <1>10
  <2>2. From(tail, a + 1) = From(base, first + (a + 1))
    BY <2>1, FromIs
  <2>3. From(tail, a + 1) = From(str, r + (a + 1))
    BY <2>1, FromIs
  <2> HIDE DEF a, tail, stop, next
  <2> QED
    BY <2>1, <2>2, <2>3
<1> HIDE DEF tail, a, stop, next, n, m
<1>11. next > 0 <=> a # -1
  BY <1>3, <1>4, <1>8, <1>9
<1>12. CASE a # -1
  <2>1. stop \in 0..n /\ next = first + (stop - r - 1)
    BY <1>1, <1>3, <1>8, <1>9, <1>12
  <2> QED
    BY <1>1, <1>7, <1>10, <1>11, <1>12, <2>1 DEF next, n
<1>13. CASE a = -1
  <2>1. stop = n + 1 /\ m = first + (stop - r - 1)
    BY <1>8, <1>9, <1>13
  <2> QED
    BY <1>7, <1>11, <1>13, <2>1 DEF next, n, m
<1> QED
  BY <1>12, <1>13

(***************************************************************************)
(* How far the query is read: the map has what insert() made of the parts  *)
(* up to r, and what is left begins behind r.                              *)
(***************************************************************************)
ReadTo(str, r) == r \in EndsOf(str) /\ rest = From(str, r) /\ params = ParamsTo(str, r)

QuerySoFar ==
  /\ pc = "decoding" => params = {}
  /\ \A query \in DOMAIN path : WellFormedQuery(path, query) =>
       LET str == From(path, query)
       IN  /\ pc = "pairing" => \E r \in 0..Len(str) : ReadTo(str, r)
           /\ pc = "naming" => params = ParamsTo(str, Len(str) + 1)

\* Reading the query keeps it.
LEMMA ReadQueryKeepsSoFar ==
  ASSUME IInv, QuerySoFar, ReadQuery
  PROVE  QuerySoFar'
<1>1. path \in Seq(Char) /\ UnderRoot(path) /\ path' = path /\ pc' # "decoding"
      /\ rest \in Seq(Char)
  BY DEF IInv, TypeOK, PathChecked, ReadQuery, FirstPair, NextPair, LastPair, OnlyPair,
         NoPair, Goes, Accepted
<1> SUFFICES ASSUME NEW query \in DOMAIN path, WellFormedQuery(path, query)
             PROVE  LET str == From(path, query)
                    IN  /\ pc' = "pairing" => \E r \in 0..Len(str) : ReadTo(str, r)'
                        /\ pc' = "naming" => params' = ParamsTo(str, Len(str) + 1)
  BY <1>1 DEF QuerySoFar
<1> DEFINE str == From(path, query)
<1>2. /\ query \in 2..Len(path) /\ Find(path, Question) + 1 = query
      /\ OneEquals(str)
      /\ \A k \in 1..query : path[k] # Ampersand /\ path[k] # Equals
  BY <1>1, QueryIs
<1>3. query \in 0..Len(path) /\ Len(path) \in Nat
  BY <1>1, <1>2, LenProperties
<1>4. str \in Seq(Char) /\ Len(str) \in Nat /\ From(str, 0) = From(path, query)
  <2>1. str \in Seq(Char) /\ \A r \in 0..Len(str) : From(str, r) = From(path, query + r)
    BY <1>1, <1>3, FromIs
  <2>2. Len(str) \in Nat
    BY <2>1, LenProperties
  <2>3. 0 \in 0..Len(str) /\ query + 0 = query
    BY <1>3, <2>2
  <2> QED
    BY <2>1, <2>2, <2>3
<1>5. 0 \in 0..Len(str) /\ 0 \in EndsOf(str)
  BY <1>4 DEF EndsOf
<1>6. ParamsTo(str, 0) = {}
  BY <1>4, ParamsToEnds
<1>7. /\ pc = "pairing" => \E r \in 0..Len(str) : ReadTo(str, r)
      /\ pc = "decoding" => params = ParamsTo(str, 0)
  BY <1>6 DEF QuerySoFar
<1> HIDE DEF str
<1>8. LET next == Find(path, Ampersand)
      IN  IF next > 0
          THEN \E stop \in 0..Len(str) :
                 /\ stop \in EndsOf(str) /\ From(path, next + 1) = From(str, stop)
                 /\ Insert(ParamsTo(str, 0), Pair(path, query, next)) = ParamsTo(str, stop)
          ELSE Insert(ParamsTo(str, 0), Pair(path, query, Len(path))) =
                 ParamsTo(str, Len(str) + 1)
  BY <1>1, <1>2, <1>3, <1>4, <1>5, NextPart
<1>9. ASSUME pc = "pairing"
      PROVE  LET next == Find(rest, Ampersand)
             IN  IF next > 0
                 THEN \E stop \in 0..Len(str) :
                        /\ stop \in EndsOf(str) /\ From(rest, next + 1) = From(str, stop)
                        /\ Insert(params, Pair(rest, 0, next)) = ParamsTo(str, stop)
                 ELSE Insert(params, Pair(rest, 0, Len(rest))) = ParamsTo(str, Len(str) + 1)
  <2>1. PICK r \in 0..Len(str) : ReadTo(str, r)
    BY <1>7, <1>9
  <2>2. 0 \in 0..Len(rest) /\ Len(rest) \in Nat
    BY <1>1, LenProperties
  <2>3. From(rest, 0) = From(str, r)
    <3>1. From(rest, 0) = rest
      <4>1. SubSeq(rest, 1, Len(rest)) = rest
        BY <1>1, <2>2
      <4> QED
        BY <4>1 DEF From
    <3> QED
      BY <2>1, <3>1 DEF ReadTo
  <2>4. \A k \in 1..0 : rest[k] # Ampersand /\ rest[k] # Equals
    OBVIOUS
  <2>5. r \in EndsOf(str) /\ params = ParamsTo(str, r)
    BY <2>1 DEF ReadTo
  <2> QED
    BY <1>1, <1>2, <1>4, <2>2, <2>3, <2>4, <2>5, NextPart
<1>10. CASE FirstPair
  <2>1. /\ pc = "decoding" /\ Find(path, Ampersand) > 0
        /\ params' = Insert(params, Pair(path, query, Find(path, Ampersand)))
        /\ rest' = From(path, Find(path, Ampersand) + 1)
        /\ pc' # "naming"
    BY <1>2, <1>10 DEF FirstPair, Goes
  <2>2. PICK stop \in 0..Len(str) :
          /\ stop \in EndsOf(str) /\ rest' = From(str, stop)
          /\ params' = ParamsTo(str, stop)
    BY <1>7, <1>8, <2>1
  <2>3. ReadTo(str, stop)'
    BY <1>1, <2>2 DEF ReadTo, str
  <2> QED
    BY <2>1, <2>3 DEF str
<1>11. CASE NextPair
  <2>1. /\ pc = "pairing" /\ Find(rest, Ampersand) > 0
        /\ params' = Insert(params, Pair(rest, 0, Find(rest, Ampersand)))
        /\ rest' = From(rest, Find(rest, Ampersand) + 1)
        /\ pc' # "naming"
    BY <1>11 DEF NextPair, Goes, More
  <2>2. PICK stop \in 0..Len(str) :
          /\ stop \in EndsOf(str) /\ rest' = From(str, stop)
          /\ params' = ParamsTo(str, stop)
    BY <1>9, <2>1
  <2>3. ReadTo(str, stop)'
    BY <1>1, <2>2 DEF ReadTo, str
  <2> QED
    BY <2>1, <2>3 DEF str
<1>12. CASE LastPair
  <2>1. /\ pc = "pairing" /\ ~(Find(rest, Ampersand) > 0)
        /\ params' = Insert(params, Pair(rest, 0, Len(rest)))
        /\ pc' # "pairing"
    BY <1>12 DEF LastPair, Goes, More
  <2>2. params' = ParamsTo(str, Len(str) + 1)
    BY <1>9, <2>1
  <2> QED
    BY <2>1, <2>2 DEF str
<1>13. CASE OnlyPair
  <2>1. /\ pc = "decoding" /\ ~(Find(path, Ampersand) > 0)
        /\ params' = Insert(params, Pair(path, query, Len(path)))
        /\ pc' # "pairing"
    <3>1. /\ pc = "decoding" /\ Find(path, Ampersand) <= 0
          /\ params' = Insert(params, Pair(path, query, Len(path)))
          /\ pc' # "pairing"
      BY <1>2, <1>13 DEF OnlyPair, Goes
    <3>2. Find(path, Ampersand) \in Int
      BY <1>1, <1>3, FindRange, Separators
    <3> QED
      BY <3>1, <3>2
  <2>2. params' = ParamsTo(str, Len(str) + 1)
    BY <1>7, <1>8, <2>1
  <2> QED
    BY <2>1, <2>2 DEF str
<1>14. CASE NoPair
  <2>1. Find(path, Question) \in Int /\ Find(path, Question) <= 0
    BY <1>1, <1>3, <1>14, FindRange, Separators DEF NoPair
  <2> QED
    BY <1>2, <1>3, <2>1
<1> QED
  BY <1>10, <1>11, <1>12, <1>13, <1>14 DEF ReadQuery

\* A well-formed query is read part for part, however many it has, and of
\* several values of a name the first is kept (request_handler.cpp:39-87).
THEOREM QueryReadAsWritten == Spec => []QueryReadExactly
<1>1. Init => QuerySoFar
  BY DEF Init, QuerySoFar
<1>2. IInv /\ QuerySoFar /\ [Next]_vars => QuerySoFar'
  <2> SUFFICES ASSUME IInv, QuerySoFar, [Next]_vars PROVE QuerySoFar'
    OBVIOUS
  <2>1. CASE Decode
    BY <2>1 DEF Decode, DecodeEscape, RefuseEscape, DecodePlus, Copy, Refuse, QuerySoFar
  <2>2. CASE Open
    BY <2>2 DEF Open, QuerySoFar
  <2>3. CASE UNCHANGED vars
    BY <2>3 DEF vars, QuerySoFar, ReadTo
  <2> QED
    BY <2>1, <2>2, <2>3, ReadQueryKeepsSoFar DEF Next
<1>3. IInv /\ QuerySoFar => QueryReadExactly
  <2> SUFFICES ASSUME IInv, QuerySoFar, NEW query \in DOMAIN path,
                      pc = "naming", WellFormedQuery(path, query)
               PROVE  params = {ParamOf(From(path, query), p) :
                                  p \in FirstParts(From(path, query))}
    BY DEF QueryReadExactly
  <2>1. path \in Seq(Char) /\ query \in 0..Len(path)
    BY LenProperties DEF IInv, TypeOK
  <2>2. From(path, query) \in Seq(Char)
    BY <2>1, FromIs
  <2> QED
    BY <2>2, ParamsToEnds DEF QuerySoFar
<1> QED
  BY <1>1, <1>2, <1>3, TargetInvariant, PTL DEF Spec
=============================================================================
