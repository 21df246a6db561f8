--------------------------- MODULE RequestHandler ---------------------------
(***************************************************************************)
(* What the server does with a complete request: class request_handler    *)
(* (src/HTTP/request_handler.cpp), the files it writes through cstjson.cpp *)
(* and the replies of reply.cpp.  Pure operators from the request, the     *)
(* reply object and the disk to the new reply object and the new disk.     *)
(*                                                                         *)
(* A URI is a sequence of lexemes (RequestParser!Path and others), each of *)
(* which stands for itself and for what url_decode makes of it.  A file is *)
(* named for its role, and a URI names it only as the role's lexeme spells *)
(* it: another spelling that the system would take for the same file (a    *)
(* doubled slash, a dot behind the name) names an absent one.  The content *)
(* of a file is a sequence of texts.  The three GET hooks                  *)
(* writeFileJson_robots, _missions and _maps and Datatrans::remotecontrol  *)
(* are empty in the code and change nothing; the parsed query parameters   *)
(* (record2map) are only handed to those hooks.                            *)
(***************************************************************************)
EXTENDS RequestParser

CONSTANT Asserts  \* TRUE: a build in which assert() is compiled in (Debug);
                  \* FALSE: one that defines NDEBUG (Release)

ASSUME AssertsAssumption == Asserts \in BOOLEAN

(***************************************************************************)
(* The files under the document root F:/ that matter:                      *)
(*   mission    F:/demo.json, written for every published mission          *)
(*   feedback   F:/mission/group/res.json, written for every mission       *)
(*   groupdemo  F:/mission/group/demo.json, returned for every mission     *)
(*   static     any other file that exists and that no program writes      *)
(*   absent     any other name                                             *)
(***************************************************************************)
File == {"mission", "feedback", "groupdemo", "static", "absent"}

NoFile == <<"no file">>

\* What writeFileJson_mission_callback writes.
FeedbackText == <<"code 0">>

\* What writeFileJson_mission_allo(str) writes: a placeholder, whatever str is.
MissionText(str) == <<"placeholder">>

\* rep.status (0: not set), rep.content, and the Content-Length header.
Reply == [status : {0, 200, 400, 404}, content : Seq(STRING), length : Nat]

NoReply == [status |-> 0, content |-> <<>>, length |-> 0]

StockText(status) == IF status = 400 THEN <<"Bad Request">> ELSE <<"Not Found">>

StockReply(status) ==
  [status |-> status, content |-> StockText(status),
   length |-> Len(StockText(status))]

\* url_decode: only an escape that is no number cannot be decoded.
Decodes(uri) == ~Contains(uri, "/%zz")

\* The path is absolute and does not contain "..", in one lexeme or two.
InRoot(uri) ==
  /\ uri # <<>> /\ uri[1] \in Path
  /\ ~Contains(uri, "/..")
  /\ \A i \in 2..Len(uri) : uri[i] = "dot" => uri[i - 1] # "dot"

\* Answered 400, whatever the method.
Refused(uri) == ~Decodes(uri) \/ ~InRoot(uri)

\* The file a GET names: the path up to the query, which may go on behind the
\* lexeme it begins in, and demo.json appended to a directory.
FileOfGET(uri) ==
  CASE uri = <<"/">>                   -> "mission"
    [] uri = <<"/mission/group/">>     -> "groupdemo"
    [] uri = <<"/file">>               -> "static"
    [] uri[1] = "/file?used"           -> "static"
    [] OTHER                           -> "absent"

\* The file a POST names: the query stays, json.json appended to a directory.
FileOfPOST(uri) == IF uri = <<"/file">> THEN "static" ELSE "absent"

\* Mutant: Content-Length is set before the file is appended.
ServeFileEarlyLength(file, rep, disk) ==
  IF disk[file] = NoFile
  THEN StockReply(404)
  ELSE [status |-> 200, content |-> rep.content \o disk[file],
        length |-> Len(rep.content)]

\* Open the file, append it to the content, then set Content-Length; 404 when
\* it cannot be opened.
ServeFile(file, rep, disk) ==
  LET content == rep.content \o disk[file]
  IN  IF disk[file] = NoFile
      THEN StockReply(404)
      ELSE [status |-> 200, content |-> content, length |-> Len(content)]

\* ofstream::open and the writing of a text: without effect on a file that
\* cannot be opened.
WriteFile(file, text, disk, failing) ==
  IF file \in failing THEN disk ELSE [disk EXCEPT ![file] = text]

\* Mutant: the opening of the mission file is not asserted.
PublishMissionUnchecked(body, rep, disk, failing) ==
  LET disk1 == WriteFile("feedback", FeedbackText, disk, failing)
      disk2 == WriteFile("mission", MissionText(body), disk1, failing)
  IN  IF Asserts /\ "feedback" \in failing
      THEN [reply |-> rep, disk |-> disk1, aborted |-> TRUE, wrote |-> {}]
      ELSE [reply |-> ServeFile("groupdemo", [rep EXCEPT !.status = 200], disk2),
            disk |-> disk2, aborted |-> FALSE,
            wrote |-> {"feedback", "mission"} \ failing]

(***************************************************************************)
(* POST /mission/group/: the feedback file, then the mission file, are     *)
(* written, each open checked by an assert, then the reply is filled in.   *)
(* failing is the set of files that cannot be opened for writing now;      *)
(* wrote, which only properties look at, the files opened and written.     *)
(***************************************************************************)
PublishMission(body, rep, disk, failing) ==
  LET disk1 == WriteFile("feedback", FeedbackText, disk, failing)
      disk2 == WriteFile("mission", MissionText(body), disk1, failing)
      OkReply == [rep EXCEPT !.status = 200]
      Wrote == {"feedback", "mission"} \ failing
  IN  IF Asserts /\ "feedback" \in failing
      THEN [reply |-> rep, disk |-> disk1, aborted |-> TRUE, wrote |-> {}]
      ELSE IF Asserts /\ "mission" \in failing
      THEN [reply |-> OkReply, disk |-> disk2, aborted |-> TRUE, wrote |-> Wrote]
      ELSE [reply |-> ServeFile("groupdemo", OkReply, disk2),
            disk |-> disk2, aborted |-> FALSE, wrote |-> Wrote]

\* A POST that writes nothing.
Answer(rep, disk) == [reply |-> rep, disk |-> disk, aborted |-> FALSE, wrote |-> {}]

HandlePOST(uri, body, rep, disk, failing) ==
  IF Refused(uri)
  THEN Answer(StockReply(400), disk)
  ELSE IF uri = <<"/mission/group/">>
  THEN PublishMission(body, rep, disk, failing)
  ELSE IF uri = <<"/api/robots/control/">>
  THEN Answer([rep EXCEPT !.status = 200, !.length = Len(rep.content)], disk)
  ELSE Answer(ServeFile(FileOfPOST(uri), rep, disk), disk)

HandleGET(uri, rep, disk) ==
  IF Refused(uri) THEN StockReply(400)
                  ELSE ServeFile(FileOfGET(uri), rep, disk)
=============================================================================
