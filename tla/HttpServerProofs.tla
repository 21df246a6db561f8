-------------------------- MODULE HttpServerProofs --------------------------
(***************************************************************************)
(* Theorems about the HTTP server for any number of connections, any       *)
(* streams, cuts and buffer contents.  They are about the control of the   *)
(* server (module Connection's control variables, the acceptor and the     *)
(* signal) and treat what parse and the request handler compute as         *)
(* unknown values.                                                         *)
(***************************************************************************)
EXTENDS HttpServer, TLAPS

(***************************************************************************)
(* The inductive invariant.  Beside the properties themselves:             *)
(*   IdleUnlessStarted  a socket that is not a connection yet has no       *)
(*                      operation, so that starting it overwrites none;    *)
(*   PendingIsOpen      nothing waits for the network on a socket that is  *)
(*                      not open;                                          *)
(*   AcceptorOpen       the acceptor is open until the stop, which leaves  *)
(*                      no pending accept behind;                          *)
(*   OneAccepted        an accept holds at most one socket;                *)
(*   CancelledIsClosed  an operation is cancelled only with its socket, so *)
(*                      that nothing is idle because of it;                *)
(*   StopEmpties        after the stop the manager knows no connection.    *)
(***************************************************************************)
IdleUnlessStarted ==
  \A c \in Conn : socket_[c] \in {"none", "accepted"} =>
                    read_[c] = "none" /\ write_[c] = "none"

PendingIsOpen ==
  \A c \in Conn :
    read_[c] = "pending" \/ write_[c] = "pending" => socket_[c] = "open"

AcceptorOpen ==
  /\ acceptor_ <=> signals_ # "done"
  /\ accept_ = "pending" => acceptor_

OneAccepted ==
  \A c, d \in Conn : socket_[c] = "accepted" /\ socket_[d] = "accepted" => c = d

CancelledIsClosed ==
  \A c \in Conn :
    read_[c] = "aborted" \/ write_[c] = "aborted" => socket_[c] = "closed"

StopEmpties == signals_ = "done" => connections_ = {}

\* The functions of module Connection that the properties read are functions
\* on the connections.
Shape ==
  /\ DOMAIN result_first = Conn
  /\ DOMAIN request_first = Conn
  /\ DOMAIN reply_ = Conn

IInv ==
  /\ TypeOK
  /\ ManagedIsOpen
  /\ OneOperation
  /\ PendingIsOpen
  /\ AcceptOutstanding
  /\ OnlyOtherMethodsIdle
  /\ IdleUnlessStarted
  /\ AcceptorOpen
  /\ OneAccepted
  /\ CancelledIsClosed
  /\ StopEmpties
  /\ Shape

-----------------------------------------------------------------------------
\* The server starts in the invariant.
LEMMA InitIInv == Init => IInv
<1> SUFFICES ASSUME Init PROVE IInv
  OBVIOUS
<1> USE DEF Init, ConnectionInit
<1>1. TypeOK
  BY DEF TypeOK, Operation
<1>2. ManagedIsOpen /\ OneOperation /\ PendingIsOpen /\ OnlyOtherMethodsIdle
  BY DEF ManagedIsOpen, OneOperation, PendingIsOpen, OnlyOtherMethodsIdle
<1>3. AcceptOutstanding
  BY DEF AcceptOutstanding
<1>4. IdleUnlessStarted /\ AcceptorOpen /\ OneAccepted /\ CancelledIsClosed
      /\ StopEmpties
  BY DEF IdleUnlessStarted, AcceptorOpen, OneAccepted, CancelledIsClosed,
         StopEmpties
<1>5. Shape
  BY DEF Shape
<1> QED
  BY <1>1, <1>2, <1>3, <1>4, <1>5 DEF IInv

(***************************************************************************)
(* What a handler of a completed read does to the control variables: a new *)
(* read, a write, or nothing more; the abort of an assert keeps them.      *)
(***************************************************************************)
ReadOutcome(c) ==
  \/ do_read(c) /\ UNCHANGED write_
  \/ do_write(c)
  \/ UNCHANGED <<read_, write_>> /\ process' = "aborted"
  \/ /\ read_' = [read_ EXCEPT ![c] = "none"] /\ UNCHANGED write_
     /\ result_first'[c] = "good"
     /\ request_first'[c].method \notin {<<"GET">>, <<"POST">>}

\* Whatever branch the handler of a completed read takes, its effect on the
\* control variables is one of the outcomes of ReadOutcome.
LEMMA ReadCompletedOutcome ==
  ASSUME NEW c \in Conn, IInv, ReadCompleted(c)
  PROVE  /\ ReadOutcome(c)
         /\ process' \in {"running", "aborted"}
         /\ UNCHANGED <<connections_, socket_>>
         /\ Shape'
         /\ \A d \in Conn \ {c} : /\ result_first'[d] = result_first[d]
                                  /\ request_first'[d] = request_first[d]
                                  /\ reply_'[d] = reply_[d]
<1>1. PICK p \in {Parsed(c)} :
        \/ AwaitBody(c, p) \/ AnswerPOST(c, p) \/ AnswerGET(c, p)
        \/ IgnoreMethod(c, p) \/ RejectBad(c, p) \/ ReadMore(c, p)
  BY DEF ReadCompleted
<1>2. process = "running"
  BY DEF ReadCompleted
<1>3. Shape
  BY DEF IInv
<1>4. \E body : Keep(c, p, body)
  BY <1>1 DEF AwaitBody, AnswerPOST, AnswerGET, IgnoreMethod, RejectBad, ReadMore
<1>5. PICK reply : reply_' = reply_ \/ reply_' = [reply_ EXCEPT ![c] = reply]
  BY <1>1 DEF AwaitBody, AnswerPOST, AnswerGET, IgnoreMethod, RejectBad, ReadMore
<1>6. /\ UNCHANGED <<connections_, socket_>>
      /\ Shape'
      /\ \A d \in Conn \ {c} : /\ result_first'[d] = result_first[d]
                               /\ request_first'[d] = request_first[d]
                               /\ reply_'[d] = reply_[d]
      /\ result_first'[c] = p.result
      /\ request_first'[c].method = p.parser.method
  BY <1>3, <1>4, <1>5 DEF Keep, Shape
<1>7. ReadOutcome(c) /\ process' \in {"running", "aborted"}
  <2>1. CASE AwaitBody(c, p)
    BY <2>1, <1>2 DEF AwaitBody, ReadOutcome
  <2>2. CASE AnswerPOST(c, p)
    BY <2>2, <1>2 DEF AnswerPOST, ReadOutcome
  <2>3. CASE AnswerGET(c, p)
    BY <2>3, <1>2 DEF AnswerGET, ReadOutcome
  <2>4. CASE IgnoreMethod(c, p)
    BY <2>4, <1>2, <1>6 DEF IgnoreMethod, ReadOutcome, IsPOST, IsGET
  <2>5. CASE RejectBad(c, p)
    BY <2>5, <1>2 DEF RejectBad, ReadOutcome
  <2>6. CASE ReadMore(c, p)
    BY <2>6, <1>2 DEF ReadMore, ReadOutcome
  <2> QED
    BY <1>1, <2>1, <2>2, <2>3, <2>4, <2>5, <2>6
<1> QED
  BY <1>6, <1>7

-----------------------------------------------------------------------------
(***************************************************************************)
(* Each kind of step keeps the invariant.                                  *)
(***************************************************************************)
\* The handler of a completed read keeps the invariant.
LEMMA ReadCompletedIInv ==
  ASSUME NEW c \in Conn, IInv, ReadCompleted(c),
         UNCHANGED <<acceptor_, accept_, signals_>>
  PROVE  IInv'
<1>1. /\ ReadOutcome(c)
      /\ process' \in {"running", "aborted"}
      /\ UNCHANGED <<connections_, socket_>>
      /\ Shape'
      /\ \A d \in Conn \ {c} : /\ result_first'[d] = result_first[d]
                               /\ request_first'[d] = request_first[d]
                               /\ reply_'[d] = reply_[d]
  BY ReadCompletedOutcome
<1>2. read_[c] = "ok"
  BY DEF ReadCompleted
<1>3. TypeOK /\ write_[c] = "none"
  BY <1>2 DEF IInv, OneOperation
<1>4. socket_[c] \in {"open", "closed"}
  BY <1>2, <1>3 DEF IInv, IdleUnlessStarted, TypeOK
<1>5. TypeOK'
  BY <1>1, <1>3 DEF TypeOK, ReadOutcome, do_read, do_write, Initiated, Operation
<1>6. \A d \in Conn \ {c} : read_'[d] = read_[d] /\ write_'[d] = write_[d]
  BY <1>1, <1>3 DEF ReadOutcome, do_read, do_write, TypeOK
<1>7. read_'[c] = "none" \/ write_'[c] = "none"
  BY <1>1, <1>3 DEF ReadOutcome, do_read, do_write, TypeOK
<1>8. read_'[c] = "pending" \/ write_'[c] = "pending" => socket_[c] = "open"
  BY <1>1, <1>2, <1>3 DEF ReadOutcome, do_read, do_write, Initiated, TypeOK
<1>9. read_'[c] = "none" /\ write_'[c] = "none" =>
        /\ result_first'[c] = "good"
        /\ request_first'[c].method \notin {<<"GET">>, <<"POST">>}
  BY <1>1, <1>2, <1>3 DEF ReadOutcome, do_read, do_write, Initiated, TypeOK
<1>10. OneOperation'
  BY <1>6, <1>7 DEF IInv, OneOperation
<1>11. PendingIsOpen'
  BY <1>1, <1>6, <1>8 DEF IInv, PendingIsOpen
<1>12. OnlyOtherMethodsIdle'
  BY <1>1, <1>3, <1>6, <1>9 DEF IInv, OnlyOtherMethodsIdle, TypeOK
<1>13. IdleUnlessStarted'
  BY <1>1, <1>4, <1>6 DEF IInv, IdleUnlessStarted
<1>14. read_'[c] # "aborted" /\ write_'[c] # "aborted"
  BY <1>1, <1>2, <1>3 DEF ReadOutcome, do_read, do_write, Initiated, TypeOK
<1>15. CancelledIsClosed'
  BY <1>1, <1>6, <1>14 DEF IInv, CancelledIsClosed
<1>16. ManagedIsOpen' /\ AcceptOutstanding' /\ AcceptorOpen' /\ OneAccepted' /\ StopEmpties'
  BY <1>1 DEF IInv, ManagedIsOpen, AcceptOutstanding, AcceptorOpen, OneAccepted,
              StopEmpties
<1> QED
  BY <1>1, <1>5, <1>10, <1>11, <1>12, <1>13, <1>15, <1>16 DEF IInv

\* A handler that stops its connection.
LEMMA ManagerStopIInv ==
  ASSUME NEW c \in Conn, IInv,
         NEW operation \in {"read", "write"},
         operation = "read" => read_[c] = "error",
         operation = "write" => write_[c] \in {"ok", "error"},
         ManagerStop(c, operation),
         UNCHANGED <<process, data, acceptor_, accept_, signals_>>
  PROVE  IInv'
<1>1. TypeOK
  BY DEF IInv
<1>2. socket_[c] \in {"open", "closed"}
  BY <1>1 DEF IInv, IdleUnlessStarted, TypeOK
<1>3. /\ connections_' = connections_ \ {c}
      /\ socket_'[c] = "closed"
      /\ \A d \in Conn \ {c} : /\ socket_'[d] = socket_[d]
                               /\ read_'[d] = read_[d]
                               /\ write_'[d] = write_[d]
  BY <1>1 DEF ManagerStop, Close, Cancel, TypeOK
<1>4. /\ read_'[c] = "none" \/ write_'[c] = "none"
      /\ read_'[c] # "pending" /\ write_'[c] # "pending"
  BY <1>1 DEF ManagerStop, Cancel, TypeOK, IInv, OneOperation
<1>5. TypeOK'
  BY <1>1 DEF ManagerStop, Close, Cancel, TypeOK, Operation
<1>6. ManagedIsOpen' /\ OneOperation' /\ PendingIsOpen'
  BY <1>3, <1>4 DEF IInv, ManagedIsOpen, OneOperation, PendingIsOpen
<1>7. OnlyOtherMethodsIdle'
  BY <1>1, <1>3 DEF IInv, OnlyOtherMethodsIdle, TypeOK, data
<1>8. IdleUnlessStarted' /\ OneAccepted' /\ StopEmpties' /\ AcceptorOpen'
      /\ CancelledIsClosed'
  BY <1>3 DEF IInv, IdleUnlessStarted, OneAccepted, StopEmpties, AcceptorOpen,
              CancelledIsClosed
<1>9. AcceptOutstanding'
  BY <1>2, <1>3 DEF IInv, AcceptOutstanding
<1>10. Shape'
  BY DEF IInv, Shape, data
<1> QED
  BY <1>5, <1>6, <1>7, <1>8, <1>9, <1>10 DEF IInv

\* A step of one connection that only moves its operations on: the network,
\* or the handler of a cancelled operation.
LEMMA OperationIInv ==
  ASSUME NEW c \in Conn, IInv,
         NEW from \in {"pending", "aborted"},
         NEW to \in {"ok", "error", "none"},
         \/ /\ read_[c] = from
            /\ read_' = [read_ EXCEPT ![c] = to]
            /\ UNCHANGED write_
         \/ /\ write_[c] = from
            /\ write_' = [write_ EXCEPT ![c] = to]
            /\ UNCHANGED read_,
         from = "aborted" \/ to # "none",
         UNCHANGED <<process, connections_, socket_, result_first,
                     request_first, reply_, acceptor_, accept_, signals_>>
  PROVE  IInv'
<1>1. TypeOK
  BY DEF IInv
<1>2. TypeOK'
  BY <1>1 DEF TypeOK, Operation
<1>3. \A d \in Conn \ {c} : read_'[d] = read_[d] /\ write_'[d] = write_[d]
  BY <1>1 DEF TypeOK
<1>4. /\ read_'[c] = "none" \/ write_'[c] = "none"
      /\ read_'[c] # "pending" /\ write_'[c] # "pending"
      /\ from = "pending" => ~(read_'[c] = "none" /\ write_'[c] = "none")
  BY <1>1 DEF TypeOK, IInv, OneOperation
<1>5. socket_[c] \in {"open", "closed"}
  BY <1>1 DEF IInv, IdleUnlessStarted, TypeOK
<1>6. OneOperation' /\ PendingIsOpen' /\ IdleUnlessStarted' /\ CancelledIsClosed'
  BY <1>1, <1>3, <1>4, <1>5 DEF IInv, OneOperation, PendingIsOpen,
     IdleUnlessStarted, CancelledIsClosed, TypeOK
<1>9. from = "aborted" => c \notin connections_
  BY DEF IInv, CancelledIsClosed, ManagedIsOpen
<1>7. OnlyOtherMethodsIdle'
  BY <1>1, <1>3, <1>4, <1>9 DEF IInv, OnlyOtherMethodsIdle, TypeOK
<1>8. ManagedIsOpen' /\ AcceptOutstanding' /\ AcceptorOpen' /\ OneAccepted'
      /\ StopEmpties' /\ Shape'
  BY DEF IInv, ManagedIsOpen, AcceptOutstanding, AcceptorOpen, OneAccepted,
         StopEmpties, Shape
<1> QED
  BY <1>2, <1>6, <1>7, <1>8 DEF IInv

\* Steps of the acceptor and of the signal that touch no connection.
LEMMA ServerStepIInv ==
  ASSUME IInv, UNCHANGED <<connections_, socket_, read_, write_, data>>,
         process' \in {"running", "returned", "aborted"},
         acceptor_' = acceptor_,
         signals_' \in {"waiting", "fired", "done"},
         signals_' = "done" <=> signals_ = "done",
         \/ accept_' = accept_
         \/ /\ accept_ \notin {"ok", "none", "aborted"}
            /\ accept_' \in {"pending", "error"}
            /\ acceptor_
  PROVE  IInv'
<1>1. TypeOK'
  BY DEF IInv, TypeOK, Operation
<1>2. ManagedIsOpen' /\ OneOperation' /\ PendingIsOpen' /\ IdleUnlessStarted'
      /\ OneAccepted' /\ CancelledIsClosed' /\ StopEmpties' /\ AcceptorOpen'
  BY DEF IInv, ManagedIsOpen, OneOperation, PendingIsOpen, IdleUnlessStarted,
         OneAccepted, CancelledIsClosed, StopEmpties, AcceptorOpen
<1>3. AcceptOutstanding'
  BY DEF IInv, AcceptOutstanding
<1>4. OnlyOtherMethodsIdle' /\ Shape'
  BY DEF IInv, OnlyOtherMethodsIdle, Shape, data
<1> QED
  BY <1>1, <1>2, <1>3, <1>4 DEF IInv

\* An accept that completes keeps the invariant: the socket it holds is the
\* only accepted one.
LEMMA ConnectionArrivesIInv ==
  ASSUME NEW c \in Conn, IInv, ConnectionArrives(c)
  PROVE  IInv'
<1> USE DEF ConnectionArrives
<1>1. TypeOK
  BY DEF IInv
<1>2. TypeOK'
  BY <1>1 DEF TypeOK, Operation
<1>3. socket_'[c] = "accepted" /\ \A d \in Conn \ {c} : socket_'[d] = socket_[d]
  BY <1>1 DEF TypeOK
<1>4. \A d \in Conn : socket_[d] # "accepted"
  BY DEF IInv, AcceptOutstanding
<1>5. signals_ # "done"
  BY DEF IInv, AcceptorOpen
<1>6. AcceptOutstanding' /\ AcceptorOpen' /\ OneAccepted' /\ StopEmpties'
  BY <1>3, <1>4, <1>5 DEF IInv, AcceptOutstanding, AcceptorOpen, OneAccepted,
                          StopEmpties
<1>7. read_[c] = "none" /\ write_[c] = "none"
  BY DEF IInv, IdleUnlessStarted
<1>8. ManagedIsOpen' /\ OneOperation' /\ PendingIsOpen' /\ IdleUnlessStarted'
      /\ CancelledIsClosed'
  BY <1>3, <1>7 DEF IInv, ManagedIsOpen, OneOperation, PendingIsOpen,
                    IdleUnlessStarted, CancelledIsClosed
<1>9. OnlyOtherMethodsIdle' /\ Shape'
  BY DEF IInv, OnlyOtherMethodsIdle, Shape
<1> QED
  BY <1>2, <1>6, <1>8, <1>9 DEF IInv

\* An accept handler that runs after the stop keeps the invariant.
LEMMA AcceptTooLateIInv ==
  ASSUME IInv, AcceptTooLate
  PROVE  IInv'
<1> USE DEF AcceptTooLate, Close
<1>1. TypeOK
  BY DEF IInv
<1>2. TypeOK'
  BY <1>1 DEF TypeOK, Operation
<1>3. \A d \in Conn : /\ socket_'[d] # "accepted"
                      /\ socket_'[d] # socket_[d] => socket_[d] = "accepted"
                      /\ socket_'[d] = socket_[d] \/ socket_'[d] = "closed"
  BY <1>1 DEF TypeOK
<1>4. signals_ = "done"
  BY DEF IInv, AcceptorOpen
<1>5. AcceptOutstanding' /\ AcceptorOpen' /\ OneAccepted' /\ StopEmpties'
  BY <1>3, <1>4 DEF IInv, AcceptOutstanding, AcceptorOpen, OneAccepted, StopEmpties
<1>6. ManagedIsOpen' /\ OneOperation' /\ PendingIsOpen' /\ IdleUnlessStarted'
      /\ CancelledIsClosed'
  BY <1>3 DEF IInv, ManagedIsOpen, OneOperation, PendingIsOpen,
              IdleUnlessStarted, CancelledIsClosed
<1>7. OnlyOtherMethodsIdle' /\ Shape'
  BY DEF IInv, OnlyOtherMethodsIdle, Shape, data
<1> QED
  BY <1>2, <1>5, <1>6, <1>7 DEF IInv

\* connection_manager::start keeps the invariant.
LEMMA AcceptConnectionIInv ==
  ASSUME NEW c \in Conn, IInv, AcceptConnection(c)
  PROVE  IInv'
<1> USE DEF AcceptConnection, ManagerStart
<1>1. TypeOK
  BY DEF IInv
<1>2. TypeOK'
  BY <1>1 DEF TypeOK, Operation
<1>3. /\ connections_' = connections_ \cup {c}
      /\ socket_'[c] = "open" /\ read_'[c] = "pending"
      /\ \A d \in Conn \ {c} : socket_'[d] = socket_[d] /\ read_'[d] = read_[d]
      /\ UNCHANGED write_
  BY <1>1 DEF TypeOK
<1>4. write_[c] = "none"
  BY DEF IInv, IdleUnlessStarted
<1>5. \A d \in Conn : socket_'[d] # "accepted"
  BY <1>3 DEF IInv, OneAccepted
<1>6. signals_ # "done"
  BY DEF IInv, AcceptorOpen
<1>7. AcceptOutstanding' /\ AcceptorOpen' /\ OneAccepted' /\ StopEmpties'
  BY <1>5, <1>6 DEF IInv, AcceptOutstanding, AcceptorOpen, OneAccepted, StopEmpties
<1>8. ManagedIsOpen' /\ OneOperation' /\ PendingIsOpen' /\ IdleUnlessStarted'
      /\ CancelledIsClosed'
  BY <1>3, <1>4 DEF IInv, ManagedIsOpen, OneOperation, PendingIsOpen,
                    IdleUnlessStarted, CancelledIsClosed
<1>9. OnlyOtherMethodsIdle' /\ Shape'
  BY <1>1, <1>3 DEF IInv, OnlyOtherMethodsIdle, Shape, TypeOK
<1> QED
  BY <1>2, <1>7, <1>8, <1>9 DEF IInv

\* The stop keeps the invariant: it closes every open socket at once.
LEMMA StopHandlerIInv ==
  ASSUME IInv, StopHandler
  PROVE  IInv'
<1> USE DEF StopHandler, ManagerStopAll, Close, Cancel
<1>1. TypeOK
  BY DEF IInv
<1>2. TypeOK'
  BY <1>1 DEF TypeOK, Operation
<1>3. \A d \in Conn :
        IF d \in connections_
        THEN /\ socket_'[d] = "closed"
             /\ read_'[d] = IF read_[d] = "pending" THEN "aborted" ELSE read_[d]
             /\ write_'[d] = IF write_[d] = "pending" THEN "aborted" ELSE write_[d]
        ELSE /\ socket_'[d] = socket_[d]
             /\ read_'[d] = read_[d]
             /\ write_'[d] = write_[d]
  BY <1>1 DEF TypeOK
<1>4. \A d \in Conn : d \in connections_ <=> socket_[d] = "open"
  BY DEF IInv, ManagedIsOpen
<1>5. ManagedIsOpen' /\ OneOperation' /\ PendingIsOpen' /\ IdleUnlessStarted'
      /\ CancelledIsClosed' /\ OneAccepted'
  BY <1>3, <1>4 DEF IInv, ManagedIsOpen, OneOperation, PendingIsOpen,
                    IdleUnlessStarted, CancelledIsClosed, OneAccepted
<1>6. AcceptOutstanding'
  BY <1>3, <1>4 DEF IInv, AcceptOutstanding
<1>7. AcceptorOpen' /\ StopEmpties' /\ OnlyOtherMethodsIdle' /\ Shape'
  BY DEF IInv, AcceptorOpen, StopEmpties, OnlyOtherMethodsIdle, Shape, data
<1> QED
  BY <1>2, <1>5, <1>6, <1>7 DEF IInv

\* A step of one connection, by the network or by its handlers.
LEMMA ConnectionStepIInv ==
  ASSUME NEW c \in Conn, IInv, ConnectionStep(c)
  PROVE  IInv'
<1> USE DEF ConnectionStep
<1>1. CASE BytesArrive(c)
  BY <1>1, OperationIInv DEF BytesArrive
<1>2. CASE ReadFails(c)
  BY <1>2, OperationIInv DEF ReadFails, data
<1>3. CASE WriteCompletes(c)
  BY <1>3, OperationIInv DEF WriteCompletes, data
<1>4. CASE WriteFails(c)
  <2>1. PICK from \in {"pending", "aborted"} : write_[c] = from
    BY <1>4 DEF WriteFails
  <2> QED
    BY <1>4, <2>1, OperationIInv DEF WriteFails, data
<1>5. CASE ReadCompleted(c)
  BY <1>5, ReadCompletedIInv
<1>6. CASE ReadFailed(c)
  BY <1>6, ManagerStopIInv DEF ReadFailed
<1>7. CASE ReadAborted(c)
  BY <1>7, OperationIInv DEF ReadAborted, data
<1>8. CASE WriteDone(c)
  BY <1>8, ManagerStopIInv DEF WriteDone
<1>9. CASE WriteAborted(c)
  BY <1>9, OperationIInv DEF WriteAborted, data
<1> QED
  BY <1>1, <1>2, <1>3, <1>4, <1>5, <1>6, <1>7, <1>8, <1>9
     DEF Network, Handler, ReadHandler, WriteHandler

\* The invariant is inductive.
LEMMA NextIInv == IInv /\ [Next]_vars => IInv'
<1> SUFFICES ASSUME IInv, [Next]_vars PROVE IInv'
  OBVIOUS
<1>1. ASSUME NEW c \in Conn, ConnectionArrives(c) PROVE IInv'
  BY <1>1, ConnectionArrivesIInv
<1>2. ASSUME NEW c \in Conn, ConnectionStep(c) PROVE IInv'
  BY <1>2, ConnectionStepIInv
<1>3. CASE AcceptFails
  <2>1. acceptor_
    BY <1>3 DEF AcceptFails, IInv, AcceptorOpen
  <2> QED
    BY <1>3, <2>1, ServerStepIInv DEF AcceptFails, control, IInv, TypeOK
<1>4. CASE SignalArrives
  BY <1>4, ServerStepIInv DEF SignalArrives, control, IInv, TypeOK
<1>5. CASE AcceptTooLate
  BY <1>5, AcceptTooLateIInv
<1>6. ASSUME NEW c \in Conn, AcceptConnection(c) PROVE IInv'
  BY <1>6, AcceptConnectionIInv
<1>7. CASE AcceptAgain
  BY <1>7, ServerStepIInv DEF AcceptAgain, control, IInv, TypeOK
<1>8. CASE StopHandler
  BY <1>8, StopHandlerIInv
<1>9. CASE RunReturns
  BY <1>9, ServerStepIInv DEF RunReturns, IInv, TypeOK
<1>10. CASE UNCHANGED vars
  BY <1>10, ServerStepIInv DEF vars, control, IInv, TypeOK
<1> QED
  BY <1>1, <1>2, <1>3, <1>4, <1>5, <1>6, <1>7, <1>8, <1>9, <1>10
     DEF Next, AcceptHandler

\* The invariant holds in every reachable state.
THEOREM Invariance == Spec => []IInv
BY InitIInv, NextIInv, PTL DEF Spec

-----------------------------------------------------------------------------
(***************************************************************************)
(* The properties, for every value of the constants.                       *)
(***************************************************************************)

\* The control variables have their types.
THEOREM ServerTypeCorrect == Spec => []TypeOK
<1>1. IInv => TypeOK
  BY DEF IInv
<1> QED
  BY Invariance, <1>1, PTL

\* connection_manager::connections_ is always the set of open connections.
THEOREM ManagerKnowsOpenConnections == Spec => []ManagedIsOpen
<1>1. IInv => ManagedIsOpen
  BY DEF IInv
<1> QED
  BY Invariance, <1>1, PTL

\* No connection has a read and a write outstanding at once.
THEOREM OneOperationPerConnection == Spec => []OneOperation
<1>1. IInv => OneOperation
  BY DEF IInv
<1> QED
  BY Invariance, <1>1, PTL

\* No operation waits for the network on a socket that was closed.
THEOREM NothingPendsOnClosed == Spec => []PendingIsOpen
<1>1. IInv => PendingIsOpen
  BY DEF IInv
<1> QED
  BY Invariance, <1>1, PTL

\* Until the stop, the server always has an accept outstanding.
THEOREM AcceptAlwaysOutstanding == Spec => []AcceptOutstanding
<1>1. IInv => AcceptOutstanding
  BY DEF IInv
<1> QED
  BY Invariance, <1>1, PTL

\* Only requests of other methods than GET and POST leave a connection idle.
THEOREM NoRequestForgotten == Spec => []OnlyOtherMethodsIdle
<1>1. IInv => OnlyOtherMethodsIdle
  BY DEF IInv
<1> QED
  BY Invariance, <1>1, PTL

-----------------------------------------------------------------------------
\* A step that is not the read handler of c changes neither reply_[c] nor,
\* once the read is queued, read_[c].
LEMMA OthersStep ==
  ASSUME NEW c \in Conn, IInv, Next
  PROVE  \/ ReadCompleted(c)
         \/ reply_'[c] = reply_[c]
<1>1. ASSUME NEW d \in Conn, ConnectionStep(d)
      PROVE  ReadCompleted(c) \/ reply_'[c] = reply_[c]
  <2>1. CASE ReadCompleted(d)
    BY <2>1, ReadCompletedOutcome
  <2>2. CASE ~ReadCompleted(d)
    BY <1>1, <2>2 DEF ConnectionStep, Network, Handler, ReadHandler, WriteHandler,
       BytesArrive, ReadFails, WriteCompletes, WriteFails, ReadFailed,
       ReadAborted, WriteDone, WriteAborted, data
  <2> QED
    BY <2>1, <2>2
<1> QED
  BY <1>1 DEF Next, ConnectionArrives, AcceptFails, SignalArrives, AcceptHandler,
     AcceptTooLate, AcceptConnection, AcceptAgain, StopHandler, RunReturns, data

\* The reply is not changed while a write of it is outstanding.
THEOREM ReplyStaysStable == Spec => ReplyStable
<1>1. ASSUME IInv, [Next]_vars
      PROVE  [\A c \in Conn : write_[c] # "none" => reply_'[c] = reply_[c]]_vars
  <2> SUFFICES ASSUME Next, NEW c \in Conn, write_[c] # "none"
               PROVE  reply_'[c] = reply_[c]
    BY <1>1
  <2>1. read_[c] # "ok"
    BY <1>1 DEF IInv, OneOperation
  <2> QED
    BY <1>1, <2>1, OthersStep DEF ReadCompleted
<1> QED
  BY Invariance, <1>1, PTL DEF Spec, ReplyStable

\* What HandlerFairness states the fairness of the read handler on: once a
\* read is queued, a step that changes read_[c] is a run of its handler.
LEMMA ReadTurnIsHandler ==
  ASSUME NEW c \in Conn, IInv, Next,
         read_[c] \in {"ok", "error", "aborted"}, read_'[c] # read_[c]
  PROVE  ReadHandler(c)
<1>1. TypeOK
  BY DEF IInv
<1>2. ASSUME NEW d \in Conn, ConnectionStep(d)
      PROVE  ReadHandler(c)
  <2>1. CASE Network(d)
    BY <2>1, <1>1 DEF Network, BytesArrive, ReadFails, WriteCompletes, WriteFails,
       TypeOK
  <2>2. CASE WriteHandler(d)
    BY <2>2, <1>1 DEF WriteHandler, WriteDone, WriteAborted, ManagerStop, Cancel,
       TypeOK
  <2>3. CASE ReadHandler(d) /\ d # c
    <3>1. CASE ReadCompleted(d)
      BY <3>1, <2>3, <1>1, ReadCompletedOutcome DEF ReadOutcome, do_read, do_write,
         TypeOK
    <3>2. CASE ReadFailed(d) \/ ReadAborted(d)
      BY <3>2, <2>3, <1>1 DEF ReadFailed, ReadAborted, ManagerStop, Cancel, TypeOK
    <3> QED
      BY <2>3, <3>1, <3>2 DEF ReadHandler
  <2> QED
    BY <1>2, <2>1, <2>2, <2>3 DEF ConnectionStep, Handler
<1>3. ASSUME NEW d \in Conn, AcceptConnection(d)
      PROVE  FALSE
  <2>1. read_[d] = "none"
    BY <1>3 DEF AcceptConnection, IInv, IdleUnlessStarted
  <2> QED
    BY <1>1, <1>3, <2>1 DEF AcceptConnection, ManagerStart, TypeOK
<1>4. CASE StopHandler
  BY <1>1, <1>4 DEF StopHandler, ManagerStopAll, Cancel, TypeOK
<1> QED
  BY <1>2, <1>3, <1>4 DEF Next, ConnectionArrives, AcceptFails, SignalArrives,
     AcceptHandler, AcceptTooLate, AcceptAgain, RunReturns, control

-----------------------------------------------------------------------------
(***************************************************************************)
(* The refinement of ServerLifecycle.                                      *)
(***************************************************************************)
Phase == IF process = "returned" THEN "exited"
         ELSE IF process = "aborted" THEN "crashed"
         ELSE IF signals_ = "done" THEN "stopped" ELSE "serving"
Live == IF process = "aborted" THEN {} ELSE connections_
Seen == {c \in Conn : socket_[c] \in {"open", "closed"}}

\* A step that leaves the phase, the live and the seen connections alone is a
\* stutter of the life cycle.
LEMMA Stutters ==
  ASSUME Phase' = Phase, Live' = Live, Seen' = Seen
  PROVE  UNCHANGED Lifecycle!vars
BY DEF Phase, Live, Seen, Lifecycle!vars

\* A handler that stops its connection finishes it, or, after the stop of the
\* server, finds it finished.
LEMMA ManagerStopRefines ==
  ASSUME NEW c \in Conn, IInv, process = "running",
         NEW operation \in {"read", "write"},
         read_[c] # "none" \/ write_[c] # "none",
         ManagerStop(c, operation),
         UNCHANGED <<process, signals_>>
  PROVE  [Lifecycle!Next]_(Lifecycle!vars)
<1>1. TypeOK
  BY DEF IInv
<1>2. /\ connections_' = connections_ \ {c}
      /\ socket_'[c] = "closed"
      /\ \A d \in Conn \ {c} : socket_'[d] = socket_[d]
  BY <1>1 DEF ManagerStop, Close, TypeOK
<1>3. socket_[c] \in {"open", "closed"}
  BY <1>1 DEF IInv, IdleUnlessStarted, TypeOK
<1>4. Seen' = Seen /\ Phase' = Phase
  BY <1>2, <1>3 DEF Seen, Phase
<1>5. CASE c \in connections_
  <2>1. Phase = "serving" /\ c \in Live /\ Live' = Live \ {c}
    BY <1>2, <1>5 DEF IInv, StopEmpties, Phase, Live
  <2>2. Lifecycle!Finish(c)
    BY <1>4, <2>1 DEF Lifecycle!Finish, Phase, Live, Seen
  <2> QED
    BY <2>2 DEF Lifecycle!Next
<1>6. CASE c \notin connections_
  <2>1. Live' = Live
    BY <1>2, <1>6 DEF Live
  <2> QED
    BY <1>4, <2>1, Stutters
<1> QED
  BY <1>5, <1>6

\* An accept that comes too late drops its socket, if it has one: the life
\* cycle's Refuse, or a stutter.
LEMMA AcceptTooLateRefines ==
  ASSUME IInv, AcceptTooLate
  PROVE  [Lifecycle!Next]_(Lifecycle!vars)
<1>1. TypeOK /\ signals_ = "done" /\ process = "running"
  BY DEF IInv, AcceptorOpen, AcceptTooLate
<1>2. Phase = "stopped" /\ Phase' = Phase /\ Live' = Live
  BY <1>1 DEF AcceptTooLate, Phase, Live
<1>3. CASE \E c \in Conn : socket_[c] = "accepted"
  <2>1. PICK c \in Conn : socket_[c] = "accepted"
    BY <1>3
  <2>2. \A d \in Conn \ {c} : socket_'[d] = socket_[d]
    BY <1>1, <2>1 DEF AcceptTooLate, Close, IInv, OneAccepted, TypeOK
  <2>3. socket_'[c] = "closed"
    BY <1>1, <2>1 DEF AcceptTooLate, Close, TypeOK
  <2>4. c \notin Seen /\ Seen' = Seen \cup {c}
    BY <2>1, <2>2, <2>3 DEF Seen
  <2>5. Lifecycle!Refuse(c)
    BY <1>2, <2>4 DEF Lifecycle!Refuse, Phase, Live, Seen
  <2> QED
    BY <2>5 DEF Lifecycle!Next
<1>4. CASE ~ \E c \in Conn : socket_[c] = "accepted"
  <2>1. \A d \in Conn : socket_'[d] = socket_[d]
    BY <1>1, <1>4 DEF AcceptTooLate, Close, TypeOK
  <2>2. Seen' = Seen
    BY <2>1 DEF Seen
  <2> QED
    BY <1>2, <2>2, Stutters
<1> QED
  BY <1>3, <1>4

\* A new connection is the life cycle's Open.
LEMMA AcceptConnectionRefines ==
  ASSUME NEW c \in Conn, IInv, AcceptConnection(c)
  PROVE  Lifecycle!Next
<1>1. TypeOK /\ signals_ # "done" /\ process = "running"
  BY DEF IInv, AcceptorOpen, AcceptConnection
<1>2. /\ socket_[c] = "accepted" /\ socket_'[c] = "open"
      /\ \A d \in Conn \ {c} : socket_'[d] = socket_[d]
  BY <1>1 DEF AcceptConnection, ManagerStart, TypeOK
<1>3. c \notin Seen /\ Seen' = Seen \cup {c}
  BY <1>2 DEF Seen
<1>4. Phase = "serving" /\ Phase' = Phase /\ Live' = Live \cup {c}
  BY <1>1 DEF AcceptConnection, ManagerStart, Phase, Live
<1>5. Lifecycle!Open(c)
  BY <1>3, <1>4 DEF Lifecycle!Open, Phase, Live, Seen
<1> QED
  BY <1>5 DEF Lifecycle!Next

\* The stop handler is the life cycle's Stop.
LEMMA StopHandlerRefines ==
  ASSUME IInv, StopHandler
  PROVE  Lifecycle!Next
<1>1. TypeOK /\ process = "running" /\ process' = process
      /\ signals_ = "fired" /\ signals_' = "done"
  BY DEF IInv, StopHandler
<1>2. \A d \in Conn : \/ socket_'[d] = socket_[d]
                      \/ socket_[d] = "open" /\ socket_'[d] = "closed"
  BY <1>1 DEF StopHandler, ManagerStopAll, Close, IInv, ManagedIsOpen, TypeOK
<1>3. Seen' = Seen
  BY <1>2 DEF Seen
<1>4. Phase = "serving" /\ Phase' = "stopped" /\ Live' = {}
  BY <1>1 DEF StopHandler, ManagerStopAll, Phase, Live
<1>5. Lifecycle!Stop
  BY <1>3, <1>4 DEF Lifecycle!Stop, Phase, Live, Seen
<1> QED
  BY <1>5 DEF Lifecycle!Next

\* The handler of a completed read is a stutter, or, where an assertion fails,
\* the life cycle's Crash.
LEMMA ReadCompletedRefines ==
  ASSUME NEW c \in Conn, IInv, ReadCompleted(c), UNCHANGED signals_
  PROVE  [Lifecycle!Next]_(Lifecycle!vars)
<1>1. process' \in {"running", "aborted"} /\ UNCHANGED <<connections_, socket_>>
  BY ReadCompletedOutcome
<1>2. process = "running"
  BY DEF ReadCompleted
<1>3. CASE process' = "running"
  <2>1. Phase' = Phase /\ Live' = Live /\ Seen' = Seen
    BY <1>1, <1>2, <1>3 DEF Phase, Live, Seen
  <2> QED
    BY <2>1, Stutters
<1>4. CASE process' = "aborted"
  <2>1. Lifecycle!Crash
    BY <1>1, <1>2, <1>4 DEF Lifecycle!Crash
  <2> QED
    BY <2>1 DEF Lifecycle!Next
<1> QED
  BY <1>1, <1>3, <1>4

\* A step of one connection is a stutter, a Finish or a Crash.
LEMMA ConnectionStepRefines ==
  ASSUME NEW c \in Conn, IInv, ConnectionStep(c)
  PROVE  [Lifecycle!Next]_(Lifecycle!vars)
<1> USE DEF ConnectionStep
<1>1. CASE ReadCompleted(c)
  BY <1>1, ReadCompletedRefines
<1>2. CASE ReadFailed(c)
  BY <1>2, ManagerStopRefines DEF ReadFailed
<1>3. CASE WriteDone(c)
  <2>1. write_[c] # "none" /\ process = "running" /\ ManagerStop(c, "write")
        /\ UNCHANGED process
    BY <1>3 DEF WriteDone
  <2> QED
    BY <2>1, ManagerStopRefines
<1>4. CASE Network(c) \/ ReadAborted(c) \/ WriteAborted(c)
  <2>1. UNCHANGED <<process, connections_, socket_, signals_>>
    BY <1>4 DEF Network, BytesArrive, ReadFails, WriteCompletes, WriteFails,
       ReadAborted, WriteAborted
  <2> QED
    BY <2>1, Stutters DEF Phase, Live, Seen
<1> QED
  BY <1>1, <1>2, <1>3, <1>4 DEF Handler, ReadHandler, WriteHandler

\* An accept that completes is a stutter: nobody knows the socket yet.
LEMMA ConnectionArrivesRefines ==
  ASSUME NEW c \in Conn, IInv, ConnectionArrives(c)
  PROVE  UNCHANGED Lifecycle!vars
<1>1. TypeOK
  BY DEF IInv
<1>2. Seen' = Seen
  BY <1>1 DEF ConnectionArrives, TypeOK, Seen
<1>3. Phase' = Phase /\ Live' = Live
  BY DEF ConnectionArrives, Phase, Live
<1> QED
  BY <1>2, <1>3, Stutters

\* Every step of the server is a step of the life cycle or a stutter.
LEMMA NextRefines ==
  ASSUME IInv, [Next]_vars
  PROVE  [Lifecycle!Next]_(Lifecycle!vars)
<1>1. ASSUME NEW c \in Conn, ConnectionArrives(c)
      PROVE  [Lifecycle!Next]_(Lifecycle!vars)
  BY <1>1, ConnectionArrivesRefines
<1>2. ASSUME NEW c \in Conn, ConnectionStep(c)
      PROVE  [Lifecycle!Next]_(Lifecycle!vars)
  BY <1>2, ConnectionStepRefines
<1>3. ASSUME NEW c \in Conn, AcceptConnection(c)
      PROVE  [Lifecycle!Next]_(Lifecycle!vars)
  BY <1>3, AcceptConnectionRefines
<1>4. CASE AcceptTooLate
  BY <1>4, AcceptTooLateRefines
<1>5. CASE StopHandler
  BY <1>5, StopHandlerRefines
<1>6. CASE RunReturns
  <2>1. Lifecycle!Exit
    BY <1>6 DEF RunReturns, Lifecycle!Exit
  <2> QED
    BY <2>1 DEF Lifecycle!Next
<1>7. CASE SignalArrives
  BY <1>7, Stutters DEF SignalArrives, control, Phase, Live, Seen
<1>8. CASE AcceptFails \/ AcceptAgain \/ UNCHANGED vars
  BY <1>8, Stutters DEF AcceptFails, AcceptAgain, vars, control, Phase, Live, Seen
<1> QED
  BY <1>1, <1>2, <1>3, <1>4, <1>5, <1>6, <1>7, <1>8 DEF Next, AcceptHandler

\* The server implements its life cycle: every behaviour of HttpServer is, seen
\* through Phase, Live and Seen, one of ServerLifecycle.
THEOREM ServerImplementsLifecycle == Spec => Implements
<1>1. Init => Lifecycle!Init
  BY DEF Init, ConnectionInit, Lifecycle!Init
<1>2. IInv /\ [Next]_vars => [Lifecycle!Next]_(Lifecycle!vars)
  BY NextRefines
<1> QED
  BY Invariance, <1>1, <1>2, PTL DEF Spec, Implements, Lifecycle!Spec

\* After the stop nothing is open and nothing opens again.
THEOREM StaysStopped == Spec => StoppedForGood
<1>1. IInv /\ [Next]_vars =>
        [signals_ = "done" => connections_' = {} /\ ~acceptor_']_vars
  <2> SUFFICES ASSUME IInv, Next, signals_ = "done"
               PROVE  connections_' = {} /\ ~acceptor_'
    OBVIOUS
  <2>1. IInv'
    BY NextIInv
  <2>2. signals_' = "done"
    BY DEF Next, ConnectionArrives, ConnectionStep, AcceptFails, SignalArrives,
       AcceptHandler, AcceptTooLate, AcceptConnection, AcceptAgain, StopHandler,
       RunReturns
  <2> QED
    BY <2>1, <2>2 DEF IInv, StopEmpties, AcceptorOpen
<1> QED
  BY Invariance, <1>1, PTL DEF Spec, StoppedForGood
=============================================================================
