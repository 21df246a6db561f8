----------------------------- MODULE HttpServer -----------------------------
(***************************************************************************)
(* The HTTP server: class server (src/HTTP/server.cpp, server.hpp) over    *)
(* the connections of module Connection.  One thread runs the io_context;  *)
(* every completion handler is a step, and so is everything the network or *)
(* the operator does in between.                                           *)
(***************************************************************************)
EXTENDS Connection

VARIABLES
  acceptor_,  \* TRUE: acceptor_.is_open()
  accept_,    \* the outstanding async_accept; "ok": it holds the socket that
              \* is "accepted"
  signals_    \* signals_.async_wait: "waiting", "fired" (its handler is
              \* queued), "done"

vars == <<control, data, acceptor_, accept_, signals_>>

Init ==
  /\ ConnectionInit
  /\ acceptor_ = TRUE
  /\ accept_ = "pending"
  /\ signals_ = "waiting"

-----------------------------------------------------------------------------
(***************************************************************************)
(* The network and the operator.                                           *)
(***************************************************************************)

\* async_accept completes with a new socket.
ConnectionArrives(c) ==
  /\ process = "running"
  /\ accept_ = "pending"
  /\ socket_[c] = "none"
  /\ accept_' = "ok"
  /\ socket_' = [socket_ EXCEPT ![c] = "accepted"]
  /\ \E s \in Streams : stream' = [stream EXCEPT ![c] = s]
  /\ UNCHANGED <<process, connections_, read_, write_, start, taken, buffer_,
                 parser_, result_first, request_first, reply_, disk, written,
                 acceptor_, signals_>>

\* async_accept completes with an error.
AcceptFails ==
  /\ process = "running"
  /\ accept_ = "pending"
  /\ accept_' = "error"
  /\ UNCHANGED <<control, data, acceptor_, signals_>>

\* SIGINT or SIGTERM.  A later one is not waited for.
SignalArrives ==
  /\ process = "running"
  /\ signals_ = "waiting"
  /\ signals_' = "fired"
  /\ UNCHANGED <<control, data, acceptor_, accept_>>

-----------------------------------------------------------------------------
(***************************************************************************)
(* The completion handler of do_accept.                                    *)
(***************************************************************************)

\* The acceptor was closed before the handler had a chance to run: return, and
\* drop the socket, if there is one.
AcceptTooLate ==
  /\ process = "running"
  /\ accept_ \in {"ok", "error", "aborted"}
  /\ ~acceptor_
  /\ accept_' = "none"
  /\ Close({c \in Conn : socket_[c] = "accepted"})
  /\ UNCHANGED <<process, connections_, read_, write_, data, acceptor_, signals_>>

\* Mutant: the handler does not ask whether the acceptor is still open.
AcceptConnectionUnchecked(c) ==
  /\ process = "running"
  /\ accept_ = "ok" /\ socket_[c] = "accepted"
  /\ ManagerStart(c)
  /\ accept_' = "pending"
  /\ UNCHANGED <<process, write_, stream, start, taken, parser_, result_first,
                 request_first, reply_, disk, written, acceptor_, signals_>>

AcceptConnection(c) ==
  /\ process = "running"
  /\ accept_ = "ok" /\ socket_[c] = "accepted"
  /\ acceptor_
  /\ ManagerStart(c)
  /\ accept_' = "pending"
  /\ UNCHANGED <<process, write_, stream, start, taken, parser_, result_first,
                 request_first, reply_, disk, written, acceptor_, signals_>>

\* Mutant: a failed accept is the last one.
AcceptNoMore ==
  /\ process = "running"
  /\ accept_ = "error"
  /\ acceptor_
  /\ accept_' = "none"
  /\ UNCHANGED <<control, data, acceptor_, signals_>>

AcceptAgain ==
  /\ process = "running"
  /\ accept_ = "error"
  /\ acceptor_
  /\ accept_' = "pending"
  /\ UNCHANGED <<control, data, acceptor_, signals_>>

AcceptHandler ==
  AcceptTooLate \/ (\E c \in Conn : AcceptConnection(c)) \/ AcceptAgain

\* Mutant: only the acceptor is closed.
StopHandlerAcceptorOnly ==
  /\ process = "running"
  /\ signals_ = "fired"
  /\ signals_' = "done"
  /\ acceptor_' = FALSE
  /\ accept_' = IF accept_ = "pending" THEN "aborted" ELSE accept_
  /\ UNCHANGED <<control, data>>

\* The completion handler of do_await_stop.
StopHandler ==
  /\ process = "running"
  /\ signals_ = "fired"
  /\ signals_' = "done"
  /\ acceptor_' = FALSE
  /\ accept_' = IF accept_ = "pending" THEN "aborted" ELSE accept_
  /\ ManagerStopAll
  /\ UNCHANGED <<process, data>>

\* io_context::run has nothing outstanding left and returns; main ends.
RunReturns ==
  /\ process = "running"
  /\ accept_ = "none" /\ signals_ = "done"
  /\ \A c \in Conn : read_[c] = "none" /\ write_[c] = "none"
  /\ process' = "returned"
  /\ UNCHANGED <<connections_, socket_, read_, write_, data, acceptor_,
                 accept_, signals_>>

Network(c) == BytesArrive(c) \/ ReadFails(c) \/ WriteCompletes(c) \/ WriteFails(c)

Handler(c) == ReadHandler(c) \/ WriteHandler(c)

ConnectionStep(c) ==
  (Network(c) \/ Handler(c)) /\ UNCHANGED <<acceptor_, accept_, signals_>>

Next ==
  \/ \E c \in Conn : ConnectionArrives(c) \/ ConnectionStep(c)
  \/ AcceptFails \/ SignalArrives
  \/ AcceptHandler \/ StopHandler \/ RunReturns

Spec == Init /\ [][Next]_vars

(***************************************************************************)
(* The io_context runs queued handlers in turn: none waits forever.  Once  *)
(* a read is queued, no step but a run of its handler changes read_[c], so *)
(* the fairness of ReadHandler is stated on that change alone              *)
(* (ReadTurnIsHandler in HttpServerProofs), which spares TLC from parsing  *)
(* the octets again to find out whether the handler can run.               *)
(***************************************************************************)
ReadTurn(c) ==
  /\ process = "running"
  /\ read_[c] \in {"ok", "error", "aborted"}
  /\ \E outcome \in Operation : read_' = [read_ EXCEPT ![c] = outcome]

HandlerFairness ==
  /\ \A c \in Conn :
       /\ WF_read_(ReadTurn(c))
       /\ WF_vars(WriteHandler(c) /\ UNCHANGED <<acceptor_, accept_, signals_>>)
  /\ WF_vars(AcceptHandler)
  /\ WF_vars(StopHandler)
  /\ WF_vars(RunReturns)

FairSpec == Spec /\ HandlerFairness

(***************************************************************************)
(* A network that delivers what clients send and takes what the server     *)
(* sends.  The code does not guarantee it; only what needs it assumes it.  *)
(***************************************************************************)
NetworkFairness ==
  \A c \in Conn :
    /\ WF_vars(BytesArrive(c) /\ UNCHANGED <<acceptor_, accept_, signals_>>)
    /\ WF_vars(WriteCompletes(c) /\ UNCHANGED <<acceptor_, accept_, signals_>>)

LiveSpec == FairSpec /\ NetworkFairness

-----------------------------------------------------------------------------
(***************************************************************************)
(* Safety of the life cycle.                                               *)
(***************************************************************************)

\* The values of the variables that control which operations run.
TypeOK ==
  /\ process \in {"running", "returned", "aborted"}
  /\ connections_ \subseteq Conn
  /\ socket_ \in [Conn -> {"none", "accepted", "open", "closed"}]
  /\ read_ \in [Conn -> Operation]
  /\ write_ \in [Conn -> Operation]
  /\ acceptor_ \in BOOLEAN
  /\ accept_ \in Operation
  /\ signals_ \in {"waiting", "fired", "done"}

\* "Manages open connections so that they may be cleanly stopped"
\* (connection_manager.hpp:20): the manager knows every open connection, and
\* no closed one stays in it, whoever closed it, a handler or a stop.
ManagedIsOpen == connections_ = {c \in Conn : socket_[c] = "open"}

\* A connection never has a read and a write outstanding at once: one handler
\* at a time owns buffer_, reply_ and the parser.
OneOperation == \A c \in Conn : read_[c] = "none" \/ write_[c] = "none"

\* "While the server is running, there is always at least one asynchronous
\* operation outstanding: the asynchronous accept call" (server.cpp:52-54):
\* until the stop, also across failed accepts; and the socket an accept holds
\* is accounted for.
AcceptOutstanding ==
  /\ signals_ # "done" => accept_ # "none" /\ accept_ # "aborted"
  /\ accept_ = "ok" <=> \E c \in Conn : socket_[c] = "accepted"

\* An open connection on which no operation is outstanding is a request with a
\* method other than GET and POST: nothing else is forgotten.
OnlyOtherMethodsIdle ==
  \A c \in connections_ :
    read_[c] = "none" /\ write_[c] = "none" =>
      /\ result_first[c] = "good"
      /\ request_first[c].method \notin {<<"GET">>, <<"POST">>}

\* "the reply object must remain valid and not be changed until the write
\* operation has completed" (reply.hpp:53-54).
ReplyStable ==
  [][\A c \in Conn : write_[c] # "none" => reply_'[c] = reply_[c]]_vars

\* A server that was told to stop takes no connection any more, and serves no
\* one it had: whatever was queued at that time.
StoppedForGood ==
  [][signals_ = "done" => connections_' = {} /\ ~acceptor_']_vars

-----------------------------------------------------------------------------
(***************************************************************************)
(* Liveness and refinement.                                                *)
(***************************************************************************)

\* "Once all operations have finished the io_context::run() call will exit"
\* (server.cpp:88-89): a signal ends the program, whatever connections there
\* were and whatever the network does.
StopDrains == (signals_ = "fired") ~> (process # "running")

Lifecycle == INSTANCE ServerLifecycle WITH
  phase <- IF process = "returned" THEN "exited"
           ELSE IF process = "aborted" THEN "crashed"
           ELSE IF signals_ = "done" THEN "stopped" ELSE "serving",
  live  <- IF process = "aborted" THEN {} ELSE connections_,
  seen  <- {c \in Conn : socket_[c] \in {"open", "closed"}}

\* The server implements its abstract life cycle.
Implements == Lifecycle!Spec
=============================================================================
