------------------------------ MODULE Dialogue ------------------------------
(***************************************************************************)
(* One client and its session over one TCP connection: the client's loop   *)
(* (session_handler.c) and the session's reads, replies and pending        *)
(* messages (clientSession.cpp).                                           *)
(*                                                                         *)
(* Neither side frames its messages: a reply is whatever one read returns. *)
(* The streams carry pieces.  A short message is one piece and travels     *)
(* whole; a request longer than the server's buffer is a head that fills   *)
(* one read and a tail; a long reply has several pieces, and a read        *)
(* returns as many as have come.  The stream to the client holds at most   *)
(* Capacity pieces (the socket buffers): a write takes what fits.          *)
(*                                                                         *)
(* One run of the session is one step: what two workers can do to one      *)
(* session is the subject of Connections.                                  *)
(***************************************************************************)
EXTENDS Commands, Sequences

CONSTANTS MaxRequests, \* bound: requests the client sends
          MaxReply,    \* bound: pieces of the longest reply
          Capacity,    \* pieces the socket buffers towards the client hold
          ReadPieces,  \* pieces one read of the client returns at most
          InputLines   \* the lines the user may type

ASSUME DialogueAssumption ==
    /\ MaxRequests \in Nat /\ MaxReply \in Nat \ {0}
    /\ Capacity \in Nat \ {0} /\ ReadPieces \in Nat \ {0}
    /\ InputLines \subseteq Lines

VARIABLES pc,        \* the client: welcome, input, recv, left or crashed
          line,      \* the line being acted on
          sent,      \* how many requests the client has sent
          logins,    \* how many times LOGIN_SUCCESS was returned
          requests,  \* the stream to the server
          stream,    \* the stream to the client
          open,      \* the server's end: new, open or closed
          role,      \* who the session is authenticated as
          pending    \* m_pendingMessages: messages, each a sequence of pieces

\* Observers.
VARIABLES oversized,  \* a request or a reply was longer than one piece
          answer      \* what the client made of the last read, until the next line

clientVars == <<pc, line, sent, logins, answer>>
serverVars == <<open, role, pending>>
dialogueVars == <<clientVars, requests, stream, serverVars, oversized>>

Welcome == [to |-> 0, status |-> "success", why |-> "welcome", data |-> "none", id |-> FALSE]
NoAnswer == [to |-> 0, display |-> "none"]
NoLine == [word |-> Empty, args |-> 0, numeric |-> TRUE]

Pieces(reply, size) == [i \in 1..size |-> [reply |-> reply, part |-> i, of |-> size]]
Free == Capacity - Len(stream)
Fits(message) == IF Len(message) <= Free THEN message ELSE SubSeq(message, 1, Free)
Rest(message) == SubSeq(message, Free + 1, Len(message))

DialogueInit ==
    /\ pc = "welcome" /\ line = NoLine /\ sent = 0 /\ logins = 0
    /\ requests = <<>> /\ stream = <<>>
    /\ open = "new" /\ role = NotLoggedIn /\ pending = <<>>
    /\ oversized = FALSE /\ answer = NoAnswer

-----------------------------------------------------------------------------
(* The server.                                                             *)

\* sendWelcomeMessage, on a fresh connection.
sendWelcomeMessage ==
    /\ open = "new"
    /\ open' = "open"
    /\ stream' = Pieces(Welcome, 1)
    /\ UNCHANGED <<clientVars, requests, role, pending, oversized>>

\* What one read returns: the head of a long request fills the buffer, other
\* units come together when the client has written more than one.
ReadLengths ==
    IF Head(requests).unit = "head" THEN {1}
    ELSE {n \in 1..Len(requests) : \A i \in 1..n : requests[i].unit # "head"}

\* Only one whole request alone is valid JSON.
ReadResults(n) ==
    IF n = 1 /\ Head(requests).unit = "whole"
    THEN processMessage(Head(requests).request, role)
    ELSE InvalidJson(role)

\* The long replies are the inventory and the history.
Sizes(reply) == IF reply.data \in {"map", "array"} THEN 1..MaxReply ELSE {1}

\* A reply answers the newest request of its read.
Answering(reply, n) ==
    [to |-> requests[n].n, status |-> reply.status, why |-> reply.why,
     data |-> reply.data, id |-> reply.id]

\* A mutant: text that does not parse gets no reply.
SilentOnInvalid(message) ==
    /\ stream' = IF Head(message).reply.why = "json" THEN stream ELSE stream \o Fits(message)
    /\ UNCHANGED pending

\* write on a full buffer fails with EAGAIN and the message waits; otherwise
\* what fits is sent, and the code takes any positive count for success.
WriteReply(message) ==
    IF Free = 0
    THEN pending' = Append(pending, message) /\ UNCHANGED stream
    ELSE stream' = stream \o Fits(message) /\ UNCHANGED pending

\* clientSession::run with data to read, and the worker's close after it.
\* Closing with requests unread resets the connection, which may take from
\* the client what it has not read.
Run ==
    /\ open = "open" /\ requests # <<>>
    /\ \E n \in ReadLengths : \E r \in ReadResults(n) :
       \E size \in Sizes(r.result.reply) :
          LET message == Pieces(Answering(r.result.reply, n), size) IN
          /\ role' = r.role
          /\ requests' = SubSeq(requests, n + 1, Len(requests))
          /\ oversized' = (oversized \/ size > 1)
          /\ IF r.result.keep
             THEN WriteReply(message) /\ UNCHANGED open
             ELSE /\ open' = "closed" /\ pending' = <<>>
                  /\ \/ stream' = stream \o Fits(message)
                     \/ requests' # <<>> /\ stream' = <<>>
    /\ UNCHANGED clientVars

\* run reads 0 bytes, or its write fails: the client has gone.
RunEnds ==
    /\ open = "open" /\ pc \in {"left", "crashed"}
    /\ open' = "closed" /\ requests' = <<>> /\ pending' = <<>>
    /\ UNCHANGED <<clientVars, stream, role, oversized>>

\* trySendPendingMessage on EPOLLOUT, which run's end arms while messages are
\* pending; the run that the event also causes finds nothing to read.  The
\* message is popped before its rest is put back: the rest overwrites the next
\* message, and with no next message it is written past the end of the deque,
\* which loses it or ends the process.
trySendPendingMessage ==
    /\ open = "open" /\ pending # <<>> /\ Free > 0
    /\ LET message == Head(pending)
           rest == Rest(message)
       IN /\ stream' = stream \o Fits(message)
          /\ \/ /\ \/ rest = <<>> /\ pending' = Tail(pending)
                   \/ rest # <<>> /\ Len(pending) = 1 /\ pending' = <<>>
                   \/ /\ rest # <<>> /\ Len(pending) > 1
                      /\ pending' = <<rest>> \o SubSeq(pending, 3, Len(pending))
                /\ UNCHANGED open
             \/ rest # <<>> /\ Len(pending) = 1 /\ pending' = <<>> /\ open' = "closed"
    /\ UNCHANGED <<clientVars, requests, role, oversized>>

-----------------------------------------------------------------------------
(* The client.                                                             *)

\* What cJSON_Parse can make of the pieces of one read.  Text behind the first
\* complete value is ignored.
Texts(read) ==
    LET first == Head(read) IN
    IF first.part # 1 THEN {NullText, BareValue}
    ELSE IF \E n \in 1..Len(read) : SubSeq(read, 1, n) = Pieces(first.reply, first.of)
    THEN {ReplyText(first.reply)}
    ELSE {NullText}

Reads == {n \in 1..ReadPieces : n <= Len(stream)}
Taken(n) == stream' = SubSeq(stream, n + 1, Len(stream))

\* A mutant: the welcome message is left in the stream.
WelcomeUnread ==
    /\ pc = "welcome" /\ stream # <<>>
    /\ pc' = "input"
    /\ UNCHANGED <<line, sent, logins, answer, requests, stream, serverVars, oversized>>

\* The read before the loop.
start_communication ==
    /\ pc = "welcome"
    /\ \E n \in Reads : Taken(n)
    /\ pc' = "input"
    /\ UNCHANGED <<line, sent, logins, answer, requests, serverVars, oversized>>

\* A request is written; on a connection the server has closed the write may fail.
Send(request, long) ==
    LET n == sent + 1 IN
    /\ \/ /\ pc' = "recv"
          /\ requests' = IF open = "closed" THEN requests
                         ELSE requests \o
                              IF long THEN <<[unit |-> "head", n |-> n], [unit |-> "tail", n |-> n]>>
                              ELSE <<[unit |-> "whole", n |-> n, request |-> request]>>
          /\ sent' = n
       \/ open = "closed" /\ pc' = "left" /\ UNCHANGED <<requests, sent>>
    /\ oversized' = (oversized \/ long)

\* communication_loop takes a line, execute_client_action acts on it.  The words
\* after the command can make a request longer than the server reads at once.
TypeLine(l) ==
    /\ pc = "input" /\ sent < MaxRequests
    /\ \/ /\ process_user_input(l) = "QUIT"
          /\ Send(Request("end", {}), FALSE)
       \/ /\ process_user_input(l) = "CONTINUE"
          /\ UNCHANGED <<pc, sent, requests, oversized>>
       \/ /\ process_user_input(l) = "SEND"
          /\ \E built \in build_json_from_input(l) :
                \/ /\ built.status = "SUCCESS"
                   /\ \E long \in {FALSE, l.args > 0} : Send(built.request, long)
                \/ /\ built.status # "SUCCESS"
                   /\ pc' = CASE built.status = "SYNTAX" -> "input"
                              [] built.status = "MEMORY" -> "left"
                              [] OTHER -> "crashed"
                   /\ UNCHANGED <<sent, requests, oversized>>
    /\ line' = IF pc' \in {"recv", "crashed"} THEN l ELSE NoLine
    /\ answer' = IF pc' = "input" THEN answer ELSE NoAnswer
    /\ UNCHANGED <<logins, stream, serverVars>>

\* fgets returns NULL: end of input, or a signal has closed it.
EndOfInput ==
    /\ pc = "input"
    /\ pc' = "left" /\ answer' = NoAnswer
    /\ UNCHANGED <<line, sent, logins, requests, stream, serverVars, oversized>>

\* handle_server_transaction: one read, one print.
Receive ==
    /\ pc = "recv"
    /\ \E n \in Reads : \E text \in Texts(SubSeq(stream, 1, n)) :
          LET display == print_readable_response(text, line.word) IN
          /\ Taken(n)
          /\ answer' = [to |-> IF text.json = "reply" THEN text.reply.to ELSE 0,
                        display |-> display]
          /\ logins' = IF display = "login" THEN logins + 1 ELSE logins
          /\ pc' = CASE display = "crash" -> "crashed"
                     [] process_user_input(line) = "QUIT" -> "left"
                     [] OTHER -> "input"
    /\ line' = IF pc' = "crashed" THEN line ELSE NoLine
    /\ UNCHANGED <<sent, requests, serverVars, oversized>>

\* The read returns 0, or an error after a reset: the server has closed.
ReceiveEnd ==
    /\ pc = "recv" /\ stream = <<>> /\ open = "closed"
    /\ pc' = "left"
    /\ UNCHANGED <<line, sent, logins, answer, requests, stream, serverVars, oversized>>

DialogueNext ==
    \/ sendWelcomeMessage \/ Run \/ RunEnds \/ trySendPendingMessage
    \/ start_communication \/ (\E l \in InputLines : TypeLine(l)) \/ EndOfInput
    \/ Receive \/ ReceiveEnd

\* The event loop and the pool serve every event, the client's reads return
\* what has come.  The user owes nothing.
Fairness ==
    /\ WF_dialogueVars(sendWelcomeMessage) /\ WF_dialogueVars(Run)
    /\ WF_dialogueVars(trySendPendingMessage) /\ WF_dialogueVars(start_communication)
    /\ WF_dialogueVars(Receive) /\ WF_dialogueVars(ReceiveEnd)

DialogueSpec == DialogueInit /\ [][DialogueNext]_dialogueVars /\ Fairness

-----------------------------------------------------------------------------
(* Properties.                                                             *)

\* As long as every request fits the server's read and every reply fits one
\* piece, what the client shows after a command is the reply to that command:
\* never the welcome, an earlier reply or text that does not parse
\* (start_communication and handle_server_transaction: one read per message).
InStep ==
    ~oversized /\ pc = "input" => answer.to = sent /\ answer.display # "unparsed"

\* Every transaction ends: a client that waits for a reply (it has no timeout)
\* gets one or finds the connection closed, though requests may be cut or read
\* together and pending replies overtaken, cut or overwritten.
TransactionEnds == (pc = "recv") ~> (pc # "recv")

\* The client starts its threads and its dashboard (TRANSACTION_LOGIN_SUCCESS)
\* only for a session the server has authenticated, and only once in a
\* connection, however late or mixed up the replies are.  While the two are in
\* step it also never misses a login: a second one would be answered as an
\* unknown command, so the threads would never start.
LoginAgrees ==
    /\ logins <= 1
    /\ logins = 1 => role # NotLoggedIn
    /\ ~oversized /\ pc = "input" /\ role # NotLoggedIn => logins = 1

\* The payload the client builds is the one the handlers of the server ask for:
\* no request of this client is answered "invalid or missing field".
FieldsAgree ==
    \A i \in DOMAIN stream : stream[i].reply.why # "field"

\* REPORT.md: "handle_server_transaction validate server replies".  A reply
\* never brings the client down.
RepliesValidated == ~(pc = "crashed" /\ line.word # Blank)

=============================================================================
