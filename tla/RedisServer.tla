----------------------------- MODULE RedisServer -----------------------------
(***************************************************************************)
(* The Redis server (src/server/src/server.cpp): one thread runs the       *)
(* completion handlers of all sessions one after the other, so a handler   *)
(* is one step.  Each client writes its requests without waiting for       *)
(* replies; what async_read_until takes from the socket in one read is any *)
(* next part of that stream.  buffer_ is the part taken and not consumed.  *)
(*                                                                         *)
(* handleRequest has no body yet and answers every request with the empty  *)
(* string.  wired chooses, once, between that and the completion its       *)
(* comments ask for: the request is parsed, its handler is called and the  *)
(* result returned.                                                        *)
(***************************************************************************)
EXTENDS RedisCommands, SequencesExt

CONSTANTS
  Client,
  Scripts,     \* a list of what may be sent: the requests of each client, and
               \* how often at most the network cuts them
  SendRoom     \* replies the socket holds before a write has to wait

\* A request: its form, the name of the command, the elements of the array, whether
\* its operands are numbers, whether its last one holds a line end.
Requests ==
  {r \in [form : {"array", "ping", "pingLF", "junk"},
          word : [letters : STRING, capital : BOOLEAN],
          n : Nat, numeric : BOOLEAN, breaks : BOOLEAN] :
     r.form = "array" => r.n > 0}

ASSUME RedisServerAssumption ==
  /\ SendRoom \in Nat \ {0}
  /\ \A i \in DOMAIN Scripts :
       /\ DOMAIN (Scripts[i].sends) = Client
       /\ \A c \in Client : Scripts[i].sends[c] \in Seq(Requests)
       /\ Scripts[i].cuts \in [Client -> Nat]

VARIABLES
  wired,
  up,          \* io_context.run has not been left
  choice,      \* the entry of Scripts that is played
  stream,      \* client -> what it sends, token by token
  conn,        \* client -> "open", "closed" (the client has finished), "reset"
  pc,          \* session -> "new", "reading", "stalled", "written", "ended"
  cuts,        \* session -> reads that did not take all that was left
  taken,       \* session -> tokens of the stream read from the socket
  consumed,    \* session -> tokens of the stream that left buffer_
  pending,     \* session -> the reply a stalled write still has to send
  out,         \* session -> replies in the socket
  received,    \* client -> replies it has read
  log,         \* session -> what each run of the read handler made of its
               \* input (history variable)
  skew,        \* session -> a request was cut when it was read, or spanned
               \* more lines than it announced (history variable)
  late         \* session -> a write had to wait (history variable)

connVars == <<wired, up, choice, stream, conn>>
vars == <<connVars, pc, cuts, taken, consumed, pending, out, received, log, skew, late>>

-----------------------------------------------------------------------------
(* What a client sends.  A token is a text without line ends, or one of    *)
(* the two characters of a line end; k is the number of the request.       *)

Token(k, kind, i) == <<k, kind, i>>
CR == Token(0, "CR", 0)
LF == Token(0, "LF", 0)
Line(k, kind, i) == <<Token(k, kind, i), CR, LF>>

\* A request: an array of n strings, the last of which is sent in two parts and
\* may hold a line end between them; the inline PING ended by CR LF or by LF; a
\* count that is no number.
Wire(k, r) ==
  CASE r.form = "array" ->
         Line(k, "count", r.n) \o
         FlattenSeq([i \in 1 .. r.n |->
           Line(k, "length", i) \o
           IF i < r.n THEN Line(k, "string", i)
           ELSE <<Token(k, "string", i)>> \o (IF r.breaks THEN <<CR, LF>> ELSE << >>)
                  \o Line(k, "tail", i)])
    [] r.form = "ping"   -> Line(k, "PING", 0)
    [] r.form = "pingLF" -> <<Token(k, "PING", 0), LF>>
    [] r.form = "junk"   -> Line(k, "badcount", 0)

script(c) == Scripts[choice].sends[c]

Wires(requests) == FlattenSeq([k \in DOMAIN requests |-> Wire(k, requests[k])])

-----------------------------------------------------------------------------
(* The read handler.                                                       *)

buffer_(c) == SubSeq(stream[c], consumed[c] + 1, taken[c])

\* async_read_until completes when "\r\n" is in the buffer.
HasDelimiter(b) == \E i \in 1 .. Len(b) - 1 : b[i] = CR /\ b[i + 1] = LF

\* The places of the line feeds.
Feeds(b) == FlattenSeq([i \in DOMAIN b |-> IF b[i] = LF THEN <<i>> ELSE << >>])

\* std::getline up to m times: the lines without their line feeds, as many as
\* there are; what is left behind the last line feed counts as a line.
Getlines(b, m) ==
  LET feeds == Feeds(b)
      all   == Len(feeds) + IF Len(b) > 0 /\ Last(b) # LF THEN 1 ELSE 0
      from(j) == IF j = 1 THEN 1 ELSE feeds[j - 1] + 1
      to(j)   == IF j <= Len(feeds) THEN feeds[j] - 1 ELSE Len(b)
  IN  [j \in 1 .. IF m < all THEN m ELSE all |-> SubSeq(b, from(j), to(j))]

\* Fault: a request takes everything with it that is in the buffer.
ExtentAll(b, m) == Len(b)

\* The tokens that the first m lines of b take up, their line feeds included.
Extent(b, m) == IF m <= Len(Feeds(b)) THEN Feeds(b)[m] ELSE Len(b)

PONG == Simple("PONG")
Nothing == << >>    \* the empty string
Garbage == <<"garbage">>

\* The request a full_request was made of, as its first line tells: the text of
\* an intact request stands for its arguments.
RequestOf(c, full_request) == script(c)[full_request[1][1][1]]

\* The completion of handleRequest: parse, call the handler, return the result.
Execute(r) ==
  LET op == string2Ops(r.word)
  IN  IF op = "ping" THEN PONG
      ELSE IF op = "unknown" THEN Error("unknown")
      ELSE HandlerReply(op, r.n)

Throws(r) ==
  LET op == string2Ops(r.word)
  IN  HandlerAccepts(op, r.n) /\ WrapperThrows(op, r.numeric)

handleRequest(c, full_request) ==
  IF wired THEN Execute(RequestOf(c, full_request)) ELSE Nothing

\* One run of the handler: the tokens it consumes, the reply it writes, the
\* request it passes to handleRequest (<< >> if it does not).  The code appends a line
\* end to every line it took, also to one that kept its CR; tokens have none.
Parsed(c, b) ==
  LET first == Getlines(b, 1)
      text  == first[1]
      head  == IF text = << >> THEN CR ELSE text[1]
      n     == head[3]
      lines == Getlines(b, 1 + 2 * n)
      result(ls, reply, request) ==
        [used |-> Extent(b, Len(ls)), reply |-> reply, request |-> request]
  IN  CASE text = <<Token(head[1], "PING", 0)>> -> result(first, PONG, << >>)
        [] head[2] = "badcount" -> result(first, Error("invalid number"), << >>)
        [] head[2] = "count" ->
             IF Len(lines) < 1 + 2 * n
             THEN result(lines, Error("partial request"), << >>)
             ELSE result(lines, handleRequest(c, lines), lines)
        [] OTHER -> result(first, Error("expected '*'"), << >>)

-----------------------------------------------------------------------------
(* Actions.                                                                *)

Init ==
  /\ wired \in BOOLEAN
  /\ up = TRUE
  /\ choice \in DOMAIN Scripts
  /\ stream = [c \in Client |-> Wires(Scripts[choice].sends[c])]
  /\ conn = [c \in Client |-> "open"]
  /\ pc = [c \in Client |-> "new"]
  /\ cuts = [c \in Client |-> 0]
  /\ taken = [c \in Client |-> 0]
  /\ consumed = [c \in Client |-> 0]
  /\ pending = [c \in Client |-> Nothing]
  /\ out = [c \in Client |-> << >>]
  /\ received = [c \in Client |-> << >>]
  /\ log = [c \in Client |-> << >>]
  /\ skew = [c \in Client |-> FALSE]
  /\ late = [c \in Client |-> FALSE]

\* remote_endpoint() throws on a connection that was reset; nothing catches it
\* before main, which leaves the event loop.
LogEndpoint(c) == up' = (conn[c] # "reset")

\* RedisServer::do_accept and RedisSession::start.  (A client with nothing to
\* send does not connect.)
Accept(c) ==
  /\ up /\ pc[c] = "new" /\ stream[c] # << >>
  /\ LogEndpoint(c)
  /\ pc' = [pc EXCEPT ![c] = "reading"]
  /\ UNCHANGED <<wired, choice, stream, conn, cuts, taken, consumed, pending, out, received, log, skew, late>>

\* async_read_until takes what has come, up to its limit.
ReadSome(c) ==
  /\ up /\ pc[c] = "reading" /\ conn[c] # "reset"
  /\ ~HasDelimiter(buffer_(c))
  /\ \E end \in taken[c] + 1 .. Len(stream[c]) :
       /\ taken' = [taken EXCEPT ![c] = end]
       /\ IF end = Len(stream[c]) THEN cuts' = cuts
          ELSE cuts[c] < Scripts[choice].cuts[c] /\ cuts' = [cuts EXCEPT ![c] = @ + 1]
  /\ UNCHANGED <<connVars, pc, consumed, pending, out, received, log, skew, late>>

\* Fault: a reply that has to wait is put into the socket all the same.
WriteWithoutRoom(c, reply) ==
  /\ pc' = [pc EXCEPT ![c] = "written"]
  /\ out' = [out EXCEPT ![c] = IF reply = Nothing THEN @ ELSE Append(@, reply)]
  /\ UNCHANGED <<pending, late>>

\* do_write: the bytes are copied to the socket at once if there is room.  If
\* not, the write waits with a reference to a string that is gone by then.
do_write(c, reply) ==
  IF reply # Nothing /\ Len(out[c]) = SendRoom
  THEN /\ pc' = [pc EXCEPT ![c] = "stalled"]
       /\ pending' = [pending EXCEPT ![c] = reply]
       /\ late' = [late EXCEPT ![c] = TRUE]
       /\ out' = out
  ELSE /\ pc' = [pc EXCEPT ![c] = "written"]
       /\ out' = [out EXCEPT ![c] = IF reply = Nothing THEN @ ELSE Append(@, reply)]
       /\ UNCHANGED <<pending, late>>

\* Whether what is read next is anything but a request that is wholly in the
\* buffer and takes the lines it announces.
CutShort(c) ==
  LET b == buffer_(c)
      k == b[1][1]
      r == script(c)[k]
  IN  \/ b[1][2] \notin {"count", "PING", "badcount"}
      \/ /\ b[1][2] = "count"
         /\ r.breaks \/ Len(b) < Len(Wire(k, r))

ReadHandler(c) ==
  /\ up /\ pc[c] = "reading" /\ conn[c] # "reset"
  /\ HasDelimiter(buffer_(c))
  /\ \E p \in {Parsed(c, buffer_(c))} :
       /\ consumed' = [consumed EXCEPT ![c] = @ + p.used]
       /\ skew' = [skew EXCEPT ![c] = @ \/ CutShort(c)]
       /\ IF wired /\ p.request # << >> /\ Throws(RequestOf(c, p.request))
          THEN up' = FALSE /\ UNCHANGED <<pc, pending, out, late, log>>
          ELSE /\ up' = up
               /\ log' = [log EXCEPT ![c] =
                           Append(@, [request |-> p.request, reply |-> p.reply])]
               /\ do_write(c, p.reply)
  /\ UNCHANGED <<wired, choice, stream, conn, cuts, taken, received>>

\* The handler is called with eof or connection_reset: the session is over.
ReadEnds(c) ==
  /\ up /\ pc[c] = "reading" /\ conn[c] # "open"
  /\ conn[c] = "reset" \/ ~HasDelimiter(buffer_(c))
  /\ LogEndpoint(c)
  /\ pc' = [pc EXCEPT ![c] = "ended"]
  /\ UNCHANGED <<wired, choice, stream, conn, cuts, taken, consumed, pending, out, received, log, skew, late>>

\* A write that waited goes on when the client has read; what it sends is
\* whatever the memory of the string holds by then.
WriteLater(c) ==
  /\ up /\ pc[c] = "stalled" /\ conn[c] # "reset"
  /\ Len(out[c]) < SendRoom
  /\ \E bytes \in {pending[c], Garbage} : out' = [out EXCEPT ![c] = Append(@, bytes)]
  /\ pending' = [pending EXCEPT ![c] = Nothing]
  /\ pc' = [pc EXCEPT ![c] = "written"]
  /\ UNCHANGED <<connVars, cuts, taken, consumed, received, log, skew, late>>

\* Fault: after an error reply the session does not read on.
WriteDoneStops(c) ==
  /\ up /\ pc[c] = "written"
  /\ pc' = [pc EXCEPT ![c] =
       IF log[c] # << >> /\ Last(log[c]).reply = Error("partial request")
       THEN "ended" ELSE "reading"]
  /\ UNCHANGED <<connVars, cuts, taken, consumed, pending, out, received, log, skew, late>>

\* The write handler: do_read again.
WriteDone(c) ==
  /\ up /\ pc[c] = "written"
  /\ pc' = [pc EXCEPT ![c] = "reading"]
  /\ UNCHANGED <<connVars, cuts, taken, consumed, pending, out, received, log, skew, late>>

\* The write handler is called with an error: the session is over.  Only eof and
\* connection_reset log the endpoint, a broken pipe does not.
WriteFails(c) ==
  /\ up /\ pc[c] \in {"written", "stalled"} /\ conn[c] # "open"
  /\ LogEndpoint(c) \/ up' = up
  /\ pc' = [pc EXCEPT ![c] = "ended"]
  /\ UNCHANGED <<wired, choice, stream, conn, cuts, taken, consumed, pending, out, received, log, skew, late>>

\* The client reads a reply.
Receive(c) ==
  /\ out[c] # << >> /\ conn[c] # "reset"
  /\ received' = [received EXCEPT ![c] = Append(@, Head(out[c]))]
  /\ out' = [out EXCEPT ![c] = Tail(@)]
  /\ UNCHANGED <<connVars, pc, cuts, taken, consumed, pending, log, skew, late>>

\* The client has finished, or its connection is reset; one client in a run.
Disconnect(c) ==
  /\ up /\ pc[c] # "ended" /\ stream[c] # << >>
  /\ \A d \in Client \ {c} : conn[d] = "open"
  /\ \E how \in {"closed", "reset"} :
       /\ conn[c] = "open" \/ (conn[c] = "closed" /\ how = "reset")
       /\ conn' = [conn EXCEPT ![c] = how]
  /\ UNCHANGED <<wired, up, choice, stream, pc, cuts, taken, consumed, pending, out, received, log, skew, late>>

Session(c) ==
  \/ Accept(c) \/ ReadSome(c) \/ ReadHandler(c) \/ ReadEnds(c)
  \/ WriteLater(c) \/ WriteDone(c) \/ WriteFails(c)

System == \E c \in Client : Session(c) \/ Receive(c)

Next == System \/ \E c \in Client : Disconnect(c)

\* The event loop runs some handler as long as one is ready, the network
\* delivers, and clients read their replies.  No client has to hang up.
Spec == Init /\ [][Next]_vars /\ WF_vars(System)

-----------------------------------------------------------------------------
(* Properties.                                                             *)

Pc == {"new", "reading", "stalled", "written", "ended"}

\* Every variable keeps its type; what was taken lies between what was consumed
\* and the end of the stream, only a stalled write has a reply to send, and the
\* socket never holds more than it can.
TypeOK ==
  /\ wired \in BOOLEAN /\ up \in BOOLEAN
  /\ \A c \in Client :
       /\ conn[c] \in {"open", "closed", "reset"}
       /\ pc[c] \in Pc
       /\ consumed[c] <= taken[c] /\ taken[c] <= Len(stream[c])
       /\ pc[c] \in {"new", "reading", "written"} => pending[c] = Nothing
       /\ Len(out[c]) <= SendRoom

\* All lines of a request.
LinesOf(w) == Getlines(w, Len(w))

\* The lines of each request as its client made them.
Lines ==
  [i \in DOMAIN Scripts |-> [c \in Client |->
     [k \in DOMAIN Scripts[i].sends[c] |-> LinesOf(Wire(k, Scripts[i].sends[c][k]))]]]

\* What the server may make of the k-th request of c.  server.cpp:45 says that PING is
\* taken apart to be answered by itself, which the CR that getline leaves in the
\* inline form prevents: it is passed to no handler, and its answer is left open.
Wanted(c, k) ==
  LET r == script(c)[k]
      lines == Lines[choice][c][k]
  IN  CASE r.form = "array"  -> {[request |-> lines, reply |-> handleRequest(c, lines)]}
        [] r.form = "pingLF" -> {[request |-> << >>, reply |-> PONG]}
        [] r.form = "ping"   -> {[request |-> << >>, reply |-> answer] :
                                   answer \in {PONG, Error("expected '*'")}}
        [] r.form = "junk"   -> {[request |-> << >>, reply |-> Error("invalid number")]}

\* However the stream is cut into reads, and however many requests are in flight,
\* the session takes the requests of a client apart where the client put them
\* together, runs each once, in order, with all its lines, and gives each one reply,
\* its own - up to the first request that was not whole when its first line was
\* read, or that has a line end inside a string.  Of an inline PING ended by CR LF
\* only this is said, that it takes up its own line and no other, and gets one reply.
InStep ==
  \A c \in Client : ~skew[c] =>
    \A k \in DOMAIN log[c] : log[c][k] \in Wanted(c, k)

\* The replies of a log that are not empty.
Sent(entries) ==
  FlattenSeq([i \in DOMAIN entries |->
    IF entries[i].reply = Nothing THEN << >> ELSE <<entries[i].reply>>])

\* Whether or not the session is in step, the replies of one session reach its
\* client complete, framed, once each and in the order of the reads that caused
\* them, unless a write had to wait for room (its string is gone by then).
RepliesDelivered ==
  \A c \in Client : ~late[c] =>
    LET sent == Sent(log[c])
    IN  received[c] \o out[c] = sent /\ \A i \in DOMAIN sent : Framed(sent[i])

\* A handler lets an argument vector through only if it is as long as the wrapper
\* reads it: no index past its end, no operand the client sent left unread.
\* (llen asks for an operand too many; hset counts a second time, and refuses
\* what cannot be paired.)
ArgumentsMatch ==
  \A c \in Client : \A e \in Range(log[c]) :
    e.request # << >> /\ wired =>
      LET r == RequestOf(c, e.request)
          op == string2Ops(r.word)
          reads == WrapperReads(op, r.n)
      IN  HandlerAccepts(op, r.n) /\ reads # {} =>
            reads = IF op = "llen" THEN {1} ELSE 1 .. r.n - 1

\* As long as no connection is reset, and no operand of lrange is text, every
\* session whose client stays gets to the end of what the client sent: whatever
\* it was, no line that has arrived waits in the buffer for ever.
Drained(c) ==
  pc[c] = "reading" /\ taken[c] = Len(stream[c]) /\ ~HasDelimiter(buffer_(c))

Drains ==
  \A c \in Client :
    []<>(Drained(c) \/ stream[c] = << >> \/ conn[c] # "open" \/ ~up)
==============================================================================
