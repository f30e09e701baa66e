----------------------------- MODULE HttpServer -----------------------------
(***************************************************************************)
(* One connection of an HttpServer (net/http/wf_http_server.cc): the bytes *)
(* of a client arrive in pieces that begin and end anywhere, onMessage()   *)
(* runs for each piece, and the HttpContext keeps the parser's state from  *)
(* one piece to the next. Everything is on the connection's loop.          *)
(*                                                                         *)
(* A client writes requests, and the stream is their lines: a line is a    *)
(* sequence of tokens - "GET", "SP", "?", ":", "HTTP/1.", ... - and the    *)
(* CRLF at its end. Input is counted in units, two for a line: the CRLF of *)
(* line k has arrived when 2 * k units have. That cuts it anywhere the     *)
(* parser can tell apart, since it only looks at whole lines.              *)
(* Bodies do not exist for the parser: it never enters kExpectBody.        *)
(*                                                                         *)
(* pc is where the loop's thread is: "poll", "parse" in the while of       *)
(* parseRequest(), "bad" and "request" in onMessage() after it.            *)
(* fault is the failed assert of setMethod(), or the null context_.        *)
(***************************************************************************)
EXTENDS Integers, Sequences, FiniteSetsExt

CONSTANTS Tokens,      \* what lines are made of
          Methods,     \* those setMethod() knows
          Requests,    \* what clients may write, bad request lines too
          MaxRequests  \* bound: the requests of one client

(* A request: path and query are tokens, the query with its "?"; minor is  *)
(* the last digit of the version, if there is one; a header's blanks are   *)
(* before and after its value. Without a method the first line is empty.   *)
(* The request line may be a bad one; a header's line always has a colon.  *)
ASSUME TokensAssumption ==
    /\ {"SP", "?", ":", "HTTP/1."} \subseteq Tokens
    /\ Methods \subseteq Tokens \ {"SP", "kInvalid", "none"}

ASSUME RequestsAssumption ==
    \A r \in Requests :
        /\ {r.method, r.minor} \subseteq (Tokens \ {"SP"}) \cup {"none"}
        /\ r.path \in Seq(Tokens \ {"SP", "?"})
        /\ r.query \in Seq(Tokens \ {"SP"})
        /\ r.query # <<>> => r.query[1] = "?"
        /\ r.headers \in Seq([field : Seq(Tokens \ {":"}), value : Seq(Tokens),
                              before : Seq({"SP"}), after : Seq({"SP"})])
        /\ \A i \in DOMAIN r.headers :
            LET value == r.headers[i].value IN
            value # <<>> => "SP" \notin {value[1], value[Len(value)]}

RequestLine(r) ==
    IF r.method = "none" THEN <<>>
    ELSE <<r.method, "SP">> \o r.path \o r.query
             \o (IF r.minor = "none" THEN <<>> ELSE <<"SP", "HTTP/1.", r.minor>>)

HeaderLine(h) == h.field \o <<":">> \o h.before \o h.value \o h.after

LinesOf(r) ==
    <<RequestLine(r)>> \o [i \in DOMAIN r.headers |-> HeaderLine(r.headers[i])] \o << <<>> >>

VARIABLES pc,
          client,     \* the requests this client has written
          stream,     \* their lines
          pipelined,  \* it does not wait for one request to be handled before the next
          got,        \* units that have arrived
          taken,      \* lines retrieved from inputBuffer_
          context,    \* context_: no context yet, or the HttpContext
          state,      \* state_ of the connection
          waiting,    \* outputBuffer_ holds a part of a reply
          handled,    \* the requests httpCallback_ has seen, and their decision to close
          replies,    \* the replies on their way, each with its Connection header
          lost,       \* a reply has been lost in send()
          fault

inputVars == <<client, stream, pipelined, got>>
outputVars == <<state, waiting, replies, lost>>
vars == <<pc, inputVars, taken, context, outputVars, handled, fault>>

NewRequest ==
    [method |-> "kInvalid", version |-> "kUnkown", path |-> <<>>, query |-> <<>>,
     headers |-> <<>>]

NewContext == [state |-> "kExpectRequestLine", request |-> NewRequest]
NoContext == [NewContext EXCEPT !.state = "none"]

TypeOK ==
    /\ pc \in {"poll", "parse", "bad", "request"}
    /\ client \in Seq(Requests) /\ stream \in Seq(Seq(Tokens))
    /\ pipelined \in BOOLEAN
    /\ got \in 0 .. 2 * Len(stream)
    /\ taken \in Nat /\ 2 * taken <= got
    /\ context.state \in {"none", "kExpectRequestLine", "kExpectHeaders", "kGotAll"}
    /\ context.request.method \in Methods \cup {"kInvalid"}
    /\ context.request.version \in {"kUnkown", "kHttp10", "kHttp11"}
    /\ state \in {"kConnecting", "kConnected", "kDisconnecting", "kDisconnected"}
    /\ waiting \in BOOLEAN /\ lost \in BOOLEAN
    /\ \A i \in DOMAIN handled : handled[i].close \in BOOLEAN
    /\ replies \in Seq([request : 0 .. Len(handled),
                        connection : {"close", "keepAlive", "none"}])
    /\ fault \in {"none", "noContext", "methodSet"}

(* The connection reads, and its callbacks are set; connectEstablished() is*)
(* still to come (TcpServer).                                              *)
Init ==
    /\ pc = "poll"
    /\ client = <<>> /\ stream = <<>>
    /\ pipelined \in BOOLEAN
    /\ got = 0 /\ taken = 0
    /\ context = NoContext
    /\ state = "kConnecting"
    /\ waiting = FALSE
    /\ handled = <<>> /\ replies = <<>>
    /\ lost = FALSE
    /\ fault = "none"

At(p) == fault = "none" /\ pc = p
---------------------------------------------------------------------------
(* The connection: connectEstablished() and onConnection(), input, room to *)
(* write, the peer's end.                                                  *)

OnConnection ==
    /\ At("poll")
    /\ state = "kConnecting"
    /\ state' = "kConnected"
    /\ context' = NewContext
    /\ UNCHANGED <<pc, inputVars, taken, waiting, replies, lost, handled, fault>>

(* The client writes a request: at any time, or when the one before has    *)
(* been handled. (Its steps are those of "poll": only input is seen.)      *)
Write(r) ==
    /\ At("poll")
    /\ state # "kDisconnected"
    /\ Len(client) < MaxRequests
    /\ pipelined \/ taken = Len(stream)
    /\ client' = Append(client, r)
    /\ stream' = stream \o LinesOf(r)
    /\ UNCHANGED <<pc, pipelined, got, taken, context, outputVars, handled, fault>>

(* handleRead() with n units, and onMessage() as far as parseRequest().    *)
OnMessage(n) ==
    /\ At("poll")
    /\ state # "kDisconnected"
    /\ got' = got + n
    /\ got' <= 2 * Len(stream)
    /\ IF context = NoContext THEN fault' = "noContext" /\ UNCHANGED pc
                              ELSE pc' = "parse" /\ UNCHANGED fault
    /\ UNCHANGED <<client, stream, pipelined, taken, context, outputVars, handled>>

HandleWrite ==
    /\ At("poll")
    /\ waiting
    /\ waiting' = FALSE
    /\ UNCHANGED <<pc, inputVars, taken, context, state, replies, lost, handled, fault>>

PeerCloses ==
    /\ At("poll")
    /\ state \in {"kConnected", "kDisconnecting"}
    /\ state' = "kDisconnected"
    /\ UNCHANGED <<pc, inputVars, taken, context, waiting, replies, lost, handled, fault>>

(* send(): only kConnected sends; what waits for room, or write(2) refuses,*)
(* is lost (TcpConnection); what it takes in part waits for room.          *)
Send(reply) ==
    \/ /\ state # "kConnected"
       /\ UNCHANGED <<waiting, replies, lost>>
    \/ /\ state = "kConnected"
       /\ lost' = TRUE
       /\ UNCHANGED <<waiting, replies>>
    \/ /\ state = "kConnected" /\ ~waiting
       /\ replies' = Append(replies, reply)
       /\ waiting' \in BOOLEAN
       /\ UNCHANGED lost

(* A mutant of Shutdown: the connection stays open.                        *)
ShutdownForgotten == UNCHANGED state

Shutdown == state' = IF state = "kConnected" THEN "kDisconnecting" ELSE state

---------------------------------------------------------------------------
(* parseRequest(): one action for each turn of the while.                  *)

(* A mutant of HasCrlf: a CRLF at the end of the buffer is not found.      *)
CrlfNotLast == got > 2 * (taken + 1)

(* findCRLF(): the next line is there to its end.                          *)
HasCrlf == got >= 2 * (taken + 1)

Line == stream[taken + 1]

NoMore ==
    /\ At("parse")
    /\ ~HasCrlf
    /\ pc' = "poll"
    /\ UNCHANGED <<inputVars, taken, context, outputVars, handled, fault>>

(* std::find(): the first t in the line from i on, or the line's end.      *)
Find(line, t, i) == Min({k \in i .. Len(line) : line[k] = t} \cup {Len(line) + 1})

(* setMethod() is reached: there is a space.                               *)
HasMethod(line) == Find(line, "SP", 1) <= Len(line)

MethodOf(line) ==
    LET m == SubSeq(line, 1, Find(line, "SP", 1) - 1) IN
    IF \E k \in Methods : m = <<k>> THEN m[1] ELSE "kInvalid"

(* The path ends at a question mark, which begins the query, or at the     *)
(* second space. Without that space neither is set.                        *)
WithTarget(request, line) ==
    LET start == Find(line, "SP", 1) + 1
        space == Find(line, "SP", start)
        question == Find(SubSeq(line, 1, space - 1), "?", start) IN
    IF space > Len(line) THEN request
    ELSE [request EXCEPT !.path = SubSeq(line, start, question - 1),
                         !.query = SubSeq(line, question, space - 1)]

(* What follows the second space.                                          *)
VersionOf(line) ==
    LET space == Find(line, "SP", Find(line, "SP", 1) + 1)
        rest == SubSeq(line, space + 1, Len(line)) IN
    CASE rest = <<"HTTP/1.", "1">> -> "kHttp11"
      [] rest = <<"HTTP/1.", "0">> -> "kHttp10"
      [] OTHER -> "kUnkown"

(* processRequestLine(), as far as it gets. setMethod() asserts that no    *)
(* method is set; a line that fails leaves what it has set, and stays in   *)
(* the buffer.                                                             *)
ProcessRequestLine ==
    /\ At("parse")
    /\ HasCrlf
    /\ context.state = "kExpectRequestLine"
    /\ IF HasMethod(Line) /\ context.request.method # "kInvalid"
       THEN fault' = "methodSet" /\ UNCHANGED <<pc, taken, context>>
       ELSE LET method == IF HasMethod(Line) THEN MethodOf(Line) ELSE "kInvalid"
                version == VersionOf(Line)
                request == WithTarget([context.request EXCEPT !.method = method], Line) IN
            /\ CASE method = "kInvalid" ->
                        pc' = "bad" /\ UNCHANGED <<taken, context>>
                 [] method # "kInvalid" /\ version = "kUnkown" ->
                        /\ context' = [context EXCEPT !.request = request]
                        /\ pc' = "bad" /\ UNCHANGED taken
                 [] OTHER ->
                        /\ context' = [state |-> "kExpectHeaders",
                                       request |-> [request EXCEPT !.version = version]]
                        /\ taken' = taken + 1 /\ UNCHANGED pc
            /\ UNCHANGED fault
    /\ UNCHANGED <<inputVars, outputVars, handled>>

(* A mutant of ValueOf: blanks at the end stay.                            *)
ValueNotTrimmed(line) ==
    SubSeq(line, Find(line, ":", 1) + 1, Len(line))

(* What follows the colon, without the blanks at its ends.                 *)
ValueOf(line) ==
    LET text == {k \in Find(line, ":", 1) + 1 .. Len(line) : line[k] # "SP"} IN
    IF text = {} THEN <<>> ELSE SubSeq(line, Min(text), Max(text))

(* addHeader(): the later one of two headers of one name counts.           *)
AddHeader(headers, line) ==
    LET field == SubSeq(line, 1, Find(line, ":", 1) - 1) IN
    [f \in DOMAIN headers \cup {field} |-> IF f = field THEN ValueOf(line) ELSE headers[f]]

(* A line with a colon is a header, any other line ends the headers.       *)
ProcessHeader ==
    /\ At("parse")
    /\ HasCrlf
    /\ context.state = "kExpectHeaders"
    /\ IF Find(Line, ":", 1) <= Len(Line)
       THEN /\ context' = [context EXCEPT !.request.headers = AddHeader(@, Line)]
            /\ UNCHANGED pc
       ELSE /\ context' = [context EXCEPT !.state = "kGotAll"]
            /\ pc' = "request"
    /\ taken' = taken + 1
    /\ UNCHANGED <<inputVars, outputVars, handled, fault>>

---------------------------------------------------------------------------
(* onMessage() after parseRequest().                                       *)

BadRequest ==
    /\ At("bad")
    /\ Send([request |-> 0, connection |-> "none"])
    /\ Shutdown
    /\ pc' = "poll"
    /\ UNCHANGED <<inputVars, taken, context, handled, fault>>

GetHeader(headers, field) == IF field \in DOMAIN headers THEN headers[field] ELSE <<>>

WantsClose ==
    LET connection == GetHeader(context.request.headers, <<"Connection">>) IN
    \/ connection = <<"close">>
    \/ context.request.version = "kHttp10" /\ connection # <<"Keep-Alive">>

(* Mutants of Reset: the headers stay; the state stays kGotAll.            *)
ResetButHeaders ==
    context' = [NewContext EXCEPT !.request.headers = context.request.headers]
ResetRequestOnly == context' = [NewContext EXCEPT !.state = context.state]

(* HttpContext::reset().                                                   *)
Reset == context' = NewContext

(* The HttpResponse: httpCallback_ may set its closeConnection_ itself.    *)
CloseConnection(choice) ==
    CASE choice = "leave" -> WantsClose
      [] choice = "on" -> TRUE
      [] choice = "off" -> FALSE

(* HttpResponse::appendToBuffer(): its header says what will be done.      *)
AppendToBuffer(n, close) ==
    [request |-> n, connection |-> IF close THEN "close" ELSE "keepAlive"]

OnRequest(choice) ==
    /\ At("request")
    /\ LET close == CloseConnection(choice) IN
       /\ handled' = Append(handled, [request |-> context.request, close |-> close])
       /\ Send(AppendToBuffer(Len(handled'), close))
       /\ IF close THEN Shutdown ELSE UNCHANGED state
    /\ Reset
    /\ pc' = "poll"
    /\ UNCHANGED <<inputVars, taken, fault>>

---------------------------------------------------------------------------
Next ==
    \/ OnConnection
    \/ \E r \in Requests : Write(r)
    \/ \E n \in 1 .. 2 * Len(stream) : OnMessage(n)
    \/ HandleWrite
    \/ PeerCloses
    \/ NoMore \/ ProcessRequestLine \/ ProcessHeader
    \/ BadRequest
    \/ \E choice \in {"leave", "on", "off"} : OnRequest(choice)

Spec == Init /\ [][Next]_vars

(* Fairness: the loop's thread goes on, and what the client has written    *)
(* arrives.                                                                *)
Fairness ==
    /\ WF_vars(OnConnection)
    /\ WF_vars(\E n \in 1 .. 2 * Len(stream) : OnMessage(n))
    /\ WF_vars(NoMore \/ ProcessRequestLine \/ ProcessHeader)
    /\ WF_vars(BadRequest)
    /\ WF_vars(\E choice \in {"leave", "on", "off"} : OnRequest(choice))

FairSpec == Spec /\ Fairness

---------------------------------------------------------------------------
(* Properties.                                                             *)

(* What the client means by a request.                                     *)
Meaning(r) ==
    LET fields == {r.headers[i].field : i \in DOMAIN r.headers}
        lastOf(f) == Max({i \in DOMAIN r.headers : r.headers[i].field = f}) IN
    [method |-> r.method, path |-> r.path, query |-> r.query,
     version |-> IF r.minor = "1" THEN "kHttp11" ELSE "kHttp10",
     headers |-> [f \in fields |-> r.headers[lastOf(f)].value]]

WellFormed(r) == r.method \in Methods /\ r.minor \in {"0", "1"}

(* However the input is cut into pieces, httpCallback_ sees the requests   *)
(* that the client wrote, one after the other, with the method, the path,  *)
(* the query, the version and the headers that it meant: nothing is lost,  *)
(* seen twice, or left over from the request before, and nothing is seen   *)
(* from the first request on that is not one.                              *)
RequestsFollowStream ==
    /\ Len(handled) <= Len(client)
    /\ \A i \in DOMAIN handled :
        /\ \A j \in 1 .. i : WellFormed(client[j])
        /\ handled[i].request = Meaning(client[i])

(* As long as send() has lost nothing, the replies are those of the        *)
(* requests handled, in their order, up to the first one that closes the   *)
(* connection, and only that one announces it; a 400, which announces      *)
(* nothing, closes it as well. Nothing is sent after that.                 *)
RepliesFollowRequests ==
    LET closing == {i \in 1 .. Len(handled) : handled[i].close}
        answered == [i \in 1 .. Min(closing \cup {Len(handled)}) |->
                        [request |-> i,
                         connection |-> IF i \in closing THEN "close" ELSE "keepAlive"]]
        badRequest == [request |-> 0, connection |-> "none"] IN
    ~lost => replies = answered \/ (closing = {} /\ replies = Append(answered, badRequest))

(* parseRequest() is entered in a state it knows how to leave: in kGotAll  *)
(* its while would turn for ever.                                          *)
ParserLeaves == pc = "parse" => context.state \in {"kExpectRequestLine", "kExpectHeaders"}

(* A client that waits for each request to be handled before it sends the  *)
(* next one has all its requests parsed, whatever pieces they come in,     *)
(* unless the connection, or the program, ends first. (With a client that  *)
(* does not wait, a request that came together with another one waits in   *)
(* the buffer until more input comes: onMessage() handles one.)            *)
ClientIsServed ==
    ~pipelined ~> (taken = Len(stream) \/ state \in {"kDisconnecting", "kDisconnected"}
                     \/ fault # "none")
=============================================================================
