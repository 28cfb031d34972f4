------------------------------ MODULE HttpConn ------------------------------
(***************************************************************************)
(* One connection: HttpConn of src/net/http/http_conn.cpp.  The client's   *)
(* bytes arrive in arbitrary pieces; read_once appends them to the read    *)
(* buffer, process() runs the parser over it, do_request answers through   *)
(* the gateway's router or from a file, and write() sends the answer in as *)
(* many pieces as the socket takes.  That one thread at a time does this   *)
(* is EventLoop's matter.                                                  *)
(*                                                                         *)
(* A byte is modelled by what the parser tells apart: <<k, "CR">>,         *)
(* <<k, "LF">>, "x" for a byte of a body, and one symbol for the whole text*)
(* of a request line or header; k is the message it belongs to.  An        *)
(* iteration of process_read's loop is one action.                         *)
(***************************************************************************)
EXTENDS Integers, Router

CONSTANTS Messages,      \* what a client may send (see Text)
          ReadBufSize,   \* kReadBufSize
          HeadLen,       \* bytes that process_write puts into write_buf_
          FileLen,       \* bytes of a file
          ApiLen,        \* bytes of api_response_
          MaxMessages    \* bound on the messages of one connection

(* What parse_headers tells apart in a header: Connection with keep-alive  *)
(* or another value, Content-length with a number or without, any other.   *)
Headers == {"keep", "close", "len", "badlen", "host"}

ASSUME HttpAssumption ==
  /\ {ReadBufSize, HeadLen, FileLen, ApiLen, MaxMessages} \subseteq Nat \ {0}
  /\ Messages \subseteq [method : STRING, path : [parts : Seq(STRING), plain : BOOLEAN],
                         headers : Seq(Headers), body : Seq({"x", "CR", "LF"}),
                         length : Int, crlf : BOOLEAN]

VARIABLES trig,       \* trig_mode_: 0 is level-triggered, 1 edge-triggered
          sent,       \* the messages the client has sent
          wire,       \* their bytes that have not been received
          buf,        \* read_buf_; read_idx_ is its length
          checked,    \* checked_idx_
          start,      \* line_start_
          check,      \* check_state_
          lineOk,     \* line_st is Ok in the loop of process_read
          parsed,     \* method_ and url_: the message of the request line, or 0
          linger,     \* linger_
          length,     \* content_length_
          pc,         \* "in" and "out": the event epoll awaits; "parse": inside
                      \*   process(); "closed"; "crashed"
          iov,        \* iv_[0 .. iv_count_ - 1]
          toSend, bytesSent,   \* bytes_to_send_, bytes_sent_
          answered,   \* history: the requests answered
          got,        \* history: the bytes of the current answer the client got
          rescanned,  \* history: parse_line looked at bytes of a body
          piped,      \* history: a message was sent before the last was answered
          cutHead,    \* history: a writev ended within iv_[0]
          why         \* history: why the connection was closed

clientVars == <<sent, wire, piped>>
parseVars == <<checked, start, check, lineOk, parsed, linger, length>>
writeVars == <<iov, toSend, bytesSent>>
vars == <<trig, clientVars, buf, parseVars, pc, writeVars, answered, got, rescanned,
          cutHead, why>>

Init == /\ trig \in {0, 1}
        /\ sent = << >> /\ wire = << >> /\ piped = FALSE
        /\ buf = << >> /\ checked = 0 /\ start = 0
        /\ check = "RequestLine" /\ lineOk = TRUE
        /\ parsed = 0 /\ linger = FALSE /\ length = 0
        /\ pc = "in"
        /\ iov = << >> /\ toSend = 0 /\ bytesSent = 0
        /\ answered = << >> /\ got = << >>
        /\ rescanned = FALSE /\ cutHead = FALSE /\ why = "open"

-----------------------------------------------------------------------------
(* The client and the network *)

(* A message has a request line ("bad" is one the parser refuses), headers *)
(* and a body; length is the number in its Content-length header "len"     *)
(* ("badlen" is one without a number).  Some clients end lines with LF.    *)
Eol(m) == IF m.crlf THEN <<"CR", "LF">> ELSE <<"LF">>

Text(m) == <<"line">> \o Eol(m)
           \o FlattenSeq([i \in DOMAIN m.headers |-> <<m.headers[i]>> \o Eol(m)])
           \o Eol(m) \o m.body

Send(m) == /\ pc \in {"in", "out"}
           /\ Len(sent) < MaxMessages
           /\ sent' = Append(sent, m)
           /\ wire' = wire \o [i \in DOMAIN Text(m) |-> <<Len(sent'), Text(m)[i]>>]
           /\ piped' = (piped \/ Len(answered) < Len(sent) \/ pc = "out")
           /\ UNCHANGED <<trig, buf, parseVars, pc, writeVars, answered, got, rescanned,
                          cutHead, why>>

Close(reason) == /\ pc' = "closed" /\ why' = reason
                 /\ UNCHANGED <<trig, clientVars, parseVars, writeVars, answered, got,
                                rescanned, cutHead>>

(* The client hangs up (recv returns 0), an I/O error, or the idle timer.  *)
Disconnect == pc \in {"in", "out"} /\ Close("outside") /\ UNCHANGED buf

-----------------------------------------------------------------------------
(* read_once *)

(* Seeded fault: a byte of the buffer is kept for a terminator. *)
RoomButOne == ReadBufSize - 1 - Len(buf)

Room == ReadBufSize - Len(buf)

(* n bytes have arrived.  Level-triggered, one recv takes them.            *)
(* Edge-triggered, recv is called until it would block.  With the buffer   *)
(* full that is a recv of no bytes: it would block too when the queue is   *)
(* empty, but returns 0, like the end of the stream, when further bytes    *)
(* have come in.                                                           *)
Read(n) == /\ pc = "in"
           /\ n \in 1 .. Len(wire) /\ n <= Room
           /\ buf' = buf \o SubSeq(wire, 1, n)
           /\ wire' = SubSeq(wire, n + 1, Len(wire))
           /\ \/ /\ pc' = "parse" /\ lineOk' = TRUE
                 /\ UNCHANGED why
              \/ /\ trig = 1 /\ n = Room /\ n < Len(wire)
                 /\ pc' = "closed" /\ why' = "full"
                 /\ UNCHANGED lineOk
           /\ UNCHANGED <<trig, sent, piped, checked, start, check, parsed, linger, length,
                          writeVars, answered, got, rescanned, cutHead>>

ReadFull == /\ pc = "in"
            /\ wire # << >> /\ Room <= 0
            /\ Close("full") /\ UNCHANGED buf

-----------------------------------------------------------------------------
(* process_read: one action per iteration *)

Byte(i) == buf[i][2]

(* parse_line: how far it looks and what it returns.                       *)
ParseLine ==
  LET ends == {i \in checked + 1 .. Len(buf) : Byte(i) \in {"CR", "LF"}}
      p    == CHOOSE i \in ends : \A j \in ends : i <= j
  IN IF ends = {} THEN [status |-> "Open", idx |-> Len(buf), last |-> 0]
     ELSE IF Byte(p) = "CR"
     THEN IF p = Len(buf) THEN [status |-> "Open", idx |-> p - 1, last |-> p]
          ELSE IF Byte(p + 1) = "LF" THEN [status |-> "Ok", idx |-> p + 1, last |-> p + 1]
          ELSE [status |-> "Bad", idx |-> p - 1, last |-> p]
     ELSE IF p > 1 /\ Byte(p - 1) = "CR"
     THEN [status |-> "Ok", idx |-> p, last |-> p]
     ELSE [status |-> "Bad", idx |-> p - 1, last |-> p]

(* The line ends are overwritten with zeros.                               *)
Zeroed(idx) == [i \in DOMAIN buf |-> IF i \in {idx - 1, idx} THEN <<buf[i][1], "NUL">>
                                                             ELSE buf[i]]

(* The iteration starts with a call of parse_line.                         *)
CallsParseLine == pc = "parse" /\ ~ (check = "Content" /\ lineOk)

Rescans == rescanned' = (rescanned \/ (check = "Content" /\ ParseLine.idx > checked))

(* Open or Bad: process() asks for more bytes.                             *)
NoLine == /\ CallsParseLine
          /\ ParseLine.status # "Ok"
          /\ checked' = ParseLine.idx
          /\ Rescans
          /\ pc' = "in"
          /\ UNCHANGED <<trig, clientVars, buf, start, check, lineOk, parsed, linger, length,
                         writeVars, answered, got, cutHead, why>>

(* get_line, and the next line starts behind it.                          *)
TakeLine == /\ checked' = ParseLine.idx /\ start' = ParseLine.idx
            /\ buf' = Zeroed(ParseLine.idx)

(* The first symbol of the line that parse_line has just ended.            *)
LineText == Byte(start + 1)

Line == sent[buf[start + 1][1]]

(* parse_request_line accepts the line.                                    *)
RequestLine ==
  /\ CallsParseLine /\ check = "RequestLine" /\ ParseLine.status = "Ok"
  /\ LineText = "line" /\ Line.method \in {"Get", "Post"}
  /\ parsed' = buf[start + 1][1]
  /\ check' = "Header"
  /\ TakeLine
  /\ UNCHANGED <<trig, clientVars, lineOk, linger, length, pc, writeVars, answered, got,
                 rescanned, cutHead, why>>

(* parse_headers, a line that is not empty.                                *)
Header ==
  /\ CallsParseLine /\ check = "Header" /\ ParseLine.status = "Ok"
  /\ LineText \notin {"CR", "badlen"}
  /\ linger' = IF LineText \in {"keep", "close"} THEN LineText = "keep" ELSE linger
  /\ length' = IF LineText = "len" THEN Line.length ELSE length
  /\ TakeLine
  /\ UNCHANGED <<trig, clientVars, check, lineOk, parsed, pc, writeVars, answered, got,
                 rescanned, cutHead, why>>

(* std::stol throws; nothing catches it in the worker thread, and          *)
(* std::terminate ends the server.                                         *)
HeaderThrows ==
  /\ CallsParseLine /\ check = "Header" /\ ParseLine.status = "Ok"
  /\ LineText = "badlen"
  /\ pc' = "crashed"
  /\ UNCHANGED <<trig, clientVars, buf, parseVars, writeVars, answered, got, rescanned,
                 cutHead, why>>

(* parse_headers, the empty line before a body.                            *)
HeadersEnd ==
  /\ CallsParseLine /\ check = "Header" /\ ParseLine.status = "Ok"
  /\ LineText = "CR" /\ length # 0
  /\ check' = "Content"
  /\ TakeLine
  /\ UNCHANGED <<trig, clientVars, lineOk, parsed, linger, length, pc, writeVars, answered,
                 got, rescanned, cutHead, why>>

-----------------------------------------------------------------------------
(* do_request and process_write *)

(* What do_request may return for a file: it is not there or cannot be     *)
(* opened, is not readable, is a directory, cannot be mapped (which an     *)
(* empty one never can), or is mapped.                                     *)
FileCodes == {"NoResource", "ForbiddenRequest", "BadRequest", "InternalError",
              "FileRequest"}

IsApi(m) == m.path.parts # << >> /\ m.path.parts[1] = "api"

Codes(m) == IF IsApi(m) THEN {"ApiResponse"} ELSE FileCodes

(* The pieces that process_write hands to writev.                          *)
Pieces(code) ==
  CASE code = "ApiResponse" -> <<[base |-> "api", off |-> 0, len |-> ApiLen]>>
    [] code = "FileRequest" -> <<[base |-> "head", off |-> 0, len |-> HeadLen],
                                 [base |-> "file", off |-> 0, len |-> FileLen]>>
    [] OTHER -> <<[base |-> "head", off |-> 0, len |-> HeadLen]>>

Answer(code, handler, body) ==
  /\ iov' = Pieces(code)
  /\ toSend' = IF code = "FileRequest" THEN HeadLen + FileLen
               ELSE IF code = "ApiResponse" THEN ApiLen ELSE HeadLen
  /\ bytesSent' = 0
  /\ got' = << >>
  /\ cutHead' = FALSE
  /\ answered' = Append(answered, [msg |-> parsed, code |-> code, handler |-> handler,
                                   body |-> body, linger |-> linger])
  /\ pc' = "out"

DoRequest(body) ==
  LET m == sent[parsed]
  IN \E code \in Codes(m) :
       Answer(code, IF IsApi(m) THEN Route(m.method, m.path) ELSE NoRoute, body)

(* parse_request_line refuses the line.                                    *)
BadRequestLine ==
  /\ CallsParseLine /\ check = "RequestLine" /\ ParseLine.status = "Ok"
  /\ LineText # "line" \/ Line.method \notin {"Get", "Post"}
  /\ Answer("BadRequest", NoRoute, << >>)
  /\ TakeLine
  /\ UNCHANGED <<trig, clientVars, check, lineOk, parsed, linger, length, rescanned, why>>

(* The empty line ends a request without a body.                           *)
RequestWithoutBody ==
  /\ CallsParseLine /\ check = "Header" /\ ParseLine.status = "Ok"
  /\ LineText = "CR" /\ length = 0
  /\ DoRequest(<< >>)
  /\ TakeLine
  /\ UNCHANGED <<trig, clientVars, check, lineOk, parsed, linger, length, rescanned, why>>

Complete(from) == length > 0 /\ Len(buf) >= from + length

(* parse_content, on entry or again after parse_line has found a "line" in *)
(* the body: `from' is checked_idx_ by then.                               *)
Content ==
  LET again == CallsParseLine
      from  == IF again THEN ParseLine.idx ELSE checked
  IN /\ pc = "parse" /\ check = "Content"
     /\ again => ParseLine.status = "Ok"
     /\ checked' = from /\ start' = from
     /\ IF again THEN buf' = Zeroed(from) /\ rescanned' = TRUE
                 ELSE UNCHANGED <<buf, rescanned>>
     /\ \/ /\ Complete(from)
           /\ DoRequest([i \in 1 .. length |-> buf'[from + i][2]])
           /\ UNCHANGED lineOk
        \/ /\ ~ Complete(from)
           /\ lineOk' = FALSE
           /\ UNCHANGED <<pc, writeVars, answered, got, cutHead>>
     /\ UNCHANGED <<trig, clientVars, check, parsed, linger, length, why>>

Process == \/ NoLine \/ RequestLine \/ Header \/ HeaderThrows \/ HeadersEnd
           \/ BadRequestLine \/ RequestWithoutBody \/ Content

-----------------------------------------------------------------------------
(* write *)

Code == answered[Len(answered)].code

(* In an answer of the gateway write_buf_ is empty.                        *)
Size(base) == CASE base = "head" -> IF Code = "ApiResponse" THEN 0 ELSE HeadLen
                [] base = "file" -> FileLen
                [] base = "api"  -> ApiLen

(* The bytes of a piece; "junk" is whatever lies outside the object.       *)
BytesOf(piece) ==
  [i \in 1 .. piece.len |->
     LET at == piece.off + i - 1 IN
       IF at \in 0 .. Size(piece.base) - 1 THEN <<piece.base, at>> ELSE <<"junk", 0>>]

Outgoing == FlattenSeq([i \in DOMAIN iov |-> BytesOf(iov[i])])

(* Seeded fault: the file is continued from the bytes sent. *)
AdjustedFromSent(n) ==
  LET total == bytesSent + n
  IN IF total >= iov[1].len
     THEN [i \in DOMAIN iov |->
             IF i = 1 THEN [iov[1] EXCEPT !.len = 0]
             ELSE [base |-> "file", off |-> total, len |-> toSend - n]]
     ELSE [iov EXCEPT ![1] = [base |-> "head", off |-> total, len |-> @.len - n]]

(* After a partial writev.  iv_[1] is not sent when iv_count_ is 1.        *)
Adjusted(n) ==
  LET total == bytesSent + n
  IN IF total >= iov[1].len
     THEN [i \in DOMAIN iov |->
             IF i = 1 THEN [iov[1] EXCEPT !.len = 0]
             ELSE [base |-> "file", off |-> total - HeadLen, len |-> toSend - n]]
     ELSE [iov EXCEPT ![1] = [base |-> "head", off |-> total, len |-> @.len - n]]

(* writev takes n bytes, with more to send.  EAGAIN changes nothing.       *)
WritePart(n) ==
  /\ pc = "out"
  /\ n \in 1 .. Len(Outgoing) /\ n < toSend
  /\ got' = got \o SubSeq(Outgoing, 1, n)
  /\ iov' = Adjusted(n)
  /\ toSend' = toSend - n /\ bytesSent' = bytesSent + n
  /\ cutHead' = (cutHead \/ bytesSent + n < Pieces(Code)[1].len)
  /\ UNCHANGED <<trig, clientVars, buf, parseVars, pc, answered, rescanned, why>>

(* Seeded fault: the parser is not reset. *)
ResetBuffers == buf' = << >> /\ UNCHANGED parseVars

(* Seeded fault: linger_ is not reset. *)
ResetKeepsLinger == /\ buf' = << >> /\ checked' = 0 /\ start' = 0
                    /\ check' = "RequestLine" /\ lineOk' = TRUE
                    /\ parsed' = 0 /\ length' = 0
                    /\ UNCHANGED linger

(* reset_state: what was received after the request is forgotten as well.  *)
ResetState == /\ buf' = << >> /\ checked' = 0 /\ start' = 0
              /\ check' = "RequestLine" /\ lineOk' = TRUE
              /\ parsed' = 0 /\ linger' = FALSE /\ length' = 0

(* writev takes the rest.  A connection that is kept waits for the next    *)
(* request, another one is closed.                                         *)
WriteRest ==
  /\ pc = "out"
  /\ toSend <= Len(Outgoing)
  /\ got' = got \o SubSeq(Outgoing, 1, toSend)
  /\ toSend' = 0 /\ bytesSent' = 0 /\ iov' = << >>
  /\ IF linger THEN pc' = "in" /\ ResetState /\ UNCHANGED why
               ELSE pc' = "closed" /\ why' = "done" /\ UNCHANGED <<buf, parseVars>>
  /\ UNCHANGED <<trig, clientVars, answered, rescanned, cutHead>>

(* Nothing is left in the pieces although bytes_to_send_ is positive:      *)
(* writev returns 0, and write() calls it again and again.                 *)
WriteNothing == pc = "out" /\ Outgoing = << >> /\ UNCHANGED vars

Ended == pc \in {"closed", "crashed"} /\ UNCHANGED vars

Next == \/ \E m \in Messages : Send(m)
        \/ \E n \in 1 .. ReadBufSize : Read(n)
        \/ ReadFull \/ Disconnect
        \/ Process
        \/ \E n \in 1 .. HeadLen + FileLen + ApiLen : WritePart(n)
        \/ WriteRest \/ WriteNothing \/ Ended

(* What was sent arrives, is read, and is processed by a worker.           *)
Spec == /\ Init /\ [][Next]_vars
        /\ WF_vars(\E n \in 1 .. ReadBufSize : Read(n)) /\ WF_vars(Process)

-----------------------------------------------------------------------------

(* Every variable has its type; the parser never looks beyond what was     *)
(* received, and the buffer never overflows.                               *)
TypeOK == /\ trig \in {0, 1}
          /\ sent \in Seq(Messages) /\ Len(sent) <= MaxMessages
          /\ Len(buf) <= ReadBufSize
          /\ checked \in 0 .. Len(buf) /\ start \in 0 .. checked
          /\ check \in {"RequestLine", "Header", "Content"}
          /\ parsed \in 0 .. Len(sent)
          /\ {lineOk, linger, rescanned, piped, cutHead} \subseteq BOOLEAN
          /\ length \in Int /\ toSend \in Nat /\ bytesSent \in Nat
          /\ pc \in {"in", "parse", "out", "closed", "crashed"}
          /\ why \in {"open", "outside", "full", "done"}

LastOf(m, kinds) ==
  LET hits == {i \in DOMAIN m.headers : m.headers[i] \in kinds}
  IN IF hits = {} THEN "none" ELSE m.headers[CHOOSE i \in hits : \A j \in hits : j <= i]

WellFormed(m) == /\ m.crlf
                 /\ m.method \in {"Get", "Post"}
                 /\ m.length = Len(m.body)
                 /\ m.body # << >> <=> LastOf(m, {"len"}) = "len"

(* However a well-formed request is cut into pieces, the k-th answer is    *)
(* the answer to the k-th message, with its own body and its own wish to   *)
(* keep the connection.  Two habits of the parser are excepted: bytes      *)
(* behind a request are forgotten with it (the client did not wait), and a *)
(* body that is cut in the middle is searched for line ends.               *)
ParsedAsSent ==
  \A k \in DOMAIN answered :
    ~ rescanned /\ ~ piped /\ (\A j \in 1 .. k : WellFormed(sent[j])) =>
      /\ answered[k].msg = k
      /\ answered[k].body = sent[k].body
      /\ answered[k].linger = (LastOf(sent[k], {"keep", "close"}) = "keep")

(* Every request for the gateway is answered by the route that names the   *)
(* most of its path, whatever the order of registration, and there is only *)
(* one such route.                                                         *)
RoutedToMostSpecific ==
  \A k \in DOMAIN answered : answered[k].code = "ApiResponse" =>
    LET m == sent[answered[k].msg]
    IN MostSpecific(m.method, m.path) = {answered[k].handler}

Takes(k) == /\ Len(sent) = k
            /\ \A j \in 1 .. k : WellFormed(sent[j]) /\ Len(Text(sent[j])) <= ReadBufSize

(* A well-formed request that fits the buffer, to the last byte and in     *)
(* both trigger modes, is answered or the connection ends for another      *)
(* reason than its size; the exceptions are those of ParsedAsSent.         *)
FitsIsAnswered ==
  \A k \in 1 .. MaxMessages :
    Takes(k) ~> \/ Len(answered) >= k \/ Len(sent) > k
                \/ rescanned \/ piped
                \/ pc = "closed" /\ why # "full"

Expected == FlattenSeq([i \in DOMAIN Pieces(Code) |-> BytesOf(Pieces(Code)[i])])

(* The client gets the bytes of the answer, in order and nothing else.     *)
ResponseWhole == got # << >> => IsPrefix(got, Expected)

(* So much is true of the code: an answer whose first part (headers, or    *)
(* all of an error page or API answer) leaves in one writev is whole,      *)
(* wherever the file behind it is cut.                                     *)
FileWhole == ~ cutHead => ResponseWhole
=============================================================================
