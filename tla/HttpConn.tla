------------------------------ MODULE HttpConn ------------------------------
(***************************************************************************)
(* The HTTP/1.1 server of modules/gogohttp: the accept loop and Shutdown,   *)
(* the keep-alive loop of each connection over a pooled read buffer, the    *)
(* incremental parser and the three ways of writing a response.             *)
(*                                                                         *)
(* A client sends requests [line, pad, crlf, headers, body]; on the wire   *)
(* they are cells, a line's meaning in its first cell.  A read returns any  *)
(* non-empty part of what is outstanding or fails (EOF, deadline, reset).   *)
(***************************************************************************)
EXTENDS Integers, Sequences, SequencesExt, FiniteSets

CONSTANTS
    Conn,            \* connections clients may open
    Sends,           \* for each connection the request sequences it may send
    initialReadBuf, MaxReadBuf, MaxBodyBytes,
    MaxRequestLine, MaxHeaderBytes, MaxHeaders,
    MaxChunks        \* bound: chunks a Stream closure writes

(* What a client may send: header lines are known by their kind, and by what *)
(* a Content-Length or a connection option says.                             *)
HeaderCells == [k : {"cl", "te", "connection", "plain", "fold", "bad"}, v : Int]
Requests == [line : STRING, pad : Nat, crlf : BOOLEAN, headers : Seq(HeaderCells), body : Nat]
Framing(r) == {i \in DOMAIN r.headers : r.headers[i].k \in {"cl", "te"}}

(* A client that declares one length sends that body, one that declares none *)
(* sends no body.                                                            *)
Declared(r) ==
    /\ Framing(r) = {} => r.body = 0
    /\ \A i \in DOMAIN r.headers :
          Framing(r) = {i} /\ r.headers[i].k = "cl" /\ r.headers[i].v >= 0 => r.headers[i].v = r.body

ASSUME HttpConstants ==
    /\ {MaxReadBuf, MaxBodyBytes, MaxRequestLine, MaxHeaderBytes, MaxHeaders, MaxChunks} \subseteq Nat
    /\ initialReadBuf \in 1..MaxReadBuf
    /\ \A c \in Conn : \A s \in Sends[c] : s \in Seq({r \in Requests : Declared(r)})

VARIABLES
    sent,     \* the requests each connection's client sends
    unread,   \* the cells of them the server has not read yet
    pc,       \* where serveConn of the connection stands
    cs,       \* its connState: [buf, cap], the bytes held and len(rbuf)
    req,      \* the request parsed from it
    pool,     \* the connStates in connPool
    out,      \* what was written to the connection
    handled,  \* the requests its handler was given
    wg,       \* the WaitGroup's counter
    main      \* the process: "serving", "closing", "waiting", "exited"
vars == <<sent, unread, pc, cs, req, pool, out, handled, wg, main>>
conn == <<sent, unread, pc, cs, req, out, handled>>

-----------------------------------------------------------------------------
Cell(k, v) == [k |-> k, v |-> v]
CR == Cell("cr", 0)
LF == Cell("lf", 0)
Line(first, pad, crlf) ==
    <<first>> \o [i \in 1..pad |-> Cell("pad", 0)] \o (IF crlf THEN <<CR, LF>> ELSE <<LF>>)
BodyCells(r) == [i \in 1..r.body |-> Cell("body", i)]
Wire(r) == Line(Cell("line", r.line), r.pad, r.crlf)
           \o FlattenSeq([i \in DOMAIN r.headers |-> Line(r.headers[i], 0, r.crlf)])
           \o (IF r.crlf THEN <<CR, LF>> ELSE <<LF>>) \o BodyCells(r)

(* findEOL from position p: the position of the terminator and of the next   *)
(* line; next = 0 when there is none.                                        *)
findEOL(b, p) ==
    LET ends == {i \in p..Len(b) : b[i] = LF}
        lf == Min(ends)
    IN  IF ends = {} THEN [eol |-> 0, next |-> 0]
        ELSE [eol |-> IF lf > p /\ b[lf - 1] = CR THEN lf - 1 ELSE lf, next |-> lf + 1]

Blank == [at |-> "incomplete", line |-> "", keep |-> FALSE, cl |-> -1, end |-> 0]

(* Mutant: a second Content-Length is let through.                           *)
parseHeaderLastCL(b, earlier, p) ==
    ~(b[p].k = "bad" \/ (b[p].k \in {"cl", "te"} /\ b[p].v < 0))

(* Whether the header line at p is accepted after the ones at earlier: no    *)
(* malformed line, no coding but chunked, one Content-Length, and a number.  *)
parseHeader(b, earlier, p) ==
    ~(\/ b[p].k = "bad"
      \/ b[p].k \in {"cl", "te"} /\ b[p].v < 0
      \/ b[p].k = "cl" /\ \E q \in earlier : b[q].k = "cl")

(* One turn of Parse's header loop, at the line that starts at p: what it    *)
(* returns, or "more".                                                       *)
HeaderLine(b, start, earlier, p) ==
    LET has(k) == \E q \in earlier : b[q].k = k
        end == IF has("cl") /\ has("te") THEN "400" ELSE "complete"
    IN  IF p - start > MaxHeaderBytes THEN "431"
        ELSE IF p > Len(b) THEN "incomplete"
        ELSE IF b[p] = CR THEN IF p = Len(b) THEN "incomplete"
                               ELSE IF b[p + 1] = LF THEN end ELSE "400"
        ELSE IF b[p] = LF THEN end
        ELSE IF b[p].k = "fold" THEN "400"
        ELSE IF findEOL(b, p).next = 0 THEN "incomplete"
        ELSE IF Cardinality(earlier) >= MaxHeaders THEN "431"
        ELSE IF parseHeader(b, earlier, p) THEN "more" ELSE "400"

(* Parse: "incomplete", "complete" with the end of the header section and    *)
(* what its lines say, or the status errResponseFor gives the error.  The    *)
(* loop ends at the first line that is not a good header.                    *)
Parse(b) ==
    LET first == findEOL(b, 1)
        start == first.next
        lines == {i \in start..(Len(b) + 1) : i = start \/ b[i - 1] = LF}
        before(p) == {q \in lines : q < p}
        last == Min({p \in lines : HeaderLine(b, start, before(p), p) # "more"})
        having(k) == {q \in before(last) : b[q].k = k}
        connection == having("connection")
    IN  IF start = 0
        THEN [Blank EXCEPT !.at = IF Len(b) > MaxRequestLine THEN "414" ELSE "incomplete"]
        ELSE IF first.eol - 1 > MaxRequestLine THEN [Blank EXCEPT !.at = "414"]
        ELSE IF b[1].k # "line" \/ b[1].v = "bad" THEN [Blank EXCEPT !.at = "400"]
        ELSE [at |-> HeaderLine(b, start, before(last), last),
              line |-> b[1].v,
              keep |-> IF connection = {} THEN b[1].v # "get10" ELSE b[Max(connection)].v = 1,
              cl |-> IF having("te") # {} THEN -2
                     ELSE IF having("cl") = {} THEN -1 ELSE b[Max(having("cl"))].v,
              end |-> IF last <= Len(b) /\ b[last] = CR THEN last + 1 ELSE last]

-----------------------------------------------------------------------------
Init ==
    /\ sent \in [Conn -> UNION {Sends[c] : c \in Conn}] /\ \A c \in Conn : sent[c] \in Sends[c]
    /\ unread = [c \in Conn |-> FlattenSeq([i \in DOMAIN sent[c] |-> Wire(sent[c][i])])]
    /\ pc = [c \in Conn |-> "dialled"]
    /\ cs = [c \in Conn |-> [buf |-> <<>>, cap |-> 0]]
    /\ req = [c \in Conn |-> Blank]
    /\ pool = {}
    /\ out = [c \in Conn |-> <<>>]
    /\ handled = [c \in Conn |-> <<>>]
    /\ wg = 0
    /\ main = "serving"

Goto(c, l) == pc' = [pc EXCEPT ![c] = l]
Emit(c, w) == out' = [out EXCEPT ![c] = Append(@, w)]
Running(c, l) == main # "exited" /\ pc[c] = l

(* ln.Accept returns the connection; the WaitGroup does not know it yet.     *)
Accept(c) ==
    /\ pc[c] = "dialled" /\ main = "serving"
    /\ Goto(c, "accepted")
    /\ UNCHANGED <<sent, unread, cs, req, pool, out, handled, wg, main>>

(* wg.Add and the start of serveConn, which takes a connState from the pool  *)
(* or makes a new one.                                                       *)
Start(c) ==
    /\ Running(c, "accepted")
    /\ wg' = wg + 1
    /\ \E s \in pool \cup {[buf |-> <<>>, cap |-> initialReadBuf]} :
         cs' = [cs EXCEPT ![c] = s] /\ pool' = pool \ {s}
    /\ Goto(c, "parse")
    /\ UNCHANGED <<sent, unread, req, out, handled, main>>

(* A protocol error: the canned response, then the connection closes.        *)
Refuse(c, status) ==
    /\ Emit(c, Cell("refused", status))
    /\ Goto(c, "close")
    /\ UNCHANGED <<cs, req>>

Full(s) == Len(s.buf) = s.cap /\ s.cap >= MaxReadBuf
(* len(rbuf) doubled up to MaxReadBuf when the buffer is full.               *)
Room(s) == IF Len(s.buf) = s.cap THEN Min({2 * s.cap, MaxReadBuf}) ELSE s.cap

(* Parse the buffer; what follows depends on the verdict alone.              *)
ParseHead(c) ==
    /\ Running(c, "parse")
    /\ \E p \in {Parse(cs[c].buf)} :
         \/ p.at \notin {"incomplete", "complete"} /\ Refuse(c, p.at)
         \/ p.at = "incomplete" /\ Full(cs[c]) /\ Refuse(c, "431")
         \/ /\ p.at = "incomplete" /\ ~Full(cs[c])
            /\ cs' = [cs EXCEPT ![c].cap = Room(cs[c])]
            /\ Goto(c, "read")
            /\ UNCHANGED <<req, out>>
         \/ p.at = "complete" /\ p.cl = -2 /\ Refuse(c, "400")
         \/ p.at = "complete" /\ p.cl > MaxBodyBytes /\ Refuse(c, "413")
         \/ /\ p.at = "complete" /\ p.cl # -2 /\ p.cl <= MaxBodyBytes
            /\ req' = [req EXCEPT ![c] = p]
            /\ Goto(c, "body")
            /\ UNCHANGED <<cs, out>>
    /\ UNCHANGED <<sent, unread, pool, handled, wg, main>>

Got(c, n) ==
    /\ cs' = [cs EXCEPT ![c].buf = @ \o SubSeq(unread[c], 1, n)]
    /\ unread' = [unread EXCEPT ![c] = SubSeq(@, n + 1, Len(@))]

(* c.Read into the rest of the buffer; an error closes silently.             *)
Read(c, back) ==
    /\ \/ /\ \E n \in 1..Min({Len(unread[c]), cs[c].cap - Len(cs[c].buf)}) : Got(c, n)
          /\ Goto(c, back)
       \/ Goto(c, "close") /\ UNCHANGED <<cs, unread>>
    /\ UNCHANGED <<sent, req, pool, out, handled, wg, main>>
ReadHead(c) == Running(c, "read") /\ Read(c, "parse")
ReadBody(c) == Running(c, "readBody") /\ Read(c, "body")

(* Mutant: the last byte of the body is not waited for.                      *)
NeededLess(c) == req[c].end + Max({req[c].cl - 1, 0})

(* How many bytes the request takes: its header section and its body.        *)
Needed(c) == req[c].end + Max({req[c].cl, 0})

(* Mutant: a body that does not fit the buffer is always made room for.      *)
BodyUnbounded(c) ==
    /\ Running(c, "body")
    /\ IF Len(cs[c].buf) < Needed(c)
       THEN /\ cs' = [cs EXCEPT ![c].cap = IF Needed(c) > @ THEN Max({2 * @, Needed(c)}) ELSE @]
            /\ Goto(c, "readBody")
       ELSE Goto(c, "dispatch") /\ UNCHANGED cs
    /\ UNCHANGED <<sent, unread, req, out, pool, handled, wg, main>>

(* The body is read in full, growing the buffer to twice its size or to what *)
(* is needed, before the handler runs.                                       *)
Body(c) ==
    /\ Running(c, "body")
    /\ \/ Len(cs[c].buf) >= Needed(c) /\ Goto(c, "dispatch") /\ UNCHANGED <<cs, req, out>>
       \/ /\ Len(cs[c].buf) < Needed(c) /\ Needed(c) > cs[c].cap /\ Needed(c) > MaxReadBuf
          /\ Refuse(c, "413")
       \/ /\ Len(cs[c].buf) < Needed(c) /\ (Needed(c) <= cs[c].cap \/ Needed(c) <= MaxReadBuf)
          /\ cs' = [cs EXCEPT ![c].cap = IF Needed(c) > @ THEN Max({2 * @, Needed(c)}) ELSE @]
          /\ Goto(c, "readBody")
          /\ UNCHANGED <<req, out>>
    /\ UNCHANGED <<sent, unread, pool, handled, wg, main>>

-----------------------------------------------------------------------------
(* The handler is given the request; which kind of response it asks for      *)
(* depends on the route, here the request line.  It may panic.               *)
Dispatch(c) ==
    /\ Running(c, "dispatch")
    /\ handled' = [handled EXCEPT ![c] = Append(@,
           [line |-> req[c].line, body |-> SubSeq(cs[c].buf, req[c].end + 1, Needed(c))])]
    /\ \/ Goto(c, "head") /\ UNCHANGED out
       \/ Emit(c, Cell("panic", Len(handled'[c]))) /\ Goto(c, "close")
    /\ UNCHANGED <<sent, unread, cs, req, pool, wg, main>>

(* Hijack > Stream > Body; HEAD on a stream ("head") is headers in one write. *)
Mode(c) == CASE req[c].line = "stream" -> "stream" [] req[c].line = "hijack" -> "hijack"
             [] OTHER -> "buffered"

(* writeTo: a head id without a head, or a failed write, closes without a    *)
(* word; a buffered response is one writev; a stream or a hijack goes on.    *)
WriteHead(c) ==
    /\ Running(c, "head")
    /\ \/ Goto(c, "close") /\ UNCHANGED out
       \/ Mode(c) = "buffered" /\ Emit(c, Cell("whole", Len(handled[c]))) /\ Goto(c, "next")
       \/ Mode(c) # "buffered" /\ Emit(c, Cell("head", Len(handled[c]))) /\ Goto(c, Mode(c))
    /\ UNCHANGED <<sent, unread, cs, req, pool, handled, wg, main>>

Chunks(c) == Cardinality({i \in DOMAIN out[c] : out[c][i] = Cell("chunk", Len(handled[c]))})
Panic(c) == Emit(c, Cell("panic", Len(handled[c]))) /\ Goto(c, "close")

(* The Stream closure writes its chunks; a failed write or an error of its   *)
(* own ends the connection without a trailer, a panic with a 500.            *)
StreamChunk(c) ==
    /\ Running(c, "stream")
    /\ \/ Chunks(c) < MaxChunks /\ Emit(c, Cell("chunk", Len(handled[c]))) /\ UNCHANGED pc
       \/ Chunks(c) < MaxChunks /\ Panic(c)
       \/ Chunks(c) < MaxChunks /\ Goto(c, "close") /\ UNCHANGED out
    /\ UNCHANGED <<sent, unread, cs, req, pool, handled, wg, main>>

(* Mutant: the trailer is written even when the closure failed.              *)
StreamEndAlways(c) ==
    /\ Running(c, "stream")
    /\ Emit(c, Cell("trailer", Len(handled[c]))) /\ Goto(c, "next")
    /\ UNCHANGED <<sent, unread, cs, req, pool, handled, wg, main>>

StreamEnd(c) ==
    /\ Running(c, "stream") /\ Chunks(c) = MaxChunks
    /\ \/ Emit(c, Cell("trailer", Len(handled[c]))) /\ Goto(c, "next")
       \/ Goto(c, "close") /\ UNCHANGED out
    /\ UNCHANGED <<sent, unread, cs, req, pool, handled, wg, main>>

(* The handler owns the connection until its closure returns.                *)
Hijacked(c) ==
    /\ Running(c, "hijack")
    /\ \/ Emit(c, Cell("raw", Len(handled[c]))) /\ Goto(c, "close")
       \/ Panic(c)
    /\ UNCHANGED <<sent, unread, cs, req, pool, handled, wg, main>>

(* Pipelined bytes move to the front of the buffer; the loop goes on unless  *)
(* the client asked for a close.                                             *)
NextRequest(c) ==
    /\ Running(c, "next")
    /\ cs' = [cs EXCEPT ![c].buf = SubSeq(@, Needed(c) + 1, Len(@))]
    /\ Goto(c, IF req[c].keep THEN "parse" ELSE "close")
    /\ UNCHANGED <<sent, unread, req, pool, out, handled, wg, main>>

(* Mutant: after a panic nobody tells the WaitGroup.                         *)
CloseUncounted(c) ==
    /\ Running(c, "close")
    /\ wg' = IF out[c] # <<>> /\ Last(out[c]).k = "panic" THEN wg ELSE wg - 1
    /\ Goto(c, "closed")
    /\ UNCHANGED <<sent, unread, cs, req, pool, out, handled, main>>

(* The deferred calls: the connState goes back empty, the connection closes,  *)
(* the WaitGroup is told.                                                    *)
Close(c) ==
    /\ Running(c, "close")
    /\ cs' = [cs EXCEPT ![c] = [buf |-> <<>>, cap |-> 0]]
    /\ pool' = pool \cup {[buf |-> <<>>, cap |-> cs[c].cap]}
    /\ wg' = wg - 1
    /\ Goto(c, "closed")
    /\ UNCHANGED <<sent, unread, req, out, handled, main>>

-----------------------------------------------------------------------------
(* SIGINT or SIGTERM: main closes the listeners, then Shutdown waits.        *)
CloseListeners == main = "serving" /\ main' = "closing" /\ UNCHANGED <<conn, pool, wg>>
Shutdown == main = "closing" /\ main' = "waiting" /\ UNCHANGED <<conn, pool, wg>>
(* Mutant: Shutdown does not wait.                                           *)
ExitAtOnce == main = "waiting" /\ main' = "exited" /\ UNCHANGED <<conn, pool, wg>>
Exit == main = "waiting" /\ wg = 0 /\ main' = "exited" /\ UNCHANGED <<conn, pool, wg>>

Serving(c) == \/ Start(c) \/ ReadHead(c) \/ Body(c) \/ ReadBody(c) \/ Dispatch(c)
              \/ WriteHead(c) \/ StreamChunk(c) \/ StreamEnd(c) \/ Hijacked(c)
              \/ NextRequest(c) \/ Close(c) \/ ParseHead(c)
Step == Shutdown \/ Exit \/ \E c \in Conn : Serving(c)
Next == Step \/ CloseListeners \/ \E c \in Conn : Accept(c)

(* Goroutines run, reads and buffered writes have deadlines, and stream and   *)
(* hijack closures return, though a client that stops reading them can hold   *)
(* them up: they have no deadline.  No client and no signal need ever come.   *)
(* Busy is ENABLED <<Step>>_vars, so the last conjunct is WF_vars(Step).      *)
Busy == \/ main = "closing"
        \/ main = "waiting" /\ wg = 0
        \/ main # "exited" /\ \E c \in Conn : pc[c] \notin {"dialled", "closed"}
Spec == Init /\ [][Next]_vars /\ ([]<>~Busy \/ []<><<Step>>_vars)

-----------------------------------------------------------------------------
Size(cells) == Len(cells)
HeadSize(r) == Size(Wire(r)) - r.body
LineSize(r) == 1 + r.pad

(* Broken whatever the buffers: must never reach a handler.                  *)
Bad(r) == \/ r.line = "bad" \/ LineSize(r) > MaxRequestLine
          \/ Len(r.headers) > MaxHeaders \/ r.body > MaxBodyBytes
          \/ \E i, j \in Framing(r) : i # j \/ r.headers[i] # Cell("cl", r.body)
          \/ \E i \in DOMAIN r.headers : r.headers[i].k \in {"bad", "fold"}

(* Well formed and within every limit: must never be refused.  A request     *)
(* line of exactly MaxRequestLine bytes is neither: it is refused when a     *)
(* read ends between its CR and LF.  So is a request that only fits a buffer *)
(* some earlier body had grown past MaxReadBuf.                              *)
Good(r) == /\ ~Bad(r) /\ LineSize(r) < MaxRequestLine
           /\ HeadSize(r) <= MaxHeaderBytes /\ Len(Wire(r)) <= MaxReadBuf

Last1(s) == IF s = <<>> THEN Cell("", 0) ELSE Last(s)

(* However the bytes are cut into reads and whatever the buffer held before, *)
(* the handler sees the client's requests, in order, with their own bodies.  *)
HandledAsSent ==
    \A c \in Conn : /\ Len(handled[c]) <= Len(sent[c])
                    /\ \A i \in DOMAIN handled[c] :
                          LET r == sent[c][i]
                          IN  handled[c][i] = [line |-> r.line, body |-> BodyCells(r)]

(* A refusal is for a request that is not good; a bad one is never handled,  *)
(* nor anything sent after it.                                               *)
RefusalsJustified ==
    \A c \in Conn :
        /\ \A i \in DOMAIN handled[c] : ~Bad(sent[c][i])
        /\ Last1(out[c]).k = "refused" =>
              Len(handled[c]) < Len(sent[c]) /\ ~Good(sent[c][Len(handled[c]) + 1])

(* The i-th of the writes o to a connection whose handler was given n        *)
(* requests ends or follows what was written before it.                      *)
FramedAt(o, n, i) ==
    LET w == o[i]
        prev == IF i = 1 THEN Cell("whole", 0) ELSE o[i - 1]
        ended == prev.k \in {"whole", "trailer"}
    IN  CASE w.k \in {"whole", "head"} -> ended /\ w.v = prev.v + 1
          [] w.k = "refused" -> ended /\ i = Len(o) /\ prev.v = n
          [] w.k = "panic" -> i = Len(o) /\ (ended => w.v = prev.v + 1)
          [] w.k = "trailer" -> \A j \in 1..MaxChunks : o[i - j] = Cell("chunk", w.v)
          [] OTHER -> ~ended /\ prev.v = w.v

(* The client can tell the responses apart: one per handled request and in   *)
(* order, each ended before the next begins, and a chunked body ends in its  *)
(* trailer only when every chunk was written.  Only a panic inside a stream  *)
(* puts a second status line into a response.                                *)
RepliesFramed ==
    \A c \in Conn : \A i \in DOMAIN out[c] : FramedAt(out[c], Len(handled[c]), i)

(* A read buffer stays below twice MaxReadBuf, whatever sequence of          *)
(* connections and bodies it is reused for.                                  *)
BufferBounded == \A c \in Conn : cs[c].cap < 2 * MaxReadBuf

(* When Shutdown returns, every connection the WaitGroup heard of is closed; *)
(* only one accepted and not yet counted can be cut off.                     *)
DrainedAtExit ==
    main = "exited" => \A c \in Conn : pc[c] \in {"dialled", "accepted", "closed"}

(* A signal ends the process: Shutdown does not wait for ever, though        *)
(* keep-alive connections do not look at it.                                 *)
ShutdownReturns == (main = "closing") ~> (main = "exited")
=============================================================================
