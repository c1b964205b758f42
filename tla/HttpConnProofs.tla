--------------------------- MODULE HttpConnProofs ---------------------------
(***************************************************************************)
(* Proofs about the HTTP/1.1 server (modules/gogohttp), for any number of  *)
(* connections, any requests a client may send, any limits and any cutting *)
(* of the bytes into reads.                                                *)
(*                                                                         *)
(* Shutdown: the WaitGroup's counter is the number of connections between  *)
(* Start and Close.  Replies: where a connection stands tells how its last *)
(* write left the response.  Requests: what the buffer holds, followed by  *)
(* what is unread, is the rest of the client's stream from the request the *)
(* connection is at, so that the parser, which is shown to read the wire   *)
(* form of a request back, sees that request or a beginning of it.         *)
(***************************************************************************)
EXTENDS HttpConn, FiniteSetTheorems, NaturalsInduction, WellFoundedInduction, TLAPS

(* The connections between Start's wg.Add and Close's wg.Done. *)
Counted == {c \in Conn : pc[c] \notin {"dialled", "accepted", "closed"}}

Drains ==
    /\ pc \in [Conn -> {"dialled", "accepted", "parse", "read", "body", "readBody", "dispatch",
                        "head", "stream", "hijack", "next", "close", "closed"}]
    /\ IsFiniteSet(Counted) /\ wg = Cardinality(Counted)
    /\ main \in {"serving", "closing", "waiting", "exited"}
    /\ main = "exited" => Counted = {}

(* A step of c from one counted place to another. *)
LEMMA StaysCounted ==
    ASSUME Drains, NEW c \in Conn, pc[c] \notin {"dialled", "accepted", "closed"},
           NEW l \in {"parse", "read", "body", "readBody", "dispatch", "head", "stream", "hijack",
                      "next", "close"},
           Goto(c, l), UNCHANGED <<wg, main>>
    PROVE  Drains'
<1>1. Counted' = Counted
  BY DEF Drains, Goto, Counted
<1> QED BY <1>1 DEF Drains, Goto

(* Nothing the counter depends on changes. *)
LEMMA Uncounted == ASSUME Drains, UNCHANGED <<pc, wg, main>> PROVE Drains'
  BY DEF Drains, Counted

(* wg.Add counts the connection as it leaves "accepted". *)
LEMMA StartDrains == ASSUME Drains, NEW c \in Conn, Start(c) PROVE Drains'
<1>1. pc[c] = "accepted" /\ main # "exited" /\ pc' = [pc EXCEPT ![c] = "parse"] /\ wg' = wg + 1
      /\ main' = main
  BY DEF Start, Running, Goto
<1>2. Counted' = Counted \cup {c} /\ c \notin Counted
  BY <1>1 DEF Drains, Counted
<1>3. IsFiniteSet(Counted') /\ wg' = Cardinality(Counted')
  BY <1>1, <1>2, FS_AddElement DEF Drains
<1> QED BY <1>1, <1>3 DEF Drains

(* The deferred wg.Done uncounts it as it becomes "closed". *)
LEMMA CloseDrains == ASSUME Drains, NEW c \in Conn, Close(c) PROVE Drains'
<1>1. pc[c] = "close" /\ main # "exited" /\ pc' = [pc EXCEPT ![c] = "closed"] /\ wg' = wg - 1
      /\ main' = main
  BY DEF Close, Running, Goto
<1>2. Counted' = Counted \ {c} /\ c \in Counted
  BY <1>1 DEF Drains, Counted
<1>3. IsFiniteSet(Counted') /\ wg' = Cardinality(Counted')
  BY <1>1, <1>2, FS_RemoveElement DEF Drains
<1> QED BY <1>1, <1>3 DEF Drains

(* Every other step of a connection keeps it counted. *)
LEMMA ServingDrains == ASSUME Drains, NEW c \in Conn, Serving(c) PROVE Drains'
<1>1. CASE ParseHead(c)
  BY <1>1, StaysCounted DEF ParseHead, Running, Refuse
<1>2. CASE ReadHead(c) \/ ReadBody(c)
  BY <1>2, StaysCounted DEF ReadHead, ReadBody, Read, Running
<1>3. CASE Body(c)
  BY <1>3, StaysCounted DEF Body, Running, Refuse
<1>4. CASE Dispatch(c)
  BY <1>4, StaysCounted DEF Dispatch, Running
<1>5. CASE WriteHead(c)
  BY <1>5, StaysCounted DEF WriteHead, Running, Mode
<1>6. CASE StreamChunk(c)
  BY <1>6, StaysCounted, Uncounted DEF StreamChunk, Running, Panic
<1>7. CASE StreamEnd(c) \/ Hijacked(c)
  BY <1>7, StaysCounted DEF StreamEnd, Hijacked, Running, Panic
<1>8. CASE NextRequest(c)
  BY <1>8, StaysCounted DEF NextRequest, Running
<1> QED BY <1>1, <1>2, <1>3, <1>4, <1>5, <1>6, <1>7, <1>8, StartDrains, CloseDrains DEF Serving

(* Every step of the server keeps the count, and Exit needs a count of 0. *)
LEMMA NextDrains == ASSUME Drains, [Next]_vars PROVE Drains'
<1>1. ASSUME NEW c \in Conn, Accept(c) PROVE Drains'
  <2>1. /\ pc[c] = "dialled" /\ main = "serving" /\ pc' = [pc EXCEPT ![c] = "accepted"]
        /\ UNCHANGED <<wg, main>>
    BY <1>1 DEF Accept, Goto
  <2>2. Counted' = Counted
    BY <2>1 DEF Drains, Counted
  <2> QED BY <2>1, <2>2 DEF Drains
<1>2. CASE CloseListeners \/ Shutdown
  BY <1>2 DEF CloseListeners, Shutdown, conn, Drains, Counted
<1>3. CASE Exit
  <2>1. wg = 0 /\ main' = "exited" /\ UNCHANGED <<pc, wg>>
    BY <1>3 DEF Exit, conn
  <2>2. Counted = {}
    BY <2>1, FS_EmptySet DEF Drains
  <2> QED BY <2>1, <2>2 DEF Drains, Counted
<1>4. CASE UNCHANGED vars
  BY <1>4, Uncounted DEF vars
<1> QED BY <1>1, <1>2, <1>3, <1>4, ServingDrains DEF Next, Step

(* No connection is counted at the start. *)
LEMMA InitDrains == Init => Drains
<1> SUFFICES ASSUME Init PROVE Drains
  OBVIOUS
<1>1. Counted = {}
  BY DEF Init, Counted
<1> QED BY <1>1, FS_EmptySet DEF Init, Drains

(* The counter is exact at every moment. *)
LEMMA SpecDrains == Spec => []Drains
  BY InitDrains, NextDrains, PTL DEF Spec

(* When Shutdown returns, no connection the WaitGroup was told of is still   *)
(* served (wg.Add in the accept loop, the deferred wg.Done of serveConn).    *)
THEOREM Drained == Spec => []DrainedAtExit
<1>1. Drains => DrainedAtExit
  BY DEF Drains, DrainedAtExit, Counted
<1> QED BY <1>1, SpecDrains, PTL

-----------------------------------------------------------------------------
Verdicts == {"incomplete", "complete", "400", "414", "431", "more"}
Replies == [k : {"whole", "head", "chunk", "trailer"}, v : Nat]
Written == Replies \cup [k : {"raw", "panic"}, v : Nat] \cup [k : {"refused"}, v : Verdicts \cup {"413"}]
IsSeq(s) == \E S : s \in Seq(S)
End(o) == IF o = <<>> THEN Cell("whole", 0) ELSE o[Len(o)]
Ended(o, n) == End(o).k \in {"whole", "trailer"} /\ End(o).v = n
(* The chunks of response n are the last writes, and at most MaxChunks. *)
LastChunks(o, n, m) == m \in 0..(Len(o) - 1) /\ m <= MaxChunks
     /\ \A i \in 1..Len(o) : o[i] = Cell("chunk", n) <=> i > Len(o) - m
FramedSoFar(o, n) ==
  /\ o \in Seq(Written) /\ n \in Nat
  /\ \A i \in 1..Len(o) : FramedAt(o, n, i) /\ (o[i].k = "trailer" => i > MaxChunks)
Going(o, n) == \A i \in 1..Len(o) : o[i] \in Replies /\ o[i].v <= n
Between == {"dialled", "accepted", "parse", "read", "body", "readBody", "dispatch", "next"}
FramedConn(o, n, l) ==
  /\ FramedSoFar(o, n)
  /\ l \notin {"close", "closed"} => Going(o, n)
  /\ l \in Between => Ended(o, n)
  /\ l = "head" => Ended(o, n - 1) /\ Going(o, n - 1)
  /\ l = "stream" => \E m \in Nat : LastChunks(o, n, m) /\ End(o).v = n /\ End(o).k \in {"head", "chunk"}
  /\ l = "hijack" => End(o) = Cell("head", n)

(* A framed write after framed writes leaves them framed. *)
LEMMA KeepsFramed ==
   ASSUME NEW o, NEW n, NEW m \in Nat, FramedSoFar(o, n), Going(o, n), NEW w \in Written,
          FramedAt(Append(o, w), m, Len(o) + 1), w.k = "trailer" => Len(o) >= MaxChunks, MaxChunks \in Nat
   PROVE  FramedSoFar(Append(o, w), m)
<1> DEFINE p == Append(o, w)
<1>1. /\ p \in Seq(Written) /\ Len(p) = Len(o) + 1 /\ Len(o) \in Nat /\ p[Len(o) + 1] = w
      /\ \A i \in 1..Len(o) : p[i] = o[i]
  BY DEF FramedSoFar
<1>2. ASSUME NEW i \in 1..Len(o) PROVE FramedAt(p, m, i) /\ (p[i].k = "trailer" => i > MaxChunks)
  <2>1. o[i] \in Replies /\ FramedAt(o, n, i) /\ (o[i].k = "trailer" => i > MaxChunks)
    BY DEF Going, FramedSoFar
  <2>2. o[i].k \in {"whole", "head", "chunk", "trailer"} /\ i \in Nat /\ i <= Len(o)
    BY <2>1, <1>1 DEF Replies
  <2>3. p[i] = o[i] /\ (i # 1 => p[i - 1] = o[i - 1])
    BY <1>1
  <2>4. o[i].k = "trailer" => \A j \in 1..MaxChunks : p[i - j] = o[i - j]
    BY <1>1, <2>1
  <2> HIDE DEF p
  <2>5. FramedAt(p, m, i)
    BY <2>1, <2>2, <2>3, <2>4 DEF FramedAt
  <2> QED BY <2>1, <2>3, <2>5
<1> HIDE DEF p
<1>3. FramedAt(p, m, Len(p)) /\ (p[Len(p)].k = "trailer" => Len(p) > MaxChunks)
  BY <1>1 DEF p
<1> QED BY <1>1, <1>2, <1>3 DEF FramedSoFar, p

(* The handler takes a request: nothing is refused yet, so the count may grow. *)
LEMMA Counts == ASSUME NEW o, NEW n, FramedSoFar(o, n), Going(o, n)
  PROVE FramedSoFar(o, n + 1)
<1>1. ASSUME NEW i \in 1..Len(o) PROVE FramedAt(o, n + 1, i)
  <2>1. o[i].k \in {"whole", "head", "chunk", "trailer"} /\ FramedAt(o, n, i)
    BY DEF Going, FramedSoFar, Replies
  <2> QED BY <2>1 DEF FramedAt
<1> QED BY <1>1 DEF FramedSoFar

(* A write is framed by the one before it. *)
LEMMA Follows ==
    ASSUME NEW o, NEW n, FramedSoFar(o, n), NEW w \in Written
    PROVE  LET p == Append(o, w)
               i == Len(o) + 1
           IN  /\ w.k \in {"whole", "head"} /\ Ended(o, w.v - 1) => FramedAt(p, n, i)
               /\ w.k = "refused" /\ Ended(o, n) => FramedAt(p, n, i)
               /\ w.k = "panic" /\ (Ended(o, w.v - 1) \/ End(o).k \in {"head", "chunk"})
                     => FramedAt(p, n, i)
               /\ w.k \in {"chunk", "raw"} /\ End(o).k \in {"head", "chunk"} /\ End(o).v = w.v
                     => FramedAt(p, n, i)
               /\ w.k = "trailer" /\ LastChunks(o, w.v, MaxChunks) => FramedAt(p, n, i)
<1> DEFINE p == Append(o, w)
           i == Len(o) + 1
<1>1. /\ p \in Seq(Written) /\ Len(p) = i /\ Len(o) \in Nat /\ p[i] = w
      /\ \A j \in 1..Len(o) : p[j] = o[j]
  BY DEF FramedSoFar
<1>2. (IF i = 1 THEN Cell("whole", 0) ELSE p[i - 1]) = End(o)
  BY <1>1 DEF End, FramedSoFar
<1>3. LastChunks(o, w.v, MaxChunks) => \A j \in 1..MaxChunks : p[i - j] = Cell("chunk", w.v)
  <2> SUFFICES ASSUME LastChunks(o, w.v, MaxChunks), NEW j \in 1..MaxChunks
               PROVE  p[i - j] = Cell("chunk", w.v)
    OBVIOUS
  <2>1. MaxChunks \in 0..(Len(o) - 1) /\ i - j \in 1..Len(o) /\ i - j > Len(o) - MaxChunks
    BY <1>1 DEF LastChunks
  <2> QED BY <1>1, <2>1 DEF LastChunks
<1> HIDE DEF p
<1>5. w.v \in Nat \/ w.k = "refused"
  BY DEF Written, Replies
<1>4. ASSUME NEW prev, prev = End(o), prev = IF i = 1 THEN Cell("whole", 0) ELSE p[i - 1],
             w.k \in {"whole", "head"} /\ Ended(o, w.v - 1)
      PROVE  FramedAt(p, n, i)
  <2>1. w.k # "refused" /\ w.v \in Nat /\ prev.k \in {"whole", "trailer"} /\ prev.v = w.v - 1
    BY <1>4, <1>5 DEF Ended
  <2> HIDE DEF i
  <2> QED BY <1>1, <1>4, <2>1 DEF FramedAt
<1>6. ASSUME w.k = "refused", Ended(o, n) PROVE FramedAt(p, n, i)
  <2> HIDE DEF i
  <2> QED BY <1>1, <1>2, <1>6 DEF FramedAt, Ended
<1>7. ASSUME w.k = "panic", Ended(o, w.v - 1) \/ End(o).k \in {"head", "chunk"} PROVE FramedAt(p, n, i)
  <2>1. w.v \in Nat
    BY <1>5, <1>7
  <2> HIDE DEF i
  <2> QED BY <1>1, <1>2, <1>7, <2>1 DEF FramedAt, Ended
<1>8. ASSUME w.k \in {"chunk", "raw"}, End(o).k \in {"head", "chunk"}, End(o).v = w.v
      PROVE  FramedAt(p, n, i)
  <2> HIDE DEF i
  <2> QED BY <1>1, <1>2, <1>8 DEF FramedAt
<1>9. ASSUME w.k = "trailer", LastChunks(o, w.v, MaxChunks) PROVE FramedAt(p, n, i)
  <2>1. \A j \in 1..MaxChunks : p[i - j] = Cell("chunk", w.v)
    BY <1>3, <1>9
  <2> HIDE DEF i
  <2> QED BY <1>1, <1>9, <2>1 DEF FramedAt
<1>10. End(o) = IF i = 1 THEN Cell("whole", 0) ELSE p[i - 1]
  BY <1>2
<1> HIDE DEF i
<1> QED BY <1>4, <1>10, <1>6, <1>7, <1>8, <1>9 DEF p, i

(* A write before the connection closes needs only to be framed itself. *)
LEMMA Closes ==
    ASSUME NEW o, NEW n, FramedSoFar(o, n), Going(o, n), NEW w \in Written, w.k # "trailer",
           FramedAt(Append(o, w), n, Len(o) + 1)
    PROVE  FramedConn(Append(o, w), n, "close")
<1>1. FramedSoFar(Append(o, w), n)
  BY KeepsFramed, HttpConstants DEF FramedSoFar
<1> QED BY <1>1 DEF FramedConn, Between

(* A refusal may follow an ended response. *)
LEMMA Refused ==
    ASSUME NEW o, NEW n, FramedSoFar(o, n), Going(o, n), Ended(o, n), NEW v \in Verdicts \cup {"413"}
    PROVE  FramedConn(Append(o, Cell("refused", v)), n, "close")
<1> DEFINE w == Cell("refused", v)
<1>1. w \in Written /\ w.k = "refused"
  BY DEF Cell, Written
<1> HIDE DEF w
<1>2. FramedAt(Append(o, w), n, Len(o) + 1)
  BY <1>1, Follows
<1> QED BY <1>1, <1>2, Closes DEF w

(* The 500 of a panic may follow an ended response or the head of its own. *)
LEMMA Panicked ==
    ASSUME NEW o, NEW n, FramedSoFar(o, n), Going(o, n),
           Ended(o, n - 1) \/ End(o).k \in {"head", "chunk"}
    PROVE  FramedConn(Append(o, Cell("panic", n)), n, "close")
<1> DEFINE w == Cell("panic", n)
<1>1. w \in Written /\ w.k = "panic" /\ w.v = n
  BY DEF Cell, Written, FramedSoFar
<1> HIDE DEF w
<1>2. FramedAt(Append(o, w), n, Len(o) + 1)
  BY <1>1, Follows
<1> QED BY <1>1, <1>2, Closes DEF w

(* What a hijacking handler writes follows the head of its response. *)
LEMMA RawWritten ==
    ASSUME NEW o, NEW n, FramedSoFar(o, n), Going(o, n), End(o) = Cell("head", n)
    PROVE  FramedConn(Append(o, Cell("raw", n)), n, "close")
<1> DEFINE w == Cell("raw", n)
<1>1. w \in Written /\ w.k = "raw" /\ w.v = n
  BY DEF Cell, Written, FramedSoFar
<1>2. End(o).k \in {"head", "chunk"} /\ End(o).v = w.v
  BY DEF Cell
<1> HIDE DEF w
<1>3. FramedAt(Append(o, w), n, Len(o) + 1)
  BY <1>1, <1>2, Follows
<1> QED BY <1>1, <1>3, Closes DEF w

(* A write that leaves the connection open. *)
LEMMA Writes ==
    ASSUME NEW o, NEW n, FramedSoFar(o, n), Going(o, n),
           NEW k \in {"whole", "head", "chunk", "trailer"},
           k \in {"whole", "head"} => Ended(o, n - 1),
           k = "chunk" => End(o).k \in {"head", "chunk"} /\ End(o).v = n,
           k = "trailer" => LastChunks(o, n, MaxChunks)
    PROVE  LET p == Append(o, Cell(k, n))
           IN  /\ FramedSoFar(p, n) /\ Going(p, n) /\ End(p) = Cell(k, n)
               /\ Len(p) = Len(o) + 1 /\ Len(o) \in Nat /\ p[Len(o) + 1] = Cell(k, n)
               /\ \A i \in 1..Len(o) : p[i] = o[i]
<1> DEFINE w == Cell(k, n)
           p == Append(o, w)
<1>1. w \in Replies /\ w \in Written /\ w.k = k /\ w.v = n /\ n \in Nat
  BY DEF Cell, Written, Replies, FramedSoFar
<1> HIDE DEF w
<1>2. FramedAt(p, n, Len(o) + 1)
  <2>1. CASE k \in {"whole", "head"}
    BY <1>1, <2>1, Follows
  <2>2. CASE k = "chunk"
    BY <1>1, <2>2, Follows
  <2>3. CASE k = "trailer"
    <3>1. w.k = "trailer" /\ LastChunks(o, w.v, MaxChunks)
      BY <1>1, <2>3
    <3> HIDE DEF p
    <3> QED BY <1>1, <3>1, Follows DEF p
  <2> QED BY <2>1, <2>2, <2>3
<1>3. k = "trailer" => Len(o) >= MaxChunks
  BY DEF LastChunks, FramedSoFar
<1>4. FramedSoFar(p, n)
  BY <1>1, <1>2, <1>3, KeepsFramed, HttpConstants
<1>5. /\ Len(p) = Len(o) + 1 /\ Len(o) \in Nat /\ p[Len(o) + 1] = w
      /\ \A i \in 1..Len(o) : p[i] = o[i]
  <2>1. o \in Seq(Written)
    BY DEF FramedSoFar
  <2> QED BY <1>1, <2>1
<1> HIDE DEF p
<1>6. Going(p, n)
  BY <1>1, <1>5 DEF Going
<1>7. End(p) = w
  <2>1. p # <<>>
    BY <1>5
  <2> QED BY <1>5, <2>1 DEF End
<1> QED BY <1>4, <1>5, <1>6, <1>7 DEF p, w

(* A buffered response follows an ended one and ends itself. *)
LEMMA WholeWritten ==
    ASSUME NEW o, NEW n, FramedSoFar(o, n), Going(o, n), Ended(o, n - 1)
    PROVE  FramedConn(Append(o, Cell("whole", n)), n, "next")
<1> DEFINE p == Append(o, Cell("whole", n))
<1>1. FramedSoFar(p, n) /\ Going(p, n) /\ End(p) = Cell("whole", n)
  BY Writes
<1> HIDE DEF p
<1>2. Ended(p, n)
  BY <1>1 DEF Ended, Cell
<1> QED BY <1>1, <1>2 DEF FramedConn, Between, p

(* The head of a stream or a hijack follows an ended response. *)
LEMMA HeadWritten ==
    ASSUME NEW o, NEW n, FramedSoFar(o, n), Going(o, n - 1), Ended(o, n - 1)
    PROVE  LET p == Append(o, Cell("head", n))
           IN  FramedConn(p, n, "stream") /\ FramedConn(p, n, "hijack")
<1> DEFINE p == Append(o, Cell("head", n))
<1>0. Going(o, n) /\ n \in Nat
  BY DEF Going, FramedSoFar, Replies
<1>1. /\ FramedSoFar(p, n) /\ Going(p, n) /\ End(p) = Cell("head", n) /\ Len(p) = Len(o) + 1
      /\ Len(o) \in Nat /\ p[Len(o) + 1] = Cell("head", n) /\ \A i \in 1..Len(o) : p[i] = o[i]
  BY <1>0, Writes
<1> HIDE DEF p
<1>2. \A i \in 1..Len(p) : p[i] # Cell("chunk", n)
  BY <1>0, <1>1 DEF Going, Cell, Replies
<1>3. LastChunks(p, n, 0)
  BY <1>1, <1>2, HttpConstants DEF LastChunks
<1>4. FramedConn(p, n, "hijack")
  BY <1>1 DEF FramedConn, Between
<1>5. End(p).k = "head" /\ End(p).v = n
  BY <1>1 DEF Cell
<1>6. FramedConn(p, n, "stream")
  BY <1>1, <1>3, <1>5 DEF FramedConn, Between
<1> QED BY <1>4, <1>6 DEF p

(* A chunk follows the head or a chunk of its own response. *)
LEMMA ChunkWritten ==
    ASSUME NEW o, NEW n, FramedSoFar(o, n), Going(o, n), NEW m \in Nat, LastChunks(o, n, m),
           m < MaxChunks, End(o).k \in {"head", "chunk"}, End(o).v = n
    PROVE  FramedConn(Append(o, Cell("chunk", n)), n, "stream")
<1> DEFINE p == Append(o, Cell("chunk", n))
<1>1. /\ FramedSoFar(p, n) /\ Going(p, n) /\ End(p) = Cell("chunk", n) /\ Len(p) = Len(o) + 1
      /\ Len(o) \in Nat /\ p[Len(o) + 1] = Cell("chunk", n) /\ \A i \in 1..Len(o) : p[i] = o[i]
  BY Writes
<1> HIDE DEF p
<1>2. \A i \in 1..Len(p) : p[i] = Cell("chunk", n) <=> i > Len(p) - (m + 1)
  BY <1>1 DEF LastChunks
<1>3. LastChunks(p, n, m + 1)
  BY <1>1, <1>2, HttpConstants DEF LastChunks
<1>5. End(p).k = "chunk" /\ End(p).v = n
  BY <1>1 DEF Cell
<1>6. FramedConn(p, n, "stream")
  BY <1>1, <1>3, <1>5 DEF FramedConn, Between
<1> QED BY <1>6 DEF p

(* A trailer after MaxChunks chunks ends the response. *)
LEMMA TrailerWritten ==
    ASSUME NEW o, NEW n, FramedSoFar(o, n), Going(o, n), LastChunks(o, n, MaxChunks)
    PROVE  FramedConn(Append(o, Cell("trailer", n)), n, "next")
<1> DEFINE p == Append(o, Cell("trailer", n))
<1>1. FramedSoFar(p, n) /\ Going(p, n) /\ End(p) = Cell("trailer", n)
  BY Writes
<1> HIDE DEF p
<1>2. Ended(p, n)
  BY <1>1 DEF Ended, Cell
<1> QED BY <1>1, <1>2 DEF FramedConn, Between, p

(* How many chunks of the response the connection was sent. *)
LEMMA ChunksCounted ==
    ASSUME NEW c \in Conn, FramedSoFar(out[c], Len(handled[c])), NEW m \in Nat,
           LastChunks(out[c], Len(handled[c]), m)
    PROVE  Chunks(c) = m
<1> DEFINE o == out[c]
           n == Len(handled[c])
<1>1. Len(o) \in Nat /\ DOMAIN o = 1..Len(o) /\ m <= Len(o)
  BY DEF FramedSoFar, LastChunks
<1>2. {i \in DOMAIN o : o[i] = Cell("chunk", n)} = (Len(o) - m + 1)..Len(o)
  BY <1>1 DEF LastChunks
<1> DEFINE l == Len(o)
<1>3. Cardinality((l - m + 1)..l) = m
  <2>1. l \in Nat /\ m <= l
    BY <1>1
  <2> HIDE DEF l
  <2>2. l - m + 1 \in Int /\ l \in Int
    BY <2>1
  <2>3. Cardinality((l - m + 1)..l) = IF l - m + 1 > l THEN 0 ELSE l - (l - m + 1) + 1
    BY ONLY <2>2, FS_Interval
  <2> QED BY <2>1, <2>3
<1> QED BY <1>2, <1>3 DEF Chunks

(* Every verdict of the parser is one of these. *)
LEMMA VerdictOfParse == ASSUME NEW b PROVE Parse(b).at \in Verdicts
<1>1. ASSUME NEW start, NEW earlier, NEW p PROVE HeaderLine(b, start, earlier, p) \in Verdicts
  BY DEF HeaderLine, Verdicts
<1>2. ASSUME NEW at \in Verdicts PROVE [Blank EXCEPT !.at = at].at = at
  BY DEF Blank
<1>3. "414" \in Verdicts /\ "400" \in Verdicts /\ "incomplete" \in Verdicts
  BY DEF Verdicts
<1> QED BY <1>1, <1>2, <1>3 DEF Parse

RepliesInv ==
    /\ out = [c \in Conn |-> out[c]] /\ handled = [c \in Conn |-> handled[c]]
    /\ pc = [c \in Conn |-> pc[c]]
    /\ \A c \in Conn : IsSeq(handled[c]) /\ FramedConn(out[c], Len(handled[c]), pc[c])

(* A step of c alone keeps the invariant when it leaves c framed. *)
LEMMA OneConn ==
    ASSUME RepliesInv, NEW c \in Conn, NEW o, NEW h, NEW l,
           out' = [out EXCEPT ![c] = o], handled' = [handled EXCEPT ![c] = h],
           pc' = [pc EXCEPT ![c] = l], IsSeq(h), FramedConn(o, Len(h), l)
    PROVE  RepliesInv'
<1>1. out'[c] = o /\ handled'[c] = h /\ pc'[c] = l
  BY DEF RepliesInv
<1>2. \A d \in Conn \ {c} : out'[d] = out[d] /\ handled'[d] = handled[d] /\ pc'[d] = pc[d]
  BY DEF RepliesInv
<1>3. /\ out' = [d \in Conn |-> out'[d]] /\ handled' = [d \in Conn |-> handled'[d]]
      /\ pc' = [d \in Conn |-> pc'[d]]
  BY DEF RepliesInv
<1>4. ASSUME NEW d \in Conn PROVE IsSeq(handled'[d]) /\ FramedConn(out'[d], Len(handled'[d]), pc'[d])
  BY <1>1, <1>2 DEF RepliesInv
<1> QED BY <1>3, <1>4 DEF RepliesInv

(* The same, when the handler is given nothing. *)
LEMMA OneOut ==
    ASSUME RepliesInv, NEW c \in Conn, NEW o, NEW l,
           out' = [out EXCEPT ![c] = o], handled' = handled,
           pc' = [pc EXCEPT ![c] = l], FramedConn(o, Len(handled[c]), l)
    PROVE  RepliesInv'
<1>1. handled' = [handled EXCEPT ![c] = handled[c]] /\ IsSeq(handled[c])
  BY DEF RepliesInv
<1> QED BY <1>1, OneConn

(* The same, when nothing is written. *)
LEMMA Moves ==
    ASSUME RepliesInv, NEW c \in Conn, NEW l,
           UNCHANGED <<out, handled>>, pc' = [pc EXCEPT ![c] = l],
           FramedConn(out[c], Len(handled[c]), l)
    PROVE  RepliesInv'
<1>1. out' = [out EXCEPT ![c] = out[c]]
  BY DEF RepliesInv
<1> QED BY <1>1, OneOut

(* The same, between two places where the last response has ended, or to the close. *)
LEMMA MovesOn ==
    ASSUME RepliesInv, NEW c \in Conn, NEW l,
           UNCHANGED <<out, handled>>, pc' = [pc EXCEPT ![c] = l],
           l \in {"close", "closed"} \/ (pc[c] \in Between /\ l \in Between)
    PROVE  RepliesInv'
<1>1. FramedConn(out[c], Len(handled[c]), l)
  BY DEF RepliesInv, FramedConn, Between
<1> QED BY <1>1, Moves

(* Refuse is called where the last response has ended. *)
LEMMA RefuseFramed ==
    ASSUME RepliesInv, NEW c \in Conn, pc[c] \in Between, NEW v \in Verdicts \cup {"413"},
           Refuse(c, v), UNCHANGED handled
    PROVE  RepliesInv'
<1>1. /\ FramedSoFar(out[c], Len(handled[c])) /\ Going(out[c], Len(handled[c]))
      /\ Ended(out[c], Len(handled[c]))
  BY DEF RepliesInv, FramedConn, Between
<1>2. FramedConn(Append(out[c], Cell("refused", v)), Len(handled[c]), "close")
  BY <1>1, Refused
<1> QED BY <1>2, OneOut DEF Refuse, Emit, Goto

(* Panic is called inside a stream or a hijack. *)
LEMMA PanicFramed ==
    ASSUME RepliesInv, NEW c \in Conn, pc[c] \in {"stream", "hijack"}, Panic(c), UNCHANGED handled
    PROVE  RepliesInv'
<1>1. /\ FramedSoFar(out[c], Len(handled[c])) /\ Going(out[c], Len(handled[c]))
      /\ End(out[c]).k \in {"head", "chunk"}
  BY DEF RepliesInv, FramedConn, Cell
<1>2. FramedConn(Append(out[c], Cell("panic", Len(handled[c]))), Len(handled[c]), "close")
  BY <1>1, Panicked
<1> QED BY <1>2, OneOut DEF Panic, Emit, Goto

(* The handler is given one more request, and may panic before a response. *)
LEMMA DispatchFramed == ASSUME RepliesInv, NEW c \in Conn, Dispatch(c) PROVE RepliesInv'
<1> DEFINE o == out[c]
           n == Len(handled[c])
           h == [line |-> req[c].line, body |-> SubSeq(cs[c].buf, req[c].end + 1, Needed(c))]
           hs == Append(handled[c], h)
<1>1. /\ pc[c] = "dispatch" /\ handled' = [handled EXCEPT ![c] = hs]
      /\ \/ pc' = [pc EXCEPT ![c] = "head"] /\ out' = out
         \/ /\ out' = [out EXCEPT ![c] = Append(o, Cell("panic", Len(handled'[c])))]
            /\ pc' = [pc EXCEPT ![c] = "close"]
  BY DEF Dispatch, Running, Goto, Emit
<1> HIDE DEF h
<1>2. Len(hs) = n + 1 /\ IsSeq(hs)
  <2>1. PICK S : handled[c] \in Seq(S)
    BY DEF RepliesInv, IsSeq
  <2>2. handled[c] \in Seq(S \cup {h}) /\ h \in S \cup {h}
    BY <2>1
  <2> HIDE DEF h
  <2>3. hs \in Seq(S \cup {h}) /\ Len(hs) = n + 1
    BY <2>2
  <2> QED BY <2>3 DEF IsSeq
<1>3. FramedSoFar(o, n) /\ Going(o, n) /\ Ended(o, n) /\ n \in Nat
  BY <1>1 DEF RepliesInv, FramedConn, Between, FramedSoFar
<1>4. FramedSoFar(o, n + 1)
  BY <1>3, Counts
<1>5. n + 1 - 1 = n /\ Going(o, n + 1)
  BY <1>3 DEF Going, Replies
<1> HIDE DEF hs
<1>6. handled'[c] = hs /\ out = [out EXCEPT ![c] = o]
  BY <1>1 DEF RepliesInv
<1>7. CASE pc' = [pc EXCEPT ![c] = "head"] /\ out' = out
  <2>1. FramedConn(o, n + 1, "head")
    BY <1>3, <1>4, <1>5 DEF FramedConn, Between
  <2>2. FramedConn(o, Len(hs), "head") /\ out' = [out EXCEPT ![c] = o] /\ IsSeq(hs)
    BY <1>2, <1>6, <1>7, <2>1
  <2>3. handled' = [handled EXCEPT ![c] = hs] /\ pc' = [pc EXCEPT ![c] = "head"]
    BY <1>1, <1>7
  <2> HIDE DEF o, n
  <2> QED BY ONLY RepliesInv, c \in Conn, <2>2, <2>3, OneConn
<1>8. CASE /\ out' = [out EXCEPT ![c] = Append(o, Cell("panic", Len(handled'[c])))]
           /\ pc' = [pc EXCEPT ![c] = "close"]
  <2>1. FramedConn(Append(o, Cell("panic", n + 1)), n + 1, "close")
    BY <1>3, <1>4, <1>5, Panicked
  <2> DEFINE p == Append(o, Cell("panic", n + 1))
  <2>2. FramedConn(p, Len(hs), "close") /\ out' = [out EXCEPT ![c] = p] /\ IsSeq(hs)
    BY <1>2, <1>6, <1>8, <2>1
  <2>3. handled' = [handled EXCEPT ![c] = hs] /\ pc' = [pc EXCEPT ![c] = "close"]
    BY <1>1, <1>8
  <2> HIDE DEF o, n, p
  <2> QED BY ONLY RepliesInv, c \in Conn, <2>2, <2>3, OneConn
<1> QED BY <1>1, <1>7, <1>8

(* The steps that write a response. *)
LEMMA ResponseFramed ==
    ASSUME RepliesInv, NEW c \in Conn, WriteHead(c) \/ StreamChunk(c) \/ StreamEnd(c) \/ Hijacked(c)
    PROVE  RepliesInv'
<1> DEFINE o == out[c]
           n == Len(handled[c])
<1>0. UNCHANGED handled
  BY DEF WriteHead, StreamChunk, StreamEnd, Hijacked
<1>1. CASE UNCHANGED out /\ Goto(c, "close")
  BY <1>0, <1>1, MovesOn DEF Goto
<1>2. CASE pc[c] \in {"stream", "hijack"} /\ Panic(c)
  BY <1>0, <1>2, PanicFramed
<1>3. FramedSoFar(o, n) /\ FramedConn(o, n, pc[c])
  BY DEF RepliesInv, FramedConn
<1>4. ASSUME WriteHead(c), ~(UNCHANGED out /\ Goto(c, "close")) PROVE RepliesInv'
  <2>1. /\ pc[c] = "head"
        /\ \/ out' = [out EXCEPT ![c] = Append(o, Cell("whole", n))] /\ Goto(c, "next")
           \/ /\ out' = [out EXCEPT ![c] = Append(o, Cell("head", n))]
              /\ Goto(c, "stream") \/ Goto(c, "hijack")
    BY <1>4 DEF WriteHead, Running, Emit, Mode
  <2>2. Ended(o, n - 1) /\ Going(o, n - 1) /\ Going(o, n)
    BY <1>3, <2>1 DEF FramedConn
  <2>3. /\ FramedConn(Append(o, Cell("whole", n)), n, "next")
        /\ FramedConn(Append(o, Cell("head", n)), n, "stream")
        /\ FramedConn(Append(o, Cell("head", n)), n, "hijack")
    BY <1>3, <2>2, WholeWritten, HeadWritten
  <2> QED BY <1>0, <2>1, <2>3, OneOut DEF Goto
<1>5. ASSUME StreamChunk(c) \/ StreamEnd(c), ~(UNCHANGED out /\ Goto(c, "close")), ~Panic(c)
      PROVE  RepliesInv'
  <2>1. pc[c] = "stream"
    BY <1>5 DEF StreamChunk, StreamEnd, Running
  <2>2. PICK m \in Nat : LastChunks(o, n, m) /\ End(o).v = n /\ End(o).k \in {"head", "chunk"}
    BY <1>3, <2>1 DEF FramedConn
  <2>3. Chunks(c) = m
    BY <1>3, <2>2, ChunksCounted
  <2>4. Going(o, n)
    BY <1>3, <2>1 DEF FramedConn
  <2>5. CASE StreamChunk(c)
    <3>1. m < MaxChunks /\ Emit(c, Cell("chunk", n)) /\ UNCHANGED pc
      BY <1>5, <2>3, <2>5 DEF StreamChunk
    <3>2. FramedConn(Append(o, Cell("chunk", n)), n, "stream")
      BY <1>3, <2>2, <2>4, <3>1, ChunkWritten
    <3>3. pc' = [pc EXCEPT ![c] = "stream"]
      BY <2>1, <3>1 DEF RepliesInv
    <3> QED BY <1>0, <3>1, <3>2, <3>3, OneOut DEF Emit
  <2>6. CASE StreamEnd(c)
    <3>1. m = MaxChunks /\ Emit(c, Cell("trailer", n)) /\ Goto(c, "next")
      BY <1>5, <2>3, <2>6 DEF StreamEnd
    <3>2. FramedConn(Append(o, Cell("trailer", n)), n, "next")
      BY <1>3, <2>2, <2>4, <3>1, TrailerWritten
    <3> QED BY <1>0, <3>1, <3>2, OneOut DEF Emit, Goto
  <2> QED BY <1>5, <2>5, <2>6
<1>6. ASSUME Hijacked(c), ~Panic(c) PROVE RepliesInv'
  <2>1. pc[c] = "hijack" /\ Emit(c, Cell("raw", n)) /\ Goto(c, "close")
    BY <1>6 DEF Hijacked, Running
  <2>2. FramedConn(Append(o, Cell("raw", n)), n, "close")
    BY <1>3, <2>1, RawWritten DEF FramedConn
  <2> QED BY <1>0, <2>1, <2>2, OneOut DEF Emit, Goto
<1>7. Panic(c) /\ ~WriteHead(c) => pc[c] \in {"stream", "hijack"}
  BY DEF StreamChunk, StreamEnd, Hijacked, Running
<1> QED BY <1>1, <1>2, <1>4, <1>5, <1>6, <1>7

(* Every step keeps every connection framed. *)
LEMMA NextReplies == ASSUME RepliesInv, [Next]_vars PROVE RepliesInv'
<1>1. ASSUME NEW c \in Conn, Accept(c) PROVE RepliesInv'
  BY <1>1, MovesOn DEF Accept, Goto, Between
<1>2. ASSUME NEW c \in Conn, Start(c) PROVE RepliesInv'
  BY <1>2, MovesOn DEF Start, Running, Goto, Between
<1>3. ASSUME NEW c \in Conn, ReadHead(c) \/ ReadBody(c) PROVE RepliesInv'
  BY <1>3, MovesOn DEF ReadHead, ReadBody, Read, Running, Goto, Between
<1>4. ASSUME NEW c \in Conn, ParseHead(c) PROVE RepliesInv'
  <2>1. pc[c] = "parse" /\ pc[c] \in Between /\ UNCHANGED handled
    BY <1>4 DEF ParseHead, Running, Between
  <2>2. CASE UNCHANGED out /\ (Goto(c, "read") \/ Goto(c, "body"))
    BY <2>1, <2>2, MovesOn DEF Goto, Between
  <2>3. CASE \E v \in Verdicts \cup {"413"} : Refuse(c, v)
    BY <2>1, <2>3, RefuseFramed
  <2> DEFINE p == Parse(cs[c].buf)
  <2>4. p.at \in Verdicts
    BY VerdictOfParse
  <2>5. \/ Refuse(c, p.at) \/ Refuse(c, "431") \/ Refuse(c, "400") \/ Refuse(c, "413")
        \/ UNCHANGED out /\ (Goto(c, "read") \/ Goto(c, "body"))
    BY <1>4 DEF ParseHead
  <2>6. {"431", "400", "413"} \subseteq Verdicts \cup {"413"}
    BY DEF Verdicts
  <2> QED BY <2>2, <2>3, <2>4, <2>5, <2>6
<1>5. ASSUME NEW c \in Conn, Body(c) PROVE RepliesInv'
  <2>1. pc[c] = "body" /\ pc[c] \in Between /\ UNCHANGED handled
    BY <1>5 DEF Body, Running, Between
  <2>2. Refuse(c, "413") \/ (UNCHANGED out /\ (Goto(c, "dispatch") \/ Goto(c, "readBody")))
    BY <1>5 DEF Body
  <2> QED BY <2>1, <2>2, RefuseFramed, MovesOn DEF Goto, Between
<1>6. ASSUME NEW c \in Conn, NextRequest(c) \/ Close(c) PROVE RepliesInv'
  <2>1. CASE NextRequest(c)
    BY <2>1, MovesOn DEF NextRequest, Running, Goto, Between
  <2>2. CASE Close(c)
    BY <2>2, MovesOn DEF Close, Goto
  <2> QED BY <1>6, <2>1, <2>2
<1>7. CASE CloseListeners \/ Shutdown \/ Exit \/ UNCHANGED vars
  <2>1. UNCHANGED <<out, handled, pc>>
    BY <1>7 DEF CloseListeners, Shutdown, Exit, conn, vars
  <2> QED BY <2>1 DEF RepliesInv
<1> QED BY <1>1, <1>2, <1>3, <1>4, <1>5, <1>6, <1>7, DispatchFramed, ResponseFramed DEF Next, Step, Serving

(* Nothing is written at the start. *)
LEMMA InitReplies == Init => RepliesInv
<1>1. FramedConn(<<>>, 0, "dialled")
  BY DEF FramedConn, FramedSoFar, Going, Between, Ended, End, Cell
<1>2. Len(<<>>) = 0 /\ IsSeq(<<>>)
  BY DEF IsSeq
<1> QED BY <1>1, <1>2 DEF Init, RepliesInv

(* However handlers end, a client can tell the responses apart: serveConn    *)
(* begins one only after the last has ended.                                 *)
THEOREM RepliesStayFramed == Spec => []RepliesFramed
<1>1. RepliesInv => RepliesFramed
  BY DEF RepliesInv, RepliesFramed, FramedConn, FramedSoFar
<1> QED BY <1>1, InitReplies, NextReplies, PTL DEF Spec

-----------------------------------------------------------------------------
(* A non-empty set of naturals has a least member. *)
LEMMA LeastNat ==
    ASSUME NEW B \in SUBSET Nat, B # {}
    PROVE  \E n \in B : \A m \in B : n <= m
<1> DEFINE R == {p \in Nat \X Nat : p[1] < p[2]}
<1>1. IsWellFoundedOn(R, Nat)
  <2>1. R = OpToRel(<, Nat)
    BY DEF OpToRel
  <2> HIDE DEF R
  <2> QED BY <2>1, NatLessThanWellFounded
<1> HIDE DEF R
<1>2. \E n \in B : \A m \in B : ~(<<m, n>> \in R)
  BY <1>1, WFMin
<1>3. PICK n \in B : \A m \in B : ~(<<m, n>> \in R)
  BY <1>2
<1>4. \A m \in B : n <= m
  <2> SUFFICES ASSUME NEW m \in B, ~(n <= m) PROVE FALSE
    OBVIOUS
  <2>1. m \in Nat /\ n \in Nat /\ m < n
    OBVIOUS
  <2>2. <<m, n>> \in R
    BY <2>1 DEF R
  <2> QED BY <1>3, <2>2
<1> QED BY <1>4

(* The recursion that FlattenSeq unfolds to. *)
Flattens(ss, n, f) == f = [i \in 1..n |-> IF i = 1 THEN ss[i] ELSE f[i - 1] \o ss[i]]

(* FlattenSeq by the function it chooses. *)
LEMMA FlattenUnfold ==
    ASSUME NEW ss, Len(ss) # 0
    PROVE  FlattenSeq(ss) = (CHOOSE f : Flattens(ss, Len(ss), f))[Len(ss)]
  BY DEF FlattenSeq, Flattens

(* One step of that function. *)
LEMMA FlattensAt ==
    ASSUME NEW ss, NEW n, NEW f, Flattens(ss, n, f), NEW i \in 1..n
    PROVE  f[i] = IF i = 1 THEN ss[i] ELSE f[i - 1] \o ss[i]
<1> DEFINE F(j) == IF j = 1 THEN ss[j] ELSE f[j - 1] \o ss[j]
<1>1. f = [j \in 1..n |-> F(j)]
  BY DEF Flattens
<1> HIDE DEF F
<1>2. f[i] = F(i)
  BY <1>1
<1> QED BY <1>2 DEF F

(* The function chosen exists. *)
LEMMA FlattensExists ==
    ASSUME NEW ss, NEW N \in Nat
    PROVE  \E f : Flattens(ss, N, f)
<1> DEFINE B == {n \in Nat : ~ \E f : Flattens(ss, n, f)}
<1> SUFFICES ASSUME B # {} PROVE FALSE
  OBVIOUS
<1>1. PICK n \in B : \A m \in B : n <= m
  <2>1. B \in SUBSET Nat
    OBVIOUS
  <2> HIDE DEF B
  <2> QED BY <2>1, LeastNat
<1>2. n # 0
  <2>1. Flattens(ss, 0, [i \in 1..0 |-> 0])
    BY DEF Flattens
  <2> QED BY <1>1, <2>1
<1>3. n \in Nat \ {0} /\ n - 1 \in Nat /\ n - 1 \notin B
  BY <1>1, <1>2
<1>4. PICK h : Flattens(ss, n - 1, h)
  BY <1>3
<1> DEFINE f == [i \in 1..n |-> IF i = n THEN IF i = 1 THEN ss[i] ELSE h[i - 1] \o ss[i] ELSE h[i]]
<1>5. ASSUME NEW i \in 1..n PROVE f[i] = IF i = 1 THEN ss[i] ELSE f[i - 1] \o ss[i]
  <2>1. i # n => h[i] = IF i = 1 THEN ss[i] ELSE h[i - 1] \o ss[i]
    BY <1>3, <1>4, FlattensAt
  <2>2. i # 1 => f[i - 1] = h[i - 1]
    BY <1>3
  <2>3. f[i] = IF i = n THEN IF i = 1 THEN ss[i] ELSE h[i - 1] \o ss[i] ELSE h[i]
    OBVIOUS
  <2> HIDE DEF f
  <2> QED BY <2>1, <2>2, <2>3
<1>6. f = [i \in 1..n |-> f[i]]
  OBVIOUS
<1> HIDE DEF f
<1>7. Flattens(ss, n, f)
  BY <1>5, <1>6 DEF Flattens
<1> QED BY <1>1, <1>7

(* Where each of the first n parts of ss lies in all. *)
LaidOut(ss, n, all, off) ==
    /\ off \in [0..n -> Nat] /\ off[0] = 0 /\ Len(all) = off[n]
    /\ \A i \in 1..n :
          /\ off[i] = off[i - 1] + Len(ss[i]) 
          /\ \A q \in 1..Len(ss[i]) : all[off[i - 1] + q] = ss[i][q]

(* No part begins after the end of the whole. *)
LEMMA OffsetsGrow ==
    ASSUME NEW ss, NEW n \in Nat, NEW all, NEW off, LaidOut(ss, n, all, off),
           \A i \in 1..n : Len(ss[i]) \in Nat, NEW j \in 0..n
    PROVE  off[j] <= Len(all)
<1> DEFINE C == {k \in Nat : k <= n /\ ~(off[n - k] <= Len(all))}
<1> SUFFICES ASSUME C # {} PROVE FALSE
  <2>1. n - j \in Nat /\ n - j <= n /\ n - (n - j) = j
    OBVIOUS
  <2> QED BY <2>1
<1>1. PICK k \in C : \A m \in C : k <= m
  <2>1. C \in SUBSET Nat
    OBVIOUS
  <2> HIDE DEF C
  <2> QED BY <2>1, LeastNat
<1>2. k \in Nat /\ k <= n /\ ~(off[n - k] <= Len(all))
  BY <1>1
<1>3. Len(all) = off[n] /\ off[n] \in Nat
  BY DEF LaidOut
<1>4. k # 0 /\ k - 1 \in Nat
  BY <1>2, <1>3
<1>5. k - 1 \notin C
  <2> HIDE DEF C
  <2> QED BY <1>1, <1>2, <1>4
<1> DEFINE i == n - (k - 1)
<1>6. off[i] <= Len(all)
  BY <1>2, <1>4, <1>5
<1>7. i \in 1..n /\ i - 1 = n - k /\ i - 1 \in 0..n /\ i \in 0..n
  BY <1>2, <1>4
<1> HIDE DEF i
<1>8. off[i] = off[i - 1] + Len(ss[i]) /\ Len(ss[i]) \in Nat /\ off[i - 1] \in Nat
  BY <1>7 DEF LaidOut
<1> QED BY <1>2, <1>3, <1>6, <1>7, <1>8

(* One more part at the end. *)
LEMMA LaysOutNext ==
    ASSUME NEW S, NEW ss, NEW n \in Nat, n # 0, \A i \in 1..n : ss[i] \in Seq(S),
           NEW a \in Seq(S), NEW o, LaidOut(ss, n - 1, a, o)
    PROVE  \E off : LaidOut(ss, n, a \o ss[n], off)
<1> DEFINE b == ss[n]
           off == [i \in 0..n |-> IF i = n THEN o[n - 1] + Len(b) ELSE o[i]]
<1>1. b \in Seq(S) /\ Len(b) \in Nat /\ n - 1 \in Nat /\ \A i \in 1..n : Len(ss[i]) \in Nat
  OBVIOUS
<1> HIDE DEF b
<1>6. /\ a \o b \in Seq(S) /\ Len(a \o b) = Len(a) + Len(b) /\ Len(a) \in Nat /\ Len(b) \in Nat
      /\ \A q \in 1..Len(a) : (a \o b)[q] = a[q]
      /\ \A q \in 1..Len(b) : (a \o b)[Len(a) + q] = b[q]
  BY <1>1
<1>8. /\ \A i \in 0..(n - 1) : o[i] \in Nat /\ o[i] <= Len(a)
      /\ o[0] = 0 /\ Len(a) = o[n - 1]
  <2>1. \A i \in 1..(n - 1) : Len(ss[i]) \in Nat
    BY <1>1
  <2>2. \A j \in 0..(n - 1) : o[j] <= Len(a)
    BY <1>1, <2>1, OffsetsGrow
  <2> QED BY <2>2 DEF LaidOut
<1>9. /\ off \in [0..n -> Nat] /\ off[n] = o[n - 1] + Len(b)
      /\ \A i \in 0..(n - 1) : off[i] = o[i]
  BY <1>1, <1>8
<1> HIDE DEF off
<1>10. ASSUME NEW i \in 1..n
       PROVE  /\ off[i] = off[i - 1] + Len(ss[i])
              /\ \A q \in 1..Len(ss[i]) : (a \o b)[off[i - 1] + q] = ss[i][q]
  <2>1. CASE i = n
    <3>1. n - 1 \in 0..(n - 1) /\ ss[i] = b /\ i - 1 = n - 1
      BY <2>1 DEF b
    <3>2. off[i - 1] = Len(a)
      BY <1>8, <1>9, <3>1
    <3> QED BY <1>6, <1>8, <1>9, <2>1, <3>1, <3>2
  <2>2. CASE i # n
    <3>1. i \in 1..(n - 1) /\ i - 1 \in 0..(n - 1) /\ i \in 0..(n - 1)
      BY <2>2
    <3>2. /\ o[i] = o[i - 1] + Len(ss[i]) /\ \A q \in 1..Len(ss[i]) : a[o[i - 1] + q] = ss[i][q]
          /\ o[i - 1] \in Nat /\ o[i] \in Nat /\ o[i] <= Len(a)
      BY <1>8, <3>1 DEF LaidOut
    <3>3. off[i] = o[i] /\ off[i - 1] = o[i - 1] /\ Len(ss[i]) \in Nat
      BY <1>1, <1>9, <3>1
    <3>4. ASSUME NEW q \in 1..Len(ss[i]) PROVE (a \o b)[o[i - 1] + q] = ss[i][q]
      <4>1. o[i - 1] + q \in 1..Len(a)
        BY <1>6, <3>2, <3>3
      <4> QED BY <1>6, <3>2, <4>1
    <3> QED BY <3>2, <3>3, <3>4
  <2> QED BY <2>1, <2>2
<1>11. off[0] = 0
  BY <1>8, <1>9
<1>12. Len(a \o b) = off[n]
  BY <1>6, <1>8, <1>9
<1>13. LaidOut(ss, n, a \o b, off)
  BY <1>9, <1>10, <1>11, <1>12 DEF LaidOut
<1> QED BY <1>13 DEF b

(* FlattenSeq lays its parts out one after the other. *)
LEMMA FlattenLaidOut ==
    ASSUME NEW S, NEW ss \in Seq(Seq(S))
    PROVE  FlattenSeq(ss) \in Seq(S) /\ \E off : LaidOut(ss, Len(ss), FlattenSeq(ss), off)
<1> DEFINE N == Len(ss)
           f == CHOOSE g : Flattens(ss, N, g)
<1>0. N \in Nat /\ \A i \in 1..N : ss[i] \in Seq(S) /\ Len(ss[i]) \in Nat
  OBVIOUS
<1>1. CASE N = 0
  <2>1. FlattenSeq(ss) = <<>> /\ ss = <<>>
    BY <1>1 DEF FlattenSeq
  <2>2. LaidOut(ss, 0, <<>>, [i \in 0..0 |-> 0])
    BY <2>1 DEF LaidOut
  <2> QED BY <1>1, <2>1, <2>2
<1>2. CASE N # 0
  <2>1. FlattenSeq(ss) = f[N]
    BY <1>2, FlattenUnfold
  <2>2. Flattens(ss, N, f)
    BY <1>0, FlattensExists
  <2> HIDE DEF f
  <2> DEFINE Laid(n) == f[n] \in Seq(S) /\ \E off : LaidOut(ss, n, f[n], off)
             B == {n \in Nat : n \in 1..N /\ ~Laid(n)}
  <2>3. B = {}
    <3> SUFFICES ASSUME B # {} PROVE FALSE
      OBVIOUS
    <3>1. PICK n \in B : \A m \in B : n <= m
      <4>1. B \in SUBSET Nat
        OBVIOUS
      <4> HIDE DEF B
      <4> QED BY <4>1, LeastNat
    <3>2. n \in 1..N /\ n \in Nat /\ ~Laid(n)
      BY <3>1
    <3> HIDE DEF Laid
    <3>3. f[n] = IF n = 1 THEN ss[n] ELSE f[n - 1] \o ss[n]
      BY <2>2, <3>2, FlattensAt
    <3>4. CASE n = 1
      <4> DEFINE off == [i \in 0..1 |-> IF i = 0 THEN 0 ELSE Len(ss[1])]
      <4>1. f[1] = ss[1] /\ f[1] \in Seq(S) /\ Len(ss[1]) \in Nat
        BY <1>0, <3>2, <3>3, <3>4
      <4>2. off \in [0..1 -> Nat] /\ off[0] = 0 /\ off[1] = Len(ss[1])
        BY <4>1
      <4> HIDE DEF off
      <4>3. LaidOut(ss, 1, ss[1], off)
        BY <4>1, <4>2 DEF LaidOut
      <4> QED BY <3>2, <3>4, <4>1, <4>3 DEF Laid
    <3>5. CASE n # 1
      <4>1. n - 1 \in 1..N /\ n - 1 \in Nat
        BY <3>2, <3>5
      <4>2. n - 1 \notin B
        <5> HIDE DEF B
        <5> QED BY <3>1, <3>2, <4>1
      <4>3. f[n - 1] \in Seq(S) /\ \E o : LaidOut(ss, n - 1, f[n - 1], o)
        BY <4>1, <4>2 DEF Laid
      <4>4. PICK o : LaidOut(ss, n - 1, f[n - 1], o)
        BY <4>3
      <4>5. n # 0 /\ \A i \in 1..n : ss[i] \in Seq(S)
        BY <1>0, <3>2
      <4>6. \E off : LaidOut(ss, n, f[n - 1] \o ss[n], off)
        BY <3>2, <4>3, <4>4, <4>5, LaysOutNext
      <4>7. f[n - 1] \o ss[n] \in Seq(S)
        BY <3>2, <4>3, <4>5
      <4> QED BY <3>2, <3>3, <3>5, <4>6, <4>7 DEF Laid
    <3> QED BY <3>4, <3>5
  <2>4. Laid(N)
    BY <1>0, <1>2, <2>3
  <2> QED BY <2>1, <2>4
<1> QED BY <1>1, <1>2

-----------------------------------------------------------------------------
Cells == [k : {"line"}, v : STRING]
         \cup [k : {"cl", "te", "connection", "plain", "fold", "bad", "cr", "lf", "pad", "body"}, v : Int]
Eol(crlf) == IF crlf THEN 2 ELSE 1

(* Cells of different kinds differ. *)
LEMMA CellTypes ==
    /\ CR \in Cells /\ LF \in Cells /\ CR # LF /\ Cell("pad", 0) \in Cells
    /\ HeaderCells \subseteq Cells /\ CR \notin HeaderCells /\ LF \notin HeaderCells
    /\ Cell("pad", 0) # LF /\ Cell("pad", 0) # CR
    /\ \A i \in Nat : Cell("body", i) \in Cells
    /\ \A v \in STRING : Cell("line", v) \in Cells /\ Cell("line", v) # LF /\ Cell("line", v) # CR
  BY DEF CR, LF, Cell, Cells, HeaderCells

(* A line of one first cell, padding and a terminator. *)
LineOf(l, first, pad, crlf) ==
    /\ l \in Seq(Cells) /\ Len(l) = 1 + pad + Eol(crlf)
    /\ l[1] = first /\ \A q \in 2..(1 + pad) : l[q] = Cell("pad", 0)
    /\ l[1 + pad + Eol(crlf)] = LF /\ (crlf => l[2 + pad] = CR)

(* What Line puts on the wire. *)
LEMMA LineCells ==
    ASSUME NEW first \in Cells, NEW pad \in Nat, NEW crlf \in BOOLEAN
    PROVE  LineOf(Line(first, pad, crlf), first, pad, crlf)
<1> DEFINE a == [i \in 1..pad |-> Cell("pad", 0)]
           e == IF crlf THEN <<CR, LF>> ELSE <<LF>>
           fa == <<first>> \o a
<1>1. a \in Seq(Cells) /\ Len(a) = pad /\ \A i \in 1..pad : a[i] = Cell("pad", 0)
  BY CellTypes
<1>2. e \in Seq(Cells) /\ Len(e) = Eol(crlf) /\ e[Eol(crlf)] = LF /\ (crlf => e[1] = CR)
  BY CellTypes DEF Eol
<1>3. Line(first, pad, crlf) = fa \o e
  BY DEF Line
<1> HIDE DEF a, e
<1>4. /\ fa \in Seq(Cells) /\ Len(fa) = 1 + pad /\ fa[1] = first
      /\ \A i \in 2..(1 + pad) : fa[i] = Cell("pad", 0)
  BY <1>1
<1> HIDE DEF fa
<1>5. /\ fa \o e \in Seq(Cells) /\ Len(fa \o e) = 1 + pad + Eol(crlf)
      /\ \A i \in 1..(1 + pad) : (fa \o e)[i] = fa[i]
      /\ \A i \in 1..Eol(crlf) : (fa \o e)[1 + pad + i] = e[i]
  BY <1>2, <1>4
<1>6. Eol(crlf) \in 1..2 /\ 1 \in 1..Eol(crlf)
  BY DEF Eol
<1>7. /\ (fa \o e)[1] = first /\ \A q \in 2..(1 + pad) : (fa \o e)[q] = Cell("pad", 0)
      /\ (fa \o e)[1 + pad + Eol(crlf)] = LF /\ (crlf => (fa \o e)[2 + pad] = CR)
  <2> DEFINE l == fa \o e
  <2> HIDE DEF l
  <2>1. /\ \A i \in 1..(1 + pad) : l[i] = fa[i]
        /\ \A i \in 1..Eol(crlf) : l[1 + pad + i] = e[i]
    BY <1>5 DEF l
  <2>2. l[1] = first /\ \A q \in 2..(1 + pad) : l[q] = Cell("pad", 0)
    BY <1>4, <2>1
  <2>3. Eol(crlf) \in 1..Eol(crlf) /\ 1 + pad + 1 = 2 + pad
    BY <1>6
  <2>4. l[1 + pad + Eol(crlf)] = LF
    BY <1>2, <2>1, <2>3
  <2>5. crlf => l[2 + pad] = CR
    <3>1. l[1 + pad + 1] = e[1]
      BY <1>6, <2>1
    <3> QED BY <1>2, <2>3, <3>1
  <2> QED BY <2>2, <2>4, <2>5 DEF l
<1> QED BY <1>3, <1>5, <1>7 DEF LineOf

(* Where in a request's wire the parts of its head lie. *)
LineEnd(r) == 1 + r.pad + Eol(r.crlf)
Lines(r) == Len(r.headers)
At(r, i) == LineEnd(r) + (IF r.crlf THEN 3 * (i - 1) ELSE 2 * (i - 1)) + 1
HeadEnd(r) == LineEnd(r) + (IF r.crlf THEN 3 * Lines(r) + 2 ELSE 2 * Lines(r) + 1)

(* The parts of a request are well typed. *)
LEMMA RequestTypes ==
    ASSUME NEW r \in Requests
    PROVE  /\ r.line \in STRING /\ r.pad \in Nat /\ r.crlf \in BOOLEAN /\ r.body \in Nat
           /\ r.headers \in Seq(HeaderCells) /\ Lines(r) \in Nat /\ DOMAIN r.headers = 1..Lines(r)
           /\ \A i \in 1..Lines(r) : r.headers[i] \in HeaderCells /\ r.headers[i] \in Cells
           /\ Eol(r.crlf) \in 1..2 /\ LineEnd(r) \in Nat /\ HeadEnd(r) \in Nat
<1>1. /\ r.line \in STRING /\ r.pad \in Nat /\ r.crlf \in BOOLEAN /\ r.body \in Nat
      /\ r.headers \in Seq(HeaderCells)
  BY DEF Requests
<1>2. /\ Lines(r) \in Nat /\ DOMAIN r.headers = 1..Lines(r)
      /\ \A i \in 1..Lines(r) : r.headers[i] \in HeaderCells
  BY <1>1 DEF Lines
<1>3. Eol(r.crlf) \in 1..2
  BY DEF Eol
<1> QED BY <1>1, <1>2, <1>3, CellTypes DEF LineEnd, HeadEnd

(* The header lines of r one after the other. *)
HeaderWires(r) == [i \in DOMAIN r.headers |-> Line(r.headers[i], 0, r.crlf)]
(* Each header line takes its first cell and its terminator. *)
LEMMA HeadersWire ==
    ASSUME NEW r \in Requests
    PROVE  LET h == FlattenSeq(HeaderWires(r))
               w == 1 + Eol(r.crlf)
           IN  /\ h \in Seq(Cells) /\ Len(h) = (IF r.crlf THEN 3 * Lines(r) ELSE 2 * Lines(r))
               /\ \A i \in 1..Lines(r) : \A q \in 1..w :
                     h[(IF r.crlf THEN 3 * (i - 1) ELSE 2 * (i - 1)) + q] = HeaderWires(r)[i][q]
<1> DEFINE ss == HeaderWires(r)
           n == Lines(r)
           h == FlattenSeq(ss)
           w == 1 + Eol(r.crlf)
           o(i) == IF r.crlf THEN 3 * i ELSE 2 * i
<1>1. ss \in Seq(Seq(Cells)) /\ Len(ss) = n /\ n \in Nat /\ \A i \in 1..n : Len(ss[i]) = w
  <2>1. ASSUME NEW i \in 1..n
        PROVE  /\ Line(r.headers[i], 0, r.crlf) \in Seq(Cells)
               /\ Len(Line(r.headers[i], 0, r.crlf)) = w
    <3>1. r.headers[i] \in Cells /\ r.crlf \in BOOLEAN /\ Eol(r.crlf) \in Nat
      BY RequestTypes
    <3>2. LineOf(Line(r.headers[i], 0, r.crlf), r.headers[i], 0, r.crlf)
      BY <3>1, LineCells
    <3> DEFINE l == Line(r.headers[i], 0, r.crlf)
    <3> HIDE DEF l
    <3>3. l \in Seq(Cells) /\ Len(l) = 1 + 0 + Eol(r.crlf)
      BY <3>2 DEF LineOf, l
    <3> QED BY <3>1, <3>3 DEF l
  <2>2. n \in Nat /\ DOMAIN r.headers = 1..n
    BY RequestTypes
  <2> QED BY <2>1, <2>2 DEF HeaderWires
<1> HIDE DEF ss, n
<1>2. PICK off : LaidOut(ss, Len(ss), h, off)
  BY <1>1, FlattenLaidOut
<1>3. h \in Seq(Cells)
  BY <1>1, FlattenLaidOut
<1>4. w = IF r.crlf THEN 3 ELSE 2
  BY DEF Eol
<1> HIDE DEF w, h
<1>5. \A i \in 0..n : off[i] = o(i)
  <2> DEFINE B == {i \in Nat : i <= n /\ off[i] # o(i)}
  <2> SUFFICES ASSUME B # {} PROVE FALSE
    BY <1>1
  <2>1. PICK i \in B : \A m \in B : i <= m
    <3>1. B \in SUBSET Nat
      OBVIOUS
    <3> HIDE DEF B
    <3> QED BY <3>1, LeastNat
  <2>2. i \in Nat /\ i <= n /\ off[i] # o(i)
    BY <2>1
  <2>3. i # 0
    BY <1>2, <2>2 DEF LaidOut
  <2>4. i - 1 \in Nat /\ i - 1 <= n /\ i \in 1..n
    BY <1>1, <2>2, <2>3
  <2>5. i - 1 \notin B
    <3> HIDE DEF B
    <3> QED BY <2>1, <2>2, <2>4
  <2>6. off[i] = off[i - 1] + w /\ off[i - 1] = o(i - 1)
    <3>1. Len(ss[i]) = w /\ i \in 1..Len(ss)
      BY <1>1, <2>4
    <3>2. off[i] = off[i - 1] + Len(ss[i])
      BY <1>2, <3>1 DEF LaidOut
    <3> QED BY <2>4, <2>5, <3>1, <3>2
  <2> QED BY <1>4, <2>2, <2>4, <2>6
<1>6. Len(h) = o(n)
  BY <1>1, <1>2, <1>5 DEF LaidOut
<1>7. ASSUME NEW i \in 1..n, NEW q \in 1..w PROVE h[o(i - 1) + q] = ss[i][q]
  <2>1. i \in 1..Len(ss) /\ q \in 1..Len(ss[i]) /\ off[i - 1] = o(i - 1)
    BY <1>1, <1>5
  <2> HIDE DEF o
  <2> QED BY <1>2, <2>1 DEF LaidOut
<1> QED BY <1>3, <1>6, <1>7 DEF ss, n, w, h

(* The cells of two sequences one after the other. *)
LEMMA Concat ==
    ASSUME NEW a \in Seq(Cells), NEW b \in Seq(Cells)
    PROVE  /\ a \o b \in Seq(Cells) /\ Len(a \o b) = Len(a) + Len(b)
           /\ Len(a) \in Nat /\ Len(b) \in Nat
           /\ \A q \in 1..Len(a) : (a \o b)[q] = a[q]
           /\ \A q \in 1..Len(b) : (a \o b)[Len(a) + q] = b[q]
  OBVIOUS

(* The wire of a request, cell by cell. *)
WireOf(r, w) ==
    /\ w \in Seq(Cells) /\ Len(w) = HeadEnd(r) + r.body
    /\ w[1] = Cell("line", r.line) /\ \A q \in 2..(1 + r.pad) : w[q] = Cell("pad", 0)
    /\ w[LineEnd(r)] = LF /\ (r.crlf => w[LineEnd(r) - 1] = CR)
    /\ \A i \in 1..Lines(r) : /\ w[At(r, i)] = r.headers[i] /\ w[At(r, i + 1) - 1] = LF
                              /\ r.crlf => w[At(r, i) + 1] = CR
    /\ w[HeadEnd(r)] = LF /\ (r.crlf => w[HeadEnd(r) - 1] = CR)
    /\ \A j \in 1..r.body : w[HeadEnd(r) + j] = Cell("body", j)

(* What Wire puts on the wire. *)
LEMMA WireCells == ASSUME NEW r \in Requests PROVE WireOf(r, Wire(r))
<1> DEFINE a == Line(Cell("line", r.line), r.pad, r.crlf)
           h == FlattenSeq(HeaderWires(r))
           e == IF r.crlf THEN <<CR, LF>> ELSE <<LF>>
           d == BodyCells(r)
           ah == a \o h
           ahe == ah \o e
           w == ahe \o d
           n == Lines(r)
<1>1. /\ r.line \in STRING /\ r.pad \in Nat /\ r.crlf \in BOOLEAN /\ r.body \in Nat /\ n \in Nat
      /\ Eol(r.crlf) \in 1..2 /\ LineEnd(r) \in Nat /\ HeadEnd(r) \in Nat
      /\ \A i \in 1..n : r.headers[i] \in Cells
  BY RequestTypes
<1>2. /\ a \in Seq(Cells) /\ Len(a) = LineEnd(r) /\ a[1] = Cell("line", r.line)
      /\ \A q \in 2..(1 + r.pad) : a[q] = Cell("pad", 0)
      /\ a[LineEnd(r)] = LF /\ (r.crlf => a[LineEnd(r) - 1] = CR)
  <2>1. Cell("line", r.line) \in Cells
    BY <1>1, CellTypes
  <2>2. LineOf(a, Cell("line", r.line), r.pad, r.crlf)
    BY <1>1, <2>1, LineCells
  <2>3. (r.crlf => 2 + r.pad = LineEnd(r) - 1) /\ 1 + r.pad + Eol(r.crlf) = LineEnd(r)
    BY <1>1 DEF Eol, LineEnd
  <2> HIDE DEF a
  <2>4. /\ a \in Seq(Cells) /\ Len(a) = 1 + r.pad + Eol(r.crlf) /\ a[1] = Cell("line", r.line)
        /\ \A q \in 2..(1 + r.pad) : a[q] = Cell("pad", 0)
        /\ a[1 + r.pad + Eol(r.crlf)] = LF /\ (r.crlf => a[2 + r.pad] = CR)
    BY <2>2 DEF LineOf
  <2> QED BY <2>3, <2>4
<1>3. /\ h \in Seq(Cells) /\ Len(h) = (IF r.crlf THEN 3 * n ELSE 2 * n)
      /\ \A i \in 1..n : \A q \in 1..(1 + Eol(r.crlf)) :
            h[(IF r.crlf THEN 3 * (i - 1) ELSE 2 * (i - 1)) + q] = HeaderWires(r)[i][q]
  BY HeadersWire
<1>4. ASSUME NEW i \in 1..n
      PROVE  LET l == HeaderWires(r)[i]
             IN  l[1] = r.headers[i] /\ l[1 + Eol(r.crlf)] = LF /\ (r.crlf => l[2] = CR)
  <2> DEFINE l == Line(r.headers[i], 0, r.crlf)
  <2>1. HeaderWires(r)[i] = l
    BY RequestTypes DEF HeaderWires
  <2>2. 0 \in Nat /\ r.headers[i] \in Cells /\ r.crlf \in BOOLEAN
    BY <1>1
  <2>5. LineOf(l, r.headers[i], 0, r.crlf)
    BY <2>2, LineCells
  <2> HIDE DEF l
  <2>3. l[1] = r.headers[i] /\ l[1 + 0 + Eol(r.crlf)] = LF /\ (r.crlf => l[2 + 0] = CR)
    BY <2>5 DEF LineOf
  <2>4. 1 + 0 + Eol(r.crlf) = 1 + Eol(r.crlf)
    BY <1>1
  <2> QED BY <2>1, <2>3, <2>4
<1>5. e \in Seq(Cells) /\ Len(e) = Eol(r.crlf) /\ e[Eol(r.crlf)] = LF /\ (r.crlf => e[1] = CR)
  BY CellTypes DEF Eol
<1>6. d \in Seq(Cells) /\ Len(d) = r.body /\ \A j \in 1..r.body : d[j] = Cell("body", j)
  BY <1>1, CellTypes DEF BodyCells
<1>7. Wire(r) = w
  <2>1. [i \in DOMAIN r.headers |-> Line(r.headers[i], 0, r.crlf)] = HeaderWires(r)
    BY DEF HeaderWires
  <2> QED BY <2>1, Zenon DEF Wire
<1> HIDE DEF a, h, e, d
<1>8. /\ ah \in Seq(Cells) /\ Len(ah) = Len(a) + Len(h)
      /\ \A q \in 1..Len(a) : ah[q] = a[q]
      /\ \A q \in 1..Len(h) : ah[Len(a) + q] = h[q]
  BY ONLY <1>2, <1>3, Concat
<1> HIDE DEF ah
<1>9. /\ ahe \in Seq(Cells) /\ Len(ahe) = Len(ah) + Len(e)
      /\ \A q \in 1..Len(ah) : ahe[q] = ah[q]
      /\ \A q \in 1..Len(e) : ahe[Len(ah) + q] = e[q]
  BY ONLY <1>5, <1>8, Concat
<1> HIDE DEF ahe
<1>10. /\ w \in Seq(Cells) /\ Len(w) = Len(ahe) + Len(d)
       /\ \A q \in 1..Len(ahe) : w[q] = ahe[q]
       /\ \A q \in 1..Len(d) : w[Len(ahe) + q] = d[q]
  BY ONLY <1>6, <1>9, Concat
<1> HIDE DEF w, n
<1>20. Len(h) = (IF r.crlf THEN 3 * n ELSE 2 * n)
  BY <1>3
<1>11. Len(ahe) = HeadEnd(r) /\ Len(ah) = HeadEnd(r) - Eol(r.crlf)
  <2>1. Len(ah) = LineEnd(r) + (IF r.crlf THEN 3 * n ELSE 2 * n)
    BY <1>2, <1>8, <1>20
  <2>2. Len(ahe) = Len(ah) + Eol(r.crlf)
    BY <1>5, <1>9
  <2>3. HeadEnd(r) = LineEnd(r) + (IF r.crlf THEN 3 * n + 2 ELSE 2 * n + 1)
    BY DEF HeadEnd, n
  <2>4. CASE r.crlf
    BY <1>1, <2>1, <2>2, <2>3, <2>4 DEF Eol
  <2>5. CASE ~r.crlf
    BY <1>1, <2>1, <2>2, <2>3, <2>5 DEF Eol
  <2> QED BY <2>4, <2>5
<1>12. /\ \A q \in 1..LineEnd(r) : w[q] = a[q]
       /\ \A q \in 1..Len(h) : w[LineEnd(r) + q] = h[q]
       /\ \A q \in 1..Eol(r.crlf) : w[HeadEnd(r) - Eol(r.crlf) + q] = e[q]
  <2>1. Len(a) \in Nat /\ Len(h) \in Nat /\ Len(e) \in Nat /\ Len(ah) \in Nat /\ Len(ahe) \in Nat
    BY <1>2, <1>3, <1>5, <1>8, <1>9
  <2>2. ASSUME NEW q \in 1..LineEnd(r) PROVE w[q] = a[q]
    BY <1>2, <1>8, <1>9, <1>10, <2>1
  <2>3. ASSUME NEW q \in 1..Len(h) PROVE w[LineEnd(r) + q] = h[q]
    <3>1. ah[LineEnd(r) + q] = h[q] /\ LineEnd(r) + q \in 1..Len(ah)
      BY <1>2, <1>8, <2>1
    <3>2. LineEnd(r) + q \in 1..Len(ahe)
      BY <1>9, <2>1, <3>1
    <3> QED BY <1>9, <1>10, <3>1, <3>2
  <2>4. ASSUME NEW q \in 1..Eol(r.crlf) PROVE w[HeadEnd(r) - Eol(r.crlf) + q] = e[q]
    <3>1. ahe[Len(ah) + q] = e[q] /\ Len(ah) + q \in 1..Len(ahe)
      BY <1>5, <1>9, <2>1
    <3> QED BY <1>10, <1>11, <3>1
  <2> QED BY <2>2, <2>3, <2>4
<1>13. \A j \in 1..r.body : w[HeadEnd(r) + j] = Cell("body", j)
  BY <1>6, <1>10, <1>11
<1>14. w \in Seq(Cells) /\ Len(w) = HeadEnd(r) + r.body
  BY <1>6, <1>10, <1>11
<1>15. /\ w[1] = Cell("line", r.line) /\ \A q \in 2..(1 + r.pad) : w[q] = Cell("pad", 0)
       /\ w[LineEnd(r)] = LF /\ (r.crlf => w[LineEnd(r) - 1] = CR)
  <2>1. /\ 1 \in 1..LineEnd(r) /\ LineEnd(r) \in 1..LineEnd(r) /\ (r.crlf => LineEnd(r) - 1 \in 1..LineEnd(r))
        /\ \A q \in 2..(1 + r.pad) : q \in 1..LineEnd(r)
    BY <1>1 DEF LineEnd
  <2> QED BY <1>2, <1>12, <2>1
<1>16. w[HeadEnd(r)] = LF /\ (r.crlf => w[HeadEnd(r) - 1] = CR)
  <2>1. HeadEnd(r) - Eol(r.crlf) + Eol(r.crlf) = HeadEnd(r) /\ Eol(r.crlf) \in 1..Eol(r.crlf)
    BY <1>1
  <2>2. r.crlf => HeadEnd(r) - Eol(r.crlf) + 1 = HeadEnd(r) - 1 /\ 1 \in 1..Eol(r.crlf)
    BY <1>1 DEF Eol
  <2> QED BY <1>5, <1>12, <2>1, <2>2
<1>17. ASSUME NEW i \in 1..n
       PROVE  /\ w[At(r, i)] = r.headers[i] /\ w[At(r, i + 1) - 1] = LF
              /\ r.crlf => w[At(r, i) + 1] = CR
  <2> DEFINE p == IF r.crlf THEN 3 * (i - 1) ELSE 2 * (i - 1)
  <2>1. /\ p \in Nat /\ p + 1 \in 1..Len(h) /\ p + (1 + Eol(r.crlf)) \in 1..Len(h)
        /\ (r.crlf => p + 2 \in 1..Len(h))
    <3>1. CASE r.crlf
      BY <1>1, <1>20, <3>1 DEF Eol
    <3>2. CASE ~r.crlf
      BY <1>1, <1>20, <3>2 DEF Eol
    <3> QED BY <3>1, <3>2
  <2>2. /\ At(r, i) = LineEnd(r) + (p + 1)
        /\ At(r, i + 1) - 1 = LineEnd(r) + (p + (1 + Eol(r.crlf)))
        /\ (r.crlf => At(r, i) + 1 = LineEnd(r) + (p + 2))
    BY <1>1 DEF At, Eol
  <2>3. /\ h[p + 1] = HeaderWires(r)[i][1] /\ h[p + (1 + Eol(r.crlf))] = HeaderWires(r)[i][1 + Eol(r.crlf)]
        /\ (r.crlf => h[p + 2] = HeaderWires(r)[i][2])
    <3>1. /\ 1 \in 1..(1 + Eol(r.crlf)) /\ 2 \in 1..(1 + Eol(r.crlf))
          /\ 1 + Eol(r.crlf) \in 1..(1 + Eol(r.crlf))
      BY <1>1
    <3> QED BY <1>3, <3>1
  <2> HIDE DEF p
  <2> QED BY <1>4, <1>12, <2>1, <2>2, <2>3
<1>18. WireOf(r, w)
  BY <1>13, <1>14, <1>15, <1>16, <1>17 DEF WireOf, n
<1> QED BY <1>7, <1>18

-----------------------------------------------------------------------------
(* findEOL finds the first line feed from p on. *)
LEMMA EolFound ==
    ASSUME NEW b \in Seq(Cells), NEW p \in Nat \ {0}, NEW e \in p..Len(b), b[e] = LF,
           \A q \in p..(e - 1) : b[q] # LF
    PROVE  findEOL(b, p) = [eol |-> IF e > p /\ b[e - 1] = CR THEN e - 1 ELSE e, next |-> e + 1]
<1> DEFINE ends == {i \in p..Len(b) : b[i] = LF}
           lf == Min(ends)
<1>1. e \in ends /\ \A q \in ends : e <= q
  OBVIOUS
<1>2. lf = e
  <2>1. lf \in ends /\ \A y \in ends : lf <= y
    BY <1>1 DEF Min
  <2>2. \A q \in ends : q \in Int
    OBVIOUS
  <2> HIDE DEF lf, ends
  <2> QED BY <1>1, <2>1, <2>2
<1>3. ends # {}
  BY <1>1
<1> HIDE DEF lf, ends
<1> QED BY <1>2, <1>3 DEF findEOL, lf, ends

(* Without a line feed findEOL finds nothing. *)
LEMMA EolMissing ==
    ASSUME NEW b, NEW p, \A q \in p..Len(b) : b[q] # LF
    PROVE  findEOL(b, p) = [eol |-> 0, next |-> 0]
  BY DEF findEOL

-----------------------------------------------------------------------------
(* b begins with as much of the head of r as it holds. *)
Holds(r, b) == b \in Seq(Cells) /\ \A q \in 1..Len(b) : q <= HeadEnd(r) => b[q] = Wire(r)[q]

(* The header lines follow each other from the end of the request line. *)
LEMMA AtSteps ==
    ASSUME NEW r \in Requests, NEW i \in Nat
    PROVE  /\ At(r, i) \in Int /\ At(r, i + 1) = At(r, i) + (IF r.crlf THEN 3 ELSE 2)
           /\ At(r, 1) = LineEnd(r) + 1 /\ LineEnd(r) \in Nat \ {0}
           /\ At(r, Lines(r) + 1) = (IF r.crlf THEN HeadEnd(r) - 1 ELSE HeadEnd(r))
           /\ i # 0 => At(r, i) >= LineEnd(r) + i
           /\ \A j \in Nat : (j < i => At(r, j + 1) <= At(r, i)) /\ (j = i <=> At(r, j) = At(r, i))
<1>1. LineEnd(r) \in Nat /\ HeadEnd(r) \in Nat /\ Lines(r) \in Nat /\ r.crlf \in BOOLEAN
      /\ r.pad \in Nat /\ Eol(r.crlf) \in 1..2
  BY RequestTypes
<1>2. LineEnd(r) # 0
  BY <1>1 DEF LineEnd
<1>3. CASE r.crlf
  BY <1>1, <1>2, <1>3 DEF At, HeadEnd
<1>4. CASE ~r.crlf
  BY <1>1, <1>2, <1>4 DEF At, HeadEnd
<1> QED BY <1>1, <1>3, <1>4

(* The request line in a buffer. *)
LEMMA FirstLine ==
    ASSUME NEW r \in Requests, NEW b, Holds(r, b)
    PROVE  LET f == findEOL(b, 1)
           IN  IF Len(b) < LineEnd(r) THEN f.next = 0
               ELSE f.next = LineEnd(r) + 1 /\ f.eol = 2 + r.pad
<1>1. WireOf(r, Wire(r))
  BY WireCells
<1>2. /\ r.line \in STRING /\ r.pad \in Nat /\ r.crlf \in BOOLEAN /\ Eol(r.crlf) \in 1..2
      /\ LineEnd(r) \in Nat \ {0} /\ HeadEnd(r) \in Nat /\ HeadEnd(r) >= LineEnd(r)
      /\ LineEnd(r) = (IF r.crlf THEN 3 + r.pad ELSE 2 + r.pad)
  <2>1. /\ r.line \in STRING /\ r.pad \in Nat /\ r.crlf \in BOOLEAN /\ Eol(r.crlf) \in 1..2
        /\ LineEnd(r) \in Nat /\ HeadEnd(r) \in Nat /\ Lines(r) \in Nat
    BY RequestTypes
  <2> QED BY <2>1 DEF LineEnd, HeadEnd, Eol
<1>3. b \in Seq(Cells) /\ Len(b) \in Nat
  BY DEF Holds
<1>4. ASSUME NEW q \in 1..Len(b), q < LineEnd(r) PROVE b[q] # LF /\ (q <= 1 + r.pad => b[q] # CR)
  <2>1. b[q] = Wire(r)[q]
    BY <1>2, <1>4 DEF Holds
  <2>2. q \in Nat /\ (q = 1 \/ q \in 2..(1 + r.pad) \/ (r.crlf /\ q = LineEnd(r) - 1))
    BY <1>2, <1>4
  <2>3. CASE q = 1
    BY <1>1, <1>2, <2>1, <2>3, CellTypes DEF WireOf
  <2>4. CASE q \in 2..(1 + r.pad)
    BY <1>1, <2>1, <2>4, CellTypes DEF WireOf
  <2>5. CASE r.crlf /\ q = LineEnd(r) - 1
    BY <1>1, <1>2, <2>1, <2>5, CellTypes DEF WireOf
  <2> QED BY <2>2, <2>3, <2>4, <2>5
<1>5. CASE Len(b) < LineEnd(r)
  <2>1. findEOL(b, 1) = [eol |-> 0, next |-> 0]
    BY <1>2, <1>3, <1>4, <1>5, EolMissing
  <2> QED BY <1>5, <2>1
<1>6. CASE ~(Len(b) < LineEnd(r))
  <2> DEFINE e == LineEnd(r)
  <2>1. e \in 1..Len(b) /\ e \in Nat /\ b[e] = LF
    BY <1>1, <1>2, <1>3, <1>6 DEF WireOf, Holds
  <2>2. \A q \in 1..(e - 1) : b[q] # LF
    BY <1>2, <1>3, <1>4, <2>1
  <2>3. findEOL(b, 1) = [eol |-> IF e > 1 /\ b[e - 1] = CR THEN e - 1 ELSE e, next |-> e + 1]
    BY <1>3, <2>1, <2>2, EolFound
  <2>4. e > 1 /\ e - 1 \in 1..Len(b) /\ e - 1 < LineEnd(r) /\ e - 1 <= HeadEnd(r)
    BY <1>2, <1>3, <2>1
  <2>5. b[e - 1] = CR <=> r.crlf
    <3>1. r.crlf => b[e - 1] = CR
      BY <1>1, <2>4 DEF WireOf, Holds
    <3>2. ~r.crlf => b[e - 1] # CR
      BY <1>2, <1>4, <2>4
    <3> QED BY <3>1, <3>2
  <2>6. findEOL(b, 1).next = e + 1 /\ findEOL(b, 1).eol = IF r.crlf THEN e - 1 ELSE e
    BY <2>3, <2>4, <2>5
  <2> QED BY <1>2, <1>6, <2>6
<1> QED BY <1>5, <1>6

(* The cells of the head's lines in a buffer that holds them. *)
LEMMA HeldLines ==
    ASSUME NEW r \in Requests, NEW b, Holds(r, b)
    PROVE  /\ \A i \in 1..Lines(r) :
                 /\ At(r, i) <= Len(b) => b[At(r, i)] = r.headers[i]
                 /\ r.crlf /\ At(r, i) + 1 <= Len(b) => b[At(r, i) + 1] = CR
                 /\ At(r, i + 1) - 1 <= Len(b) => b[At(r, i + 1) - 1] = LF
           /\ HeadEnd(r) <= Len(b) => b[HeadEnd(r)] = LF
           /\ r.crlf /\ HeadEnd(r) - 1 <= Len(b) => b[HeadEnd(r) - 1] = CR
           /\ LineEnd(r) <= Len(b) => b[LineEnd(r)] = LF
           /\ HeadEnd(r) > LineEnd(r)
<1>1. WireOf(r, Wire(r))
  BY WireCells
<1>2. /\ Lines(r) \in Nat /\ HeadEnd(r) \in Nat /\ LineEnd(r) \in Nat \ {0} /\ HeadEnd(r) > LineEnd(r)
      /\ r.crlf \in BOOLEAN /\ Len(b) \in Nat /\ HeadEnd(r) > (IF r.crlf THEN 1 ELSE 0)
  <2>1. Lines(r) \in Nat /\ HeadEnd(r) \in Nat /\ r.crlf \in BOOLEAN
    BY RequestTypes
  <2>2. LineEnd(r) \in Nat \ {0}
    BY AtSteps
  <2>3. HeadEnd(r) > LineEnd(r)
    BY <2>1, <2>2 DEF HeadEnd
  <2> QED BY <2>1, <2>2, <2>3 DEF Holds
<1>3. ASSUME NEW i \in 1..Lines(r)
      PROVE  /\ At(r, i) \in 1..HeadEnd(r) /\ At(r, i + 1) - 1 \in 1..HeadEnd(r)
             /\ r.crlf => At(r, i) + 1 \in 1..HeadEnd(r)
  <2>0. i \in Nat /\ i # 0 /\ i < Lines(r) + 1 /\ Lines(r) + 1 \in Nat
    BY <1>2
  <2>1. /\ At(r, i) \in Int /\ At(r, i + 1) = At(r, i) + (IF r.crlf THEN 3 ELSE 2)
        /\ At(r, i) >= LineEnd(r) + i
    BY <2>0, AtSteps
  <2>2. At(r, i + 1) <= At(r, Lines(r) + 1)
    BY <2>0, AtSteps
  <2>3. At(r, Lines(r) + 1) = (IF r.crlf THEN HeadEnd(r) - 1 ELSE HeadEnd(r))
    BY <2>0, AtSteps
  <2>4. At(r, i + 1) \in Int /\ At(r, i + 1) <= HeadEnd(r)
    BY <1>2, <2>1, <2>2, <2>3
  <2>5. CASE r.crlf
    BY <1>2, <2>0, <2>1, <2>4, <2>5
  <2>6. CASE ~r.crlf
    BY <1>2, <2>0, <2>1, <2>4, <2>6
  <2> QED BY <2>5, <2>6, <1>2
<1>4. \A q \in 1..HeadEnd(r) : q <= Len(b) => b[q] = Wire(r)[q]
  BY <1>2 DEF Holds
<1>5. ASSUME NEW i \in 1..Lines(r)
      PROVE  /\ At(r, i) <= Len(b) => b[At(r, i)] = r.headers[i]
             /\ r.crlf /\ At(r, i) + 1 <= Len(b) => b[At(r, i) + 1] = CR
             /\ At(r, i + 1) - 1 <= Len(b) => b[At(r, i + 1) - 1] = LF
  BY <1>1, <1>3, <1>4 DEF WireOf
<1>6. /\ HeadEnd(r) <= Len(b) => b[HeadEnd(r)] = LF
      /\ r.crlf /\ HeadEnd(r) - 1 <= Len(b) => b[HeadEnd(r) - 1] = CR
      /\ LineEnd(r) <= Len(b) => b[LineEnd(r)] = LF
  <2>1. HeadEnd(r) \in 1..HeadEnd(r) /\ (r.crlf => HeadEnd(r) - 1 \in 1..HeadEnd(r))
        /\ LineEnd(r) \in 1..HeadEnd(r)
    BY <1>2
  <2> QED BY <1>1, <1>4, <2>1 DEF WireOf
<1> QED BY <1>2, <1>5, <1>6

(* findEOL at a header line finds its end, or nothing when it is cut. *)
LEMMA HeaderEol ==
    ASSUME NEW r \in Requests, NEW b, Holds(r, b), NEW i \in 1..Lines(r)
    PROVE  findEOL(b, At(r, i)).next = IF At(r, i + 1) - 1 <= Len(b) THEN At(r, i + 1) ELSE 0
<1> DEFINE p == At(r, i)
           e == At(r, i + 1) - 1
<1>1. p \in Nat \ {0} /\ e \in Nat /\ e = p + (IF r.crlf THEN 2 ELSE 1) /\ r.crlf \in BOOLEAN
  <2>1. LineEnd(r) \in Nat /\ r.crlf \in BOOLEAN /\ i \in Nat /\ i # 0
    BY RequestTypes
  <2>2. /\ At(r, i) \in Int /\ At(r, i + 1) = At(r, i) + (IF r.crlf THEN 3 ELSE 2)
        /\ At(r, i) >= LineEnd(r) + i
    BY <2>1, AtSteps
  <2> QED BY <2>1, <2>2
<1>2. b \in Seq(Cells) /\ Len(b) \in Nat
  BY DEF Holds
<1>3. r.headers[i] # LF
  BY RequestTypes, CellTypes
<1>4. /\ p <= Len(b) => b[p] # LF
      /\ r.crlf /\ p + 1 <= Len(b) => b[p + 1] # LF
      /\ e <= Len(b) => b[e] = LF
  BY <1>3, HeldLines, CellTypes
<1> HIDE DEF p, e
<1>5. CASE e <= Len(b)
  <2>1. b[e] = LF /\ e \in p..Len(b) /\ \A q \in p..(e - 1) : b[q] # LF
    <3>1. \A q \in p..(e - 1) : q = p \/ (r.crlf /\ q = p + 1)
      BY <1>1
    <3> QED BY <1>1, <1>2, <1>4, <1>5, <3>1
  <2>4. findEOL(b, p) = [eol |-> IF e > p /\ b[e - 1] = CR THEN e - 1 ELSE e, next |-> e + 1]
    <3>1. b \in Seq(Cells) /\ p \in Nat \ {0} /\ e \in p..Len(b) /\ b[e] = LF
      BY <1>1, <1>2, <2>1
    <3>2. \A q \in p..(e - 1) : b[q] # LF
      BY <2>1
    <3> QED BY ONLY <3>1, <3>2, EolFound
  <2>2. findEOL(b, p).next = e + 1
    BY <2>4
  <2>3. e + 1 = At(r, i + 1)
    <3>1. i + 1 \in Nat
      OBVIOUS
    <3>2. At(r, i + 1) \in Int
      BY <3>1, AtSteps
    <3> QED BY <3>2 DEF e
  <2> QED BY <1>5, <2>2, <2>3 DEF p, e
<1>6. CASE ~(e <= Len(b))
  <2>1. \A q \in p..Len(b) : b[q] # LF
    <3>1. \A q \in p..Len(b) : q = p \/ (r.crlf /\ q = p + 1)
      BY <1>1, <1>2, <1>6
    <3> QED BY <1>1, <1>2, <1>4, <3>1
  <2>2. findEOL(b, p).next = 0
    BY <2>1, EolMissing
  <2> QED BY <1>6, <2>2 DEF p, e
<1> QED BY <1>5, <1>6

(* The line starts of the head are where its lines are. *)
LineStarts(b, start) == {i \in start..(Len(b) + 1) : i = start \/ b[i - 1] = LF}

(* The line starts the parser sees are those of the header lines it holds. *)
LEMMA StartsFound ==
    ASSUME NEW r \in Requests, NEW b, Holds(r, b), LineEnd(r) <= Len(b),
           NEW p \in Int, p <= At(r, Lines(r) + 1)
    PROVE  p \in LineStarts(b, LineEnd(r) + 1) <=>
              p <= Len(b) + 1 /\ \E i \in 1..(Lines(r) + 1) : p = At(r, i)
<1> DEFINE n == Lines(r)
           s == LineEnd(r) + 1
<1>1. /\ n \in Nat /\ r.crlf \in BOOLEAN /\ LineEnd(r) \in Nat \ {0} /\ At(r, 1) = s
      /\ b \in Seq(Cells) /\ Len(b) \in Nat /\ HeadEnd(r) \in Nat
  <2>1. n \in Nat /\ r.crlf \in BOOLEAN /\ HeadEnd(r) \in Nat
    BY RequestTypes
  <2>2. LineEnd(r) \in Nat \ {0} /\ At(r, 1) = s
    BY AtSteps
  <2> QED BY <2>1, <2>2 DEF Holds
<1>2. ASSUME p \in LineStarts(b, s) PROVE p <= Len(b) + 1 /\ \E i \in 1..(n + 1) : p = At(r, i)
  <2>1. p \in s..(Len(b) + 1) /\ (p = s \/ b[p - 1] = LF)
    BY <1>2 DEF LineStarts
  <2>2. CASE p = s
    BY <1>1, <2>1, <2>2
  <2>3. CASE p # s
    <3>1. b[p - 1] = LF /\ p - 1 >= s /\ p - 1 <= Len(b) /\ p - 1 \in Int
      BY <1>1, <2>1, <2>3
    <3>2. PICK i \in Nat : i # 0 /\ At(r, i) <= p - 1 /\ p - 1 < At(r, i + 1)
      <4>1. CASE r.crlf
        <5> DEFINE i == (p - 1 - s) \div 3 + 1
        <5>1. i \in Nat /\ i # 0 /\ 3 * (i - 1) <= p - 1 - s /\ p - 1 - s < 3 * i
          <6>1. p - 1 - s \in Nat
            BY <1>1, <3>1
          <6>2. ASSUME NEW d \in Nat
                PROVE  /\ d \div 3 + 1 \in Nat /\ d \div 3 + 1 # 0
                       /\ 3 * (d \div 3 + 1 - 1) <= d /\ d < 3 * (d \div 3 + 1)
            OBVIOUS
          <6> QED BY <6>1, <6>2
        <5>2. At(r, i) = s + 3 * (i - 1) /\ At(r, i + 1) = s + 3 * i
          <6> HIDE DEF i
          <6> QED BY <1>1, <4>1, <5>1 DEF At
        <5> HIDE DEF i
        <5>3. At(r, i) <= p - 1 /\ p - 1 < At(r, i + 1)
          BY <1>1, <3>1, <5>1, <5>2
        <5> QED BY <5>1, <5>3
      <4>2. CASE ~r.crlf
        <5> DEFINE i == (p - 1 - s) \div 2 + 1
        <5>1. i \in Nat /\ i # 0 /\ 2 * (i - 1) <= p - 1 - s /\ p - 1 - s < 2 * i
          <6>1. p - 1 - s \in Nat
            BY <1>1, <3>1
          <6>2. ASSUME NEW d \in Nat
                PROVE  /\ d \div 2 + 1 \in Nat /\ d \div 2 + 1 # 0
                       /\ 2 * (d \div 2 + 1 - 1) <= d /\ d < 2 * (d \div 2 + 1)
            OBVIOUS
          <6> QED BY <6>1, <6>2
        <5>2. At(r, i) = s + 2 * (i - 1) /\ At(r, i + 1) = s + 2 * i
          <6> HIDE DEF i
          <6> QED BY <1>1, <4>2, <5>1 DEF At
        <5> HIDE DEF i
        <5>3. At(r, i) <= p - 1 /\ p - 1 < At(r, i + 1)
          BY <1>1, <3>1, <5>1, <5>2
        <5> QED BY <5>1, <5>3
      <4> QED BY <4>1, <4>2
    <3>3. i <= n
      <4> SUFFICES ASSUME i > n PROVE FALSE
        BY <1>1
      <4>1. At(r, n + 1) <= At(r, i)
        BY <1>1, AtSteps
      <4>2. At(r, i) \in Int /\ At(r, n + 1) \in Int
        BY <1>1, AtSteps
      <4> QED BY <3>1, <3>2, <4>1, <4>2
    <3>4. At(r, i) \in Int /\ At(r, i + 1) = At(r, i) + (IF r.crlf THEN 3 ELSE 2)
      BY AtSteps
    <3>5. i \in 1..n /\ r.headers[i] # LF /\ CR # LF
      <4>1. i \in 1..n
        BY <1>1, <3>2, <3>3
      <4> QED BY <4>1, RequestTypes, CellTypes
    <3>6. p - 1 = At(r, i) \/ (r.crlf /\ p - 1 = At(r, i) + 1) \/ p = At(r, i + 1)
      BY <1>1, <3>1, <3>2, <3>4
    <3>7. p - 1 # At(r, i)
      BY <3>1, <3>5, HeldLines
    <3>8. ~(r.crlf /\ p - 1 = At(r, i) + 1)
      BY <3>1, <3>5, HeldLines
    <3>9. i + 1 \in 1..(n + 1)
      BY <1>1, <3>5
    <3> QED BY <2>1, <3>6, <3>7, <3>8, <3>9, <1>1
  <2> QED BY <2>2, <2>3
<1>3. ASSUME p <= Len(b) + 1, NEW i \in 1..(n + 1), p = At(r, i)
      PROVE  p \in LineStarts(b, s)
  <2>1. CASE i = 1
    BY <1>1, <1>3, <2>1 DEF LineStarts
  <2>2. CASE i # 1
    <3>1. i - 1 \in 1..n /\ i - 1 + 1 = i /\ i \in Nat /\ 1 < i
      BY <1>1, <2>2
    <3>2. At(r, i) - 1 <= Len(b) => b[At(r, i) - 1] = LF
      BY <3>1, HeldLines
    <3>3. b[p - 1] = LF
      BY <1>1, <1>3, <3>2
    <3>4. p >= s
      <4>1. At(r, 1) <= At(r, i) 
        <5>1. At(r, i) >= LineEnd(r) + i
          BY <3>1, AtSteps
        <5> QED BY <1>1, <1>3, <3>1, <5>1
      <4> QED BY <1>1, <1>3, <4>1
    <3> QED BY <1>1, <1>3, <3>3, <3>4 DEF LineStarts
  <2> QED BY <2>1, <2>2
<1> QED BY <1>2, <1>3

(* The size of a head and of a request. *)
LEMMA Sizes ==
    ASSUME NEW r \in Requests
    PROVE  HeadSize(r) = HeadEnd(r) /\ Len(Wire(r)) = HeadEnd(r) + r.body
<1>1. WireOf(r, Wire(r))
  BY WireCells
<1>2. Len(Wire(r)) = HeadEnd(r) + r.body /\ HeadEnd(r) \in Nat /\ r.body \in Nat
  BY <1>1, RequestTypes DEF WireOf
<1> QED BY <1>2 DEF HeadSize, Size

(* The header lines before the i-th. *)
Earlier(r, i) == {At(r, j) : j \in 1..(i - 1)}

(* There are i - 1 lines before the i-th. *)
LEMMA EarlierCount ==
    ASSUME NEW r \in Requests, NEW i \in Nat \ {0}
    PROVE  Cardinality(Earlier(r, i)) = i - 1
<1> DEFINE f == [j \in 1..(i - 1) |-> At(r, j)]
<1>1. \A j, k \in 1..(i - 1) : At(r, j) = At(r, k) => j = k
  BY AtSteps
<1>2. f \in Bijection(1..(i - 1), Earlier(r, i))
  BY <1>1 DEF Bijection, Injection, Surjection, Earlier, IsInjective
<1>3. IsFiniteSet(1..(i - 1)) /\ Cardinality(1..(i - 1)) = i - 1
  <2>1. 1 \in Int /\ i - 1 \in Int /\ i - 1 >= 0
    OBVIOUS
  <2> QED BY <2>1, FS_Interval
<1>4. ExistsBijection(1..(i - 1), Earlier(r, i))
  BY <1>2 DEF ExistsBijection
<1> QED BY <1>3, <1>4, FS_Bijection

(* They are the line starts before the start of the i-th. *)
LEMMA EarlierStarts ==
    ASSUME NEW r \in Requests, NEW b, Holds(r, b), LineEnd(r) <= Len(b),
           NEW i \in 1..(Lines(r) + 1), At(r, i) <= Len(b) + 1
    PROVE  /\ {q \in LineStarts(b, LineEnd(r) + 1) : q < At(r, i)} = Earlier(r, i)
           /\ At(r, i) \in LineStarts(b, LineEnd(r) + 1)
<1>1. /\ Lines(r) \in Nat /\ Len(b) \in Nat /\ LineEnd(r) \in Nat /\ i \in Nat
      /\ \A j \in Nat : At(r, j) \in Int
  <2>1. Lines(r) \in Nat /\ LineEnd(r) \in Nat
    BY RequestTypes
  <2>2. \A j \in Nat : At(r, j) \in Int
    BY AtSteps
  <2> QED BY <2>1, <2>2 DEF Holds
<1>2. At(r, i) <= At(r, Lines(r) + 1)
  <2>1. CASE i = Lines(r) + 1
    BY <1>1, <2>1
  <2>2. CASE i < Lines(r) + 1
    <3>1. At(r, i + 1) <= At(r, Lines(r) + 1) /\ At(r, i + 1) = At(r, i) + (IF r.crlf THEN 3 ELSE 2)
      BY <1>1, <2>2, AtSteps
    <3>2. At(r, i) \in Int /\ At(r, i + 1) \in Int /\ At(r, Lines(r) + 1) \in Int
      BY <1>1
    <3> QED BY <3>1, <3>2
  <2> QED BY <1>1, <2>1, <2>2
<1>3. ASSUME NEW q \in LineStarts(b, LineEnd(r) + 1), q < At(r, i) PROVE q \in Earlier(r, i)
  <2>1. q \in Int /\ q <= At(r, Lines(r) + 1)
    BY <1>1, <1>2, <1>3 DEF LineStarts
  <2>2. PICK j \in 1..(Lines(r) + 1) : q = At(r, j)
    BY <1>3, <2>1, StartsFound
  <2>3. j < i
    <3> SUFFICES ASSUME ~(j < i) PROVE FALSE
      OBVIOUS
    <3>1. j = i \/ i < j
      BY <1>1
    <3>2. CASE i < j
      <4>1. At(r, i + 1) <= At(r, j) /\ At(r, i + 1) = At(r, i) + (IF r.crlf THEN 3 ELSE 2)
        BY <1>1, <3>2, AtSteps
      <4>2. At(r, i) \in Int /\ At(r, i + 1) \in Int /\ At(r, j) \in Int
        BY <1>1
      <4> QED BY <1>3, <2>2, <4>1, <4>2
    <3> QED BY <1>1, <1>3, <2>2, <3>1, <3>2
  <2> QED BY <1>1, <2>2, <2>3 DEF Earlier
<1>4. ASSUME NEW j \in 1..(i - 1)
      PROVE  At(r, j) \in LineStarts(b, LineEnd(r) + 1) /\ At(r, j) < At(r, i)
  <2>1. j \in Nat /\ j < i /\ j \in 1..(Lines(r) + 1)
    BY <1>1
  <2>2. At(r, j + 1) <= At(r, i) /\ At(r, j + 1) = At(r, j) + (IF r.crlf THEN 3 ELSE 2)
    BY <1>1, <2>1, AtSteps
  <2>3. At(r, i) \in Int /\ At(r, j + 1) \in Int /\ At(r, j) \in Int
    BY <1>1, <2>1
  <2>4. At(r, j) < At(r, i)
    BY <2>2, <2>3
  <2>5. At(r, j) <= Len(b) + 1 /\ At(r, j) <= At(r, Lines(r) + 1)
    <3>1. At(r, Lines(r) + 1) \in Int
      BY <1>1
    <3> QED BY <1>1, <1>2, <2>3, <2>4, <3>1
  <2> QED BY <2>1, <2>3, <2>4, <2>5, StartsFound
<1>5. At(r, i) \in LineStarts(b, LineEnd(r) + 1)
  BY <1>1, <1>2, StartsFound
<1>6. ASSUME NEW q \in Earlier(r, i) PROVE q \in LineStarts(b, LineEnd(r) + 1) /\ q < At(r, i)
  BY <1>4, <1>6 DEF Earlier
<1> QED BY <1>3, <1>5, <1>6

(* What the parser finds at the i-th header line, or at the blank line. *)
Verdict(r, b, i) == HeaderLine(b, LineEnd(r) + 1, Earlier(r, i), At(r, i))
Accepted(r, i) ==
    LET h == r.headers[i]
    IN  /\ h.k \notin {"fold", "bad"} /\ (h.k \in {"cl", "te"} => h.v >= 0)
        /\ h.k = "cl" => \A j \in 1..(i - 1) : r.headers[j].k # "cl"

(* The buffer holds their first cells. *)
LEMMA EarlierCells ==
    ASSUME NEW r \in Requests, NEW b, Holds(r, b), NEW i \in 1..(Lines(r) + 1),
           At(r, i) <= Len(b) + 1
    PROVE  /\ \A j \in 1..(i - 1) : At(r, j) \in Earlier(r, i) /\ b[At(r, j)] = r.headers[j]
           /\ \A q \in Earlier(r, i) : \E j \in 1..(i - 1) : q = At(r, j) /\ b[q] = r.headers[j]
<1>1. Lines(r) \in Nat /\ Len(b) \in Nat
  BY RequestTypes DEF Holds
<1>2. ASSUME NEW j \in 1..(i - 1) PROVE b[At(r, j)] = r.headers[j]
  <2>1. j \in 1..Lines(r) /\ j \in Nat /\ i \in Nat /\ j < i
    BY <1>1
  <2>2. /\ At(r, j) \in Int /\ At(r, i) \in Int
        /\ At(r, j + 1) <= At(r, i) /\ At(r, j + 1) = At(r, j) + (IF r.crlf THEN 3 ELSE 2)
    BY <2>1, AtSteps
  <2>3. At(r, j) <= Len(b)
    BY <1>1, <2>2
  <2> QED BY <2>1, <2>3, HeldLines
<1> QED BY <1>2 DEF Earlier

(* A single Content-Length of an accepted request is its body. *)
LEMMA Declares ==
    ASSUME NEW r \in Requests, NEW i \in 1..Lines(r), ~Accepted(r, i)
    PROVE  Bad(r)
<1> DEFINE h == r.headers[i]
<1>1. i \in DOMAIN r.headers /\ h \in HeaderCells /\ r.body \in Nat /\ DOMAIN r.headers = 1..Lines(r)
  BY RequestTypes
<1>2. CASE h.k \in {"fold", "bad"}
  BY <1>1, <1>2 DEF Bad
<1>3. CASE h.k \in {"cl", "te"} /\ ~(h.v >= 0)
  <2>1. i \in Framing(r)
    BY <1>1, <1>3 DEF Framing
  <2>2. h # Cell("cl", r.body)
    BY <1>1, <1>3 DEF Cell
  <2> QED BY <2>1, <2>2 DEF Bad
<1>4. ASSUME h.k = "cl", NEW j \in 1..(i - 1), r.headers[j].k = "cl" PROVE Bad(r)
  <2>0. j \in 1..Lines(r) /\ i # j
    BY RequestTypes
  <2>1. i \in Framing(r) /\ j \in Framing(r) /\ i # j
    BY <1>1, <1>4, <2>0 DEF Framing
  <2> QED BY <2>1 DEF Bad
<1> QED BY <1>2, <1>3, <1>4 DEF Accepted

(* What the parser makes of the blank line after the headers. *)
LEMMA BlankVerdict ==
    ASSUME NEW r \in Requests, NEW b, Holds(r, b), LineEnd(r) <= Len(b),
           At(r, Lines(r) + 1) <= Len(b) + 1
    PROVE  LET v == Verdict(r, b, Lines(r) + 1)
           IN  /\ v \in {"431", "400", "incomplete", "complete"}
               /\ v \in {"431", "400"} => ~Good(r)
               /\ v = "incomplete" => Len(b) < HeadEnd(r)
               /\ v = "complete" => HeadEnd(r) <= Len(b)
<1> DEFINE n == Lines(r)
           p == At(r, n + 1)
           E == Earlier(r, n + 1)
           s == LineEnd(r) + 1
           has(k) == \E q \in E : b[q].k = k
           v == Verdict(r, b, n + 1)
<1>1. /\ n \in Nat /\ Len(b) \in Nat /\ LineEnd(r) \in Nat /\ HeadEnd(r) \in Nat /\ r.crlf \in BOOLEAN
      /\ p = (IF r.crlf THEN HeadEnd(r) - 1 ELSE HeadEnd(r)) /\ DOMAIN r.headers = 1..n
      /\ MaxHeaderBytes \in Nat
  <2>1. /\ n \in Nat /\ LineEnd(r) \in Nat /\ HeadEnd(r) \in Nat /\ r.crlf \in BOOLEAN
        /\ DOMAIN r.headers = 1..n
    BY RequestTypes
  <2>2. p = (IF r.crlf THEN HeadEnd(r) - 1 ELSE HeadEnd(r))
    BY <2>1, AtSteps
  <2> QED BY <2>1, <2>2, HttpConstants DEF Holds
<1>2. CR # LF /\ (p <= Len(b) => IF r.crlf THEN b[p] = CR ELSE b[p] = LF)
      /\ (r.crlf /\ p + 1 <= Len(b) => b[p + 1] = LF)
  BY <1>1, HeldLines, CellTypes
<1>3. has("cl") /\ has("te") => Bad(r)
  <2> SUFFICES ASSUME has("cl"), has("te") PROVE Bad(r)
    OBVIOUS
  <2>1. n + 1 \in 1..(Lines(r) + 1) /\ n + 1 - 1 = n
    BY <1>1
  <2>3. PICK j \in 1..n : r.headers[j].k = "te"
    <3> DEFINE i == n + 1
    <3>1. i \in 1..(Lines(r) + 1) /\ At(r, i) <= Len(b) + 1 /\ \E q \in Earlier(r, i) : b[q].k = "te"
      BY <2>1
    <3>2. \A j \in 1..(i - 1) : j \in 1..n
      BY <1>1
    <3> HIDE DEF i, n
    <3>3. \A q \in Earlier(r, i) : \E j \in 1..(i - 1) : q = At(r, j) /\ b[q] = r.headers[j]
      BY <3>1, EarlierCells
    <3> QED BY <3>1, <3>2, <3>3
  <2>4. j \in Framing(r) /\ r.headers[j] # Cell("cl", r.body)
    BY <1>1, <2>3 DEF Framing, Cell
  <2> QED BY <2>4 DEF Bad
<1> HIDE DEF p, n, E
<1>4. v = IF p - s > MaxHeaderBytes THEN "431"
          ELSE IF p > Len(b) THEN "incomplete"
          ELSE IF b[p] = CR THEN IF p = Len(b) THEN "incomplete"
                                 ELSE IF b[p + 1] = LF
                                      THEN IF has("cl") /\ has("te") THEN "400" ELSE "complete" ELSE "400"
          ELSE IF has("cl") /\ has("te") THEN "400" ELSE "complete"
  <2>1. ~(p > Len(b)) /\ b[p] # CR => b[p] = LF
    BY <1>1, <1>2 DEF p
  <2> QED BY <2>1 DEF Verdict, HeaderLine, p, E, n
<1> HIDE DEF v
<1>5. CASE p - s > MaxHeaderBytes
  <2>1. v = "431" /\ HeadEnd(r) > MaxHeaderBytes
    BY <1>1, <1>4, <1>5
  <2>2. ~Good(r)
    BY <1>1, <2>1, Sizes DEF Good
  <2> QED BY <2>1, <2>2 DEF v, n
<1>6. CASE ~(p - s > MaxHeaderBytes) /\ has("cl") /\ has("te")
  <2>1. v \in {"400", "incomplete"} /\ (v = "incomplete" => Len(b) < HeadEnd(r))
    BY <1>1, <1>2, <1>4, <1>6
  <2>2. ~Good(r)
    BY <1>3, <1>6 DEF Good
  <2> QED BY <2>1, <2>2 DEF v, n
<1>7. CASE ~(p - s > MaxHeaderBytes) /\ ~(has("cl") /\ has("te"))
  <2>1. /\ v \in {"complete", "incomplete"}
        /\ v = "incomplete" => Len(b) < HeadEnd(r)
        /\ v = "complete" => HeadEnd(r) <= Len(b)
    BY <1>1, <1>2, <1>4, <1>7
  <2> QED BY <2>1 DEF v, n
<1> QED BY <1>5, <1>6, <1>7

(* What the parser makes of the i-th header line. *)
LEMMA HeaderVerdict ==
    ASSUME NEW r \in Requests, NEW b, Holds(r, b), LineEnd(r) <= Len(b),
           NEW i \in 1..Lines(r), At(r, i) <= Len(b) + 1
    PROVE  LET v == Verdict(r, b, i)
           IN  /\ v \in {"431", "400", "incomplete", "more"}
               /\ v \in {"431", "400"} => ~Good(r)
               /\ v = "incomplete" => Len(b) < HeadEnd(r)
               /\ v = "more" => Accepted(r, i) /\ i <= MaxHeaders /\ At(r, i + 1) <= Len(b) + 1
<1> DEFINE n == Lines(r)
           p == At(r, i)
           e == At(r, i + 1)
           E == Earlier(r, i)
           s == LineEnd(r) + 1
           h == r.headers[i]
           v == Verdict(r, b, i)
<1>1. /\ n \in Nat /\ Len(b) \in Nat /\ LineEnd(r) \in Nat /\ HeadEnd(r) \in Nat /\ r.crlf \in BOOLEAN
      /\ h \in HeaderCells /\ DOMAIN r.headers = 1..n
      /\ MaxHeaderBytes \in Nat /\ MaxHeaders \in Nat /\ i \in Nat
  <2>1. /\ n \in Nat /\ LineEnd(r) \in Nat /\ HeadEnd(r) \in Nat /\ r.crlf \in BOOLEAN
        /\ h \in HeaderCells /\ DOMAIN r.headers = 1..n
    BY RequestTypes
  <2> QED BY <2>1, HttpConstants DEF Holds
<1>2. p \in Int /\ e \in Int /\ p < e /\ e <= HeadEnd(r)
  <2>1. i \in Nat /\ i < n + 1 /\ n + 1 \in Nat
    BY <1>1
  <2>2. /\ At(r, i) \in Int /\ At(r, i + 1) = At(r, i) + (IF r.crlf THEN 3 ELSE 2)
        /\ At(r, i + 1) <= At(r, n + 1)
        /\ At(r, n + 1) = (IF r.crlf THEN HeadEnd(r) - 1 ELSE HeadEnd(r))
    BY <2>1, AtSteps
  <2> QED BY <1>1, <2>2
<1>3. h # CR /\ h # LF /\ (p <= Len(b) => b[p] = h)
  BY <1>1, HeldLines, CellTypes
<1>4. findEOL(b, p).next = IF e - 1 <= Len(b) THEN e ELSE 0
  BY HeaderEol
<1>5. Cardinality(E) = i - 1
  BY <1>1, EarlierCount
<1>6. p <= Len(b) /\ parseHeader(b, E, p) => Accepted(r, i) \/ h.k = "fold"
  <2> SUFFICES ASSUME p <= Len(b), parseHeader(b, E, p), h.k # "fold" PROVE Accepted(r, i)
    OBVIOUS
  <2>1. /\ h.k # "bad" /\ ~(h.k \in {"cl", "te"} /\ h.v < 0)
        /\ ~(h.k = "cl" /\ \E q \in E : b[q].k = "cl")
    BY <1>3 DEF parseHeader
  <2>2. i \in 1..(Lines(r) + 1)
    BY <1>1
  <2>3. (\E q \in E : b[q].k = "cl") <=> \E j \in 1..(i - 1) : r.headers[j].k = "cl"
    BY <2>2, EarlierCells
  <2>4. h.v \in Int
    BY <1>1 DEF HeaderCells
  <2> HIDE DEF E
  <2> QED BY <2>1, <2>3, <2>4 DEF Accepted
<1>7. p <= Len(b) /\ ~parseHeader(b, E, p) => ~Good(r)
  <2> SUFFICES ASSUME p <= Len(b), ~parseHeader(b, E, p) PROVE ~Accepted(r, i)
    BY Declares DEF Good
  <2>1. \/ h.k = "bad" \/ (h.k \in {"cl", "te"} /\ h.v < 0)
        \/ (h.k = "cl" /\ \E q \in E : b[q].k = "cl")
    BY <1>3 DEF parseHeader
  <2>2. i \in 1..(Lines(r) + 1)
    BY <1>1
  <2>3. (\E q \in E : b[q].k = "cl") <=> \E j \in 1..(i - 1) : r.headers[j].k = "cl"
    BY <2>2, EarlierCells
  <2>4. h.v \in Int
    BY <1>1 DEF HeaderCells
  <2> HIDE DEF E
  <2> QED BY <2>1, <2>3, <2>4 DEF Accepted
<1>8. h.k = "fold" => ~Good(r)
  BY Declares DEF Good, Accepted
<1>9. i - 1 >= MaxHeaders => ~Good(r)
  <2>1. Len(r.headers) = n
    BY DEF Lines
  <2> QED BY <1>1, <2>1 DEF Good, Bad
<1>10. p - s > MaxHeaderBytes => ~Good(r)
  <2>1. HeadSize(r) = HeadEnd(r)
    BY Sizes
  <2>2. p - s > MaxHeaderBytes => HeadEnd(r) > MaxHeaderBytes
    BY <1>1, <1>2
  <2> QED BY <1>1, <2>1, <2>2 DEF Good
<1> DEFINE c == IF Cardinality(E) >= MaxHeaders THEN "431"
                ELSE IF parseHeader(b, E, p) THEN "more" ELSE "400"
           u == IF h.k = "fold" THEN "400" ELSE IF e - 1 > Len(b) THEN "incomplete" ELSE c
<1>11. v = IF p - s > MaxHeaderBytes THEN "431" ELSE IF p > Len(b) THEN "incomplete" ELSE u
  <2>0. e # 0
    <3>0. i \in Nat /\ i # 0
      BY <1>1
    <3>1. At(r, i) >= LineEnd(r) + i
      BY <3>0, AtSteps
    <3> QED BY <1>1, <1>2, <3>0, <3>1
  <2>1. ~(p > Len(b)) => b[p] = h /\ b[p] # CR /\ b[p] # LF
    BY <1>1, <1>2, <1>3
  <2>2. findEOL(b, p).next = 0 <=> e - 1 > Len(b)
    BY <1>1, <1>2, <1>4, <2>0
  <2> HIDE DEF p, e, E, h
  <2>3. v = HeaderLine(b, s, E, p)
    BY DEF v, Verdict, p, E
  <2> HIDE DEF s, v
  <2> QED BY <2>1, <2>2, <2>3 DEF HeaderLine
<1> HIDE DEF p, e, E, h, s, n, v
<1>12. CASE p - s > MaxHeaderBytes
  BY <1>10, <1>11, <1>12 DEF v
<1>13. CASE ~(p - s > MaxHeaderBytes) /\ p > Len(b)
  <2>1. v = "incomplete" /\ Len(b) < HeadEnd(r)
    BY <1>1, <1>2, <1>11, <1>13
  <2> QED BY <2>1 DEF v
<1>14. CASE ~(p - s > MaxHeaderBytes) /\ ~(p > Len(b))
  <2>1. v = u /\ p <= Len(b)
    BY <1>1, <1>2, <1>11, <1>14
  <2>2. CASE h.k = "fold"
    BY <1>8, <2>1, <2>2 DEF v
  <2>3. CASE h.k # "fold" /\ e - 1 > Len(b)
    <3>1. v = "incomplete" /\ Len(b) < HeadEnd(r)
      BY <1>1, <1>2, <2>1, <2>3
    <3> QED BY <3>1 DEF v
  <2>4. CASE h.k # "fold" /\ ~(e - 1 > Len(b))
    <3>1. v = c /\ e <= Len(b) + 1
      BY <1>1, <1>2, <2>1, <2>4
    <3>2. CASE i - 1 >= MaxHeaders
      BY <1>5, <1>9, <3>1, <3>2 DEF v
    <3>3. CASE ~(i - 1 >= MaxHeaders) /\ parseHeader(b, E, p)
      <4>1. v = "more" /\ Accepted(r, i) /\ i <= MaxHeaders
        BY <1>1, <1>5, <1>6, <2>1, <2>4, <3>1, <3>3
      <4> QED BY <3>1, <4>1 DEF v, e
    <3>4. CASE ~(i - 1 >= MaxHeaders) /\ ~parseHeader(b, E, p)
      BY <1>5, <1>7, <2>1, <3>1, <3>4 DEF v
    <3> QED BY <3>2, <3>3, <3>4
  <2> QED BY <2>2, <2>3, <2>4
<1> QED BY <1>12, <1>13, <1>14

(* Where the header loop of Parse ends. *)
StartsBefore(b, start, p) == {q \in LineStarts(b, start) : q < p}
LastLine(b, start) ==
    Min({p \in LineStarts(b, start) : HeaderLine(b, start, StartsBefore(b, start, p), p) # "more"})
Having(b, start, k) == {q \in StartsBefore(b, start, LastLine(b, start)) : b[q].k = k}

(* Parse when the request line is held and good. *)
LEMMA ParseUnfold ==
    ASSUME NEW b, NEW start, start = findEOL(b, 1).next, start # 0,
           findEOL(b, 1).eol - 1 <= MaxRequestLine, findEOL(b, 1).eol \in Int,
           b[1].k = "line", b[1].v # "bad"
    PROVE  LET last == LastLine(b, start)
               having(k) == Having(b, start, k)
               connection == having("connection")
           IN  Parse(b) = [at |-> HeaderLine(b, start, StartsBefore(b, start, last), last),
              line |-> b[1].v,
              keep |-> IF connection = {} THEN b[1].v # "get10" ELSE b[Max(connection)].v = 1,
              cl |-> IF having("te") # {} THEN -2
                     ELSE IF having("cl") = {} THEN -1 ELSE b[Max(having("cl"))].v,
              end |-> IF last <= Len(b) /\ b[last] = CR THEN last + 1 ELSE last]
<1>1. MaxRequestLine \in Nat
  BY HttpConstants
<1>2. ~(findEOL(b, 1).eol - 1 > MaxRequestLine)
  BY <1>1
<1> HIDE DEF findEOL, HeaderLine, Blank
<1> QED BY <1>2 DEF Parse, LastLine, Having, StartsBefore, LineStarts

(* Parse when the request line is not held in full. *)
LEMMA ParseNoLine ==
    ASSUME NEW b, findEOL(b, 1).next = 0
    PROVE  Parse(b).at = IF Len(b) > MaxRequestLine THEN "414" ELSE "incomplete"
  BY DEF Parse, Blank

(* Parse when the request line is too long. *)
LEMMA ParseLongLine ==
    ASSUME NEW b, findEOL(b, 1).next # 0, findEOL(b, 1).eol - 1 > MaxRequestLine
    PROVE  Parse(b).at = "414"
  BY DEF Parse, Blank

(* Parse when the request line is malformed. *)
LEMMA ParseBadLine ==
    ASSUME NEW b, findEOL(b, 1).next # 0, ~(findEOL(b, 1).eol - 1 > MaxRequestLine),
           b[1].k # "line" \/ b[1].v = "bad"
    PROVE  Parse(b).at = "400"
  BY DEF Parse, Blank

(* The loop ends at a line of the head, and accepted the ones before it. *)
LEMMA LoopEnds ==
    ASSUME NEW r \in Requests, NEW b, Holds(r, b), LineEnd(r) <= Len(b)
    PROVE  \E i \in 1..(Lines(r) + 1) :
              /\ LastLine(b, LineEnd(r) + 1) = At(r, i) /\ At(r, i) <= Len(b) + 1
              /\ Verdict(r, b, i) # "more"
              /\ \A j \in 1..(i - 1) : Verdict(r, b, j) = "more" /\ At(r, j) <= Len(b) + 1
<1> DEFINE n == Lines(r)
           s == LineEnd(r) + 1
           Here(i) == At(r, i) <= Len(b) + 1
           B == {i \in Nat : i \in 1..(n + 1) /\ Here(i) /\ Verdict(r, b, i) # "more"}
           C == {i \in Nat : i \in 1..(n + 1) /\ ~Here(i)}
<1>1. n \in Nat /\ Len(b) \in Nat /\ LineEnd(r) \in Nat /\ Here(1)
  <2>1. n \in Nat /\ LineEnd(r) \in Nat
    BY RequestTypes
  <2>2. At(r, 1) = LineEnd(r) + 1
    BY AtSteps
  <2> QED BY <2>1, <2>2 DEF Holds
<1> HIDE DEF n, Here
<1>2. ASSUME NEW i \in 1..n, Here(i), Verdict(r, b, i) = "more" PROVE Here(i + 1)
  BY <1>2, HeaderVerdict DEF Here, n
<1>3. Here(n + 1) => Verdict(r, b, n + 1) # "more"
  BY BlankVerdict DEF Here, n
<1>4. B # {}
  <2> SUFFICES ASSUME B = {} PROVE FALSE
    OBVIOUS
  <2>1. C = {}
    <3> SUFFICES ASSUME C # {} PROVE FALSE
      OBVIOUS
    <3>1. PICK i \in C : \A m \in C : i <= m
      <4>1. C \in SUBSET Nat
        OBVIOUS
      <4> HIDE DEF C
      <4> QED BY <4>1, LeastNat
    <3>2. i \in 1..(n + 1) /\ ~Here(i)
      BY <3>1
    <3>3. i - 1 \in 1..n /\ i - 1 \in Nat /\ i - 1 + 1 = i
      BY <1>1, <3>2
    <3>4. i - 1 \notin C
      <4> HIDE DEF C
      <4> QED BY <3>1, <3>2, <3>3
    <3>5. Here(i - 1) /\ i - 1 \in 1..(n + 1)
      BY <1>1, <3>3, <3>4
    <3>6. Verdict(r, b, i - 1) = "more"
      BY <3>3, <3>5
    <3> QED BY <1>2, <3>2, <3>3, <3>5, <3>6
  <2>2. n + 1 \in Nat /\ n + 1 \in 1..(n + 1)
    BY <1>1
  <2>3. Here(n + 1)
    BY <2>1, <2>2
  <2> QED BY <1>3, <2>2, <2>3
<1>5. PICK i \in B : \A m \in B : i <= m
  <2>1. B \in SUBSET Nat
    OBVIOUS
  <2> HIDE DEF B
  <2> QED BY <1>4, <2>1, LeastNat
<1>6. i \in Nat /\ i \in 1..(n + 1) /\ Here(i) /\ Verdict(r, b, i) # "more"
  BY <1>5
<1>7. ASSUME NEW j \in 1..(i - 1) PROVE At(r, j) < At(r, i) /\ Here(j) /\ Verdict(r, b, j) = "more"
  <2>1. j \in Nat /\ j < i /\ j \in 1..(n + 1) /\ i \in Nat
    BY <1>1, <1>6
  <2>2. At(r, j + 1) <= At(r, i) /\ At(r, j + 1) = At(r, j) + (IF r.crlf THEN 3 ELSE 2)
        /\ At(r, i) \in Int /\ At(r, j) \in Int
    BY <2>1, AtSteps
  <2>3. At(r, j) < At(r, i)
    BY <2>2
  <2>4. Here(j)
    BY <1>1, <1>6, <2>2, <2>3 DEF Here
  <2>5. j \notin B
    <3> HIDE DEF B
    <3> QED BY <1>5, <1>6, <2>1
  <2> QED BY <2>1, <2>3, <2>4, <2>5
<1> DEFINE S == {p \in LineStarts(b, s) : HeaderLine(b, s, StartsBefore(b, s, p), p) # "more"}
<1>8. ASSUME NEW j \in 1..(n + 1), Here(j)
      PROVE  /\ At(r, j) \in LineStarts(b, s) /\ At(r, j) \in Int
             /\ HeaderLine(b, s, StartsBefore(b, s, At(r, j)), At(r, j)) = Verdict(r, b, j)
  <2>1. StartsBefore(b, s, At(r, j)) = Earlier(r, j) /\ At(r, j) \in LineStarts(b, s)
    BY <1>8, EarlierStarts DEF StartsBefore, Here, n
  <2>2. At(r, j) \in Int
    BY AtSteps
  <2> QED BY <2>1, <2>2 DEF Verdict
<1>9. At(r, i) \in S
  BY <1>6, <1>8
<1>10. ASSUME NEW p \in S PROVE At(r, i) <= p
  <2>1. p \in LineStarts(b, s) /\ p \in Int /\ p <= Len(b) + 1
    BY <1>1 DEF LineStarts
  <2>2. At(r, i) \in Int /\ At(r, n + 1) \in Int
    BY <1>1, <1>6, AtSteps
  <2> SUFFICES ASSUME p < At(r, i) PROVE FALSE
    BY <2>1, <2>2
  <2>3. p \in Earlier(r, i)
    <3>1. p \in StartsBefore(b, s, At(r, i))
      BY <2>1 DEF StartsBefore
    <3> QED BY <1>6, <3>1, EarlierStarts DEF StartsBefore, Here, n
  <2>4. PICK j \in 1..(i - 1) : p = At(r, j)
    BY <2>3 DEF Earlier
  <2>5. j \in 1..(n + 1)
    BY <1>1, <1>6
  <2> HIDE DEF s
  <2>6. HeaderLine(b, s, StartsBefore(b, s, p), p) = "more"
    BY <1>7, <1>8, <2>4, <2>5
  <2> QED BY <2>6
<1>11. Min(S) = At(r, i)
  <2> DEFINE m == Min(S)
  <2>1. m \in S /\ \A y \in S : m <= y
    BY <1>9, <1>10 DEF Min
  <2>2. m \in Int /\ At(r, i) \in Int
    <3>1. \A p \in S : p \in Int
      BY DEF LineStarts
    <3> HIDE DEF S, m
    <3> QED BY <1>9, <2>1, <3>1
  <2> HIDE DEF m, S
  <2>3. m <= At(r, i) /\ At(r, i) <= m
    BY <1>9, <1>10, <2>1
  <2>4. m = At(r, i)
    BY <2>2, <2>3
  <2> QED BY <2>4 DEF m
<1>12. LastLine(b, s) = At(r, i)
  BY <1>11 DEF LastLine
<1> QED BY <1>6, <1>7, <1>12 DEF Here, n

(* The Content-Length of a request whose header lines were all accepted.     *)
LEMMA BodyDeclared ==
    ASSUME NEW r \in Requests, Declared(r), \A j \in 1..Lines(r) : Accepted(r, j),
           \A j \in 1..Lines(r) : r.headers[j].k # "te"
    PROVE  \/ r.body = 0 /\ Framing(r) = {}
           \/ \E j \in 1..Lines(r) : Framing(r) = {j} /\ r.headers[j] = Cell("cl", r.body)
<1>1. DOMAIN r.headers = 1..Lines(r) /\ \A j \in 1..Lines(r) : r.headers[j] \in HeaderCells
  BY RequestTypes
<1>2. CASE Framing(r) = {}
  BY <1>2 DEF Declared
<1>3. CASE Framing(r) # {}
  <2>1. PICK j \in Framing(r) : TRUE
    BY <1>3
  <2>2. j \in 1..Lines(r) /\ r.headers[j].k = "cl" /\ r.headers[j].v >= 0
    BY <1>1, <2>1 DEF Framing, Accepted
  <2>3. ASSUME NEW i \in Framing(r), i # j PROVE FALSE
    <3>1. i \in 1..Lines(r) /\ r.headers[i].k = "cl"
      BY <1>1 DEF Framing
    <3>2. Lines(r) \in Nat
      BY RequestTypes
    <3>3. i \in 1..(j - 1) \/ j \in 1..(i - 1)
      BY <2>2, <2>3, <3>1, <3>2
    <3> QED BY <2>2, <3>1, <3>3 DEF Accepted
  <2>4. Framing(r) = {j}
    BY <2>1, <2>3
  <2>5. r.headers[j].v = r.body
    BY <1>1, <2>2, <2>4 DEF Declared
  <2>6. r.headers[j] = Cell("cl", r.body)
    BY <1>1, <2>2, <2>5 DEF HeaderCells, Cell
  <2> QED BY <2>2, <2>4, <2>6
<1> QED BY <1>2, <1>3

(* A request whose every line was accepted is not bad. *)
LEMMA NotBad ==
    ASSUME NEW r \in Requests, Declared(r), \A j \in 1..Lines(r) : Accepted(r, j),
           \A j \in 1..Lines(r) : r.headers[j].k # "te", Lines(r) <= MaxHeaders,
           r.line # "bad", LineSize(r) <= MaxRequestLine, r.body <= MaxBodyBytes
    PROVE  ~Bad(r)
<1>1. DOMAIN r.headers = 1..Lines(r) /\ Lines(r) \in Nat /\ Len(r.headers) = Lines(r)
      /\ MaxRequestLine \in Nat /\ MaxBodyBytes \in Nat /\ MaxHeaders \in Nat
      /\ LineSize(r) \in Nat /\ r.body \in Nat
  BY RequestTypes, HttpConstants DEF Lines, LineSize
<1>2. ~(\E i, j \in Framing(r) : i # j \/ r.headers[i] # Cell("cl", r.body))
  BY BodyDeclared
<1>3. ~(\E i \in DOMAIN r.headers : r.headers[i].k \in {"bad", "fold"})
  BY <1>1 DEF Accepted
<1> QED BY <1>1, <1>2, <1>3 DEF Bad

(* Max({cl, 0}), the length of the body the server waits for. *)
LEMMA MaxZero == ASSUME NEW x \in Int PROVE Max({x, 0}) = IF x >= 0 THEN x ELSE 0
<1> DEFINE m == Max({x, 0})
<1>1. \E y \in {x, 0} : \A z \in {x, 0} : y >= z
  OBVIOUS
<1>2. m \in {x, 0} /\ \A z \in {x, 0} : m >= z
  BY <1>1 DEF Max
<1> HIDE DEF m
<1>3. m = IF x >= 0 THEN x ELSE 0
  BY <1>2
<1> QED BY <1>3 DEF m

(* What the parser makes of a buffer that begins with what was read of r.    *)
ParsedAs(r, p) ==
    /\ p.line = r.line /\ p.end = HeadEnd(r) /\ p.cl \in Int
    /\ p.cl = -2 => Bad(r)
    /\ p.cl # -2 => /\ p.end + Max({p.cl, 0}) = HeadEnd(r) + r.body
                    /\ p.cl > MaxBodyBytes => Bad(r)
                    /\ p.cl <= MaxBodyBytes => ~Bad(r)

(* The parser refuses no good request, waits while the head is cut, and reads the head back. *)
LEMMA ParseVerdict ==
    ASSUME NEW r \in Requests, Declared(r), NEW b, Holds(r, b), b # <<>>
    PROVE  LET p == Parse(b)
           IN  /\ p.at \in {"414", "400", "431", "incomplete", "complete"}
               /\ p.at \in {"414", "400", "431"} => ~Good(r)
               /\ p.at = "incomplete" => Len(b) < HeadEnd(r)
               /\ p.at = "complete" => HeadEnd(r) <= Len(b) /\ ParsedAs(r, p)
<1> DEFINE n == Lines(r)
           s == LineEnd(r) + 1
           f == findEOL(b, 1)
           P == Parse(b)
<1>1. /\ n \in Nat /\ Len(b) \in Nat /\ LineEnd(r) \in Nat /\ HeadEnd(r) \in Nat /\ r.body \in Nat
      /\ MaxRequestLine \in Nat /\ MaxBodyBytes \in Nat /\ r.crlf \in BOOLEAN /\ r.pad \in Nat
      /\ Eol(r.crlf) \in 1..2 /\ LineSize(r) = 1 + r.pad /\ LineEnd(r) = 1 + r.pad + Eol(r.crlf)
      /\ HeadEnd(r) > LineEnd(r) /\ Len(b) > 0
  <2>1. /\ n \in Nat /\ LineEnd(r) \in Nat /\ HeadEnd(r) \in Nat /\ r.body \in Nat
        /\ r.crlf \in BOOLEAN /\ r.pad \in Nat /\ Eol(r.crlf) \in 1..2
    BY RequestTypes
  <2>2. HeadEnd(r) > LineEnd(r)
    BY HeldLines
  <2>3. b \in Seq(Cells) /\ Len(b) \in Nat /\ Len(b) > 0
    BY DEF Holds
  <2> QED BY <2>1, <2>2, <2>3, HttpConstants DEF LineSize, LineEnd
<1>2. b[1] = Cell("line", r.line)
  <2>1. Wire(r)[1] = Cell("line", r.line)
    BY WireCells DEF WireOf
  <2>2. 1 \in 1..Len(b) /\ 1 <= HeadEnd(r)
    BY <1>1
  <2>3. b[1] = Wire(r)[1]
    BY <2>2 DEF Holds
  <2> QED BY <2>1, <2>3
<1>3. b[1].k = "line" /\ b[1].v = r.line
  BY <1>2 DEF Cell
<1>4. IF Len(b) < LineEnd(r) THEN f.next = 0 ELSE f.next = s /\ f.eol = 2 + r.pad
  BY FirstLine
<1> HIDE DEF f
<1>5. CASE Len(b) < LineEnd(r)
  <2>1. P.at = IF Len(b) > MaxRequestLine THEN "414" ELSE "incomplete"
    BY <1>4, <1>5, ParseNoLine DEF f
  <2>2. Len(b) > MaxRequestLine => ~(LineSize(r) < MaxRequestLine)
    BY <1>1, <1>5
  <2>3. Len(b) < HeadEnd(r)
    BY <1>1, <1>5
  <2> HIDE DEF P
  <2>4. Len(b) > MaxRequestLine => ~Good(r)
    BY <2>2 DEF Good
  <2>5. CASE Len(b) > MaxRequestLine
    BY <2>1, <2>4, <2>5 DEF P
  <2>6. CASE ~(Len(b) > MaxRequestLine)
    BY <2>1, <2>3, <2>6 DEF P
  <2> QED BY <2>5, <2>6
<1>6. CASE ~(Len(b) < LineEnd(r)) /\ LineSize(r) > MaxRequestLine
  <2>1. f.next # 0 /\ f.eol - 1 > MaxRequestLine
    BY <1>1, <1>4, <1>6
  <2>2. P.at = "414"
    BY <2>1, ParseLongLine DEF f
  <2>3. ~Good(r)
    BY <1>6 DEF Good, Bad
  <2> HIDE DEF P
  <2> QED BY <2>2, <2>3 DEF P
<1>7. CASE ~(Len(b) < LineEnd(r)) /\ ~(LineSize(r) > MaxRequestLine) /\ r.line = "bad"
  <2>1. f.next # 0 /\ ~(f.eol - 1 > MaxRequestLine)
    BY <1>1, <1>4, <1>7
  <2>2. P.at = "400"
    BY <1>3, <1>7, <2>1, ParseBadLine DEF f
  <2>3. ~Good(r)
    BY <1>7 DEF Good, Bad
  <2> HIDE DEF P
  <2> QED BY <2>2, <2>3 DEF P
<1>8. CASE ~(Len(b) < LineEnd(r)) /\ ~(LineSize(r) > MaxRequestLine) /\ r.line # "bad"
  <2>1. /\ f.next = s /\ s # 0 /\ f.eol - 1 <= MaxRequestLine /\ f.eol \in Int
        /\ LineEnd(r) <= Len(b) /\ LineSize(r) <= MaxRequestLine
    BY <1>1, <1>4, <1>8
  <2> DEFINE last == LastLine(b, s)
             having(k) == Having(b, s, k)
             connection == having("connection")
             at == HeaderLine(b, s, StartsBefore(b, s, last), last)
             cl == IF having("te") # {} THEN -2
                   ELSE IF having("cl") = {} THEN -1 ELSE b[Max(having("cl"))].v
             end == IF last <= Len(b) /\ b[last] = CR THEN last + 1 ELSE last
  <2>2. P.at = at /\ P.line = r.line /\ P.cl = cl /\ P.end = end
    <3>1. P = [at |-> at, line |-> b[1].v,
               keep |-> IF connection = {} THEN b[1].v # "get10" ELSE b[Max(connection)].v = 1,
               cl |-> cl, end |-> end]
      <4> HIDE DEF last, having, at, cl, end
      <4> QED BY <1>3, <1>8, <2>1, ParseUnfold DEF f, last, having, at, cl, end
    <3> HIDE DEF P, at, cl, end, connection
    <3> QED BY <1>3, <3>1
  <2>3. PICK i \in 1..(n + 1) :
           /\ last = At(r, i) /\ At(r, i) <= Len(b) + 1 /\ Verdict(r, b, i) # "more"
           /\ \A j \in 1..(i - 1) : Verdict(r, b, j) = "more" /\ At(r, j) <= Len(b) + 1
    BY <2>1, LoopEnds
  <2>4. StartsBefore(b, s, last) = Earlier(r, i) /\ at = Verdict(r, b, i)
    <3>1. StartsBefore(b, s, At(r, i)) = Earlier(r, i)
      BY <2>1, <2>3, EarlierStarts DEF StartsBefore
    <3> QED BY <2>3, <3>1 DEF Verdict
  <2>5. CASE i \in 1..n
    <3>1. /\ at \in {"431", "400", "incomplete"} /\ (at \in {"431", "400"} => ~Good(r))
          /\ at = "incomplete" => Len(b) < HeadEnd(r)
      BY <2>1, <2>3, <2>4, <2>5, HeaderVerdict
    <3> HIDE DEF P, at
    <3> QED BY <2>2, <3>1 DEF P
  <2>6. CASE i = n + 1
    <3>1. /\ at \in {"431", "400", "incomplete", "complete"} /\ (at \in {"431", "400"} => ~Good(r))
          /\ at = "incomplete" => Len(b) < HeadEnd(r)
          /\ at = "complete" => HeadEnd(r) <= Len(b)
      BY <2>1, <2>3, <2>4, <2>6, BlankVerdict
    <3>2. \A j \in 1..n : Accepted(r, j) /\ j <= MaxHeaders
      <4> SUFFICES ASSUME NEW j \in 1..n PROVE Accepted(r, j) /\ j <= MaxHeaders
        OBVIOUS
      <4>1. j \in 1..(i - 1)
        BY <1>1, <2>6
      <4> QED BY <2>1, <2>3, <4>1, HeaderVerdict
    <3>3. n <= MaxHeaders
      <4>1. n = 0 \/ n \in 1..n
        BY <1>1
      <4> QED BY <3>2, <4>1, HttpConstants
    <3>4. ASSUME at = "complete" PROVE ParsedAs(r, P)
      <4>1. end = HeadEnd(r)
        <5>1. last = (IF r.crlf THEN HeadEnd(r) - 1 ELSE HeadEnd(r))
          BY <1>1, <2>3, <2>6, AtSteps
        <5>2. HeadEnd(r) <= Len(b)
          BY <3>1, <3>4
        <5> HIDE DEF last
        <5>3. /\ r.crlf => last <= Len(b) /\ b[last] = CR
              /\ ~r.crlf => b[last] = LF /\ LF # CR
          BY <1>1, <5>1, <5>2, HeldLines, CellTypes
        <5> QED BY <1>1, <5>1, <5>3
      <4>2. \A k : having(k) = {q \in Earlier(r, i) : b[q].k = k}
        BY <2>4 DEF Having
      <4>3. i \in 1..(Lines(r) + 1) /\ \A j : j \in 1..(i - 1) <=> j \in 1..n
        BY <1>1, <2>6
      <4>4. /\ \A j \in 1..n : At(r, j) \in Earlier(r, i) /\ b[At(r, j)] = r.headers[j]
            /\ \A q \in Earlier(r, i) : \E j \in 1..n : q = At(r, j) /\ b[q] = r.headers[j]
        <5>1. /\ \A j \in 1..(i - 1) : At(r, j) \in Earlier(r, i) /\ b[At(r, j)] = r.headers[j]
              /\ \A q \in Earlier(r, i) : \E j \in 1..(i - 1) : q = At(r, j) /\ b[q] = r.headers[j]
          BY <2>3, <4>3, EarlierCells
        <5> HIDE DEF n
        <5> QED BY <4>3, <5>1
      <4>5. \A k : having(k) = {} <=> \A j \in 1..n : r.headers[j].k # k
        <5> HIDE DEF n, having
        <5> QED BY <4>2, <4>4
      <4>6. CASE \E j \in 1..n : r.headers[j].k = "te"
        <5>1. cl = -2
          <6>1. having("te") # {}
            BY <4>5, <4>6
          <6> HIDE DEF having
          <6> QED BY <6>1
        <5>2. Bad(r)
          <6>1. PICK j \in 1..n : r.headers[j].k = "te"
            BY <4>6
          <6>2. j \in Framing(r) /\ r.headers[j] # Cell("cl", r.body)
            BY <6>1, RequestTypes DEF Framing, Cell
          <6> QED BY <6>2 DEF Bad
        <5> HIDE DEF P, cl, end
        <5> QED BY <2>2, <4>1, <5>1, <5>2 DEF ParsedAs
      <4>7. CASE \A j \in 1..n : r.headers[j].k # "te"
        <5>1. having("te") = {}
          BY <4>5, <4>7
        <5>2. cl = (IF having("cl") = {} THEN -1 ELSE b[Max(having("cl"))].v)
          <6> HIDE DEF having
          <6> QED BY <5>1
        <5>3. (cl = -1 /\ r.body = 0) \/ cl = r.body
          <6>1. CASE r.body = 0 /\ Framing(r) = {}
            <7>1. \A j \in 1..n : r.headers[j].k # "cl"
              BY <6>1, RequestTypes DEF Framing
            <7>2. having("cl") = {}
              BY <4>5, <7>1
            <7> HIDE DEF cl, having
            <7> QED BY <5>2, <6>1, <7>2
          <6>2. ASSUME NEW j \in 1..n, Framing(r) = {j}, r.headers[j] = Cell("cl", r.body)
                PROVE  cl = r.body
            <7>1. \A k \in 1..n : r.headers[k].k = "cl" => k = j
              BY <6>2, RequestTypes DEF Framing
            <7>2. r.headers[j].k = "cl" /\ r.headers[j].v = r.body
              BY <6>2 DEF Cell
            <7>3. having("cl") = {At(r, j)}
              <8> HIDE DEF n, having
              <8> QED BY <4>2, <4>4, <6>2, <7>1, <7>2
            <7>4. At(r, j) \in Int
              <8>1. j \in Nat
                OBVIOUS
              <8> QED BY <8>1, AtSteps
            <7>5. Max({At(r, j)}) = At(r, j)
              BY <7>4 DEF Max
            <7>6. cl = b[At(r, j)].v
              <8> HIDE DEF cl, having
              <8> QED BY <5>2, <7>3, <7>5
            <7> HIDE DEF cl
            <7> QED BY <4>4, <7>2, <7>6
          <6> HIDE DEF cl, having
          <6> QED BY <3>2, <4>7, <6>1, <6>2, BodyDeclared DEF n
        <5>4. r.body <= MaxBodyBytes => ~Bad(r)
          BY <1>8, <2>1, <3>2, <3>3, <4>7, NotBad
        <5>5. r.body > MaxBodyBytes => Bad(r)
          BY DEF Bad
        <5> HIDE DEF P, cl, end
        <5>6. cl \in Int /\ cl # -2 /\ Max({cl, 0}) = r.body
          BY <1>1, <5>3, MaxZero
        <5>7. (cl > MaxBodyBytes <=> r.body > MaxBodyBytes) /\ (cl <= MaxBodyBytes <=> r.body <= MaxBodyBytes)
          BY <1>1, <5>3
        <5> QED BY <2>2, <4>1, <5>4, <5>5, <5>6, <5>7 DEF ParsedAs
      <4> QED BY <4>6, <4>7
    <3> HIDE DEF P, at
    <3> QED BY <2>2, <3>1, <3>4 DEF P
  <2> QED BY <1>1, <2>3, <2>5, <2>6
<1> QED BY <1>5, <1>6, <1>7, <1>8

-----------------------------------------------------------------------------

Sendable == {r \in Requests : Declared(r)}
Wires(s) == [i \in DOMAIN s |-> Wire(s[i])]
Stream(s) == FlattenSeq(Wires(s))
Offs(s) == CHOOSE off : LaidOut(Wires(s), Len(s), Stream(s), off)

(* b and then u are what the stream of s holds from position k on. *)
Carves(s, k, b, u) ==
    /\ b \in Seq(Cells) /\ u \in Seq(Cells) /\ k \in Nat
    /\ k + Len(b) + Len(u) = Len(Stream(s))
    /\ \A q \in 1..Len(b) : b[q] = Stream(s)[k + q]
    /\ \A q \in 1..Len(u) : u[q] = Stream(s)[k + Len(b) + q]

(* The requests of s, one after the other, make up the stream. *)
LEMMA StreamLaidOut ==
    ASSUME NEW s \in Seq(Sendable)
    PROVE  /\ Stream(s) \in Seq(Cells) /\ Len(s) \in Nat
           /\ Offs(s)[0] = 0 /\ Offs(s)[Len(s)] = Len(Stream(s))
           /\ \A n \in 0..Len(s) : Offs(s)[n] \in Nat /\ Offs(s)[n] <= Len(Stream(s))
           /\ \A n \in 0..(Len(s) - 1) :
                 /\ s[n + 1] \in Requests /\ Declared(s[n + 1])
                 /\ Offs(s)[n + 1] = Offs(s)[n] + HeadEnd(s[n + 1]) + s[n + 1].body
                 /\ \A q \in 1..(HeadEnd(s[n + 1]) + s[n + 1].body) :
                       Stream(s)[Offs(s)[n] + q] = Wire(s[n + 1])[q]
<1> DEFINE N == Len(s)
           ws == Wires(s)
           off == Offs(s)
           all == Stream(s)
<1>1. N \in Nat /\ DOMAIN s = 1..N /\ \A i \in 1..N : s[i] \in Requests /\ Declared(s[i])
  BY DEF Sendable
<1>2. \A i \in 1..N : Wire(s[i]) \in Seq(Cells) /\ Len(Wire(s[i])) = HeadEnd(s[i]) + s[i].body
                      /\ Len(Wire(s[i])) \in Nat
  <2> TAKE i \in 1..N
  <2>1. s[i] \in Requests
    BY <1>1
  <2> DEFINE r == s[i]
  <2> HIDE DEF r
  <2>2. Wire(r) \in Seq(Cells) /\ Len(Wire(r)) = HeadEnd(r) + r.body
    BY <2>1, WireCells DEF WireOf, r
  <2>3. Len(Wire(r)) \in Nat
    BY <2>2
  <2> QED BY <2>2, <2>3 DEF r
<1>3. ws \in Seq(Seq(Cells)) /\ Len(ws) = N /\ \A i \in 1..N : ws[i] = Wire(s[i])
  BY <1>1, <1>2 DEF Wires
<1> HIDE DEF ws
<1>4. FlattenSeq(ws) \in Seq(Cells) /\ \E o : LaidOut(ws, Len(ws), FlattenSeq(ws), o)
  BY <1>3, FlattenLaidOut
<1>5. LaidOut(ws, N, all, off) /\ all \in Seq(Cells)
  BY <1>3, <1>4 DEF Offs, Stream, ws
<1> HIDE DEF off, all, N
<1>6. off \in [0..N -> Nat] /\ off[0] = 0 /\ off[N] = Len(all)
  BY <1>5 DEF LaidOut
<1>7. \A n \in 0..N : off[n] \in Nat /\ off[n] <= Len(all)
  <2> TAKE n \in 0..N
  <2>1. \A i \in 1..N : Len(ws[i]) \in Nat
    BY <1>2, <1>3
  <2> QED BY <1>1, <1>5, <1>6, <2>1, OffsetsGrow DEF N
<1>8. ASSUME NEW n \in 0..(N - 1)
      PROVE  /\ s[n + 1] \in Requests /\ Declared(s[n + 1])
             /\ off[n + 1] = off[n] + HeadEnd(s[n + 1]) + s[n + 1].body
             /\ \A q \in 1..(HeadEnd(s[n + 1]) + s[n + 1].body) :
                   all[off[n] + q] = Wire(s[n + 1])[q]
  <2> DEFINE i == n + 1
  <2>1. i \in 1..N /\ i - 1 = n
    BY <1>1
  <2> HIDE DEF i
  <2>2. /\ off[i] = off[i - 1] + Len(ws[i])
        /\ \A q \in 1..Len(ws[i]) : all[off[i - 1] + q] = ws[i][q]
    BY <1>5, <2>1 DEF LaidOut
  <2>3. /\ off[i] = off[n] + Len(Wire(s[i]))
        /\ \A q \in 1..Len(Wire(s[i])) : all[off[n] + q] = Wire(s[i])[q]
    BY <1>3, <2>1, <2>2
  <2>4. Len(Wire(s[i])) = HeadEnd(s[i]) + s[i].body /\ s[i] \in Requests /\ Declared(s[i])
    BY <1>1, <1>2, <2>1
  <2>5. off[n] \in Nat /\ HeadEnd(s[i]) \in Nat /\ s[i].body \in Nat
    BY <1>1, <1>7, <2>4, RequestTypes
  <2> QED BY <2>3, <2>4, <2>5 DEF i
<1> QED BY <1>1, <1>5, <1>6, <1>7, <1>8 DEF off, all, N

(* A read moves the first cells of what is unread to the end of the buffer. *)
LEMMA Received ==
    ASSUME NEW s, NEW k, NEW b, NEW u, Carves(s, k, b, u), NEW m \in 1..Len(u)
    PROVE  Carves(s, k, b \o SubSeq(u, 1, m), SubSeq(u, m + 1, Len(u)))
<1> DEFINE g == SubSeq(u, 1, m)
           c == b \o g
           v == SubSeq(u, m + 1, Len(u))
<1>1. b \in Seq(Cells) /\ u \in Seq(Cells) /\ k \in Nat /\ m \in Nat /\ Len(b) \in Nat /\ Len(u) \in Nat
      /\ m <= Len(u)
  BY DEF Carves
<1>2. g \in Seq(Cells) /\ Len(g) = m /\ \A q \in 1..m : g[q] = u[q]
  BY <1>1
<1>3. v \in Seq(Cells) /\ Len(v) = Len(u) - m /\ \A q \in 1..Len(v) : v[q] = u[m + q]
  BY <1>1
<1> HIDE DEF g, v
<1>4. /\ c \in Seq(Cells) /\ Len(c) = Len(b) + m
      /\ \A q \in 1..Len(b) : c[q] = b[q]
      /\ \A q \in 1..m : c[Len(b) + q] = u[q]
  BY <1>1, <1>2, Concat
<1> HIDE DEF c
<1>5. k + Len(c) + Len(v) = Len(Stream(s))
  <2>1. k + Len(b) + Len(u) = Len(Stream(s))
    BY DEF Carves
  <2>2. Len(c) = Len(b) + m /\ Len(v) = Len(u) - m
    BY <1>3, <1>4
  <2> QED BY ONLY <1>1, <2>1, <2>2
<1>6. ASSUME NEW q \in 1..Len(c) PROVE c[q] = Stream(s)[k + q]
  <2>1. CASE q <= Len(b)
    BY <1>1, <1>4, <2>1 DEF Carves
  <2>2. CASE q > Len(b)
    <3> DEFINE p == q - Len(b)
    <3>1. p \in 1..m /\ p \in 1..Len(u) /\ Len(b) + p = q
      BY <1>1, <1>4, <2>2
    <3> HIDE DEF p
    <3>2. c[q] = u[p]
      BY <1>4, <3>1
    <3>3. u[p] = Stream(s)[k + Len(b) + p]
      BY <3>1 DEF Carves
    <3>4. k + Len(b) + p = k + q
      BY <1>1, <3>1
    <3> QED BY <3>2, <3>3, <3>4
  <2> QED BY <1>1, <2>1, <2>2
<1>7. ASSUME NEW q \in 1..Len(v) PROVE v[q] = Stream(s)[k + Len(c) + q]
  <2> DEFINE p == m + q
  <2>1. p \in 1..Len(u) /\ k + Len(b) + p = k + Len(c) + q
    BY <1>1, <1>3, <1>4
  <2>2. v[q] = u[p]
    BY <1>3
  <2> HIDE DEF p
  <2>3. u[p] = Stream(s)[k + Len(b) + p]
    BY <2>1 DEF Carves
  <2> QED BY <2>1, <2>2, <2>3
<1>8. Carves(s, k, c, v)
  BY <1>1, <1>3, <1>4, <1>5, <1>6, <1>7 DEF Carves
<1> QED BY <1>8 DEF c, g, v

(* What the buffer drops from its front is behind it in the stream. *)
LEMMA Skipped ==
    ASSUME NEW s, NEW k, NEW b, NEW u, Carves(s, k, b, u), NEW m \in 0..Len(b)
    PROVE  Carves(s, k + m, SubSeq(b, m + 1, Len(b)), u)
<1> DEFINE c == SubSeq(b, m + 1, Len(b))
<1>1. b \in Seq(Cells) /\ u \in Seq(Cells) /\ k \in Nat /\ m \in Nat /\ Len(b) \in Nat /\ Len(u) \in Nat
      /\ m <= Len(b)
  BY DEF Carves
<1>2. c \in Seq(Cells) /\ Len(c) = Len(b) - m /\ \A q \in 1..Len(c) : c[q] = b[m + q]
  BY <1>1
<1> HIDE DEF c
<1>3. k + m + Len(c) + Len(u) = Len(Stream(s)) /\ k + m \in Nat
  <2>1. k + Len(b) + Len(u) = Len(Stream(s))
    BY DEF Carves
  <2>2. Len(c) = Len(b) - m
    BY <1>2
  <2> QED BY ONLY <1>1, <2>1, <2>2
<1>4. ASSUME NEW q \in 1..Len(c) PROVE c[q] = Stream(s)[k + m + q]
  <2> DEFINE p == m + q
  <2>1. p \in 1..Len(b) /\ k + p = k + m + q /\ c[q] = b[p]
    BY <1>1, <1>2
  <2> HIDE DEF p
  <2>2. b[p] = Stream(s)[k + p]
    BY <2>1 DEF Carves
  <2> QED BY <2>1, <2>2
<1>5. ASSUME NEW q \in 1..Len(u) PROVE u[q] = Stream(s)[k + m + Len(c) + q]
  <2>1. k + m + Len(c) + q = k + Len(b) + q
    BY <1>1, <1>2
  <2> QED BY <2>1 DEF Carves
<1>6. Carves(s, k + m, c, u)
  BY <1>1, <1>2, <1>3, <1>4, <1>5 DEF Carves
<1> QED BY <1>6 DEF c

(* The buffer begins with as much of the next request as it holds. *)
LEMMA HoldsNext ==
    ASSUME NEW s \in Seq(Sendable), NEW n \in 0..(Len(s) - 1), NEW b, NEW u,
           Carves(s, Offs(s)[n], b, u)
    PROVE  /\ Holds(s[n + 1], b)
           /\ Len(b) >= HeadEnd(s[n + 1]) + s[n + 1].body =>
                 SubSeq(b, HeadEnd(s[n + 1]) + 1, HeadEnd(s[n + 1]) + s[n + 1].body)
                     = BodyCells(s[n + 1])
<1> DEFINE r == s[n + 1]
           h == HeadEnd(r)
           w == Wire(r)
           k == Offs(s)[n]
           all == Stream(s)
<1>1. r \in Requests /\ k \in Nat /\ \A q \in 1..(h + r.body) : all[k + q] = w[q]
  BY StreamLaidOut
<1>2. b \in Seq(Cells) /\ Len(b) \in Nat /\ \A q \in 1..Len(b) : b[q] = all[k + q]
  BY DEF Carves
<1> HIDE DEF r, k, all
<1>3. h \in Nat /\ r.body \in Nat
  BY <1>1, RequestTypes
<1> HIDE DEF h
<1>4. \A q \in 1..Len(b) : q <= h + r.body => b[q] = w[q]
  BY <1>1, <1>2, <1>3
<1>5. Holds(r, b)
  <2>1. \A q \in 1..Len(b) : q <= h => b[q] = w[q]
    BY <1>2, <1>3, <1>4
  <2> QED BY <1>2, <2>1 DEF Holds, h
<1>6. ASSUME Len(b) >= h + r.body PROVE SubSeq(b, h + 1, h + r.body) = BodyCells(r)
  <2> DEFINE c == SubSeq(b, h + 1, h + r.body)
             d == BodyCells(r)
  <2>1. Len(c) = r.body /\ DOMAIN c = 1..r.body /\ \A j \in 1..r.body : c[j] = b[h + j]
    BY <1>2, <1>3, <1>6
  <2>2. c \in Seq(Cells)
    BY <1>2, <1>3, <1>6
  <2>3. DOMAIN d = 1..r.body /\ \A j \in 1..r.body : d[j] = Cell("body", j)
    BY <1>3 DEF BodyCells
  <2>4. \A j \in 1..r.body : w[h + j] = Cell("body", j)
    BY <1>1, WireCells DEF WireOf, h
  <2>5. \A j \in 1..r.body : b[h + j] = w[h + j]
    BY <1>2, <1>3, <1>4, <1>6
  <2>6. d \in [1..r.body -> Cells] /\ c \in [1..r.body -> Cells]
    <3>1. \A j \in 1..r.body : Cell("body", j) \in Cells
      BY CellTypes
    <3>2. d \in [1..r.body -> Cells]
      BY <3>1 DEF BodyCells
    <3> HIDE DEF c
    <3>3. c \in [1..r.body -> Cells]
      BY <1>3, <2>1, <2>2
    <3> QED BY <3>2, <3>3
  <2> HIDE DEF c, d
  <2>7. c = d
    BY <2>1, <2>3, <2>4, <2>5, <2>6
  <2> QED BY <2>7 DEF c, d
<1> QED BY <1>5, <1>6 DEF r, h

(* After the last request there is nothing to hold. *)
LEMMA NothingLeft ==
    ASSUME NEW s \in Seq(Sendable), NEW b, NEW u, Carves(s, Offs(s)[Len(s)], b, u)
    PROVE  Len(b) = 0
<1>1. Offs(s)[Len(s)] = Len(Stream(s)) /\ Len(Stream(s)) \in Nat
  BY StreamLaidOut
<1>2. /\ Offs(s)[Len(s)] + Len(b) + Len(u) = Len(Stream(s)) /\ Len(b) \in Nat /\ Len(u) \in Nat
      /\ b \in Seq(Cells)
  BY DEF Carves
<1> QED BY <1>1, <1>2

(* What the server takes request r for: q is its parse, and it is not bad. *)
Taken(r, q) ==
    /\ q.line = r.line /\ q.end = HeadEnd(r) /\ q.end + Max({q.cl, 0}) = HeadEnd(r) + r.body
    /\ ~Bad(r)

(* The parser on the buffer of a connection that waits for its next request. *)
LEMMA ParseNext ==
    ASSUME NEW s \in Seq(Sendable), NEW n \in 0..Len(s), NEW b, NEW u,
           Carves(s, Offs(s)[n], b, u)
    PROVE  LET p == Parse(b)
           IN  /\ p.at \notin {"incomplete", "complete"} => n < Len(s) /\ ~Good(s[n + 1])
               /\ p.at = "incomplete" /\ Len(b) >= MaxReadBuf => n < Len(s) /\ ~Good(s[n + 1])
               /\ p.at = "complete" =>
                     /\ n < Len(s) /\ p.cl \in Int
                     /\ p.cl = -2 \/ p.cl > MaxBodyBytes => ~Good(s[n + 1])
                     /\ p.cl # -2 /\ p.cl <= MaxBodyBytes => Taken(s[n + 1], p)
<1> DEFINE p == Parse(b)
           r == s[n + 1]
<1>1. b \in Seq(Cells) /\ Len(b) \in Nat /\ Len(s) \in Nat
  BY StreamLaidOut DEF Carves
<1>2. MaxReadBuf \in Nat /\ MaxReadBuf > 0 /\ MaxBodyBytes \in Nat /\ MaxRequestLine \in Nat
  BY HttpConstants
<1>3. b = <<>> => p.at = "incomplete"
  <2> SUFFICES ASSUME b = <<>> PROVE Parse(b).at = "incomplete"
    OBVIOUS
  <2>1. findEOL(b, 1) = [eol |-> 0, next |-> 0]
    BY EolMissing
  <2>2. findEOL(b, 1).next = 0 /\ Len(b) = 0
    BY <2>1
  <2> QED BY <1>2, <2>2, ParseNoLine
<1>4. ASSUME n = Len(s) PROVE b = <<>>
  <2>1. Carves(s, Offs(s)[Len(s)], b, u)
    BY <1>4
  <2>2. Len(b) = 0
    BY <2>1, NothingLeft
  <2> QED BY <1>1, <2>2
<1>5. CASE b = <<>>
  <2>1. p.at = "incomplete" /\ Len(b) = 0
    BY <1>3, <1>5
  <2> HIDE DEF p
  <2> QED BY <1>2, <2>1 DEF p
<1>6. CASE b # <<>>
  <2>1. n \in 0..(Len(s) - 1) /\ n < Len(s)
    BY <1>1, <1>4, <1>6
  <2>2. Holds(r, b) /\ r \in Requests /\ Declared(r)
    BY <2>1, HoldsNext, StreamLaidOut
  <2> HIDE DEF r
  <2>3. /\ p.at \in {"414", "400", "431", "incomplete", "complete"}
        /\ p.at \in {"414", "400", "431"} => ~Good(r)
        /\ p.at = "incomplete" => Len(b) < HeadEnd(r)
        /\ p.at = "complete" => HeadEnd(r) <= Len(b) /\ ParsedAs(r, p)
    BY <1>6, <2>2, ParseVerdict
  <2> HIDE DEF p
  <2>4. p.at = "incomplete" /\ Len(b) >= MaxReadBuf => ~Good(r)
    <3>1. Len(Wire(r)) = HeadEnd(r) + r.body /\ HeadEnd(r) \in Nat /\ r.body \in Nat
      BY <2>2, Sizes, RequestTypes
    <3> QED BY <1>1, <1>2, <2>3, <3>1 DEF Good
  <2>5. ASSUME p.at = "complete"
        PROVE  /\ p.cl \in Int /\ (p.cl = -2 \/ p.cl > MaxBodyBytes => ~Good(r))
               /\ p.cl # -2 /\ p.cl <= MaxBodyBytes => Taken(r, p)
    BY <1>2, <2>3, <2>5 DEF ParsedAs, Taken, Good
  <2> QED BY <2>1, <2>3, <2>4, <2>5 DEF p, r
<1> QED BY <1>5, <1>6

Caps == 0..(2 * MaxReadBuf - 1)
Given == [line : STRING, body : Seq(Cells)]

(* A connection whose client sends s, with u unread, that stands at l with   *)
(* buffer b and request q, its handler given h, its last write of kind w.    *)
Tracked(s, u, l, b, q, h, w) ==
    LET n == Len(h)
        whole(r) == Taken(r, q) /\ Len(b) >= HeadEnd(r) + r.body
    IN  /\ s \in Seq(Sendable) /\ h \in Seq(Given) /\ n <= Len(s)
        /\ \A i \in 1..n : h[i] = [line |-> s[i].line, body |-> BodyCells(s[i])] /\ ~Bad(s[i])
        /\ l \in {"dialled", "accepted"} => n = 0 /\ Carves(s, 0, <<>>, u)
        /\ l \in {"parse", "read", "body", "readBody", "dispatch"} => Carves(s, Offs(s)[n], b, u)
        /\ l \in {"body", "readBody"} => n < Len(s) /\ Taken(s[n + 1], q)
        /\ l = "dispatch" => n < Len(s) /\ whole(s[n + 1])
        /\ l \in {"head", "stream", "hijack", "next"} =>
              n > 0 /\ Carves(s, Offs(s)[n - 1], b, u) /\ whole(s[n])
        /\ w = "refused" => l \in {"close", "closed"} /\ n < Len(s) /\ ~Good(s[n + 1])

Buffers == /\ cs \in [Conn -> [buf : Seq(Cells), cap : Caps]] /\ unread \in [Conn -> Seq(Cells)]
           /\ pool \subseteq [buf : {<<>>}, cap : Caps]

TrackInv ==
    /\ Buffers /\ req = [c \in Conn |-> req[c]]
    /\ \A c \in Conn : Tracked(sent[c], unread[c], pc[c], cs[c].buf, req[c], handled[c], Last1(out[c]).k)

(* A step of connection c. *)
Steps(c) ==
    /\ sent' = sent /\ req' = [req EXCEPT ![c] = req'[c]] /\ pc' = [pc EXCEPT ![c] = pc'[c]]
    /\ unread' = [unread EXCEPT ![c] = unread'[c]] /\ cs' = [cs EXCEPT ![c] = cs'[c]]
    /\ out' = [out EXCEPT ![c] = out'[c]] /\ handled' = [handled EXCEPT ![c] = handled'[c]]

(* A step of c alone keeps the invariant when it leaves c tracked. *)
LEMMA OneTracked ==
    ASSUME TrackInv, RepliesInv, NEW c \in Conn, Steps(c),
           cs'[c] \in [buf : Seq(Cells), cap : Caps], unread'[c] \in Seq(Cells),
           pool' \subseteq [buf : {<<>>}, cap : Caps],
           Tracked(sent[c], unread'[c], pc'[c], cs'[c].buf, req'[c], handled'[c], Last1(out'[c]).k)
    PROVE  TrackInv'
<1>1. cs' \in [Conn -> [buf : Seq(Cells), cap : Caps]] /\ unread' \in [Conn -> Seq(Cells)]
  BY DEF TrackInv, Buffers, Steps
<1>2. req' = [d \in Conn |-> req'[d]]
  BY DEF TrackInv, Steps
<1>3. ASSUME NEW d \in Conn
      PROVE  Tracked(sent'[d], unread'[d], pc'[d], cs'[d].buf, req'[d], handled'[d], Last1(out'[d]).k)
  <2>1. CASE d = c
    BY <2>1 DEF Steps
  <2>2. CASE d # c
    <3>1. /\ sent'[d] = sent[d] /\ unread'[d] = unread[d] /\ pc'[d] = pc[d] /\ cs'[d] = cs[d]
          /\ req'[d] = req[d] /\ handled'[d] = handled[d] /\ out'[d] = out[d]
      BY <2>2 DEF Steps, TrackInv, Buffers, RepliesInv
    <3> QED BY <3>1 DEF TrackInv
  <2> QED BY <2>1, <2>2
<1> QED BY <1>1, <1>2, <1>3 DEF TrackInv, Buffers

(* The steps of a connection are steps of it alone. *)
LEMMA ServingSteps ==
    ASSUME TrackInv, RepliesInv, NEW c \in Conn, Serving(c) \/ Accept(c)
    PROVE  Steps(c)
<1> DEFINE Fn(f) == f = [d \in Conn |-> f[d]]
<1>1. Fn(unread) /\ Fn(pc) /\ Fn(cs) /\ Fn(req) /\ Fn(out) /\ Fn(handled)
  BY DEF TrackInv, Buffers, RepliesInv
<1>2. ASSUME NEW f, Fn(f), NEW g, NEW v, g = f \/ g = [f EXCEPT ![c] = v]
      PROVE  g = [f EXCEPT ![c] = g[c]]
  BY <1>2
<1>3. sent' = sent
  BY DEF Serving, Accept, Start, ReadHead, Body, ReadBody, Read, Got, Dispatch, WriteHead, StreamChunk,
         StreamEnd, Hijacked, NextRequest, Close, ParseHead
<1>4. \E v : pc' = pc \/ pc' = [pc EXCEPT ![c] = v]
  BY DEF Serving, Accept, Start, ReadHead, Body, ReadBody, Read, Dispatch, WriteHead, StreamChunk,
         StreamEnd, Hijacked, NextRequest, Close, ParseHead, Goto, Refuse, Panic
<1>5. \E v : unread' = unread \/ unread' = [unread EXCEPT ![c] = v]
  BY DEF Serving, Accept, Start, ReadHead, Body, ReadBody, Read, Got, Dispatch, WriteHead, StreamChunk,
         StreamEnd, Hijacked, NextRequest, Close, ParseHead
<1>6. \E v : req' = req \/ req' = [req EXCEPT ![c] = v]
  BY DEF Serving, Accept, Start, ReadHead, Body, ReadBody, Read, Dispatch, WriteHead, StreamChunk,
         StreamEnd, Hijacked, NextRequest, Close, ParseHead, Refuse
<1>7. \E v : handled' = handled \/ handled' = [handled EXCEPT ![c] = v]
  BY DEF Serving, Accept, Start, ReadHead, Body, ReadBody, Read, Dispatch, WriteHead, StreamChunk,
         StreamEnd, Hijacked, NextRequest, Close, ParseHead
<1>8. \E v : out' = out \/ out' = [out EXCEPT ![c] = v]
  BY DEF Serving, Accept, Start, ReadHead, Body, ReadBody, Read, Dispatch, WriteHead, StreamChunk,
         StreamEnd, Hijacked, NextRequest, Close, ParseHead, Refuse, Panic, Emit
<1>9. \E v : cs' = cs \/ cs' = [cs EXCEPT ![c] = v]
  BY DEF Serving, Accept, Start, ReadHead, Body, ReadBody, Read, Got, Dispatch, WriteHead, StreamChunk,
         StreamEnd, Hijacked, NextRequest, Close, ParseHead, Refuse
<1> QED BY <1>1, <1>2, <1>3, <1>4, <1>5, <1>6, <1>7, <1>8, <1>9 DEF Steps

(* A connection that closes keeps only what it has handled and why it closes. *)
LEMMA ClosesTracked ==
    ASSUME NEW s, NEW u, NEW l, NEW b, NEW q, NEW h, NEW w, Tracked(s, u, l, b, q, h, w),
           NEW u2, NEW l2 \in {"close", "closed"}, NEW b2, NEW q2, NEW w2,
           w2 = "refused" => Len(h) < Len(s) /\ ~Good(s[Len(h) + 1])
    PROVE  Tracked(s, u2, l2, b2, q2, h, w2)
  BY DEF Tracked

(* The fields of a connection whose handler is given nothing. *)
Field(c) == Tracked(sent[c], unread[c], pc[c], cs[c].buf, req[c], handled[c], Last1(out[c]).k)

(* What the invariants say of one connection. *)
LEMMA Fields ==
    ASSUME TrackInv, RepliesInv, NEW c \in Conn
    PROVE  /\ Field(c) /\ out[c] \in Seq(Written) /\ Len(handled[c]) \in Nat
           /\ cs[c].buf \in Seq(Cells) /\ cs[c].cap \in Caps /\ unread[c] \in Seq(Cells)
           /\ cs[c].cap \in Int /\ Len(unread[c]) \in Nat /\ Len(cs[c].buf) \in Nat
           /\ Len(handled[c]) \in 0..Len(sent[c]) /\ sent[c] \in Seq(Sendable)
           /\ cs[c] = [buf |-> cs[c].buf, cap |-> cs[c].cap]
<1>1. Field(c)
  BY DEF TrackInv, Field
<1>2. sent[c] \in Seq(Sendable) /\ handled[c] \in Seq(Given) /\ Len(handled[c]) <= Len(sent[c])
  BY <1>1 DEF Field, Tracked
<1>3. cs[c] \in [buf : Seq(Cells), cap : Caps] /\ unread[c] \in Seq(Cells)
  BY DEF TrackInv, Buffers
<1>4. out[c] \in Seq(Written)
  BY DEF RepliesInv, FramedConn, FramedSoFar
<1>5. \A x \in Caps : x \in Int
  BY HttpConstants DEF Caps
<1> QED BY <1>1, <1>2, <1>3, <1>4, <1>5

(* The last write is the one just made. *)
LEMMA LastWritten ==
    ASSUME NEW o \in Seq(Written), NEW w
    PROVE  Last1(Append(o, w)) = w
<1> DEFINE T == Written \cup {w}
<1>1. o \in Seq(T) /\ w \in T
  OBVIOUS
<1> HIDE DEF T
<1> DEFINE p == Append(o, w)
<1>2. p # <<>> /\ p[Len(p)] = w
  BY <1>1
<1> HIDE DEF p
<1> QED BY <1>2 DEF Last1, Last, p

(* A connState in the pool is empty. *)
LEMMA Spare ==
    ASSUME NEW x \in [buf : {<<>>}, cap : Caps]
    PROVE  x \in [buf : Seq(Cells), cap : Caps] /\ x.buf = <<>>
<1>1. <<>> \in Seq(Cells)
  OBVIOUS
<1> QED BY <1>1

(* Accept reads nothing. *)
LEMMA AcceptTracked == ASSUME TrackInv, RepliesInv, NEW c \in Conn, Accept(c) PROVE TrackInv'
<1>1. Steps(c) /\ pc[c] = "dialled" /\ pc'[c] = "accepted"
  BY ServingSteps DEF Accept, Goto, RepliesInv
<1>2. UNCHANGED <<sent, unread, cs, req, pool, out, handled>>
  BY DEF Accept
<1>3. Tracked(sent[c], unread[c], "accepted", cs[c].buf, req[c], handled[c], Last1(out[c]).k)
  BY <1>1, Fields DEF Field, Tracked
<1>4. /\ Tracked(sent[c], unread'[c], pc'[c], cs'[c].buf, req'[c], handled'[c], Last1(out'[c]).k)
      /\ cs'[c] \in [buf : Seq(Cells), cap : Caps] /\ unread'[c] \in Seq(Cells)
      /\ pool' \subseteq [buf : {<<>>}, cap : Caps]
  BY <1>1, <1>2, <1>3 DEF TrackInv, Buffers
<1> QED BY <1>1, <1>4, OneTracked

(* Start takes an empty buffer, of whatever size it has grown to. *)
LEMMA StartTracked == ASSUME TrackInv, RepliesInv, NEW c \in Conn, Start(c) PROVE TrackInv'
<1>1. Steps(c)
  BY ServingSteps DEF Serving
<1>2. /\ pc[c] = "accepted" /\ pc'[c] = "parse" /\ UNCHANGED <<sent, unread, req, out, handled>>
      /\ pool' \subseteq pool
      /\ \E s \in pool \cup {[buf |-> <<>>, cap |-> initialReadBuf]} : cs'[c] = s
  BY DEF Start, Running, Goto, TrackInv, Buffers, RepliesInv
<1>3. [buf |-> <<>>, cap |-> initialReadBuf] \in [buf : {<<>>}, cap : Caps]
  BY HttpConstants DEF Caps
<1>4. cs'[c] \in [buf : {<<>>}, cap : Caps] /\ pool' \subseteq [buf : {<<>>}, cap : Caps]
  BY <1>2, <1>3 DEF TrackInv, Buffers
<1>5. cs'[c] \in [buf : Seq(Cells), cap : Caps] /\ cs'[c].buf = <<>>
  BY <1>4, Spare
<1>6. Len(handled[c]) = 0 /\ Carves(sent[c], Offs(sent[c])[0], <<>>, unread[c])
  BY <1>2, Fields, StreamLaidOut DEF Field, Tracked
<1>7. Tracked(sent[c], unread[c], "parse", <<>>, req[c], handled[c], Last1(out[c]).k)
  BY <1>2, <1>6, Fields DEF Field, Tracked
<1> QED BY <1>1, <1>2, <1>4, <1>5, <1>7, Fields, OneTracked

(* The buffer goes back to the pool empty, at its size. *)
LEMMA CloseTracked == ASSUME TrackInv, RepliesInv, NEW c \in Conn, Close(c) PROVE TrackInv'
<1>1. Steps(c)
  BY ServingSteps DEF Serving
<1>2. /\ pc'[c] = "closed" /\ UNCHANGED <<sent, unread, req, out, handled>>
      /\ cs'[c] = [buf |-> <<>>, cap |-> 0] /\ pool' = pool \cup {[buf |-> <<>>, cap |-> cs[c].cap]}
  BY DEF Close, Goto, TrackInv, Buffers, RepliesInv
<1>3. /\ cs'[c] \in [buf : Seq(Cells), cap : Caps] /\ cs'[c].buf = <<>>
      /\ pool' \subseteq [buf : {<<>>}, cap : Caps]
  <2>1. 0 \in Caps
    BY HttpConstants DEF Caps
  <2>2. cs[c].cap \in Caps
    BY Fields
  <2> QED BY <1>2, <2>1, <2>2 DEF TrackInv, Buffers
<1>4. Field(c)
  BY Fields
<1>5. Last1(out[c]).k = "refused" => Len(handled[c]) < Len(sent[c]) /\ ~Good(sent[c][Len(handled[c]) + 1])
  BY <1>4 DEF Field, Tracked
<1>6. Tracked(sent[c], unread[c], "closed", <<>>, req[c], handled[c], Last1(out[c]).k)
  BY <1>4, <1>5, ClosesTracked DEF Field
<1> QED BY <1>1, <1>2, <1>3, <1>6, Fields, OneTracked

(* A step of c that leaves every buffer alone. *)
LEMMA StaysTracked ==
    ASSUME TrackInv, RepliesInv, NEW c \in Conn, Steps(c), UNCHANGED <<unread, cs, pool>>,
           Tracked(sent[c], unread[c], pc'[c], cs[c].buf, req'[c], handled'[c], Last1(out'[c]).k)
    PROVE  TrackInv'
<1>1. cs[c] \in [buf : Seq(Cells), cap : Caps] /\ unread[c] \in Seq(Cells)
      /\ pool \subseteq [buf : {<<>>}, cap : Caps]
  BY DEF TrackInv, Buffers
<1> QED BY <1>1, OneTracked

(* A step of c that closes it without a refusal. *)
LEMMA EndsTracked ==
    ASSUME TrackInv, RepliesInv, NEW c \in Conn, Steps(c), UNCHANGED <<unread, cs, pool, handled>>,
           pc'[c] = "close", out'[c] = out[c] \/ Last1(out'[c]).k # "refused"
    PROVE  TrackInv'
<1>1. Field(c)
  BY Fields
<1>2. Last1(out[c]).k = "refused" => Len(handled[c]) < Len(sent[c]) /\ ~Good(sent[c][Len(handled[c]) + 1])
  BY <1>1 DEF Field, Tracked
<1> DEFINE w == Last1(out'[c]).k
<1>4. w = "refused" => Len(handled[c]) < Len(sent[c]) /\ ~Good(sent[c][Len(handled[c]) + 1])
  BY <1>2
<1>3. Tracked(sent[c], unread[c], "close", cs[c].buf, req'[c], handled[c], w)
  <2> HIDE DEF w
  <2> QED BY <1>1, <1>4, ClosesTracked DEF Field
<1> QED BY <1>3, StaysTracked

(* Refuse needs a next request that is not good. *)
LEMMA RefuseTracked ==
    ASSUME TrackInv, RepliesInv, NEW c \in Conn, Steps(c), UNCHANGED <<unread, pool, handled>>,
           NEW v, Refuse(c, v),
           Len(handled[c]) < Len(sent[c]) /\ ~Good(sent[c][Len(handled[c]) + 1])
    PROVE  TrackInv'
<1>1. pc'[c] = "close" /\ UNCHANGED <<cs, req>>
  BY DEF Refuse, Goto, RepliesInv
<1>2. Field(c)
  BY Fields
<1> DEFINE w == Last1(out'[c]).k
<1>3. Tracked(sent[c], unread[c], "close", cs[c].buf, req'[c], handled[c], w)
  <2> HIDE DEF w
  <2> QED BY <1>2, ClosesTracked DEF Field
<1> QED BY <1>1, <1>3, StaysTracked

(* The least of two. *)
LEMMA MinOf == ASSUME NEW x \in Int, NEW y \in Int PROVE Min({x, y}) = IF x <= y THEN x ELSE y
<1> DEFINE m == Min({x, y})
<1>1. \E z \in {x, y} : \A t \in {x, y} : z <= t
  OBVIOUS
<1>2. m \in {x, y} /\ \A t \in {x, y} : m <= t
  BY <1>1 DEF Min
<1> HIDE DEF m
<1>3. m = IF x <= y THEN x ELSE y
  BY <1>2
<1> QED BY <1>3 DEF m

(* The greatest of two. *)
LEMMA MaxOf == ASSUME NEW x \in Int, NEW y \in Int PROVE Max({x, y}) = IF x >= y THEN x ELSE y
<1> DEFINE m == Max({x, y})
<1>1. \E z \in {x, y} : \A t \in {x, y} : z >= t
  OBVIOUS
<1>2. m \in {x, y} /\ \A t \in {x, y} : m >= t
  BY <1>1 DEF Max
<1> HIDE DEF m
<1>3. m = IF x >= y THEN x ELSE y
  BY <1>2
<1> QED BY <1>3 DEF m

(* c goes on in the same request, with the same buffer or a longer one. *)
LEMMA ReadTracked ==
    ASSUME TrackInv, RepliesInv, NEW c \in Conn, ReadHead(c) \/ ReadBody(c)
    PROVE  TrackInv'
<1>1. Steps(c) /\ UNCHANGED <<req, pool, out, handled>>
  BY ServingSteps DEF Serving, ReadHead, ReadBody, Read
<1> DEFINE u == unread[c]
           b == cs[c].buf
<1>2. \/ pc'[c] = "close" /\ UNCHANGED <<cs, unread>>
      \/ /\ \/ pc[c] = "read" /\ pc'[c] = "parse"
            \/ pc[c] = "readBody" /\ pc'[c] = "body"
         /\ \E m \in 1..Min({Len(u), cs[c].cap - Len(b)}) : Got(c, m)
  BY DEF ReadHead, ReadBody, Read, Running, Goto, RepliesInv
<1>3. CASE pc'[c] = "close" /\ UNCHANGED <<cs, unread>>
  BY <1>1, <1>3, EndsTracked
<1>4. CASE /\ \/ pc[c] = "read" /\ pc'[c] = "parse"
              \/ pc[c] = "readBody" /\ pc'[c] = "body"
           /\ \E m \in 1..Min({Len(u), cs[c].cap - Len(b)}) : Got(c, m)
  <2>1. PICK m \in 1..Min({Len(u), cs[c].cap - Len(b)}) : Got(c, m)
    BY <1>4
  <2>2. Min({Len(u), cs[c].cap - Len(b)}) <= Len(u) /\ Min({Len(u), cs[c].cap - Len(b)}) \in Int
        /\ Len(u) \in Nat
    <3> DEFINE x == Len(u)
               y == cs[c].cap - Len(b)
    <3>1. x \in Nat /\ y \in Int
      <4>1. Len(u) \in Nat /\ Len(b) \in Nat /\ cs[c].cap \in Int
        BY Fields
      <4> HIDE DEF b, u
      <4> QED BY ONLY <4>1
    <3> HIDE DEF x, y
    <3>2. Min({x, y}) <= x /\ Min({x, y}) \in Int
      BY <3>1, MinOf
    <3> QED BY <3>1, <3>2 DEF x, y
  <2>3. m \in 1..Len(u)
    BY <2>2
  <2>4. /\ cs'[c].buf = b \o SubSeq(u, 1, m) /\ cs'[c].cap = cs[c].cap
        /\ cs'[c] = [buf |-> cs'[c].buf, cap |-> cs'[c].cap]
    BY <2>1, Fields DEF Got, TrackInv, Buffers
  <2>5. unread'[c] = SubSeq(u, m + 1, Len(u))
    BY <2>1 DEF Got, TrackInv, Buffers
  <2> DEFINE k == Offs(sent[c])[Len(handled[c])]
  <2>6. Carves(sent[c], k, b, u)
    BY <1>4, Fields DEF Field, Tracked
  <2> HIDE DEF k, b, u
  <2>7. Carves(sent[c], k, cs'[c].buf, unread'[c])
    BY <2>3, <2>4, <2>5, <2>6, Received
  <2>8. cs'[c].buf \in Seq(Cells) /\ unread'[c] \in Seq(Cells)
    BY <2>7 DEF Carves
  <2>9. cs'[c] \in [buf : Seq(Cells), cap : Caps]
    <3> DEFINE x == cs'[c]
    <3> HIDE DEF x
    <3>1. x = [buf |-> x.buf, cap |-> x.cap] /\ x.buf \in Seq(Cells) /\ x.cap \in Caps
      BY <2>4, <2>8, Fields DEF x
    <3>2. x \in [buf : Seq(Cells), cap : Caps]
      BY ONLY <3>1
    <3> QED BY <3>2 DEF x
  <2>10. Tracked(sent[c], unread'[c], pc'[c], cs'[c].buf, req[c], handled[c], Last1(out[c]).k)
    BY <1>4, <2>7, Fields DEF Field, Tracked, k
  <2>11. pool' \subseteq [buf : {<<>>}, cap : Caps]
    BY <1>1 DEF TrackInv, Buffers
  <2> QED BY <1>1, <2>8, <2>9, <2>10, <2>11, OneTracked
<1> QED BY <1>2, <1>3, <1>4

(* A step of c that changes how long its buffer is, not what it holds. *)
LEMMA GrowsTracked ==
    ASSUME TrackInv, RepliesInv, NEW c \in Conn, Steps(c), UNCHANGED <<unread, pool>>,
           NEW cap \in Caps, cs' = [cs EXCEPT ![c].cap = cap],
           Tracked(sent[c], unread[c], pc'[c], cs[c].buf, req'[c], handled'[c], Last1(out'[c]).k)
    PROVE  TrackInv'
<1>1. cs'[c].buf = cs[c].buf /\ cs'[c] \in [buf : Seq(Cells), cap : Caps]
  BY DEF TrackInv, Buffers
<1>2. unread'[c] \in Seq(Cells) /\ pool' \subseteq [buf : {<<>>}, cap : Caps]
  BY DEF TrackInv, Buffers
<1> QED BY <1>1, <1>2, OneTracked

(* ParseHead refuses with cause, makes room, or takes the request. *)
LEMMA ParseTracked == ASSUME TrackInv, RepliesInv, NEW c \in Conn, ParseHead(c) PROVE TrackInv'
<1> DEFINE n == Len(handled[c])
           s == sent[c]
           b == cs[c].buf
           p == Parse(b)
<1>1. Steps(c) /\ pc[c] = "parse" /\ UNCHANGED <<unread, pool, handled>>
  BY ServingSteps DEF Serving, ParseHead, Running
<1>2. \/ p.at \notin {"incomplete", "complete"} /\ Refuse(c, p.at)
      \/ p.at = "incomplete" /\ Full(cs[c]) /\ Refuse(c, "431")
      \/ /\ p.at = "incomplete" /\ ~Full(cs[c]) /\ cs' = [cs EXCEPT ![c].cap = Room(cs[c])]
         /\ Goto(c, "read") /\ UNCHANGED <<req, out>>
      \/ p.at = "complete" /\ p.cl = -2 /\ Refuse(c, "400")
      \/ p.at = "complete" /\ p.cl > MaxBodyBytes /\ Refuse(c, "413")
      \/ /\ p.at = "complete" /\ p.cl # -2 /\ p.cl <= MaxBodyBytes
         /\ req' = [req EXCEPT ![c] = p] /\ Goto(c, "body") /\ UNCHANGED <<cs, out>>
  BY DEF ParseHead
<1>3. Field(c) /\ s \in Seq(Sendable) /\ n \in 0..Len(s) /\ Len(b) \in Nat
  BY Fields
<1>4. Carves(s, Offs(s)[n], b, unread[c])
  BY <1>1, <1>3 DEF Field, Tracked
<1>5. /\ p.at \notin {"incomplete", "complete"} => n < Len(s) /\ ~Good(s[n + 1])
      /\ p.at = "incomplete" /\ Len(b) >= MaxReadBuf => n < Len(s) /\ ~Good(s[n + 1])
      /\ p.at = "complete" =>
            /\ n < Len(s) /\ p.cl \in Int
            /\ p.cl = -2 \/ p.cl > MaxBodyBytes => ~Good(s[n + 1])
            /\ p.cl # -2 /\ p.cl <= MaxBodyBytes => Taken(s[n + 1], p)
  <2> HIDE DEF n, s, b
  <2> QED BY <1>3, <1>4, ParseNext
<1> HIDE DEF p
<1>6. CASE \E v : Refuse(c, v) /\ n < Len(s) /\ ~Good(s[n + 1])
  BY <1>1, <1>6, RefuseTracked
<1>7. CASE /\ p.at = "incomplete" /\ ~Full(cs[c]) /\ cs' = [cs EXCEPT ![c].cap = Room(cs[c])]
           /\ Goto(c, "read") /\ UNCHANGED <<req, out>>
  <2>1. Room(cs[c]) \in Caps
    <3>0. cs[c].cap \in Caps /\ cs[c].cap \in Int
      BY Fields
    <3>1. cs[c].cap \in Caps /\ cs[c].cap \in Int /\ MaxReadBuf \in Nat /\ MaxReadBuf > 0
      BY <3>0, HttpConstants
    <3> DEFINE x == cs[c].cap
    <3> HIDE DEF x
    <3>2. x \in Nat /\ Min({2 * x, MaxReadBuf}) = IF 2 * x <= MaxReadBuf THEN 2 * x ELSE MaxReadBuf
      BY <3>1, MinOf DEF x, Caps
    <3>3. Min({2 * x, MaxReadBuf}) \in Caps
      BY <3>1, <3>2 DEF Caps
    <3> QED BY <3>1, <3>3 DEF Room, x
  <2>2. pc'[c] = "read" /\ req'[c] = req[c] /\ out'[c] = out[c] /\ handled'[c] = handled[c]
    BY <1>1, <1>7 DEF Goto, RepliesInv
  <2>3. Tracked(sent[c], unread[c], "read", cs[c].buf, req[c], handled[c], Last1(out[c]).k)
    BY <1>1, <1>3, <1>4 DEF Field, Tracked
  <2> QED BY <1>1, <1>7, <2>1, <2>2, <2>3, GrowsTracked
<1>8. CASE /\ p.at = "complete" /\ p.cl # -2 /\ p.cl <= MaxBodyBytes
           /\ req' = [req EXCEPT ![c] = p] /\ Goto(c, "body") /\ UNCHANGED <<cs, out>>
  <2>1. pc'[c] = "body" /\ req'[c] = p /\ out'[c] = out[c] /\ handled'[c] = handled[c]
    BY <1>1, <1>8 DEF Goto, RepliesInv, TrackInv
  <2>2. n < Len(s) /\ Taken(s[n + 1], p)
    BY <1>5, <1>8
  <2>3. Tracked(sent[c], unread[c], "body", cs[c].buf, p, handled[c], Last1(out[c]).k)
    BY <1>1, <1>3, <1>4, <2>2 DEF Field, Tracked
  <2> QED BY <1>1, <1>8, <2>1, <2>3, StaysTracked
<1>9. Full(cs[c]) => Len(b) >= MaxReadBuf
  BY DEF Full
<1>10. /\ p.at \notin {"incomplete", "complete"} /\ Refuse(c, p.at) => n < Len(s) /\ ~Good(s[n + 1])
       /\ p.at = "incomplete" /\ Full(cs[c]) /\ Refuse(c, "431") => n < Len(s) /\ ~Good(s[n + 1])
       /\ p.at = "complete" /\ p.cl = -2 /\ Refuse(c, "400") => n < Len(s) /\ ~Good(s[n + 1])
       /\ p.at = "complete" /\ p.cl > MaxBodyBytes /\ Refuse(c, "413") => n < Len(s) /\ ~Good(s[n + 1])
  BY <1>5, <1>9
<1> QED BY <1>2, <1>6, <1>7, <1>8, <1>10

(* A body is a sequence of cells. *)
LEMMA BodyTypes == ASSUME NEW r \in Requests PROVE BodyCells(r) \in Seq(Cells)
<1>1. \A j \in 1..r.body : Cell("body", j) \in Cells
  BY CellTypes
<1>2. r.body \in Nat
  BY RequestTypes
<1> QED BY <1>1, <1>2 DEF BodyCells

(* What the body of a taken request needs of the buffer. *)
LEMMA NeededFor ==
    ASSUME NEW c, NEW r \in Requests, Taken(r, req[c])
    PROVE  /\ Needed(c) = HeadEnd(r) + r.body /\ Needed(c) \in Nat /\ req[c].end = HeadEnd(r)
           /\ HeadEnd(r) \in Nat /\ r.body \in Nat /\ req[c].line = r.line
           /\ Needed(c) > MaxReadBuf => ~Good(r)
<1>1. Needed(c) = HeadEnd(r) + r.body /\ req[c].end = HeadEnd(r) /\ req[c].line = r.line
  BY DEF Needed, Taken
<1>2. HeadEnd(r) \in Nat /\ r.body \in Nat /\ MaxReadBuf \in Nat
  BY RequestTypes, HttpConstants
<1>3. Needed(c) \in Nat
  BY <1>1, <1>2
<1>4. Len(Wire(r)) = Needed(c)
  BY <1>1, Sizes
<1>5. Good(r) => Len(Wire(r)) <= MaxReadBuf
  BY DEF Good
<1>6. Needed(c) > MaxReadBuf => ~Good(r)
  BY <1>2, <1>3, <1>4, <1>5
<1> QED BY <1>1, <1>2, <1>3, <1>6

(* Body waits for the whole body, growing the buffer to less than twice MaxReadBuf. *)
LEMMA BodyTracked == ASSUME TrackInv, RepliesInv, NEW c \in Conn, Body(c) PROVE TrackInv'
<1> DEFINE n == Len(handled[c])
           s == sent[c]
           b == cs[c].buf
           r == s[n + 1]
           cap == IF Needed(c) > cs[c].cap THEN Max({2 * cs[c].cap, Needed(c)}) ELSE cs[c].cap
<1>1. Steps(c) /\ pc[c] = "body" /\ UNCHANGED <<unread, pool, handled>>
  BY ServingSteps DEF Serving, Body, Running
<1>2. \/ Len(b) >= Needed(c) /\ Goto(c, "dispatch") /\ UNCHANGED <<cs, req, out>>
      \/ Needed(c) > MaxReadBuf /\ Refuse(c, "413")
      \/ /\ Needed(c) <= cs[c].cap \/ Needed(c) <= MaxReadBuf
         /\ cs' = [cs EXCEPT ![c].cap = cap]
         /\ Goto(c, "readBody") /\ UNCHANGED <<req, out>>
  <2>1. [cs EXCEPT ![c].cap = IF Needed(c) > @ THEN Max({2 * @, Needed(c)}) ELSE @]
           = [cs EXCEPT ![c].cap = cap]
    BY DEF TrackInv, Buffers
  <2> HIDE DEF cap
  <2> QED BY <2>1 DEF Body
<1>3. Field(c) /\ s \in Seq(Sendable) /\ n \in 0..Len(s) /\ Len(b) \in Nat
  BY Fields
<1>4. n < Len(s) /\ Taken(r, req[c])
  BY <1>1, <1>3 DEF Field, Tracked
<1>5. r \in Requests
  <2>1. n \in 0..(Len(s) - 1) /\ n + 1 \in 1..Len(s)
    BY <1>3, <1>4
  <2> QED BY <1>3, <2>1 DEF Sendable
<1> HIDE DEF r
<1>6. /\ Needed(c) = HeadEnd(r) + r.body /\ Needed(c) \in Nat
      /\ Needed(c) > MaxReadBuf => ~Good(r)
  BY <1>4, <1>5, NeededFor
<1>7. CASE Len(b) >= Needed(c) /\ Goto(c, "dispatch") /\ UNCHANGED <<cs, req, out>>
  <2>1. pc'[c] = "dispatch"
    BY <1>7 DEF Goto, RepliesInv
  <2>2. Len(b) >= HeadEnd(r) + r.body
    BY <1>6, <1>7
  <2>3. Tracked(s, unread[c], "dispatch", b, req[c], handled[c], Last1(out[c]).k)
    BY <1>1, <1>3, <1>4, <2>2 DEF Field, Tracked, r
  <2> QED BY <1>1, <1>7, <2>1, <2>3, StaysTracked
<1>8. CASE Needed(c) > MaxReadBuf /\ Refuse(c, "413")
  BY <1>1, <1>4, <1>6, <1>8, RefuseTracked DEF r
<1>9. CASE /\ Needed(c) <= cs[c].cap \/ Needed(c) <= MaxReadBuf
           /\ cs' = [cs EXCEPT ![c].cap = cap]
           /\ Goto(c, "readBody") /\ UNCHANGED <<req, out>>
  <2>1. cap \in Caps
    <3>0. cs[c].cap \in Caps /\ cs[c].cap \in Int
      BY Fields
    <3>1. MaxReadBuf \in Nat /\ MaxReadBuf > 0
      BY HttpConstants
    <3> DEFINE x == cs[c].cap
               y == Needed(c)
    <3>2. x \in Nat /\ y \in Nat /\ x \in Caps /\ (y <= x \/ y <= MaxReadBuf)
      BY <1>6, <1>9, <3>0, <3>1 DEF Caps
    <3> HIDE DEF x, y
    <3>3. Max({2 * x, y}) = IF 2 * x >= y THEN 2 * x ELSE y
      BY <3>2, MaxOf
    <3>4. y > x => Max({2 * x, y}) \in Caps
      BY <3>1, <3>2, <3>3 DEF Caps
    <3>5. cap = IF y > x THEN Max({2 * x, y}) ELSE x
      BY DEF x, y
    <3> HIDE DEF cap
    <3> QED BY <3>2, <3>4, <3>5
  <2> HIDE DEF cap
  <2>2. pc'[c] = "readBody"
    BY <1>9 DEF Goto, RepliesInv
  <2>3. Tracked(s, unread[c], "readBody", b, req[c], handled[c], Last1(out[c]).k)
    BY <1>1, <1>3, <1>4 DEF Field, Tracked, r
  <2> QED BY <1>1, <1>9, <2>1, <2>2, <2>3, GrowsTracked
<1> QED BY <1>2, <1>7, <1>8, <1>9

(* The handler is given the next request of s. *)
LEMMA TakesNext ==
    ASSUME NEW s, NEW u, NEW b, NEW q, NEW h, NEW w, Tracked(s, u, "dispatch", b, q, h, w),
           NEW g, g = [line |-> s[Len(h) + 1].line, body |-> BodyCells(s[Len(h) + 1])]
    PROVE  /\ Tracked(s, u, "head", b, q, Append(h, g), w)
           /\ \A w2 : w2 # "refused" => Tracked(s, u, "close", b, q, Append(h, g), w2)
<1> DEFINE n == Len(h)
           r == s[n + 1]
           hs == Append(h, g)
<1>1. /\ s \in Seq(Sendable) /\ h \in Seq(Given) /\ n < Len(s) /\ Carves(s, Offs(s)[n], b, u)
      /\ \A i \in 1..n : h[i] = [line |-> s[i].line, body |-> BodyCells(s[i])] /\ ~Bad(s[i])
      /\ Taken(r, q) /\ Len(b) >= HeadEnd(r) + r.body /\ w # "refused"
  BY DEF Tracked
<1>2. n \in Nat /\ n + 1 \in 1..Len(s) /\ n + 1 <= Len(s) /\ n + 1 > 0
  BY <1>1
<1>3. r \in Requests /\ ~Bad(r)
  BY <1>1, <1>2 DEF Sendable, Taken
<1>4. g \in Given
  <2>1. g = [line |-> r.line, body |-> BodyCells(r)]
    OBVIOUS
  <2> HIDE DEF r
  <2>2. r.line \in STRING /\ BodyCells(r) \in Seq(Cells)
    BY <1>3, RequestTypes, BodyTypes
  <2> QED BY <2>1, <2>2 DEF Given
<1>5. /\ hs \in Seq(Given) /\ Len(hs) = n + 1 /\ hs[n + 1] = g
      /\ \A i \in 1..n : hs[i] = h[i]
  BY <1>1, <1>4
<1> HIDE DEF hs
<1> DEFINE m == n + 1
<1>6. m \in Nat /\ m <= Len(s) /\ m > 0 /\ m - 1 = n
  BY <1>2
<1>7. /\ g = [line |-> s[m].line, body |-> BodyCells(s[m])] /\ ~Bad(s[m]) /\ Taken(s[m], q)
      /\ Len(b) >= HeadEnd(s[m]) + s[m].body /\ Len(hs) = m /\ hs[m] = g
  BY <1>1, <1>3, <1>5
<1>8. \A i \in 1..m : i = m \/ i \in 1..n
  BY <1>2
<1> HIDE DEF m
<1>9. \A i \in 1..m : hs[i] = [line |-> s[i].line, body |-> BodyCells(s[i])] /\ ~Bad(s[i])
  BY <1>1, <1>5, <1>7, <1>8
<1>10. Carves(s, Offs(s)[m - 1], b, u)
  BY <1>1, <1>6
<1>11. Tracked(s, u, "head", b, q, hs, w)
  BY <1>1, <1>5, <1>6, <1>7, <1>9, <1>10 DEF Tracked
<1>12. \A w2 : w2 # "refused" => Tracked(s, u, "close", b, q, hs, w2)
  BY <1>1, <1>5, <1>6, <1>7, <1>9 DEF Tracked
<1> QED BY <1>11, <1>12 DEF hs

(* The handler is given the request the buffer begins with. *)
LEMMA DispatchTracked == ASSUME TrackInv, RepliesInv, NEW c \in Conn, Dispatch(c) PROVE TrackInv'
<1> DEFINE n == Len(handled[c])
           s == sent[c]
           b == cs[c].buf
           r == s[n + 1]
           g == [line |-> req[c].line, body |-> SubSeq(b, req[c].end + 1, Needed(c))]
<1>1. /\ Steps(c) /\ pc[c] = "dispatch" /\ UNCHANGED <<unread, cs, pool, req>>
      /\ handled'[c] = Append(handled[c], g)
      /\ \/ pc'[c] = "head" /\ out'[c] = out[c]
         \/ \E m : out'[c] = Append(out[c], Cell("panic", m)) /\ pc'[c] = "close"
  BY ServingSteps DEF Serving, Dispatch, Running, Goto, Emit, RepliesInv
<1>2. Field(c) /\ s \in Seq(Sendable) /\ n \in 0..Len(s) /\ out[c] \in Seq(Written)
  BY Fields
<1>3. Tracked(s, unread[c], "dispatch", b, req[c], handled[c], Last1(out[c]).k)
  BY <1>1, <1>2 DEF Field
<1>4. n < Len(s) /\ Taken(r, req[c]) /\ Len(b) >= HeadEnd(r) + r.body /\ Carves(s, Offs(s)[n], b, unread[c])
  BY <1>3 DEF Tracked
<1>5. n \in 0..(Len(s) - 1) /\ n + 1 \in 1..Len(s)
  BY <1>2, <1>4
<1>6. r \in Requests
  BY <1>2, <1>5 DEF Sendable
<1>7. SubSeq(b, HeadEnd(r) + 1, HeadEnd(r) + r.body) = BodyCells(r)
  <2> HIDE DEF n, s, b
  <2> QED BY <1>2, <1>4, <1>5, HoldsNext
<1> HIDE DEF r
<1>8. g = [line |-> r.line, body |-> BodyCells(r)]
  <2>1. Needed(c) = HeadEnd(r) + r.body /\ req[c].end = HeadEnd(r) /\ req[c].line = r.line
    BY <1>4, <1>6, NeededFor
  <2> QED BY <1>7, <2>1
<1> HIDE DEF g
<1>9. /\ Tracked(s, unread[c], "head", b, req[c], Append(handled[c], g), Last1(out[c]).k)
      /\ \A w : w # "refused" => Tracked(s, unread[c], "close", b, req[c], Append(handled[c], g), w)
  <2> HIDE DEF s, b
  <2> QED BY <1>3, <1>8, TakesNext DEF r, n
<1>10. CASE pc'[c] = "head" /\ out'[c] = out[c]
  BY <1>1, <1>9, <1>10, StaysTracked
<1>11. CASE \E m : out'[c] = Append(out[c], Cell("panic", m)) /\ pc'[c] = "close"
  <2>1. Last1(out'[c]).k # "refused"
    BY <1>2, <1>11, LastWritten DEF Cell
  <2>2. Tracked(s, unread[c], "close", b, req[c], Append(handled[c], g), Last1(out'[c]).k)
    BY <1>9, <2>1
  <2> QED BY <1>1, <1>11, <2>2, StaysTracked
<1> QED BY <1>1, <1>10, <1>11

(* The response to a request that c goes on with. *)
LEMMA AnswersTracked ==
    ASSUME NEW s, NEW u, NEW l \in {"head", "stream", "hijack"}, NEW b, NEW q, NEW h, NEW w,
           Tracked(s, u, l, b, q, h, w),
           NEW l2 \in {"stream", "hijack", "next"}, NEW w2, w2 # "refused"
    PROVE  Tracked(s, u, l2, b, q, h, w2)
  BY DEF Tracked

(* A response leaves the buffer alone. *)
LEMMA ResponseTracked ==
    ASSUME TrackInv, RepliesInv, NEW c \in Conn,
           WriteHead(c) \/ StreamChunk(c) \/ StreamEnd(c) \/ Hijacked(c)
    PROVE  TrackInv'
<1> DEFINE refused == Last1(out'[c]).k = "refused"
<1>1. Steps(c) /\ UNCHANGED <<unread, cs, pool, req, handled>>
  BY ServingSteps DEF Serving, WriteHead, StreamChunk, StreamEnd, Hijacked
<1>2. pc[c] \in {"head", "stream", "hijack"}
  BY DEF WriteHead, StreamChunk, StreamEnd, Hijacked, Running
<1>3. /\ pc'[c] \in {"stream", "hijack", "next", "close"}
      /\ \/ out'[c] = out[c] /\ pc'[c] = "close"
         \/ \E k \in {"whole", "head", "chunk", "panic", "trailer", "raw"} : \E n :
               out'[c] = Append(out[c], Cell(k, n))
  BY DEF WriteHead, StreamChunk, StreamEnd, Hijacked, Running, Goto, Emit, Panic, Mode, RepliesInv
<1>4. Field(c) /\ out[c] \in Seq(Written)
  BY Fields
<1>5. CASE out'[c] = out[c] /\ pc'[c] = "close"
  BY <1>1, <1>5, EndsTracked
<1>6. CASE \E k \in {"whole", "head", "chunk", "panic", "trailer", "raw"} : \E n :
              out'[c] = Append(out[c], Cell(k, n))
  <2>1. Last1(out'[c]).k # "refused"
    BY <1>4, <1>6, LastWritten DEF Cell
  <2>2. CASE pc'[c] = "close"
    BY <1>1, <2>1, <2>2, EndsTracked
  <2>3. CASE pc'[c] # "close"
    <3> DEFINE w == Last1(out'[c]).k
               l == pc'[c]
    <3>1. l \in {"stream", "hijack", "next"} /\ w # "refused"
      BY <1>3, <2>1, <2>3
    <3> HIDE DEF w, l
    <3>2. Tracked(sent[c], unread[c], l, cs[c].buf, req[c], handled[c], w)
      BY <1>2, <1>4, <3>1, AnswersTracked DEF Field
    <3> QED BY <1>1, <3>2, StaysTracked DEF w, l
  <2> QED BY <2>2, <2>3
<1> QED BY <1>3, <1>5, <1>6

(* What the request took is dropped, and the buffer begins with the next one. *)
LEMMA NextRequestTracked == ASSUME TrackInv, RepliesInv, NEW c \in Conn, NextRequest(c) PROVE TrackInv'
<1> DEFINE n == Len(handled[c])
           s == sent[c]
           b == cs[c].buf
           r == s[n]
           b2 == SubSeq(b, Needed(c) + 1, Len(b))
           k == Offs(s)[n - 1]
<1>1. /\ Steps(c) /\ pc[c] = "next" /\ UNCHANGED <<unread, pool, req, out, handled>>
      /\ cs' = [cs EXCEPT ![c].buf = b2] /\ pc'[c] \in {"parse", "close"}
  <2>1. [cs EXCEPT ![c].buf = SubSeq(@, Needed(c) + 1, Len(@))] = [cs EXCEPT ![c].buf = b2]
    BY DEF TrackInv, Buffers
  <2> HIDE DEF b2
  <2> QED BY <2>1, ServingSteps DEF Serving, NextRequest, Running, Goto, RepliesInv
<1>2. /\ Field(c) /\ s \in Seq(Sendable) /\ n \in 0..Len(s) /\ Len(b) \in Nat
      /\ b \in Seq(Cells) /\ unread[c] \in Seq(Cells)
  BY Fields
<1>3. /\ n > 0 /\ Taken(r, req[c]) /\ Len(b) >= HeadEnd(r) + r.body /\ Carves(s, k, b, unread[c])
  BY <1>1, <1>2 DEF Field, Tracked
<1> DEFINE m == n - 1
<1>4. m \in 0..(Len(s) - 1) /\ m + 1 = n /\ n \in 1..Len(s)
  BY <1>2, <1>3
<1>5. r \in Requests /\ k \in Nat /\ Offs(s)[n] = k + HeadEnd(r) + r.body
  <2> HIDE DEF m, n, s
  <2>1. s[m + 1] \in Requests /\ Offs(s)[m + 1] = Offs(s)[m] + HeadEnd(s[m + 1]) + s[m + 1].body
        /\ Offs(s)[m] \in Nat
    <3>1. m \in 0..Len(s)
      BY <1>4, StreamLaidOut, <1>2
    <3> QED BY <1>2, <1>4, <3>1, StreamLaidOut
  <2> QED BY <1>4, <2>1 DEF m
<1>6. /\ Needed(c) = HeadEnd(r) + r.body /\ Needed(c) \in Nat /\ HeadEnd(r) \in Nat /\ r.body \in Nat
  BY <1>3, <1>5, NeededFor
<1>7. Needed(c) \in 0..Len(b) /\ Offs(s)[n] = k + Needed(c)
  <2> HIDE DEF r, k, b, n, s
  <2> QED BY <1>2, <1>3, <1>5, <1>6
<1>8. Carves(s, Offs(s)[n], b2, unread[c])
  <2>1. Carves(s, k + Needed(c), b2, unread[c])
    <3> DEFINE x == Needed(c)
    <3> HIDE DEF k, s, x, b
    <3> QED BY <1>3, <1>7, Skipped DEF x
  <2> QED BY <1>7, <2>1
<1> HIDE DEF b2
<1>9. cs'[c].buf = b2 /\ cs'[c] \in [buf : Seq(Cells), cap : Caps]
  <2>1. b2 \in Seq(Cells)
    BY <1>8 DEF Carves
  <2> QED BY <1>1, <2>1 DEF TrackInv, Buffers
<1>10. Tracked(s, unread[c], pc'[c], b2, req[c], handled[c], Last1(out[c]).k)
  <2>1. CASE pc'[c] = "parse"
    <3>1. Tracked(s, unread[c], "parse", b2, req[c], handled[c], Last1(out[c]).k)
      BY <1>1, <1>2, <1>8 DEF Field, Tracked
    <3> QED BY <2>1, <3>1
  <2>2. CASE pc'[c] = "close"
    <3>1. Tracked(s, unread[c], "close", b2, req[c], handled[c], Last1(out[c]).k)
      BY <1>1, <1>2 DEF Field, Tracked
    <3> QED BY <2>2, <3>1
  <2> QED BY <1>1, <2>1, <2>2
<1>11. unread'[c] \in Seq(Cells) /\ pool' \subseteq [buf : {<<>>}, cap : Caps]
  BY <1>1, <1>2 DEF TrackInv, Buffers
<1> QED BY <1>1, <1>9, <1>10, <1>11, OneTracked

(* Every step keeps every connection tracked. *)
LEMMA NextTracked == ASSUME TrackInv, RepliesInv, [Next]_vars PROVE TrackInv'
<1>1. CASE CloseListeners \/ Shutdown \/ Exit \/ UNCHANGED vars
  <2>1. UNCHANGED <<sent, unread, pc, cs, req, pool, out, handled>>
    BY <1>1 DEF CloseListeners, Shutdown, Exit, conn, vars
  <2> QED BY <2>1 DEF TrackInv, Buffers
<1> QED BY <1>1, AcceptTracked, StartTracked, ParseTracked, ReadTracked, BodyTracked, DispatchTracked,
           ResponseTracked, NextRequestTracked, CloseTracked DEF Next, Step, Serving

(* A connection nothing was read from yet. *)
LEMMA Dialled ==
    ASSUME NEW s \in Seq(Sendable), NEW u, NEW b, NEW q, NEW h \in Seq(Given), NEW w,
           Len(h) = 0, Len(s) \in Nat, Carves(s, 0, <<>>, u), w # "refused"
    PROVE  Tracked(s, u, "dialled", b, q, h, w)
  BY DEF Tracked

(* At the start all is unread. *)
LEMMA InitTracked == Init => TrackInv
<1> SUFFICES ASSUME Init PROVE TrackInv
  OBVIOUS
<1>1. ASSUME NEW c \in Conn
      PROVE  /\ sent[c] \in Seq(Sendable) /\ unread[c] = Stream(sent[c])
             /\ Tracked(sent[c], unread[c], pc[c], cs[c].buf, req[c], handled[c], Last1(out[c]).k)
  <2>1. sent[c] \in Seq(Sendable)
    BY HttpConstants DEF Init, Sendable
  <2>2. unread[c] = Stream(sent[c])
    BY DEF Init, Stream, Wires
  <2>3. Stream(sent[c]) \in Seq(Cells) /\ Len(sent[c]) \in Nat
    BY <2>1, StreamLaidOut
  <2>4. Carves(sent[c], 0, <<>>, unread[c])
    <3> DEFINE a == Stream(sent[c])
    <3>1. a \in Seq(Cells) /\ Len(a) \in Nat /\ Len(<<>>) = 0 /\ <<>> \in Seq(Cells)
      BY <2>3
    <3> HIDE DEF a
    <3>2. 0 + Len(<<>>) + Len(a) = Len(a) /\ \A q \in 1..Len(a) : 0 + Len(<<>>) + q = q
      BY <3>1
    <3> QED BY <2>2, <3>1, <3>2 DEF Carves, a
  <2>5. pc[c] = "dialled" /\ handled[c] = <<>> /\ out[c] = <<>>
    BY DEF Init
  <2>6. Last1(out[c]).k = ""
    BY <2>5 DEF Last1, Cell
  <2>7. handled[c] \in Seq(Given) /\ Len(handled[c]) = 0
    BY <2>5
  <2> DEFINE w == Last1(out[c]).k
  <2>8. w # "refused"
    BY <2>6
  <2> HIDE DEF w
  <2>9. Tracked(sent[c], unread[c], "dialled", cs[c].buf, req[c], handled[c], w)
    BY <2>1, <2>3, <2>4, <2>7, <2>8, Dialled
  <2> QED BY <2>1, <2>2, <2>5, <2>9 DEF w
<1>2. Buffers
  <2>1. 0 \in Caps /\ <<>> \in Seq(Cells)
    BY HttpConstants DEF Caps
  <2>2. \A c \in Conn : unread[c] \in Seq(Cells)
    BY <1>1, StreamLaidOut
  <2> QED BY <2>1, <2>2 DEF Init, Buffers
<1> QED BY <1>1, <1>2 DEF Init, TrackInv

(* Every connection is tracked at every moment. *)
LEMMA SpecTracked == Spec => []TrackInv
  BY InitReplies, NextReplies, InitTracked, NextTracked, PTL DEF Spec

(* However the bytes are cut into reads, whatever buffer the connection took *)
(* from the pool and however it grew, serveConn gives the handler exactly the *)
(* requests the client sent, in order, each with its own body.               *)
THEOREM HandlerGetsRequests == Spec => []HandledAsSent
<1>1. TrackInv => HandledAsSent
  <2> SUFFICES ASSUME TrackInv, NEW c \in Conn
               PROVE  /\ Len(handled[c]) <= Len(sent[c])
                      /\ \A i \in DOMAIN handled[c] :
                            handled[c][i] = [line |-> sent[c][i].line, body |-> BodyCells(sent[c][i])]
    BY DEF HandledAsSent
  <2>1. Field(c)
    BY DEF TrackInv, Field
  <2>2. DOMAIN handled[c] = 1..Len(handled[c])
    BY <2>1 DEF Field, Tracked
  <2> QED BY <2>1, <2>2 DEF Field, Tracked
<1> QED BY <1>1, SpecTracked, PTL

(* serveConn refuses only a request that is malformed or over a limit, never *)
(* one within all of them, and gives no malformed one to the handler.        *)
THEOREM RefusesWithCause == Spec => []RefusalsJustified
<1>1. TrackInv => RefusalsJustified
  <2> SUFFICES ASSUME TrackInv, NEW c \in Conn
               PROVE  /\ \A i \in DOMAIN handled[c] : ~Bad(sent[c][i])
                      /\ Last1(out[c]).k = "refused" =>
                            Len(handled[c]) < Len(sent[c]) /\ ~Good(sent[c][Len(handled[c]) + 1])
    BY DEF RefusalsJustified
  <2>1. Field(c)
    BY DEF TrackInv, Field
  <2>2. DOMAIN handled[c] = 1..Len(handled[c])
    BY <2>1 DEF Field, Tracked
  <2> QED BY <2>1, <2>2 DEF Field, Tracked
<1> QED BY <1>1, SpecTracked, PTL

(* rbuf stays below twice MaxReadBuf through the growth for a body and every *)
(* reuse of a pooled connState.                                              *)
THEOREM BuffersStayBounded == Spec => []BufferBounded
<1>1. TrackInv => BufferBounded
  BY HttpConstants DEF TrackInv, Buffers, BufferBounded, Caps
<1> QED BY <1>1, SpecTracked, PTL
=============================================================================
