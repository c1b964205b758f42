------------------------------ MODULE FileServe ------------------------------
(***************************************************************************)
(* serveFile: a large file of dist/ streamed from disk, whole or by range,   *)
(* while builds rewrite it in place and reloads publish new states.          *)
(* A byte is named by the build that wrote it and its position from 0.       *)
(***************************************************************************)
EXTENDS Integers, Sequences, SequencesExt, FiniteSetsExt

CONSTANTS
    Mime,        \* the file's mime type
    RouteMimes,  \* for each appState the mime types of its file routes in order
    BaseHeads,   \* for each appState the heads registered before them
    Ranges,      \* Range headers: NoRange or [unit, dash, first, last]
    NoRange,
    Empty, Bad,  \* a number that is not there, one ParseInt refuses
    Sizes,       \* bound: the sizes the file may have
    ChunkSize,   \* bound: bytes per read of io.Copy
    MaxBuilds    \* bound: rewrites of the file

States == DOMAIN RouteMimes

ASSUME FileConstants ==
    /\ DOMAIN BaseHeads = States /\ 1 \in States
    /\ \A g \in States : /\ RouteMimes[g] \in Seq(Range(RouteMimes[g]))
                          /\ BaseHeads[g] \in Seq(Range(BaseHeads[g]))
                          /\ Mime \in Range(RouteMimes[g])
    /\ Sizes \subseteq Nat /\ ChunkSize \in Nat \ {0}
    /\ Empty \notin Int /\ Bad \notin Int /\ Empty # Bad
    /\ \A h \in Ranges \ {NoRange} :
          /\ h.unit \in BOOLEAN /\ h.dash \in BOOLEAN
          /\ h.first \in Nat \cup {Empty, Bad} /\ h.last \in Int \cup {Empty, Bad}

VARIABLES
    disk,    \* the file's bytes [build, pos]
    build,   \* the build under way: [n, left] bytes still to write
    state, registry,   \* the published appState, and the one whose registry is published
    req,     \* the request: [method, range, st, reg]
    step,    \* "idle", "open", "handle", "head", "copy", "done"
    file,    \* the handle: "none", "open", "closed", "dropped"
    off, size,
    resp,    \* [head, stream, length, range]
    out,     \* what the client got: [head, body, end], end "clean" or "cut"
    still    \* history: the file's bytes are those of the Stat
server == <<state, registry>>
vars == <<disk, build, server, req, step, file, off, size, resp, out, still>>

-----------------------------------------------------------------------------
(* A mime type gets its two heads once.                                      *)
Register(st, mime, ids) ==
    IF mime \in DOMAIN st.fileHeads THEN st
    ELSE [fileHeads |-> [m \in DOMAIN st.fileHeads \cup {mime} |->
                           IF m = mime THEN ids ELSE st.fileHeads[m]],
          heads |-> st.heads \o <<[status |-> 200, mime |-> mime], [status |-> 206, mime |-> mime]>>]

(* Mutant: the two heads of a mime type in the other order.                  *)
registerFileMimeSwapped(st, mime) ==
    Register(st, mime, [head200 |-> Len(st.heads) + 1, head206 |-> Len(st.heads)])

registerFileMime(st, mime) ==
    Register(st, mime, [head200 |-> Len(st.heads), head206 |-> Len(st.heads) + 1])

appState(g) ==
    FoldLeft(registerFileMime, [fileHeads |-> <<>>, heads |-> BaseHeads[g]], RouteMimes[g])

NotFound == [status |-> 404]
ServerError == [status |-> 500]
NoHead == [status |-> 0]

(* Reload publishes the state, then its registry.                            *)
SwapState ==
    /\ registry = state /\ state + 1 \in States
    /\ state' = state + 1
    /\ UNCHANGED <<disk, build, registry, req, step, file, off, size, resp, out, still>>
ReplaceRegistry ==
    /\ registry # state
    /\ registry' = state
    /\ UNCHANGED <<disk, build, state, req, step, file, off, size, resp, out, still>>

-----------------------------------------------------------------------------
Bytes(n, from, to) == [i \in 1..(to - from + 1) |-> [build |-> n, pos |-> from + i - 1]]

Init ==
    /\ \E n \in Sizes : disk = Bytes(0, 0, n - 1)
    /\ build = [n |-> 0, left |-> 0]
    /\ state = 1 /\ registry = 1
    /\ req = NoRange /\ step = "idle" /\ file = "none" /\ off = 0 /\ size = 0
    /\ resp = [head |-> NoHead, stream |-> "none"]
    /\ out = [head |-> NoHead, body |-> <<>>, end |-> "none"]
    /\ still = TRUE

(* processDiskFile: os.WriteFile truncates the file ...                       *)
Truncate ==
    /\ build.left = 0 /\ build.n < MaxBuilds
    /\ \E n \in Sizes : build' = [n |-> build.n + 1, left |-> n]
    /\ disk' = <<>> /\ still' = FALSE
    /\ UNCHANGED <<server, req, step, file, off, size, resp, out>>

(* ... and writes it again, in as many pieces as it takes.                    *)
WriteBytes ==
    /\ \E n \in 1..build.left :
          /\ disk' = disk \o Bytes(build.n, Len(disk), Len(disk) + n - 1)
          /\ build' = [build EXCEPT !.left = @ - n]
    /\ still' = FALSE
    /\ UNCHANGED <<server, req, step, file, off, size, resp, out>>

-----------------------------------------------------------------------------
(* parseByteRange: inclusive offsets from 0; only the first range counts.     *)
NotOK == [ok |-> FALSE]
From(a, b) == [ok |-> TRUE, start |-> a, end |-> b]

(* Mutant: the last byte asked for is taken as it comes.                      *)
parseByteRangeUnclamped(h, total) ==
    IF ~h.unit \/ ~h.dash \/ Bad \in {h.first, h.last} \/ {h.first, h.last} = {Empty} THEN NotOK
    ELSE IF h.first = Empty
         THEN IF h.last <= 0 THEN NotOK ELSE From(total - Min({h.last, total}), total - 1)
    ELSE IF h.first < 0 \/ h.first >= total THEN NotOK
    ELSE IF h.last = Empty THEN From(h.first, total - 1)
    ELSE IF h.last < h.first THEN NotOK ELSE From(h.first, h.last)

parseByteRange(h, total) ==
    IF ~h.unit \/ ~h.dash \/ Bad \in {h.first, h.last} \/ {h.first, h.last} = {Empty} THEN NotOK
    ELSE IF h.first = Empty
         THEN IF h.last <= 0 THEN NotOK ELSE From(total - Min({h.last, total}), total - 1)
    ELSE IF h.first < 0 \/ h.first >= total THEN NotOK
    ELSE IF h.last = Empty THEN From(h.first, total - 1)
    ELSE IF h.last < h.first THEN NotOK ELSE From(h.first, Min({h.last, total - 1}))

(* serveOne takes the registry, then the handler the state.                   *)
Request ==
    /\ step = "idle"
    /\ \E m \in {"GET", "HEAD"}, r \in Ranges :
          req' = [method |-> m, range |-> r, reg |-> registry, st |-> 0]
    /\ step' = "open"
    /\ UNCHANGED <<disk, build, server, file, off, size, resp, out, still>>

Reply(head) == resp' = [head |-> head, stream |-> "none"] /\ step' = "head"

Open ==
    /\ step = "open"
    /\ req' = [req EXCEPT !.st = state]
    /\ \/ file' = "open" /\ step' = "handle" /\ UNCHANGED resp
       \/ Reply(NotFound) /\ UNCHANGED file
    /\ UNCHANGED <<disk, build, server, off, size, out, still>>

(* Stat or Seek fails.                                                        *)
Fail ==
    /\ step = "handle"
    /\ file' = "closed" /\ Reply(ServerError)
    /\ UNCHANGED <<disk, build, server, req, off, size, out, still>>

(* The rest of serveFile: Stat, the mime type's heads, HEAD, the range.  A    *)
(* range that is refused leaves a closed file to copy from.                   *)
serveFile ==
    /\ step = "handle"
    /\ size' = Len(disk) /\ still' = TRUE
    /\ LET st == appState(req.st)
           heads == st.fileHeads[Mime]
           r == parseByteRange(req.range, Len(disk))
           Stream(kind, id, n) == /\ resp' = [head |-> [id |-> id], stream |-> kind, length |-> n,
                                              range |-> IF kind = "copyN" THEN r ELSE NotOK]
                                  /\ step' = "head"
       IN  IF Mime \notin DOMAIN st.fileHeads
           THEN file' = "closed" /\ Reply(ServerError) /\ UNCHANGED off
           ELSE IF req.method = "HEAD"
           THEN file' = "closed" /\ Stream("noop", heads.head200, 0) /\ UNCHANGED off
           ELSE IF req.range = NoRange
           THEN Stream("copy", heads.head200, 0) /\ UNCHANGED <<file, off>>
           ELSE IF ~r.ok
           THEN file' = "closed" /\ Stream("copy", heads.head200, 0) /\ UNCHANGED off
           ELSE off' = r.start /\ Stream("copyN", heads.head206, r.end - r.start + 1) /\ UNCHANGED file
    /\ UNCHANGED <<disk, build, server, req, out>>

(* writeTo: the head of the request's registry.  When it has none, or the     *)
(* client is gone, the stream function is never called.                       *)
HeadAt(g, id) ==
    LET heads == appState(g).heads
    IN  IF id < Len(heads) THEN heads[id + 1] ELSE NoHead
WriteHead ==
    /\ step = "head"
    /\ LET head == IF "id" \in DOMAIN resp.head THEN HeadAt(req.reg, resp.head.id) ELSE resp.head
           Done(how) == out' = [head |-> head, body |-> out.body, end |-> how] /\ step' = "done"
       IN  \/ /\ head # NoHead
              /\ IF resp.stream \in {"none", "noop"} THEN Done("clean")
                 ELSE out' = [out EXCEPT !.head = head] /\ step' = "copy"
              /\ UNCHANGED file
           \/ /\ out' = [out EXCEPT !.end = "unsent"] /\ step' = "done"
              /\ file' = IF file = "open" THEN "dropped" ELSE file
    /\ UNCHANGED <<disk, build, server, req, off, size, resp, still>>

-----------------------------------------------------------------------------
Here == SubSeq(disk, off + 1, Len(disk))
Wanted == IF resp.stream = "copyN" THEN resp.length - Len(out.body) ELSE Len(Here)
Copying == step = "copy" /\ file = "open"

(* io.Copy and io.CopyN: a chunk is read and sent.                            *)
CopyChunk ==
    /\ Copying
    /\ \E n \in 1..Min({ChunkSize, Wanted, Len(Here)}) :
          out' = [out EXCEPT !.body = @ \o SubSeq(Here, 1, n)] /\ off' = off + n
    /\ UNCHANGED <<disk, build, server, req, step, file, size, resp, still>>

(* The stream function returns and closes the file; the trailer goes out      *)
(* unless it returned an error.                                               *)
End(how) ==
    /\ file' = "closed" /\ step' = "done"
    /\ out' = [out EXCEPT !.end = how]
    /\ UNCHANGED <<disk, build, server, req, off, size, resp, still>>

(* Mutant: the end of the file ends a range too.                              *)
CopyEndsEarly == Copying /\ (Wanted = 0 \/ Here = <<>>) /\ End("clean")

(* Copy ends at the end of the file, CopyN when it has its bytes.             *)
CopyEnds == Copying /\ Wanted = 0 /\ End("clean")

(* Mutant: an error leaves the function before the file is closed.            *)
CopyFailsOpen ==
    /\ step = "copy" /\ file' = file /\ step' = "done"
    /\ out' = [out EXCEPT !.end = "cut"]
    /\ UNCHANGED <<disk, build, server, req, off, size, resp, still>>

(* The file ends before a range is full, is closed already, or a write fails. *)
CopyFails == step = "copy" /\ End("cut")

Next == \/ SwapState \/ ReplaceRegistry \/ Truncate \/ WriteBytes
        \/ Request \/ Open \/ Fail \/ serveFile \/ WriteHead
        \/ CopyChunk \/ CopyEnds \/ CopyFails
Spec == Init /\ [][Next]_vars

-----------------------------------------------------------------------------
Asked == "range" \in DOMAIN resp /\ resp.range.ok

(* A reply that ends cleanly is exactly what it announced: a range is the    *)
(* bytes of its Content-Range, in order, and of one build unless the file was *)
(* rewritten since the Stat; without a range it is, if nobody rewrote it, the *)
(* whole file, also when the range asked for was refused.                     *)
BodyExact ==
    out.end = "clean" /\ req.method = "GET" =>
        /\ Asked =>
             /\ [i \in DOMAIN out.body |-> out.body[i].pos] =
                [i \in 1..(resp.range.end - resp.range.start + 1) |-> resp.range.start + i - 1]
             /\ still => \A i, j \in DOMAIN out.body : out.body[i].build = out.body[j].build
        /\ resp.stream = "copy" /\ still => out.body = disk

(* The bytes a Range header selects, and what the reply makes of it: a range  *)
(* reply if and only if it selects some, from the first to the last of them.  *)
(* An empty file (a rewrite just begun) is left out: a suffix range of it is  *)
(* answered with the range 0 to -1.                                           *)
Selected(h, total) ==
    IF ~h.unit \/ ~h.dash \/ Bad \in {h.first, h.last} THEN {}
    ELSE {i \in 0..(total - 1) :
            \/ h.first = Empty /\ h.last # Empty /\ i >= total - h.last
            \/ h.first # Empty /\ h.last = Empty /\ i >= h.first
            \/ h.first # Empty /\ h.last # Empty /\ i >= h.first /\ i <= h.last}
RangeAsAsked ==
    size > 0 /\ "range" \in DOMAIN resp /\ req.method = "GET" /\ req.range # NoRange =>
        /\ resp.range.ok <=> Selected(req.range, size) # {}
        /\ resp.range.ok => resp.range.start..resp.range.end = Selected(req.range, size)

(* When the request ends its file is closed, except when the head could not   *)
(* be written: then nothing closes it but the garbage collector.              *)
FileReleased == step = "done" => file # "open" /\ (file = "dropped" => out.end = "unsent")

(* The head sent is the file's mime type with 206 for a range and 200         *)
(* otherwise, if the registry is the state's own.                             *)
HeadFits ==
    "id" \in DOMAIN resp.head /\ out.head # NoHead /\ req.reg = req.st =>
        out.head = [status |-> IF resp.stream = "copyN" THEN 206 ELSE 200, mime |-> Mime]
=============================================================================
