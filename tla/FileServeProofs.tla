-------------------------- MODULE FileServeProofs --------------------------
(***************************************************************************)
(* serveFile for files and ranges of every size: the range parser against   *)
(* its reference, what a reply that ends cleanly holds, and the file handle.*)
(***************************************************************************)
EXTENDS FileServe, WellFoundedInduction, TLAPS

LEMMA MinPair ==
    ASSUME NEW a \in Int, NEW b \in Int
    PROVE  Min({a, b}) = IF a <= b THEN a ELSE b
  BY DEF Min

(* The parser selects the bytes the header asks for, for every header it can *)
(* be given and every size; of an empty file a suffix is 0 to -1.            *)
LEMMA ParseSelects ==
    ASSUME NEW h \in Ranges \ {NoRange}, NEW total \in Nat
    PROVE  LET r == parseByteRange(h, total)
           IN  /\ r.ok \in BOOLEAN
               /\ ~r.ok => r = NotOK
               /\ r.ok => /\ r.start \in Nat /\ r.end \in Int /\ r.end - r.start + 1 \in Nat
                          /\ r.start..r.end = Selected(h, total)
               /\ total > 0 => (r.ok <=> Selected(h, total) # {})
<1> DEFINE r == parseByteRange(h, total)
           bytes == Selected(h, total)
           Right == /\ r.ok \in BOOLEAN
                    /\ ~r.ok => r = NotOK
                    /\ r.ok => /\ r.start \in Nat /\ r.end \in Int /\ r.end - r.start + 1 \in Nat
                               /\ r.start..r.end = bytes
                    /\ total > 0 => (r.ok <=> bytes # {})
<1> SUFFICES Right
  OBVIOUS
<1>1. /\ h.unit \in BOOLEAN /\ h.dash \in BOOLEAN
      /\ h.first \in Nat \cup {Empty, Bad} /\ h.last \in Int \cup {Empty, Bad}
      /\ Empty \notin Int /\ Bad \notin Int /\ Empty # Bad
  BY FileConstants DEF FileConstants
<1>2. ASSUME r = NotOK, bytes = {}
      PROVE  Right
  BY <1>2 DEF NotOK
<1>3. ASSUME NEW a \in Nat, NEW b \in Int, b - a + 1 \in Nat, r = From(a, b), bytes = a..b,
             total > 0 => a <= b
      PROVE  Right
  <2>1. r.ok /\ r.start = a /\ r.end = b
    BY <1>3 DEF From
  <2>2. total > 0 => a \in bytes
    BY <1>3
  <2> HIDE DEF r, bytes
  <2> QED BY <1>3, <2>1, <2>2
<1> HIDE DEF Right
<1>4. CASE ~h.unit \/ ~h.dash \/ Bad \in {h.first, h.last}
  <2>1. r = NotOK /\ bytes = {}
    BY <1>4 DEF parseByteRange, Selected
  <2> QED BY <1>2, <2>1
<1>5. CASE h.unit /\ h.dash /\ h.first = Empty /\ h.last = Empty
  <2>1. r = NotOK /\ bytes = {}
    BY <1>1, <1>5 DEF parseByteRange, Selected
  <2> QED BY <1>2, <2>1
<1>6. CASE h.unit /\ h.dash /\ h.first = Empty /\ h.last \in Int
  <2>1. bytes = {i \in 0..(total - 1) : i >= total - h.last}
    BY <1>1, <1>6 DEF Selected
  <2>2. CASE h.last <= 0
    <3>1. r = NotOK
      BY <1>1, <1>6, <2>2 DEF parseByteRange
    <3>2. bytes = {}
      BY <1>6, <2>1, <2>2
    <3> QED BY <1>2, <3>1, <3>2
  <2>3. CASE h.last > 0
    <3> DEFINE a == total - Min({h.last, total})
    <3>1. r = From(a, total - 1)
      BY <1>1, <1>6, <2>3 DEF parseByteRange
    <3>2. a = IF h.last <= total THEN total - h.last ELSE 0
      BY <1>6, MinPair
    <3> HIDE DEF a
    <3>3. a \in Nat /\ (total - 1) - a + 1 \in Nat /\ (total > 0 => a <= total - 1)
      BY <1>6, <2>3, <3>2
    <3>4. bytes = a..(total - 1)
      BY <1>6, <2>1, <3>2
    <3> QED BY <1>3, <3>1, <3>3, <3>4
  <2> QED BY <1>6, <2>2, <2>3
<1>7. CASE h.unit /\ h.dash /\ h.first \in Nat /\ h.last \in Int \cup {Empty}
  <2>1. CASE h.first >= total
    <3>1. r = NotOK
      BY <1>1, <1>7, <2>1 DEF parseByteRange
    <3>2. bytes = {}
      BY <1>1, <1>7, <2>1 DEF Selected
    <3> QED BY <1>2, <3>1, <3>2
  <2>2. CASE h.first < total /\ h.last = Empty
    <3>1. r = From(h.first, total - 1)
      <4>1. ~(~h.unit \/ ~h.dash \/ Bad \in {h.first, h.last} \/ {h.first, h.last} = {Empty})
        BY <1>1, <1>7, <2>2
      <4>2. h.first # Empty /\ ~(h.first < 0 \/ h.first >= total)
        BY <1>1, <1>7, <2>2
      <4> QED BY <2>2, <4>1, <4>2 DEF parseByteRange
    <3>2. bytes = {i \in 0..(total - 1) : i >= h.first}
      BY <1>1, <1>7, <2>2 DEF Selected
    <3>3. bytes = h.first..(total - 1)
      BY <1>7, <3>2
    <3> HIDE DEF r, bytes
    <3>4. total - 1 \in Int /\ (total - 1) - h.first + 1 \in Nat /\ h.first <= total - 1 /\ h.first \in Nat
      BY <1>1, <1>7, <2>2
    <3> QED BY <1>3, <3>1, <3>3, <3>4
  <2>3. CASE h.first < total /\ h.last \in Int /\ h.last < h.first
    <3>1. r = NotOK
      BY <1>1, <1>7, <2>3 DEF parseByteRange
    <3>2. bytes = {}
      BY <1>1, <1>7, <2>3 DEF Selected
    <3> QED BY <1>2, <3>1, <3>2
  <2>4. CASE h.first < total /\ h.last \in Int /\ h.last >= h.first
    <3> DEFINE b == Min({h.last, total - 1})
    <3>1. r = From(h.first, b)
      <4>1. ~(~h.unit \/ ~h.dash \/ Bad \in {h.first, h.last} \/ {h.first, h.last} = {Empty})
        BY <1>1, <1>7, <2>4
      <4>2. h.first # Empty /\ ~(h.first < 0 \/ h.first >= total)
        BY <1>1, <1>7, <2>4
      <4>3. h.last # Empty /\ ~(h.last < h.first)
        BY <1>1, <1>7, <2>4
      <4> QED BY <4>1, <4>2, <4>3 DEF parseByteRange
    <3>2. b = IF h.last <= total - 1 THEN h.last ELSE total - 1
      BY <2>4, MinPair
    <3> HIDE DEF b
    <3>3. b \in Int /\ b - h.first + 1 \in Nat /\ h.first <= b
      BY <1>7, <2>4, <3>2
    <3>4. bytes = {i \in 0..(total - 1) : i >= h.first /\ i <= h.last}
      BY <1>1, <1>7, <2>4 DEF Selected
    <3>5. bytes = h.first..b
      BY <1>7, <2>4, <3>2, <3>4
    <3> QED BY <1>3, <1>7, <3>1, <3>3, <3>5
  <2> QED BY <1>1, <1>7, <2>1, <2>2, <2>3, <2>4
<1>8. \/ Bad \in {h.first, h.last}
      \/ (h.first = Empty /\ h.last = Empty)
      \/ (h.first = Empty /\ h.last \in Int)
      \/ (h.first \in Nat /\ h.last \in Int \cup {Empty})
  BY <1>1
<1> QED BY <1>4, <1>5, <1>6, <1>7, <1>8
-----------------------------------------------------------------------------
(* The shape of the state: the file holds the bytes of the build that writes *)
(* it, at their positions, and a reply is of one of four kinds.              *)
Byte == [build : Nat, pos : Nat]
DiskOK ==
    /\ disk \in Seq(Byte) /\ build \in [n : Nat, left : Nat]
    /\ \A i \in 1..Len(disk) : disk[i].pos = i - 1 /\ disk[i].build = build.n

Before == {"idle", "open", "handle"}
StepOK == step \in Before \cup {"head", "copy", "done"}
RequestOK ==
    step # "idle" => /\ req = [method |-> req.method, range |-> req.range,
                               reg |-> req.reg, st |-> req.st]
                     /\ req.method \in {"GET", "HEAD"} /\ req.range \in Ranges
OutOK ==
    /\ out = [head |-> out.head, body |-> out.body, end |-> out.end]
    /\ step # "done" => out.end = "none"
    /\ step \notin {"copy", "done"} => out.body = <<>>

Plain(r) == r = [head |-> r.head, stream |-> "none"]
Headed(r) == r = [head |-> r.head, stream |-> "noop", length |-> 0, range |-> NotOK]
Whole(r) == r = [head |-> r.head, stream |-> "copy", length |-> 0, range |-> NotOK]
Part(r, h, total) ==
    LET p == parseByteRange(h, total)
    IN  /\ h \in Ranges \ {NoRange} /\ p.ok
        /\ r = [head |-> r.head, stream |-> "copyN", length |-> p.end - p.start + 1, range |-> p]
Streams(r) == r.stream \in {"copy", "copyN"}

(* What the reply is, given the request and the size the Stat found.         *)
Fits(r, m, h, total) ==
    \/ m = "HEAD" /\ Headed(r)
    \/ m = "GET" /\ Whole(r) /\ (h = NoRange \/ ~parseByteRange(h, total).ok)
    \/ m = "GET" /\ Part(r, h, total)
Answered ==
    /\ step \in Before => Plain(resp)
    /\ ~Plain(resp) => size \in Nat /\ Fits(resp, req.method, req.range, size)

HandleOK ==
    /\ file \in {"none", "open", "closed", "dropped"}
    /\ step \in {"idle", "open"} => file = "none"
    /\ step = "done" => file # "open"
    /\ file = "open" /\ step \in {"head", "copy"} => Streams(resp)
    /\ step = "copy" => Streams(resp)
    /\ file = "dropped" => step = "done" /\ out.end = "unsent"

Shape == DiskOK /\ StepOK /\ RequestOK /\ OutOK /\ Answered /\ HandleOK

LEMMA Kinds ==
    ASSUME NEW r, NEW m, NEW h, NEW total
    PROVE  /\ Plain(r) => r.stream = "none" /\ "range" \notin DOMAIN r
           /\ Headed(r) => r.stream = "noop" /\ "range" \in DOMAIN r /\ r.range = NotOK
           /\ Whole(r) => r.stream = "copy" /\ "range" \in DOMAIN r /\ r.range = NotOK
           /\ Part(r, h, total) =>
                /\ r.stream = "copyN" /\ "range" \in DOMAIN r
                /\ r.range = parseByteRange(h, total) /\ r.range.ok
                /\ r.length = r.range.end - r.range.start + 1
           /\ ~NotOK.ok
<1>1. Plain(r) => r.stream = "none" /\ "range" \notin DOMAIN r
  BY DEF Plain
<1>2. Headed(r) => r.stream = "noop" /\ "range" \in DOMAIN r /\ r.range = NotOK
  BY DEF Headed
<1>3. Whole(r) => r.stream = "copy" /\ "range" \in DOMAIN r /\ r.range = NotOK
  BY DEF Whole
<1>4. ASSUME Part(r, h, total)
      PROVE  /\ r.stream = "copyN" /\ "range" \in DOMAIN r
             /\ r.range = parseByteRange(h, total) /\ r.range.ok
             /\ r.length = r.range.end - r.range.start + 1
  <2> DEFINE p == parseByteRange(h, total)
             n == p.end - p.start + 1
  <2>1. p.ok /\ r = [head |-> r.head, stream |-> "copyN", length |-> n, range |-> p]
    BY <1>4 DEF Part
  <2> HIDE DEF p
  <2>2. r.range = p
    BY <2>1
  <2>3. r.length = n
    BY <2>1
  <2>4. r.stream = "copyN" /\ "range" \in DOMAIN r
    BY <2>1
  <2>5. r.range.ok
    BY <2>1, <2>2
  <2>6. r.length = r.range.end - r.range.start + 1
    BY <2>2, <2>3
  <2> QED BY <2>2, <2>4, <2>5, <2>6 DEF p
<1>5. ~NotOK.ok
  BY DEF NotOK
<1> QED BY <1>1, <1>2, <1>3, <1>4, <1>5

LEMMA OutExcept ==
    ASSUME NEW o, NEW x, NEW e, o = [head |-> o.head, body |-> o.body, end |-> o.end]
    PROVE  /\ [o EXCEPT !.end = e] = [head |-> o.head, body |-> o.body, end |-> e]
           /\ [o EXCEPT !.head = x] = [head |-> x, body |-> o.body, end |-> o.end]
           /\ [o EXCEPT !.body = x] = [head |-> o.head, body |-> x, end |-> o.end]
<1>1. [o EXCEPT !.end = e] = [head |-> o.head, body |-> o.body, end |-> e]
  OBVIOUS
<1>2. [o EXCEPT !.head = x] = [head |-> x, body |-> o.body, end |-> o.end]
  OBVIOUS
<1>3. [o EXCEPT !.body = x] = [head |-> o.head, body |-> x, end |-> o.end]
  OBVIOUS
<1> QED BY <1>1, <1>2, <1>3

-----------------------------------------------------------------------------
LEMMA Joined ==
    ASSUME NEW S, NEW s \in Seq(S), NEW t \in Seq(S)
    PROVE  /\ s \o t \in Seq(S) /\ Len(s \o t) = Len(s) + Len(t)
           /\ \A i \in 1..Len(s) : (s \o t)[i] = s[i]
           /\ \A i \in 1..Len(t) : (s \o t)[Len(s) + i] = t[i]
<1>1. s \o t \in Seq(S)
  OBVIOUS
<1>2. Len(s \o t) = Len(s) + Len(t)
  OBVIOUS
<1>3. ASSUME NEW i \in 1..Len(s) PROVE (s \o t)[i] = s[i]
  OBVIOUS
<1>4. ASSUME NEW i \in 1..Len(t) PROVE (s \o t)[Len(s) + i] = t[i]
  OBVIOUS
<1> QED BY <1>1, <1>2, <1>3, <1>4

(* The bytes of the file.                                                    *)
LEMMA BytesTyped ==
    ASSUME NEW n \in Nat, NEW from \in Nat, NEW m \in Nat
    PROVE  /\ Bytes(n, from, from + m - 1) \in Seq(Byte)
           /\ Len(Bytes(n, from, from + m - 1)) = m
           /\ \A i \in 1..m : /\ Bytes(n, from, from + m - 1)[i].pos = from + i - 1
                              /\ Bytes(n, from, from + m - 1)[i].build = n
<1> DEFINE b == Bytes(n, from, from + m - 1)
<1>1. b = [i \in 1..m |-> [build |-> n, pos |-> from + i - 1]]
  <2>1. (from + m - 1) - from + 1 = m
    OBVIOUS
  <2> QED BY <2>1 DEF Bytes
<1> HIDE DEF b
<1>2. \A i \in 1..m : [build |-> n, pos |-> from + i - 1] \in Byte
  BY DEF Byte
<1>3. b \in [1..m -> Byte]
  BY <1>1, <1>2
<1>4. b \in Seq(Byte) /\ Len(b) = m
  BY <1>3
<1>5. \A i \in 1..m : b[i].pos = from + i - 1 /\ b[i].build = n
  BY <1>1
<1> QED BY <1>4, <1>5 DEF b

LEMMA InitDisk == Init => DiskOK
<1> SUFFICES ASSUME Init PROVE DiskOK
  OBVIOUS
<1>1. PICK n \in Sizes : disk = Bytes(0, 0, n - 1)
  BY DEF Init
<1>2. n \in Nat /\ 0 \in Nat /\ 0 + n - 1 = n - 1
  BY FileConstants DEF FileConstants
<1>3. /\ Bytes(0, 0, 0 + n - 1) \in Seq(Byte) /\ Len(Bytes(0, 0, 0 + n - 1)) = n
      /\ \A i \in 1..n : /\ Bytes(0, 0, 0 + n - 1)[i].pos = 0 + i - 1
                         /\ Bytes(0, 0, 0 + n - 1)[i].build = 0
  BY <1>2, BytesTyped
<1>4. disk \in Seq(Byte) /\ Len(disk) = n
  BY <1>1, <1>2, <1>3
<1>5. \A i \in 1..n : disk[i].pos = i - 1 /\ disk[i].build = 0
  BY <1>1, <1>2, <1>3
<1>6. build = [n |-> 0, left |-> 0]
  BY DEF Init
<1>7. build \in [n : Nat, left : Nat] /\ build.n = 0
  BY <1>6
<1> QED BY <1>4, <1>5, <1>7 DEF DiskOK

LEMMA NextDisk == DiskOK /\ [Next]_vars => DiskOK'
<1> SUFFICES ASSUME DiskOK, [Next]_vars PROVE DiskOK'
  OBVIOUS
<1>1. ASSUME Truncate PROVE DiskOK'
  <2>1. PICK n \in Sizes : build' = [n |-> build.n + 1, left |-> n]
    BY <1>1 DEF Truncate
  <2>2. build.n \in Nat /\ n \in Nat
    BY FileConstants DEF FileConstants, DiskOK
  <2>3. build' \in [n : Nat, left : Nat]
    BY <2>1, <2>2
  <2>4. disk' = <<>>
    BY <1>1 DEF Truncate
  <2> QED BY <2>3, <2>4 DEF DiskOK
<1>2. ASSUME WriteBytes PROVE DiskOK'
  <2>1. PICK n \in 1..build.left :
          /\ disk' = disk \o Bytes(build.n, Len(disk), Len(disk) + n - 1)
          /\ build' = [build EXCEPT !.left = @ - n]
    BY <1>2 DEF WriteBytes
  <2>2. build.n \in Nat /\ build.left \in Nat /\ n \in Nat /\ n <= build.left /\ Len(disk) \in Nat
        /\ disk \in Seq(Byte)
    BY DEF DiskOK
  <2> DEFINE more == Bytes(build.n, Len(disk), Len(disk) + n - 1)
  <2>3. /\ more \in Seq(Byte) /\ Len(more) = n
        /\ \A i \in 1..n : more[i].pos = Len(disk) + i - 1 /\ more[i].build = build.n
    <3> DEFINE at == Len(disk)
               k == build.n
    <3>1. at \in Nat /\ k \in Nat /\ n \in Nat
      BY <2>2
    <3> HIDE DEF at, k
    <3>2. /\ Bytes(k, at, at + n - 1) \in Seq(Byte)
          /\ Len(Bytes(k, at, at + n - 1)) = n
          /\ \A i \in 1..n : /\ Bytes(k, at, at + n - 1)[i].pos = at + i - 1
                             /\ Bytes(k, at, at + n - 1)[i].build = k
      BY ONLY <3>1, BytesTyped
    <3>3. more = Bytes(k, at, at + n - 1)
      BY DEF at, k
    <3> HIDE DEF more
    <3>4. /\ more \in Seq(Byte) /\ Len(more) = n
          /\ \A i \in 1..n : more[i].pos = at + i - 1 /\ more[i].build = k
      BY <3>2, <3>3
    <3> QED BY <3>4 DEF at, k
  <2>4. disk' = disk \o more
    BY <2>1
  <2> HIDE DEF more
  <2>5. /\ disk' \in Seq(Byte) /\ Len(disk') = Len(disk) + n
        /\ \A i \in 1..Len(disk) : disk'[i] = disk[i]
        /\ \A i \in 1..n : disk'[Len(disk) + i] = more[i]
    <3>1. /\ disk \o more \in Seq(Byte) /\ Len(disk \o more) = Len(disk) + Len(more)
          /\ \A i \in 1..Len(disk) : (disk \o more)[i] = disk[i]
          /\ \A i \in 1..Len(more) : (disk \o more)[Len(disk) + i] = more[i]
      <4>1. disk \in Seq(Byte) /\ more \in Seq(Byte)
        BY <2>2, <2>3
      <4> QED BY ONLY <4>1, Joined
    <3> QED BY <2>3, <2>4, <3>1
  <2>6. build' \in [n : Nat, left : Nat] /\ build'.n = build.n
    BY <2>1, <2>2 DEF DiskOK
  <2>7. ASSUME NEW i \in 1..Len(disk')
        PROVE  disk'[i].pos = i - 1 /\ disk'[i].build = build.n
    <3>1. CASE i <= Len(disk)
      <4>1. disk'[i] = disk[i] /\ i \in 1..Len(disk)
        BY <2>2, <2>5, <3>1
      <4> QED BY <4>1 DEF DiskOK
    <3>2. CASE i > Len(disk)
      <4>1. disk'[i] = more[i - Len(disk)] /\ i - Len(disk) \in 1..n
        <5>1. i - Len(disk) \in 1..n /\ Len(disk) + (i - Len(disk)) = i
          BY <2>2, <2>5, <3>2
        <5> QED BY <2>5, <5>1
      <4>2. Len(disk) + (i - Len(disk)) - 1 = i - 1
        BY <2>2
      <4> QED BY <2>3, <4>1, <4>2
    <3> QED BY <2>2, <2>5, <3>1, <3>2
  <2> QED BY <2>5, <2>6, <2>7 DEF DiskOK
<1>3. ASSUME UNCHANGED <<disk, build>> PROVE DiskOK'
  BY <1>3 DEF DiskOK
<1>4. /\ SwapState => UNCHANGED <<disk, build>>
      /\ ReplaceRegistry => UNCHANGED <<disk, build>>
      /\ Request => UNCHANGED <<disk, build>>
      /\ Open => UNCHANGED <<disk, build>>
      /\ Fail => UNCHANGED <<disk, build>>
  <2>1. SwapState => UNCHANGED <<disk, build>>
    BY DEF SwapState
  <2>2. ReplaceRegistry => UNCHANGED <<disk, build>>
    BY DEF ReplaceRegistry
  <2>3. Request => UNCHANGED <<disk, build>>
    BY DEF Request
  <2>4. Open => UNCHANGED <<disk, build>>
    BY DEF Open
  <2>5. Fail => UNCHANGED <<disk, build>>
    BY DEF Fail
  <2> QED BY <2>1, <2>2, <2>3, <2>4, <2>5
<1>5. serveFile => UNCHANGED <<disk, build>>
  BY DEF serveFile
<1>6. WriteHead \/ CopyChunk \/ CopyEnds \/ CopyFails => UNCHANGED <<disk, build>>
  BY DEF WriteHead, CopyChunk, CopyEnds, CopyFails, End
<1>7. UNCHANGED vars => UNCHANGED <<disk, build>>
  BY DEF vars
<1> QED BY <1>1, <1>2, <1>3, <1>4, <1>5, <1>6, <1>7 DEF Next

-----------------------------------------------------------------------------
(* The phases of a request and the kind of its reply.                        *)
Phases == StepOK /\ RequestOK /\ OutOK /\ Answered /\ HandleOK

LEMMA InitPhases == Init => Phases
<1> SUFFICES ASSUME Init PROVE Phases
  OBVIOUS
<1>1. step = "idle" /\ file = "none" /\ resp = [head |-> NoHead, stream |-> "none"]
  BY DEF Init
<1>2. out = [head |-> NoHead, body |-> <<>>, end |-> "none"]
  BY DEF Init
<1>3. OutOK
  <2> HIDE DEF NoHead
  <2> QED BY <1>1, <1>2 DEF OutOK
<1>4. Answered
  <2>1. Plain(resp)
    BY <1>1 DEF Plain
  <2> QED BY <2>1 DEF Answered
<1>5. StepOK /\ RequestOK /\ HandleOK
  BY <1>1 DEF StepOK, RequestOK, HandleOK, Before
<1> QED BY <1>3, <1>4, <1>5 DEF Phases

LEMMA PhasesRequest == Phases /\ Request => Phases'
<1> SUFFICES ASSUME Phases, Request PROVE Phases'
  OBVIOUS
<1>1. /\ step = "idle" /\ step' = "open"
      /\ file' = file /\ resp' = resp /\ out' = out
  BY DEF Request
<1>2. PICK m \in {"GET", "HEAD"}, r \in Ranges :
        req' = [method |-> m, range |-> r, reg |-> registry, st |-> 0]
  BY DEF Request
<1>3. RequestOK'
  BY <1>1, <1>2 DEF RequestOK
<1>4. OutOK'
  BY <1>1 DEF Phases, OutOK
<1>5. Answered'
  <2>1. Plain(resp)
    BY <1>1 DEF Phases, Answered, Before
  <2> QED BY <1>1, <2>1 DEF Answered
<1>6. StepOK' /\ HandleOK'
  BY <1>1 DEF Phases, StepOK, HandleOK, Before
<1> QED BY <1>3, <1>4, <1>5, <1>6 DEF Phases

(* An error reply: its head only.                                            *)
LEMMA PhasesReply ==
    ASSUME Phases, step \in {"open", "handle"}, NEW h, Reply(h), RequestOK', out' = out,
           file' \in {"none", "closed"}
    PROVE  Phases'
<1>1. step' = "head" /\ resp' = [head |-> h, stream |-> "none"]
  BY DEF Reply
<1>2. Plain(resp')
  BY <1>1 DEF Plain
<1>3. Answered'
  BY <1>1, <1>2 DEF Answered, Before
<1>4. OutOK'
  BY <1>1 DEF Phases, OutOK
<1>5. StepOK' /\ HandleOK'
  BY <1>1 DEF StepOK, HandleOK, Before
<1> QED BY <1>3, <1>4, <1>5 DEF Phases

LEMMA PhasesOpen == Phases /\ Open => Phases'
<1> SUFFICES ASSUME Phases, Open PROVE Phases'
  OBVIOUS
<1>1. /\ step = "open" /\ out' = out
      /\ req' = [req EXCEPT !.st = state]
      /\ \/ file' = "open" /\ step' = "handle" /\ resp' = resp
         \/ Reply(NotFound) /\ file' = file
  BY DEF Open
<1>2. RequestOK'
  <2>1. /\ req = [method |-> req.method, range |-> req.range, reg |-> req.reg, st |-> req.st]
        /\ req.method \in {"GET", "HEAD"} /\ req.range \in Ranges
    BY <1>1 DEF Phases, RequestOK
  <2>2. [req EXCEPT !.st = state] =
          [method |-> req.method, range |-> req.range, reg |-> req.reg, st |-> state]
    BY <2>1
  <2>3. req' = [method |-> req.method, range |-> req.range, reg |-> req.reg, st |-> state]
    BY <1>1, <2>2
  <2>4. /\ req' = [method |-> req'.method, range |-> req'.range,
                   reg |-> req'.reg, st |-> req'.st]
        /\ req'.method = req.method /\ req'.range = req.range
    BY <2>3
  <2> QED BY <2>1, <2>4 DEF RequestOK
<1>3. ASSUME file' = "open", step' = "handle", resp' = resp
      PROVE  Phases'
  <2>1. Plain(resp)
    BY <1>1 DEF Phases, Answered, Before
  <2>2. Answered'
    BY <1>3, <2>1 DEF Answered
  <2>3. OutOK'
    BY <1>1, <1>3 DEF Phases, OutOK
  <2>4. StepOK' /\ HandleOK'
    BY <1>3 DEF StepOK, HandleOK, Before
  <2> QED BY <1>2, <2>2, <2>3, <2>4 DEF Phases
<1>4. ASSUME Reply(NotFound), file' = file
      PROVE  Phases'
  <2>1. file = "none"
    BY <1>1 DEF Phases, HandleOK
  <2> QED BY <1>1, <1>2, <1>4, <2>1, PhasesReply
<1> QED BY <1>1, <1>3, <1>4

LEMMA PhasesFail == Phases /\ Fail => Phases'
<1> SUFFICES ASSUME Phases, Fail PROVE Phases'
  OBVIOUS
<1>1. step = "handle" /\ file' = "closed" /\ Reply(ServerError) /\ req' = req /\ out' = out
  BY DEF Fail
<1>2. RequestOK'
  <2>1. step' # "idle" /\ step # "idle"
    BY <1>1 DEF Reply
  <2> QED BY <1>1, <2>1 DEF Phases, RequestOK
<1> QED BY <1>1, <1>2, PhasesReply

(* A reply with a stream function: the kind fits the request.                *)
LEMMA PhasesStream ==
    ASSUME Phases, step = "handle", step' = "head", req' = req, out' = out, size' \in Nat,
           Fits(resp', req.method, req.range, size'),
           \/ file' = "closed"
           \/ file' = file /\ Streams(resp')
    PROVE  Phases'
<1>1. RequestOK'
  BY DEF Phases, RequestOK
<1>2. OutOK'
  BY DEF Phases, OutOK
<1>3. Answered'
  BY DEF Answered, Before
<1>4. HandleOK'
  BY DEF Phases, HandleOK
<1>5. StepOK'
  BY DEF StepOK
<1> QED BY <1>1, <1>2, <1>3, <1>4, <1>5 DEF Phases

(* What serveFile decides, case by case.                                     *)
Stream(r, kind, n, range) == r = [head |-> r.head, stream |-> kind, length |-> n, range |-> range]

LEMMA ServeCases ==
    ASSUME serveFile
    PROVE  LET p == parseByteRange(req.range, size')
           IN  \/ file' = "closed" /\ Reply(ServerError) /\ off' = off
               \/ /\ req.method = "HEAD" /\ file' = "closed" /\ off' = off /\ step' = "head"
                  /\ Stream(resp', "noop", 0, NotOK)
               \/ /\ req.method # "HEAD" /\ req.range = NoRange
                  /\ file' = file /\ off' = off /\ step' = "head"
                  /\ Stream(resp', "copy", 0, NotOK)
               \/ /\ req.method # "HEAD" /\ req.range # NoRange /\ ~p.ok
                  /\ file' = "closed" /\ off' = off /\ step' = "head"
                  /\ Stream(resp', "copy", 0, NotOK)
               \/ /\ req.method # "HEAD" /\ req.range # NoRange /\ p.ok
                  /\ file' = file /\ off' = p.start /\ step' = "head"
                  /\ Stream(resp', "copyN", p.end - p.start + 1, p)
<1> DEFINE p == parseByteRange(req.range, size')
           st == appState(req.st)
           heads == st.fileHeads[Mime]
           Rep(kind, id, n) == resp' = [head |-> [id |-> id], stream |-> kind, length |-> n,
                                        range |-> IF kind = "copyN" THEN p ELSE NotOK]
<1>1. size' = Len(disk)
  BY DEF serveFile
<1>2. \/ file' = "closed" /\ Reply(ServerError) /\ off' = off
      \/ req.method = "HEAD" /\ file' = "closed" /\ Rep("noop", heads.head200, 0)
         /\ step' = "head" /\ off' = off
      \/ req.method # "HEAD" /\ req.range = NoRange /\ Rep("copy", heads.head200, 0)
         /\ step' = "head" /\ off' = off /\ file' = file
      \/ req.method # "HEAD" /\ req.range # NoRange /\ ~p.ok /\ file' = "closed"
         /\ Rep("copy", heads.head200, 0) /\ step' = "head" /\ off' = off
      \/ req.method # "HEAD" /\ req.range # NoRange /\ p.ok /\ off' = p.start
         /\ Rep("copyN", heads.head206, p.end - p.start + 1) /\ step' = "head" /\ file' = file
  BY <1>1 DEF serveFile
<1>3. ASSUME NEW kind, NEW id, NEW n, kind # "copyN", Rep(kind, id, n)
      PROVE  Stream(resp', kind, n, NotOK)
  BY <1>3 DEF Stream
<1>4. ASSUME NEW id, NEW n, Rep("copyN", id, n)
      PROVE  Stream(resp', "copyN", n, p)
  BY <1>4 DEF Stream
<1> HIDE DEF Rep, p, heads
<1>5. \/ file' = "closed" /\ Reply(ServerError) /\ off' = off
      \/ /\ req.method = "HEAD" /\ file' = "closed" /\ off' = off /\ step' = "head"
         /\ Stream(resp', "noop", 0, NotOK)
      \/ /\ req.method # "HEAD" /\ req.range = NoRange
         /\ file' = file /\ off' = off /\ step' = "head"
         /\ Stream(resp', "copy", 0, NotOK)
      \/ /\ req.method # "HEAD" /\ req.range # NoRange /\ ~p.ok
         /\ file' = "closed" /\ off' = off /\ step' = "head"
         /\ Stream(resp', "copy", 0, NotOK)
      \/ /\ req.method # "HEAD" /\ req.range # NoRange /\ p.ok
         /\ file' = file /\ off' = p.start /\ step' = "head"
         /\ Stream(resp', "copyN", p.end - p.start + 1, p)
  BY <1>2, <1>3, <1>4
<1> QED BY <1>5 DEF p

LEMMA PhasesServe == Phases /\ DiskOK /\ serveFile => Phases'
<1> SUFFICES ASSUME Phases, DiskOK, serveFile PROVE Phases'
  OBVIOUS
<1> DEFINE p == parseByteRange(req.range, size')
<1>1. /\ step = "handle" /\ req' = req /\ out' = out /\ size' = Len(disk) /\ size' \in Nat
  BY DEF serveFile, DiskOK
<1>2. req.method \in {"GET", "HEAD"} /\ req.range \in Ranges
  BY <1>1 DEF Phases, RequestOK
<1>3. ASSUME file' = "closed", Reply(ServerError) PROVE Phases'
  <2>1. step' # "idle" /\ step # "idle"
    BY <1>1, <1>3 DEF Reply
  <2>2. RequestOK'
    BY <1>1, <2>1 DEF Phases, RequestOK
  <2> QED BY <1>1, <1>3, <2>2, PhasesReply
<1>4. ASSUME req.method = "HEAD", file' = "closed", step' = "head",
             Stream(resp', "noop", 0, NotOK)
      PROVE  Phases'
  <2>1. Fits(resp', req.method, req.range, size')
    BY <1>4 DEF Fits, Headed, Stream
  <2> QED BY <1>1, <1>4, <2>1, PhasesStream
<1>5. ASSUME req.method # "HEAD", step' = "head", Stream(resp', "copy", 0, NotOK),
             req.range = NoRange \/ ~p.ok, file' = file \/ file' = "closed"
      PROVE  Phases'
  <2>1. Whole(resp') /\ req.method = "GET"
    BY <1>2, <1>5 DEF Whole, Stream
  <2>2. Fits(resp', req.method, req.range, size')
    BY <1>5, <2>1 DEF Fits
  <2>3. Streams(resp')
    BY <2>1, Kinds DEF Streams
  <2> QED BY <1>1, <1>5, <2>2, <2>3, PhasesStream
<1>6. ASSUME req.method # "HEAD", req.range # NoRange, p.ok, file' = file, step' = "head",
             Stream(resp', "copyN", p.end - p.start + 1, p)
      PROVE  Phases'
  <2>1. Part(resp', req.range, size')
    BY <1>2, <1>6 DEF Part, Stream
  <2>2. req.method = "GET"
    BY <1>2, <1>6
  <2>3. Fits(resp', req.method, req.range, size')
    BY <2>1, <2>2 DEF Fits
  <2>4. Streams(resp')
    BY <2>1, Kinds DEF Streams
  <2> QED BY <1>1, <1>6, <2>3, <2>4, PhasesStream
<1> HIDE DEF p
<1>7. \/ file' = "closed" /\ Reply(ServerError) /\ off' = off
      \/ /\ req.method = "HEAD" /\ file' = "closed" /\ off' = off /\ step' = "head"
         /\ Stream(resp', "noop", 0, NotOK)
      \/ /\ req.method # "HEAD" /\ req.range = NoRange
         /\ file' = file /\ off' = off /\ step' = "head"
         /\ Stream(resp', "copy", 0, NotOK)
      \/ /\ req.method # "HEAD" /\ req.range # NoRange /\ ~p.ok
         /\ file' = "closed" /\ off' = off /\ step' = "head"
         /\ Stream(resp', "copy", 0, NotOK)
      \/ /\ req.method # "HEAD" /\ req.range # NoRange /\ p.ok
         /\ file' = file /\ off' = p.start /\ step' = "head"
         /\ Stream(resp', "copyN", p.end - p.start + 1, p)
  BY ServeCases DEF p
<1> QED BY <1>3, <1>4, <1>5, <1>6, <1>7

LEMMA PhasesWriteHead == Phases /\ WriteHead => Phases'
<1> SUFFICES ASSUME Phases, WriteHead PROVE Phases'
  OBVIOUS
<1>1. step = "head" /\ req' = req /\ size' = size /\ resp' = resp
  BY DEF WriteHead
<1>2. RequestOK
  BY DEF Phases
<1>3. out = [head |-> out.head, body |-> out.body, end |-> out.end] /\ out.end = "none"
  BY <1>1 DEF Phases, OutOK
<1>4. ~Plain(resp) => size \in Nat /\ Fits(resp, req.method, req.range, size)
  BY DEF Phases, Answered
<1>5. resp.stream \in {"none", "noop", "copy", "copyN"}
  <2>1. CASE Plain(resp)
    BY <2>1, Kinds
  <2>2. CASE ~Plain(resp)
    BY <1>4, <2>2, Kinds DEF Fits
  <2> QED BY <2>1, <2>2
<1>6. \E x \in {out'.head} :
        \/ /\ resp.stream \in {"none", "noop"} /\ step' = "done" /\ file' = file
           /\ out' = [head |-> x, body |-> out.body, end |-> "clean"]
        \/ /\ resp.stream \notin {"none", "noop"} /\ step' = "copy" /\ file' = file
           /\ out' = [head |-> x, body |-> out.body, end |-> out.end]
        \/ /\ step' = "done" /\ file' = IF file = "open" THEN "dropped" ELSE file
           /\ out' = [head |-> x, body |-> out.body, end |-> "unsent"]
  <2> DEFINE head == IF "id" \in DOMAIN resp.head THEN HeadAt(req.reg, resp.head.id)
                     ELSE resp.head
  <2>1. \/ /\ resp.stream \in {"none", "noop"} /\ step' = "done" /\ file' = file
           /\ out' = [head |-> head, body |-> out.body, end |-> "clean"]
        \/ /\ resp.stream \notin {"none", "noop"} /\ step' = "copy" /\ file' = file
           /\ out' = [out EXCEPT !.head = head]
        \/ /\ step' = "done" /\ file' = IF file = "open" THEN "dropped" ELSE file
           /\ out' = [out EXCEPT !.end = "unsent"]
    BY DEF WriteHead
  <2> HIDE DEF head
  <2>2. [out EXCEPT !.head = head] = [head |-> head, body |-> out.body, end |-> out.end]
    BY ONLY <1>3, OutExcept
  <2>3. [out EXCEPT !.end = "unsent"] = [head |-> out.head, body |-> out.body, end |-> "unsent"]
    BY ONLY <1>3, OutExcept
  <2> QED BY <2>1, <2>2, <2>3
<1>7. PICK x \in {out'.head} :
        \/ /\ resp.stream \in {"none", "noop"} /\ step' = "done" /\ file' = file
           /\ out' = [head |-> x, body |-> out.body, end |-> "clean"]
        \/ /\ resp.stream \notin {"none", "noop"} /\ step' = "copy" /\ file' = file
           /\ out' = [head |-> x, body |-> out.body, end |-> out.end]
        \/ /\ step' = "done" /\ file' = IF file = "open" THEN "dropped" ELSE file
           /\ out' = [head |-> x, body |-> out.body, end |-> "unsent"]
  BY <1>6
<1>8. step' \in {"done", "copy"}
  BY <1>7
<1>9. RequestOK'
  BY <1>1, <1>2, <1>8 DEF RequestOK
<1>10. Answered'
  BY <1>1, <1>4, <1>8 DEF Answered, Before
<1>11. OutOK'
  BY <1>3, <1>7 DEF OutOK
<1>12. StepOK'
  BY <1>8 DEF StepOK
<1>13. HandleOK'
  <2>1. /\ file \in {"none", "open", "closed", "dropped"} /\ file # "dropped"
        /\ file = "open" => Streams(resp)
    BY <1>1 DEF Phases, HandleOK
  <2>2. resp.stream \in {"none", "noop"} => ~Streams(resp)
    BY DEF Streams
  <2>3. resp.stream \notin {"none", "noop"} => Streams(resp)
    BY <1>5 DEF Streams
  <2>4. CASE resp.stream \in {"none", "noop"} /\ step' = "done" /\ file' = file
    BY <1>1, <2>1, <2>2, <2>4 DEF HandleOK
  <2>5. CASE resp.stream \notin {"none", "noop"} /\ step' = "copy" /\ file' = file
    BY <1>1, <2>1, <2>3, <2>5 DEF HandleOK
  <2>6. CASE /\ step' = "done" /\ file' = IF file = "open" THEN "dropped" ELSE file
             /\ out' = [head |-> x, body |-> out.body, end |-> "unsent"]
    <3>1. out'.end = "unsent" /\ file' \in {"none", "closed", "dropped"}
      BY <2>1, <2>6
    <3> QED BY <2>6, <3>1 DEF HandleOK
  <2> QED BY <1>7, <2>4, <2>5, <2>6
<1> QED BY <1>9, <1>10, <1>11, <1>12, <1>13 DEF Phases

LEMMA PhasesCopyChunk == Phases /\ CopyChunk => Phases'
<1> SUFFICES ASSUME Phases, CopyChunk PROVE Phases'
  OBVIOUS
<1>1. /\ step = "copy" /\ step' = step /\ file' = file /\ req' = req /\ size' = size /\ resp' = resp
  BY DEF CopyChunk, Copying
<1>2. PICK n \in 1..Min({ChunkSize, Wanted, Len(Here)}) :
        out' = [out EXCEPT !.body = @ \o SubSeq(Here, 1, n)]
  BY DEF CopyChunk
<1>3. out = [head |-> out.head, body |-> out.body, end |-> out.end] /\ out.end = "none"
  BY <1>1 DEF Phases, OutOK
<1>4. out' = [head |-> out.head, body |-> out.body \o SubSeq(Here, 1, n), end |-> out.end]
  <2> DEFINE b == out.body \o SubSeq(Here, 1, n)
  <2>1. out' = [out EXCEPT !.body = b]
    BY <1>2
  <2> HIDE DEF b
  <2>2. out' = [head |-> out.head, body |-> b, end |-> out.end]
    BY ONLY <1>3, <2>1, OutExcept
  <2> QED BY <2>2 DEF b
<1>5. OutOK'
  <2> DEFINE b == out.body \o SubSeq(Here, 1, n)
  <2>1. out' = [head |-> out.head, body |-> b, end |-> out.end]
    BY <1>4
  <2> HIDE DEF b
  <2> QED BY <1>1, <1>3, <2>1 DEF OutOK
<1>6. RequestOK' /\ Answered' /\ StepOK'
  BY <1>1 DEF Phases, RequestOK, Answered, StepOK, Before
<1>7. HandleOK'
  BY <1>1 DEF Phases, HandleOK
<1> QED BY <1>5, <1>6, <1>7 DEF Phases

LEMMA PhasesEnd ==
    ASSUME Phases, step = "copy", NEW how \in {"clean", "cut"}, End(how)
    PROVE  Phases'
<1>1. /\ file' = "closed" /\ step' = "done" /\ out' = [out EXCEPT !.end = how]
      /\ req' = req /\ size' = size /\ resp' = resp
  BY DEF End
<1>2. out = [head |-> out.head, body |-> out.body, end |-> out.end]
  BY DEF Phases, OutOK
<1>3. out' = [head |-> out.head, body |-> out.body, end |-> how]
  BY ONLY <1>1, <1>2, OutExcept
<1>4. OutOK'
  BY <1>1, <1>3 DEF OutOK
<1>5. RequestOK' /\ Answered' /\ StepOK'
  BY <1>1 DEF Phases, RequestOK, Answered, StepOK, Before
<1>6. HandleOK'
  BY <1>1 DEF HandleOK
<1> QED BY <1>4, <1>5, <1>6 DEF Phases

LEMMA InitShape == Init => Shape
  BY InitDisk, InitPhases DEF Shape, Phases

LEMMA NextShape == Shape /\ [Next]_vars => Shape'
<1> SUFFICES ASSUME Shape, [Next]_vars PROVE Shape'
  OBVIOUS
<1>1. DiskOK /\ Phases
  BY DEF Shape, Phases
<1>2. ASSUME UNCHANGED <<req, step, file, size, resp, out>> PROVE Phases'
  BY <1>1, <1>2 DEF Phases, StepOK, RequestOK, OutOK, Answered, HandleOK
<1>3. Phases'
  <2>1. CASE SwapState \/ ReplaceRegistry
    BY <1>2, <2>1 DEF SwapState, ReplaceRegistry
  <2>2. CASE Truncate
    BY <1>2, <2>2 DEF Truncate
  <2>3. CASE WriteBytes
    BY <1>2, <2>3 DEF WriteBytes
  <2>4. CASE CopyEnds
    <3>1. step = "copy" /\ End("clean")
      BY <2>4 DEF CopyEnds, Copying
    <3> QED BY <1>1, <3>1, PhasesEnd
  <2>5. CASE CopyFails
    <3>1. step = "copy" /\ End("cut")
      BY <2>5 DEF CopyFails
    <3> QED BY <1>1, <3>1, PhasesEnd
  <2>6. CASE UNCHANGED vars
    BY <1>2, <2>6 DEF vars
  <2> QED BY <1>1, <2>1, <2>2, <2>3, <2>4, <2>5, <2>6, PhasesRequest, PhasesOpen, PhasesFail,
             PhasesServe, PhasesWriteHead, PhasesCopyChunk DEF Next
<1>4. DiskOK'
  BY <1>1, NextDisk
<1> QED BY <1>3, <1>4 DEF Shape, Phases

LEMMA SpecShape == Spec => []Shape
  BY InitShape, NextShape, PTL DEF Spec

(* When a request is over its file is closed, or left to the collector after *)
(* a head that was not sent: on every way through serveFile and writeTo.     *)
THEOREM HandleReleased == Spec => []FileReleased
<1>1. Shape => FileReleased
  BY DEF Shape, HandleOK, FileReleased
<1> QED BY <1>1, SpecShape, PTL

(* A range reply is given exactly to the Range headers that select bytes of  *)
(* the file, and for exactly these bytes: whatever the header and the size.  *)
THEOREM RangeCorrect == Spec => []RangeAsAsked
<1>1. Shape => RangeAsAsked
  <2> SUFFICES ASSUME Shape, size > 0, "range" \in DOMAIN resp, req.method = "GET",
                      req.range # NoRange
               PROVE  /\ resp.range.ok <=> Selected(req.range, size) # {}
                      /\ resp.range.ok => resp.range.start..resp.range.end
                                          = Selected(req.range, size)
    BY DEF RangeAsAsked
  <2> DEFINE p == parseByteRange(req.range, size)
  <2>1. ~Plain(resp)
    BY Kinds
  <2>2. size \in Nat /\ Fits(resp, req.method, req.range, size)
    BY <2>1 DEF Shape, Answered
  <2>3. req.range \in Ranges \ {NoRange}
    <3>1. step # "idle"
      BY <2>1 DEF Shape, Answered, Before
    <3> QED BY <3>1 DEF Shape, RequestOK
  <2>4. /\ p.ok \in BOOLEAN
        /\ p.ok => p.start..p.end = Selected(req.range, size)
        /\ p.ok <=> Selected(req.range, size) # {}
    BY <2>2, <2>3, ParseSelects
  <2>5. (resp.range = NotOK /\ ~p.ok) \/ (resp.range = p /\ p.ok)
    <3>1. \/ Whole(resp) /\ ~p.ok
          \/ Part(resp, req.range, size)
      BY <2>2, <2>3 DEF Fits
    <3>2. Whole(resp) => resp.range = NotOK
      BY Kinds
    <3>3. Part(resp, req.range, size) => resp.range = p /\ resp.range.ok
      BY Kinds
    <3> HIDE DEF p
    <3> QED BY <3>1, <3>2, <3>3
  <2> HIDE DEF p
  <2>6. CASE resp.range = NotOK /\ ~p.ok
    BY <2>4, <2>6, Kinds
  <2>7. CASE resp.range = p /\ p.ok
    BY <2>4, <2>7
  <2> QED BY <2>5, <2>6, <2>7
<1> QED BY <1>1, SpecShape, PTL

-----------------------------------------------------------------------------
(* What has been sent: the bytes of the file from the first of the range, or  *)
(* of the file, up to the handle's offset.  As positions this stays true when *)
(* the file is rewritten; as bytes it is true while nobody rewrote it.        *)
BaseOf(r) == IF r.stream = "copyN" THEN r.range.start ELSE 0
Sent(body, base, d, same) ==
    /\ body \in Seq(Byte)
    /\ \A i \in 1..Len(body) : body[i].pos = base + i - 1
    /\ same => \A i \in 1..Len(body) : base + i \in 1..Len(d) /\ body[i] = d[base + i]
Ended(o, r, d, same) ==
    o.end = "clean" =>
        /\ r.stream = "copyN" => Len(o.body) = r.length
        /\ r.stream = "copy" /\ same => Len(o.body) = Len(d)
Offset(at, s, f, body, base) ==
    /\ at \in Nat
    /\ s \in Before => at = 0
    /\ f = "open" /\ s \in {"head", "copy"} => at = base + Len(body)
Copied ==
    /\ Sent(out.body, BaseOf(resp), disk, still)
    /\ Ended(out, resp, disk, still)
    /\ Offset(off, step, file, out.body, BaseOf(resp))

LEMMA BaseTyped ==
    ASSUME Shape
    PROVE  /\ BaseOf(resp) \in Nat
           /\ resp.stream = "copyN" => resp.length \in Nat
<1>1. CASE resp.stream # "copyN"
  BY <1>1 DEF BaseOf
<1>2. CASE resp.stream = "copyN"
  <2>1. ~Plain(resp) /\ ~Headed(resp) /\ ~Whole(resp)
    BY <1>2, Kinds
  <2>2. size \in Nat /\ Part(resp, req.range, size)
    BY <2>1 DEF Shape, Answered, Fits
  <2>3. req.range \in Ranges \ {NoRange}
    BY <2>2 DEF Part
  <2> DEFINE p == parseByteRange(req.range, size)
  <2>4. p.ok => p.start \in Nat /\ p.end - p.start + 1 \in Nat
    BY <2>2, <2>3, ParseSelects
  <2>5. resp.range = p /\ resp.range.ok /\ resp.length = resp.range.end - resp.range.start + 1
    BY <2>2, Kinds
  <2> HIDE DEF p
  <2>6. resp.range.start \in Nat /\ resp.length \in Nat
    BY <2>4, <2>5
  <2> QED BY <1>2, <2>6 DEF BaseOf
<1> QED BY <1>1, <1>2

LEMMA NothingSent ==
    ASSUME NEW base, NEW d, NEW same PROVE Sent(<<>>, base, d, same)
  BY DEF Sent

(* A reply that has not been started.                                        *)
LEMMA CopiedFresh ==
    ASSUME out'.body = <<>>, out'.end = "none", off' \in Nat,
           step' \in Before => off' = 0, step' # "copy",
           step' = "head" /\ file' = "open" => off' = BaseOf(resp')
    PROVE  Copied'
<1>1. Sent(out'.body, BaseOf(resp'), disk', still')
  BY NothingSent
<1>2. Ended(out', resp', disk', still')
  BY DEF Ended
<1>3. Offset(off', step', file', out'.body, BaseOf(resp'))
  <2>1. Len(out'.body) = 0
    OBVIOUS
  <2>2. step' \in {"head", "copy"} /\ file' = "open" => off' = BaseOf(resp') + Len(out'.body)
    <3>1. ASSUME step' = "head", file' = "open" PROVE off' = BaseOf(resp') + Len(out'.body)
      <4>1. off' = BaseOf(resp')
        BY <3>1
      <4> QED BY <2>1, <4>1
    <3> QED BY <3>1
  <2> QED BY <2>2 DEF Offset
<1> QED BY <1>1, <1>2, <1>3 DEF Copied

LEMMA InitCopied == Init => Copied
<1> SUFFICES ASSUME Init PROVE Copied
  OBVIOUS
<1>1. step = "idle" /\ off = 0 /\ out = [head |-> NoHead, body |-> <<>>, end |-> "none"]
  BY DEF Init
<1>2. out.body = <<>> /\ out.end = "none"
  <2> HIDE DEF NoHead
  <2> QED BY <1>1
<1>3. Sent(out.body, BaseOf(resp), disk, still)
  BY <1>2, NothingSent
<1>4. Ended(out, resp, disk, still)
  BY <1>2 DEF Ended
<1>5. Offset(off, step, file, out.body, BaseOf(resp))
  BY <1>1 DEF Offset
<1> QED BY <1>3, <1>4, <1>5 DEF Copied

LEMMA CopiedServe == Shape /\ Copied /\ serveFile => Copied'
<1> SUFFICES ASSUME Shape, Copied, serveFile PROVE Copied'
  OBVIOUS
<1> DEFINE p == parseByteRange(req.range, size')
<1>1. step = "handle" /\ out' = out /\ size' \in Nat
  BY DEF serveFile, Shape, DiskOK
<1>2. out'.body = <<>> /\ out'.end = "none" /\ off = 0
  BY <1>1 DEF Shape, OutOK, Copied, Offset, Before
<1>3. req.range \in Ranges
  BY <1>1 DEF Shape, RequestOK
<1>4. req.range # NoRange /\ p.ok => p.start \in Nat
  BY <1>1, <1>3, ParseSelects
<1> HIDE DEF p
<1>5. \/ file' = "closed" /\ Reply(ServerError) /\ off' = off
      \/ /\ req.method = "HEAD" /\ file' = "closed" /\ off' = off /\ step' = "head"
         /\ Stream(resp', "noop", 0, NotOK)
      \/ /\ req.method # "HEAD" /\ req.range = NoRange
         /\ file' = file /\ off' = off /\ step' = "head"
         /\ Stream(resp', "copy", 0, NotOK)
      \/ /\ req.method # "HEAD" /\ req.range # NoRange /\ ~p.ok
         /\ file' = "closed" /\ off' = off /\ step' = "head"
         /\ Stream(resp', "copy", 0, NotOK)
      \/ /\ req.method # "HEAD" /\ req.range # NoRange /\ p.ok
         /\ file' = file /\ off' = p.start /\ step' = "head"
         /\ Stream(resp', "copyN", p.end - p.start + 1, p)
  BY ServeCases DEF p
<1>6. step' = "head"
  BY <1>5 DEF Reply
<1>7. ASSUME file' = "closed", off' = off PROVE Copied'
  BY <1>2, <1>6, <1>7, CopiedFresh DEF Before
<1>8. ASSUME off' = off, Stream(resp', "copy", 0, NotOK) PROVE Copied'
  <2>1. resp'.stream = "copy"
    BY <1>8 DEF Stream
  <2>2. BaseOf(resp') = 0
    BY <2>1 DEF BaseOf
  <2> QED BY <1>2, <1>6, <1>8, <2>2, CopiedFresh DEF Before
<1>9. ASSUME req.range # NoRange, p.ok, off' = p.start,
             Stream(resp', "copyN", p.end - p.start + 1, p)
      PROVE  Copied'
  <2>1. resp'.stream = "copyN" /\ resp'.range = p
    BY <1>9 DEF Stream
  <2>2. BaseOf(resp') = p.start
    BY <2>1 DEF BaseOf
  <2> QED BY <1>2, <1>4, <1>6, <1>9, <2>2, CopiedFresh DEF Before
<1> QED BY <1>5, <1>7, <1>8, <1>9

(* The steps that leave the reply alone; a rewrite makes it an old one.      *)
LEMMA CopiedFrame ==
    ASSUME Copied, UNCHANGED <<step, file, off, resp, out>>,
           still' = FALSE \/ UNCHANGED <<disk, still>>
    PROVE  Copied'
<1>1. Sent(out.body, BaseOf(resp), disk', still')
  BY DEF Copied, Sent
<1>2. Ended(out, resp, disk', still')
  BY DEF Copied, Ended
<1>3. Offset(off, step, file, out.body, BaseOf(resp))
  BY DEF Copied
<1> QED BY <1>1, <1>2, <1>3 DEF Copied

(* The end of a reply: its body stays as it is.                              *)
LEMMA CopiedEnd ==
    ASSUME Shape, Copied, NEW how, End(how),
           how = "clean" => /\ resp.stream = "copyN" => Len(out.body) = resp.length
                            /\ resp.stream = "copy" /\ still => Len(out.body) = Len(disk)
    PROVE  Copied'
<1>1. /\ step' = "done" /\ out' = [out EXCEPT !.end = how]
      /\ UNCHANGED <<disk, off, resp, still>>
  BY DEF End
<1>2. out = [head |-> out.head, body |-> out.body, end |-> out.end]
  BY DEF Shape, OutOK
<1>3. out' = [head |-> out.head, body |-> out.body, end |-> how]
  BY ONLY <1>1, <1>2, OutExcept
<1>4. out'.body = out.body /\ out'.end = how
  BY <1>3
<1>5. Sent(out'.body, BaseOf(resp'), disk', still')
  BY <1>1, <1>4 DEF Copied
<1>6. Ended(out', resp', disk', still')
  BY <1>1, <1>4 DEF Ended
<1>7. off \in Nat
  BY DEF Copied, Offset
<1>8. Offset(off', step', file', out'.body, BaseOf(resp'))
  BY <1>1, <1>7 DEF Offset, Before
<1> QED BY <1>5, <1>6, <1>8 DEF Copied

LEMMA CopiedWriteHead == Shape /\ Copied /\ WriteHead => Copied'
<1> SUFFICES ASSUME Shape, Copied, WriteHead PROVE Copied'
  OBVIOUS
<1> DEFINE head == IF "id" \in DOMAIN resp.head THEN HeadAt(req.reg, resp.head.id)
                   ELSE resp.head
<1>1. /\ step = "head" /\ UNCHANGED <<disk, off, resp, still>>
      /\ \/ /\ resp.stream \in {"none", "noop"} /\ step' = "done" /\ file' = file
            /\ out' = [head |-> head, body |-> out.body, end |-> "clean"]
         \/ /\ resp.stream \notin {"none", "noop"} /\ step' = "copy" /\ file' = file
            /\ out' = [out EXCEPT !.head = head]
         \/ /\ step' = "done"
            /\ out' = [out EXCEPT !.end = "unsent"]
  BY DEF WriteHead
<1> HIDE DEF head
<1>2. /\ out = [head |-> out.head, body |-> out.body, end |-> out.end]
      /\ out.end = "none"
  BY <1>1 DEF Shape, OutOK
<1>3. [out EXCEPT !.head = head] = [head |-> head, body |-> out.body, end |-> out.end]
  BY ONLY <1>2, OutExcept
<1>4. [out EXCEPT !.end = "unsent"] = [head |-> out.head, body |-> out.body, end |-> "unsent"]
  BY ONLY <1>2, OutExcept
<1>5. /\ out'.body = out.body
      /\ out'.end = "clean" => resp.stream \in {"none", "noop"}
      /\ step' \in {"copy", "done"}
      /\ step' = "copy" => file' = file
  BY <1>1, <1>2, <1>3, <1>4
<1>6. Sent(out'.body, BaseOf(resp'), disk', still')
  BY <1>1, <1>5 DEF Copied
<1>7. Ended(out', resp', disk', still')
  BY <1>1, <1>5 DEF Ended
<1>8. /\ off \in Nat
      /\ file = "open" => off = BaseOf(resp) + Len(out.body)
  BY <1>1 DEF Copied, Offset
<1>9. Offset(off', step', file', out'.body, BaseOf(resp'))
  BY <1>1, <1>5, <1>8 DEF Offset, Before
<1> QED BY <1>6, <1>7, <1>9 DEF Copied

LEMMA MinBound ==
    ASSUME NEW a \in Int, NEW b \in Int, NEW c \in Int, NEW n \in 1..Min({a, b, c})
    PROVE  n \in Nat \ {0} /\ n <= b /\ n <= c
<1> DEFINE m == Min({a, b, c})
<1>1. \E x \in {a, b, c} : \A y \in {a, b, c} : x <= y
  <2>1. CASE a <= b /\ a <= c
    BY <2>1
  <2>2. CASE b <= a /\ b <= c
    BY <2>2
  <2>3. CASE c <= a /\ c <= b
    BY <2>3
  <2> QED BY <2>1, <2>2, <2>3
<1>2. m \in {a, b, c} /\ \A y \in {a, b, c} : m <= y
  BY <1>1 DEF Min
<1> HIDE DEF m
<1>3. n \in 1..m
  BY DEF m
<1>4. m \in Int /\ m <= b /\ m <= c
  BY <1>2
<1> QED BY <1>3, <1>4

(* The rest of a sequence, cut at an offset.                                 *)
LEMMA Rest ==
    ASSUME NEW S, NEW d \in Seq(S), NEW at \in Nat
    PROVE  LET rest == SubSeq(d, at + 1, Len(d))
           IN  /\ rest \in Seq(S)
               /\ Len(rest) = IF at <= Len(d) THEN Len(d) - at ELSE 0
               /\ \A i \in 1..Len(rest) : rest[i] = d[at + i]
<1> DEFINE rest == SubSeq(d, at + 1, Len(d))
<1>1. rest \in Seq(S)
  OBVIOUS
<1>2. Len(rest) = IF at <= Len(d) THEN Len(d) - at ELSE 0
  OBVIOUS
<1>3. ASSUME NEW i \in 1..Len(rest) PROVE rest[i] = d[at + i]
  <2>1. i \in 1..(Len(d) - at)
    BY <1>2
  <2> QED BY <2>1
<1> QED BY <1>1, <1>2, <1>3

LEMMA Chunk ==
    ASSUME NEW S, NEW s \in Seq(S), NEW n \in Nat, n <= Len(s)
    PROVE  LET t == SubSeq(s, 1, n)
           IN  /\ t \in Seq(S) /\ Len(t) = n /\ \A i \in 1..n : t[i] = s[i]
<1> DEFINE t == SubSeq(s, 1, n)
<1>1. t \in Seq(S)
  OBVIOUS
<1>2. Len(t) = n
  OBVIOUS
<1>3. ASSUME NEW i \in 1..n PROVE t[i] = s[i]
  OBVIOUS
<1> QED BY <1>1, <1>2, <1>3

(* A chunk read at the offset goes on where what was sent ends.              *)
Placed(d) == \A i \in 1..Len(d) : d[i].pos = i - 1
After(d, at) == SubSeq(d, at + 1, Len(d))
LEMMA SentMore ==
    ASSUME NEW d \in Seq(Byte), Placed(d),
           NEW body, NEW base \in Nat, NEW same, Sent(body, base, d, same),
           NEW at, at = base + Len(body),
           NEW n \in Nat \ {0}, n <= Len(After(d, at))
    PROVE  /\ Sent(body \o SubSeq(After(d, at), 1, n), base, d, same)
           /\ Len(body \o SubSeq(After(d, at), 1, n)) = Len(body) + n
<1> DEFINE rest == After(d, at)
           more == SubSeq(rest, 1, n)
           all == body \o more
<1>1. body \in Seq(Byte) /\ Len(body) \in Nat /\ at \in Nat /\ at = base + Len(body)
  BY DEF Sent
<1>2. /\ rest \in Seq(Byte)
      /\ Len(rest) = IF at <= Len(d) THEN Len(d) - at ELSE 0
      /\ \A i \in 1..Len(rest) : rest[i] = d[at + i]
  BY <1>1, Rest DEF After
<1> HIDE DEF rest
<1>3. more \in Seq(Byte) /\ Len(more) = n /\ \A i \in 1..n : more[i] = rest[i]
  <2>1. n <= Len(rest)
    BY DEF rest
  <2> QED BY <1>2, <2>1, Chunk
<1> HIDE DEF more
<1>4. /\ all \in Seq(Byte) /\ Len(all) = Len(body) + Len(more)
      /\ \A i \in 1..Len(body) : all[i] = body[i]
      /\ \A i \in 1..Len(more) : all[Len(body) + i] = more[i]
  <2>1. body \in Seq(Byte) /\ more \in Seq(Byte)
    BY <1>1, <1>3
  <2> QED BY ONLY <2>1, Joined DEF all
<1> HIDE DEF all
<1>5. Len(all) = Len(body) + n
  BY <1>3, <1>4
<1>6. n <= Len(d) - at /\ n <= Len(rest)
  <2>1. n <= Len(rest)
    BY DEF rest
  <2> QED BY <1>1, <1>2, <2>1
<1>7. ASSUME NEW i \in 1..Len(all), i > Len(body)
      PROVE  base + i \in 1..Len(d) /\ all[i] = d[base + i]
  <2> DEFINE k == i - Len(body)
  <2>1. k \in 1..n /\ k \in 1..Len(rest) /\ Len(body) + k = i
    BY <1>1, <1>2, <1>5, <1>6, <1>7
  <2>2. all[i] = more[k]
    BY <1>3, <1>4, <2>1
  <2>3. more[k] = d[at + k]
    BY <1>2, <1>3, <2>1
  <2>4. at + k = base + i
    BY <1>1, <2>1
  <2>5. base + i \in 1..Len(d)
    BY <1>1, <1>5, <1>6
  <2> QED BY <2>2, <2>3, <2>4, <2>5
<1>8. ASSUME NEW i \in 1..Len(all) PROVE all[i].pos = base + i - 1
  <2>1. CASE i <= Len(body)
    <3>1. i \in 1..Len(body) /\ all[i] = body[i]
      BY <1>1, <1>4, <2>1
    <3> QED BY <3>1 DEF Sent
  <2>2. CASE i > Len(body)
    <3>1. base + i \in 1..Len(d) /\ all[i] = d[base + i]
      BY <1>7, <2>2
    <3>2. PICK j \in 1..Len(d) : j = base + i
      BY <3>1
    <3>3. d[j].pos = base + i - 1
      BY <3>2 DEF Placed
    <3>4. all[i] = d[j]
      BY <3>1, <3>2
    <3> QED BY <3>3, <3>4
  <2> QED BY <1>1, <1>5, <2>1, <2>2
<1>9. ASSUME same, NEW i \in 1..Len(all)
      PROVE  base + i \in 1..Len(d) /\ all[i] = d[base + i]
  <2>1. CASE i <= Len(body)
    <3>1. i \in 1..Len(body) /\ all[i] = body[i]
      BY <1>1, <1>4, <2>1
    <3> QED BY <1>9, <3>1 DEF Sent
  <2> QED BY <1>1, <1>5, <1>7, <2>1
<1>10. Sent(all, base, d, same)
  BY <1>4, <1>8, <1>9 DEF Sent
<1> QED BY <1>5, <1>10 DEF all, more, rest

LEMMA CopiedChunk == Shape /\ Copied /\ CopyChunk => Copied'
<1> SUFFICES ASSUME Shape, Copied, CopyChunk PROVE Copied'
  OBVIOUS
<1> DEFINE base == BaseOf(resp)
<1>1. /\ step = "copy" /\ file = "open"
      /\ UNCHANGED <<disk, step, file, resp, still>>
  BY DEF CopyChunk, Copying
<1>2. PICK n \in 1..Min({ChunkSize, Wanted, Len(Here)}) :
        out' = [out EXCEPT !.body = @ \o SubSeq(Here, 1, n)] /\ off' = off + n
  BY DEF CopyChunk
<1>3. /\ disk \in Seq(Byte) /\ \A i \in 1..Len(disk) : disk[i].pos = i - 1
      /\ out = [head |-> out.head, body |-> out.body, end |-> out.end] /\ out.end = "none"
  BY <1>1 DEF Shape, DiskOK, OutOK
<1>4. /\ Sent(out.body, base, disk, still) /\ off \in Nat /\ off = base + Len(out.body)
      /\ base \in Nat /\ Len(out.body) \in Nat
  BY <1>1, BaseTyped DEF Copied, Offset, Sent
<1>5. Here = SubSeq(disk, base + Len(out.body) + 1, Len(disk)) /\ Len(Here) \in Int
  <2>1. Here = SubSeq(disk, base + Len(out.body) + 1, Len(disk))
    BY <1>4 DEF Here
  <2>2. Here \in Seq(Byte)
    BY <1>3, <1>4, Rest DEF Here
  <2> QED BY <2>1, <2>2
<1>6. Wanted \in Int
  BY <1>4, <1>5, BaseTyped DEF Wanted
<1>7. n \in Nat \ {0} /\ n <= Len(Here)
  <2>1. ChunkSize \in Int
    BY FileConstants DEF FileConstants
  <2> QED BY <1>2, <1>5, <1>6, <2>1, MinBound
<1> DEFINE body == out.body \o SubSeq(Here, 1, n)
<1> HIDE DEF base
<1>8. Sent(body, base, disk, still) /\ Len(body) = Len(out.body) + n
  <2> DEFINE old == out.body
  <2>1. Here = After(disk, off)
    BY DEF Here, After
  <2> HIDE DEF old
  <2>2. /\ disk \in Seq(Byte) /\ Placed(disk) /\ base \in Nat /\ n \in Nat \ {0}
        /\ Sent(old, base, disk, still) /\ off = base + Len(old)
        /\ n <= Len(After(disk, off))
    BY <1>3, <1>4, <1>7, <2>1 DEF old, Placed
  <2>3. /\ Sent(old \o SubSeq(After(disk, off), 1, n), base, disk, still)
        /\ Len(old \o SubSeq(After(disk, off), 1, n)) = Len(old) + n
    BY ONLY <2>2, SentMore
  <2>4. body = old \o SubSeq(After(disk, off), 1, n)
    BY <2>1 DEF old
  <2> QED BY <2>3, <2>4 DEF old
<1>9. out' = [out EXCEPT !.body = body]
  BY <1>2
<1> HIDE DEF body
<1>10. out' = [head |-> out.head, body |-> body, end |-> out.end]
  BY ONLY <1>3, <1>9, OutExcept
<1>11. out'.body = body /\ out'.end = "none"
  BY <1>3, <1>10
<1>12. BaseOf(resp') = base
  BY <1>1 DEF base
<1>13. Sent(out'.body, BaseOf(resp'), disk', still')
  BY <1>1, <1>8, <1>11, <1>12
<1>14. Ended(out', resp', disk', still')
  BY <1>11 DEF Ended
<1>15. Offset(off', step', file', out'.body, BaseOf(resp'))
  <2>1. off' = off + n
    BY <1>2
  <2>2. off' = base + Len(body) /\ off' \in Nat
    BY <1>4, <1>7, <1>8, <2>1
  <2> QED BY <1>1, <1>11, <1>12, <2>2 DEF Offset, Before
<1> QED BY <1>13, <1>14, <1>15 DEF Copied

LEMMA CopiedEnds == Shape /\ Copied /\ CopyEnds => Copied'
<1> SUFFICES ASSUME Shape, Copied, CopyEnds PROVE Copied'
  OBVIOUS
<1> DEFINE base == BaseOf(resp)
<1>1. step = "copy" /\ file = "open" /\ Wanted = 0 /\ End("clean")
  BY DEF CopyEnds, Copying
<1>2. /\ Sent(out.body, base, disk, still) /\ off \in Nat /\ off = base + Len(out.body)
      /\ Len(out.body) \in Nat
  BY <1>1 DEF Copied, Offset, Sent
<1>3. resp.stream = "copyN" => Len(out.body) = resp.length
  BY <1>1, <1>2, BaseTyped DEF Wanted
<1>4. ASSUME resp.stream = "copy", still PROVE Len(out.body) = Len(disk)
  <2>1. base = 0
    BY <1>4 DEF BaseOf
  <2>2. disk \in Seq(Byte)
    BY DEF Shape, DiskOK
  <2>3. Len(Here) = IF off <= Len(disk) THEN Len(disk) - off ELSE 0
    BY <1>2, <2>2, Rest DEF Here
  <2>4. Len(Here) = 0
    BY <1>1, <1>4 DEF Wanted
  <2>5. Len(disk) \in Nat /\ off = Len(out.body) /\ Len(disk) <= off
    BY <1>2, <2>1, <2>2, <2>3, <2>4
  <2>6. ASSUME Len(out.body) > 0 PROVE Len(out.body) <= Len(disk)
    <3>1. Len(out.body) \in 1..Len(out.body)
      BY <1>2, <2>6
    <3>2. base + Len(out.body) \in 1..Len(disk)
      BY <1>2, <1>4, <3>1 DEF Sent
    <3> QED BY <1>2, <2>1, <2>5, <3>2
  <2> QED BY <1>2, <2>5, <2>6
<1> QED BY <1>1, <1>3, <1>4, CopiedEnd

LEMMA NextCopied == Shape /\ Copied /\ [Next]_vars => Copied'
<1> SUFFICES ASSUME Shape, Copied, [Next]_vars PROVE Copied'
  OBVIOUS
<1>1. ASSUME step \in Before, UNCHANGED <<off, out>>, file' = "closed" \/ file' = file,
             step' \in {"open", "handle", "head"}, step' = "head" => file' # "open"
      PROVE  Copied'
  <2>1. out.body = <<>> /\ out.end = "none" /\ off = 0
    BY <1>1 DEF Shape, OutOK, Copied, Offset, Before
  <2> QED BY <1>1, <2>1, CopiedFresh DEF Before
<1>2. CASE SwapState \/ ReplaceRegistry
  BY <1>2, CopiedFrame DEF SwapState, ReplaceRegistry
<1>3. CASE Truncate
  BY <1>3, CopiedFrame DEF Truncate
<1>4. CASE WriteBytes
  BY <1>4, CopiedFrame DEF WriteBytes
<1>5. CASE Request
  <2>1. step = "idle" /\ step' = "open" /\ UNCHANGED <<off, out, file>>
    BY <1>5 DEF Request
  <2> QED BY <1>1, <2>1 DEF Before
<1>6. CASE Open
  <2>1. step = "open" /\ UNCHANGED <<off, out>>
    BY <1>6 DEF Open
  <2>2. file = "none"
    BY <2>1 DEF Shape, HandleOK
  <2>3. step' = "handle" \/ (step' = "head" /\ file' = file)
    BY <1>6 DEF Open, Reply
  <2>4. out.body = <<>> /\ out.end = "none" /\ off = 0
    BY <2>1 DEF Shape, OutOK, Copied, Offset, Before
  <2> QED BY <2>1, <2>2, <2>3, <2>4, CopiedFresh DEF Before
<1>7. CASE Fail
  <2>1. step = "handle" /\ step' = "head" /\ file' = "closed" /\ UNCHANGED <<off, out>>
    BY <1>7 DEF Fail, Reply
  <2> QED BY <1>1, <2>1 DEF Before
<1>8. CASE CopyFails
  <2>1. End("cut")
    BY <1>8 DEF CopyFails
  <2> QED BY <2>1, CopiedEnd
<1>9. CASE UNCHANGED vars
  BY <1>9, CopiedFrame DEF vars
<1> QED BY <1>2, <1>3, <1>4, <1>5, <1>6, <1>7, <1>8, <1>9, CopiedServe, CopiedWriteHead,
           CopiedChunk, CopiedEnds DEF Next

LEMMA SpecCopied == Spec => []Copied
  BY InitCopied, NextCopied, SpecShape, PTL DEF Spec

(* A reply that ends cleanly carries what it announced: exactly the bytes of  *)
(* the range, of one build unless the file was rewritten since the Stat, and  *)
(* without a range the whole file unless it was rewritten.                    *)
THEOREM BodyCorrect == Spec => []BodyExact
<1>1. Shape /\ Copied => BodyExact
  <2> SUFFICES ASSUME Shape, Copied, out.end = "clean", req.method = "GET"
               PROVE  /\ Asked =>
                          /\ [i \in DOMAIN out.body |-> out.body[i].pos] =
                             [i \in 1..(resp.range.end - resp.range.start + 1) |->
                                resp.range.start + i - 1]
                          /\ still => \A i, j \in DOMAIN out.body :
                                         out.body[i].build = out.body[j].build
                      /\ resp.stream = "copy" /\ still => out.body = disk
    BY DEF BodyExact
  <2>1. Sent(out.body, BaseOf(resp), disk, still) /\ Ended(out, resp, disk, still)
    BY DEF Copied
  <2>2. disk \in Seq(Byte) /\ \A i \in 1..Len(disk) : disk[i].build = build.n
    BY DEF Shape, DiskOK
  <2>3. out.body \in Seq(Byte) /\ DOMAIN out.body = 1..Len(out.body) /\ Len(out.body) \in Nat
    BY <2>1 DEF Sent
  <2>4. ASSUME Asked
        PROVE  [i \in DOMAIN out.body |-> out.body[i].pos] =
               [i \in 1..(resp.range.end - resp.range.start + 1) |-> resp.range.start + i - 1]
    <3>1. ~Plain(resp) /\ ~Whole(resp) /\ ~Headed(resp)
      BY <2>4, Kinds DEF Asked
    <3>2. Part(resp, req.range, size)
      BY <3>1 DEF Shape, Answered, Fits
    <3>3. resp.stream = "copyN" /\ resp.length = resp.range.end - resp.range.start + 1
      BY <3>2, Kinds
    <3>4. Len(out.body) = resp.range.end - resp.range.start + 1 /\ BaseOf(resp) = resp.range.start
      BY <2>1, <3>3 DEF Ended, BaseOf
    <3>5. \A i \in 1..Len(out.body) : out.body[i].pos = resp.range.start + i - 1
      BY <2>1, <3>4 DEF Sent
    <3> DEFINE m == resp.range.end - resp.range.start + 1
               s == resp.range.start
    <3>6. DOMAIN out.body = 1..m /\ \A i \in 1..m : out.body[i].pos = s + i - 1
      BY <2>3, <3>4, <3>5
    <3> HIDE DEF m, s
    <3>7. [i \in DOMAIN out.body |-> out.body[i].pos] = [i \in 1..m |-> s + i - 1]
      BY <3>6
    <3> QED BY <3>7 DEF m, s
  <2>5. ASSUME still, NEW i \in DOMAIN out.body, NEW j \in DOMAIN out.body
        PROVE  out.body[i].build = out.body[j].build
    <3>1. ASSUME NEW k \in 1..Len(out.body) PROVE out.body[k].build = build.n
      <4>1. BaseOf(resp) + k \in 1..Len(disk) /\ out.body[k] = disk[BaseOf(resp) + k]
        BY <2>1, <2>5, <3>1 DEF Sent
      <4> QED BY <2>2, <4>1
    <3> QED BY <2>3, <2>5, <3>1
  <2>6. ASSUME resp.stream = "copy", still PROVE out.body = disk
    <3>1. Len(out.body) = Len(disk) /\ BaseOf(resp) = 0
      BY <2>1, <2>6 DEF Ended, BaseOf
    <3>2. ASSUME NEW i \in 1..Len(out.body) PROVE out.body[i] = disk[i]
      <4>1. out.body[i] = disk[0 + i]
        BY <2>1, <2>6, <3>1 DEF Sent
      <4>2. 0 + i = i
        BY <2>3
      <4> QED BY <4>1, <4>2
    <3> QED BY <2>2, <2>3, <3>1, <3>2
  <2> QED BY <2>4, <2>5, <2>6
<1> QED BY <1>1, SpecShape, SpecCopied, PTL

-----------------------------------------------------------------------------
(* The heads: what the state registers is proved of the fold that builds it, *)
(* by the least number of mime types for which it would fail.                *)

(* Every nonempty set of natural numbers has a least element.                *)
LEMMA LeastNat ==
    ASSUME NEW B \in SUBSET Nat, B # {}
    PROVE  \E n \in B : \A m \in B : n <= m
<1> DEFINE R == {p \in Nat \X Nat : p[1] < p[2]}
<1>1. IsWellFoundedOn(R, Nat)
  <2>1. R = OpToRel(<, Nat)
    BY DEF OpToRel
  <2> HIDE DEF R
  <2> QED BY <2>1, NatLessThanWellFounded
<1> HIDE DEF R
<1>2. \E n \in B : \A m \in B : ~(<<m, n>> \in R)
  BY <1>1, WFMin
<1>3. PICK n \in B : \A m \in B : ~(<<m, n>> \in R)
  BY <1>2
<1>4. \A m \in B : n <= m
  <2> SUFFICES ASSUME NEW m \in B, ~(n <= m) PROVE FALSE
    OBVIOUS
  <2>1. m \in Nat /\ n \in Nat /\ m < n
    OBVIOUS
  <2>2. <<m, n>> \in R
    BY <2>1 DEF R
  <2> QED BY <1>3, <2>2
<1> QED BY <1>4

(* The recursion that FoldLeft unfolds to, for the heads of state g.         *)
Fresh(g) == [fileHeads |-> <<>>, heads |-> BaseHeads[g]]
Unfolds(g, D, f) ==
    f = [U \in SUBSET D |->
           IF U = {} THEN Fresh(g) ELSE registerFileMime(f[U \ {Max(U)}], RouteMimes[g][Max(U)])]

LEMMA StateUnfold ==
    ASSUME NEW g
    PROVE  appState(g) = (CHOOSE f : Unfolds(g, DOMAIN RouteMimes[g], f))[DOMAIN RouteMimes[g]]
  BY DEF appState, FoldLeft, MapThenFoldSet, Unfolds, Fresh

LEMMA MaxSegment ==
    ASSUME NEW n \in Nat \ {0}, NEW U \in SUBSET (1..n), n \in U
    PROVE  Max(U) = n
<1>1. n \in U /\ \A y \in U : n >= y
  OBVIOUS
<1> DEFINE m == Max(U)
<1>2. m \in U /\ \A y \in U : m >= y
  BY <1>1 DEF Max
<1> HIDE DEF m
<1>3. m \in Int /\ n >= m /\ m >= n
  BY <1>1, <1>2
<1>4. m = n
  BY <1>3
<1> QED BY <1>4 DEF m

LEMMA UnfoldExists ==
    ASSUME NEW g, NEW N \in Nat
    PROVE  \E f : Unfolds(g, 1..N, f)
<1> DEFINE B == {n \in Nat : ~ \E f : Unfolds(g, 1..n, f)}
<1> SUFFICES ASSUME B # {} PROVE FALSE
  OBVIOUS
<1>1. PICK n \in B : \A m \in B : n <= m
  <2>1. B \in SUBSET Nat
    OBVIOUS
  <2> HIDE DEF B
  <2> QED BY <2>1, LeastNat
<1>2. n # 0
  <2>1. 1..0 = {}
    OBVIOUS
  <2>2. Unfolds(g, {}, [U \in SUBSET {} |-> Fresh(g)])
    BY DEF Unfolds
  <2> QED BY <1>1, <2>1, <2>2
<1>3. n \in Nat \ {0} /\ n - 1 \in Nat /\ n - 1 \notin B
  BY <1>1, <1>2
<1>4. PICK h : Unfolds(g, 1..(n - 1), h)
  BY <1>3
<1> DEFINE f == [U \in SUBSET (1..n) |->
                   IF n \in U THEN registerFileMime(h[U \ {n}], RouteMimes[g][n]) ELSE h[U]]
<1>5. ASSUME NEW U \in SUBSET (1..n)
      PROVE  f[U] = IF U = {} THEN Fresh(g)
                    ELSE registerFileMime(f[U \ {Max(U)}], RouteMimes[g][Max(U)])
  <2>1. CASE n \in U
    <3>1. Max(U) = n /\ U # {}
      BY <1>3, <2>1, MaxSegment
    <3>2. f[U \ {n}] = h[U \ {n}]
      OBVIOUS
    <3>3. f[U] = registerFileMime(h[U \ {n}], RouteMimes[g][n])
      BY <2>1
    <3> HIDE DEF f
    <3> QED BY <3>1, <3>2, <3>3
  <2>2. CASE n \notin U
    <3>1. U \in SUBSET (1..(n - 1))
      BY <1>3, <2>2
    <3>2. h[U] = IF U = {} THEN Fresh(g)
                 ELSE registerFileMime(h[U \ {Max(U)}], RouteMimes[g][Max(U)])
      BY <1>4, <3>1 DEF Unfolds
    <3>3. f[U] = h[U] /\ f[U \ {Max(U)}] = h[U \ {Max(U)}]
      BY <2>2
    <3> HIDE DEF f
    <3> QED BY <3>2, <3>3
  <2> QED BY <2>1, <2>2
<1>6. f = [U \in SUBSET (1..n) |-> f[U]]
  OBVIOUS
<1> HIDE DEF f
<1>7. Unfolds(g, 1..n, f)
  BY <1>5, <1>6 DEF Unfolds
<1> QED BY <1>1, <1>7

(* The heads of a mime type are where the state says they are.               *)
HeadSet(g) ==
    Range(BaseHeads[g]) \cup [status : {200, 206}, mime : Range(RouteMimes[g])]
Located(heads, id, status, m) ==
    id \in 0..(Len(heads) - 1) /\ heads[id + 1] = [status |-> status, mime |-> m]
HeadsOK(g, st) ==
    /\ st.heads \in Seq(HeadSet(g))
    /\ \A m \in DOMAIN st.fileHeads :
          /\ Located(st.heads, st.fileHeads[m].head200, 200, m)
          /\ Located(st.heads, st.fileHeads[m].head206, 206, m)

LEMMA RegisterHeadsOK ==
    ASSUME NEW g, NEW st, HeadsOK(g, st), NEW mime \in Range(RouteMimes[g])
    PROVE  HeadsOK(g, registerFileMime(st, mime))
<1> DEFINE r == registerFileMime(st, mime)
           n == Len(st.heads)
           two == <<[status |-> 200, mime |-> mime], [status |-> 206, mime |-> mime]>>
           ids == [head200 |-> n, head206 |-> n + 1]
<1>1. CASE mime \in DOMAIN st.fileHeads
  <2>1. r = st
    BY <1>1 DEF registerFileMime, Register
  <2> QED BY <2>1
<1>2. CASE mime \notin DOMAIN st.fileHeads
  <2>1. /\ r.heads = st.heads \o two
        /\ DOMAIN r.fileHeads = DOMAIN st.fileHeads \cup {mime}
        /\ \A m \in DOMAIN r.fileHeads :
             r.fileHeads[m] = IF m = mime THEN ids ELSE st.fileHeads[m]
    BY <1>2 DEF registerFileMime, Register
  <2>2. st.heads \in Seq(HeadSet(g)) /\ n \in Nat
    BY DEF HeadsOK
  <2>3. two \in Seq(HeadSet(g)) /\ Len(two) = 2
    BY DEF HeadSet
  <2>4. /\ r.heads \in Seq(HeadSet(g)) /\ Len(r.heads) = n + 2
        /\ \A i \in 1..n : r.heads[i] = st.heads[i]
        /\ r.heads[n + 1] = two[1] /\ r.heads[n + 2] = two[2]
    <3> DEFINE old == st.heads
               new == old \o two
               S == HeadSet(g)
    <3>1. old \in Seq(S) /\ two \in Seq(S)
      BY <2>2, <2>3
    <3> HIDE DEF old, two, new, S
    <3>2. /\ new \in Seq(S) /\ Len(new) = Len(old) + Len(two)
          /\ \A i \in 1..Len(old) : new[i] = old[i]
          /\ \A i \in 1..Len(two) : new[Len(old) + i] = two[i]
      BY ONLY <3>1, Joined DEF new
    <3>3. r.heads = new /\ Len(old) = n
      BY <2>1 DEF new, old
    <3>4. 1 \in 1..Len(two) /\ 2 \in 1..Len(two) /\ Len(two) = 2
      BY <2>3
    <3>5. new[n + 1] = two[1] /\ new[n + 2] = two[2]
      BY <3>2, <3>3, <3>4
    <3> HIDE DEF r, n
    <3> QED BY <3>2, <3>3, <3>4, <3>5 DEF old, S
  <2>5. two[1] = [status |-> 200, mime |-> mime] /\ two[2] = [status |-> 206, mime |-> mime]
    OBVIOUS
  <2>6. ids.head200 = n /\ ids.head206 = n + 1
    OBVIOUS
  <2> HIDE DEF r, n, two, ids
  <2>7. Located(r.heads, ids.head200, 200, mime) /\ Located(r.heads, ids.head206, 206, mime)
    <3>1. n \in 0..(Len(r.heads) - 1) /\ n + 1 \in 0..(Len(r.heads) - 1) /\ (n + 1) + 1 = n + 2
      BY <2>2, <2>4
    <3> QED BY <2>4, <2>5, <2>6, <3>1 DEF Located
  <2>8. ASSUME NEW id, NEW s, NEW m, Located(st.heads, id, s, m)
        PROVE  Located(r.heads, id, s, m)
    <3>1. id \in 0..(n - 1) /\ st.heads[id + 1] = [status |-> s, mime |-> m]
      BY <2>8 DEF Located, n
    <3>2. id \in 0..(Len(r.heads) - 1) /\ id + 1 \in 1..n
      BY <2>2, <2>4, <3>1
    <3>3. r.heads[id + 1] = st.heads[id + 1]
      BY <2>4, <3>2
    <3> QED BY <3>1, <3>2, <3>3 DEF Located
  <2>9. ASSUME NEW m \in DOMAIN r.fileHeads
        PROVE  /\ Located(r.heads, r.fileHeads[m].head200, 200, m)
               /\ Located(r.heads, r.fileHeads[m].head206, 206, m)
    <3>1. CASE m = mime
      BY <2>1, <2>7, <3>1
    <3>2. CASE m # mime
      <4>1. m \in DOMAIN st.fileHeads /\ r.fileHeads[m] = st.fileHeads[m]
        BY <2>1, <3>2
      <4>2. /\ Located(st.heads, st.fileHeads[m].head200, 200, m)
            /\ Located(st.heads, st.fileHeads[m].head206, 206, m)
        BY <4>1 DEF HeadsOK
      <4> QED BY <2>8, <4>1, <4>2
    <3> QED BY <3>1, <3>2
  <2>10. HeadsOK(g, r)
    BY <2>4, <2>9 DEF HeadsOK
  <2> QED BY <2>10 DEF r
<1> QED BY <1>1, <1>2

(* So it is for the whole state, however many mime types it registers.       *)
LEMMA StateHeadsOK == ASSUME NEW g \in States PROVE HeadsOK(g, appState(g))
<1> DEFINE mimes == RouteMimes[g]
           N == Len(mimes)
           f == CHOOSE h : Unfolds(g, 1..N, h)
<1>1. /\ mimes \in Seq(Range(mimes)) /\ BaseHeads[g] \in Seq(Range(BaseHeads[g]))
      /\ N \in Nat /\ DOMAIN mimes = 1..N
      /\ \A i \in 1..N : mimes[i] \in Range(mimes)
  <2>1. mimes \in Seq(Range(mimes)) /\ BaseHeads[g] \in Seq(Range(BaseHeads[g]))
    BY FileConstants DEF FileConstants
  <2> HIDE DEF mimes
  <2> QED BY <2>1 DEF N
<1>2. Unfolds(g, 1..N, f)
  BY <1>1, UnfoldExists
<1>3. appState(g) = f[1..N]
  BY <1>1, StateUnfold
<1> HIDE DEF f, N
<1>4. HeadsOK(g, Fresh(g))
  <2>1. Fresh(g).heads = BaseHeads[g] /\ DOMAIN Fresh(g).fileHeads = {}
    BY DEF Fresh
  <2>2. BaseHeads[g] \in Seq(HeadSet(g))
    BY <1>1 DEF HeadSet
  <2> QED BY <2>1, <2>2 DEF HeadsOK
<1> DEFINE B == {m \in Nat : m <= N /\ ~HeadsOK(g, f[1..m])}
<1>5. B = {}
  <2> SUFFICES ASSUME B # {} PROVE FALSE
    OBVIOUS
  <2>1. PICK m \in B : \A k \in B : m <= k
    <3>1. B \in SUBSET Nat
      OBVIOUS
    <3> HIDE DEF B
    <3> QED BY <3>1, LeastNat
  <2>2. m # 0
    <3>1. 1..0 = {} /\ {} \in SUBSET (1..N)
      OBVIOUS
    <3>2. f[{}] = Fresh(g)
      BY <1>2, <3>1 DEF Unfolds
    <3> QED BY <1>4, <2>1, <3>1, <3>2
  <2>3. m \in Nat \ {0} /\ m <= N /\ m - 1 \in Nat /\ m - 1 <= N /\ m - 1 \notin B
    BY <1>1, <2>1, <2>2
  <2>4. HeadsOK(g, f[1..(m - 1)]) /\ ~HeadsOK(g, f[1..m])
    BY <2>1, <2>3
  <2>5. /\ 1..m \in SUBSET (1..N) /\ 1..m # {} /\ (1..m) \ {m} = 1..(m - 1)
        /\ m \in 1..m /\ 1..m \in SUBSET (1..m) /\ m \in 1..N
    <3>1. (1..m) \ {m} = 1..(m - 1)
      BY <2>3
    <3>2. m \in 1..m /\ m \in 1..N
      BY <1>1, <2>3
    <3>3. 1..m \in SUBSET (1..N)
      BY <1>1, <2>3
    <3> QED BY <3>1, <3>2, <3>3
  <2>6. Max(1..m) = m
    BY <2>3, <2>5, MaxSegment
  <2>7. f[1..m] = registerFileMime(f[(1..m) \ {Max(1..m)}], mimes[Max(1..m)])
    BY <1>2, <2>5 DEF Unfolds
  <2>8. f[1..m] = registerFileMime(f[1..(m - 1)], mimes[m])
    BY <2>5, <2>6, <2>7
  <2>9. mimes[m] \in Range(RouteMimes[g])
    BY <1>1, <2>5
  <2> QED BY <2>4, <2>8, <2>9, RegisterHeadsOK
<1>6. HeadsOK(g, f[1..N])
  <2>1. N \in Nat /\ N <= N
    BY <1>1
  <2> QED BY <1>5, <2>1
<1> QED BY <1>3, <1>6

(* The head a reply will be given, and the head it has been given.           *)
IdOK(r, g) ==
    "id" \in DOMAIN r.head =>
        /\ g \in States /\ Mime \in DOMAIN appState(g).fileHeads
        /\ r.head.id = IF r.stream = "copyN" THEN appState(g).fileHeads[Mime].head206
                       ELSE appState(g).fileHeads[Mime].head200
HeadsSent ==
    /\ state \in States
    /\ step = "handle" => req.st \in States
    /\ step \in Before => "id" \notin DOMAIN resp.head
    /\ IdOK(resp, req.st)
    /\ step \in Before \cup {"head"} => out.head = NoHead
    /\ "id" \in DOMAIN resp.head => out.head \in {NoHead, HeadAt(req.reg, resp.head.id)}

LEMMA NoIds ==
    ASSUME NEW r, NEW h \in {NoHead, NotFound, ServerError}, r = [head |-> h, stream |-> "none"]
    PROVE  "id" \notin DOMAIN r.head
<1>1. "id" \notin DOMAIN h
  BY DEF NoHead, NotFound, ServerError
<1>2. r.head = h
  OBVIOUS
<1> QED BY <1>1, <1>2

LEMMA InitHeads == Init => HeadsSent
<1> SUFFICES ASSUME Init PROVE HeadsSent
  OBVIOUS
<1>1. /\ step = "idle" /\ state = 1 /\ resp = [head |-> NoHead, stream |-> "none"]
      /\ out = [head |-> NoHead, body |-> <<>>, end |-> "none"]
  BY DEF Init
<1>2. "id" \notin DOMAIN resp.head
  BY <1>1, NoIds
<1>3. out.head = NoHead
  BY <1>1
<1>4. state \in States
  BY <1>1, FileConstants DEF FileConstants
<1> QED BY <1>1, <1>2, <1>3, <1>4 DEF HeadsSent, IdOK

LEMMA HeadsRequest == Phases /\ HeadsSent /\ Request => HeadsSent'
<1> SUFFICES ASSUME Phases, HeadsSent, Request PROVE HeadsSent'
  OBVIOUS
<1>1. /\ step = "idle" /\ step' = "open" /\ state' = state
      /\ resp' = resp /\ out' = out
  BY DEF Request, server
<1>2. "id" \notin DOMAIN resp.head /\ out.head = NoHead /\ state \in States
  BY <1>1 DEF HeadsSent, Before
<1> QED BY <1>1, <1>2 DEF HeadsSent, IdOK

(* An error reply names no head of the state.                                *)
LEMMA HeadsReply ==
    ASSUME HeadsSent, step \in {"open", "handle"}, NEW h \in {NotFound, ServerError}, Reply(h),
           out' = out, state' = state
    PROVE  HeadsSent'
<1>1. step' = "head" /\ resp' = [head |-> h, stream |-> "none"]
  BY DEF Reply
<1>2. "id" \notin DOMAIN resp'.head
  BY <1>1, NoIds
<1>3. out.head = NoHead /\ state \in States
  BY DEF HeadsSent, Before
<1> QED BY <1>1, <1>2, <1>3 DEF HeadsSent, IdOK, Before

LEMMA HeadsOpen == Phases /\ HeadsSent /\ Open => HeadsSent'
<1> SUFFICES ASSUME Phases, HeadsSent, Open PROVE HeadsSent'
  OBVIOUS
<1>1. /\ step = "open" /\ out' = out /\ state' = state
      /\ req' = [req EXCEPT !.st = state]
      /\ \/ step' = "handle" /\ resp' = resp
         \/ Reply(NotFound)
  BY DEF Open, server
<1>2. CASE Reply(NotFound)
  BY <1>1, <1>2, HeadsReply
<1>3. CASE step' = "handle" /\ resp' = resp
  <2>1. req = [method |-> req.method, range |-> req.range, reg |-> req.reg, st |-> req.st]
    BY <1>1 DEF Phases, RequestOK
  <2>2. [req EXCEPT !.st = state] =
          [method |-> req.method, range |-> req.range, reg |-> req.reg, st |-> state]
    BY <2>1
  <2>3. req' = [method |-> req.method, range |-> req.range, reg |-> req.reg, st |-> state]
    BY <1>1, <2>2
  <2>4. req'.st = state
    BY <2>3
  <2>5. "id" \notin DOMAIN resp.head /\ out.head = NoHead /\ state \in States
    BY <1>1 DEF HeadsSent, Before
  <2> QED BY <1>1, <1>3, <2>4, <2>5 DEF HeadsSent, IdOK
<1> QED BY <1>1, <1>2, <1>3

LEMMA HeadsServe == HeadsSent /\ serveFile => HeadsSent'
<1> SUFFICES ASSUME HeadsSent, serveFile PROVE HeadsSent'
  OBVIOUS
<1>1. step = "handle" /\ req' = req /\ out' = out /\ state' = state
  BY DEF serveFile, server
<1>2. CASE Reply(ServerError)
  BY <1>1, <1>2, HeadsReply
<1>3. CASE ~Reply(ServerError)
  <2> DEFINE heads == appState(req.st).fileHeads[Mime]
             p == parseByteRange(req.range, Len(disk))
             Rep(kind, id, n) == resp' = [head |-> [id |-> id], stream |-> kind, length |-> n,
                                          range |-> IF kind = "copyN" THEN p ELSE NotOK]
  <2>1. /\ Mime \in DOMAIN appState(req.st).fileHeads /\ step' = "head"
        /\ \/ Rep("noop", heads.head200, 0)
           \/ Rep("copy", heads.head200, 0)
           \/ Rep("copyN", heads.head206, p.end - p.start + 1)
    BY <1>3 DEF serveFile
  <2>2. ASSUME NEW kind, NEW id, NEW n, Rep(kind, id, n)
        PROVE  resp'.stream = kind /\ resp'.head.id = id
    <3>1. resp'.stream = kind
      BY <2>2
    <3>2. resp'.head = [id |-> id]
      BY <2>2
    <3> QED BY <3>1, <3>2
  <2> HIDE DEF Rep
  <2>3. resp'.head.id = IF resp'.stream = "copyN" THEN heads.head206 ELSE heads.head200
    <3>1. CASE Rep("noop", heads.head200, 0)
      <4>1. resp'.stream = "noop" /\ resp'.head.id = heads.head200
        BY <3>1, <2>2
      <4> QED BY <4>1
    <3>2. CASE Rep("copy", heads.head200, 0)
      <4>1. resp'.stream = "copy" /\ resp'.head.id = heads.head200
        BY <3>2, <2>2
      <4> QED BY <4>1
    <3>3. CASE Rep("copyN", heads.head206, p.end - p.start + 1)
      <4>1. resp'.stream = "copyN" /\ resp'.head.id = heads.head206
        BY <3>3, <2>2
      <4> QED BY <4>1
    <3> QED BY <2>1, <3>1, <3>2, <3>3
  <2>4. req.st \in States /\ out.head = NoHead /\ state \in States
    BY <1>1 DEF HeadsSent, Before
  <2>5. IdOK(resp', req.st)
    BY <2>1, <2>3, <2>4 DEF IdOK
  <2> QED BY <1>1, <2>1, <2>4, <2>5 DEF HeadsSent, Before
<1> QED BY <1>2, <1>3

LEMMA HeadsWriteHead == Phases /\ HeadsSent /\ WriteHead => HeadsSent'
<1> SUFFICES ASSUME Phases, HeadsSent, WriteHead PROVE HeadsSent'
  OBVIOUS
<1> DEFINE head == IF "id" \in DOMAIN resp.head THEN HeadAt(req.reg, resp.head.id) ELSE resp.head
<1>1. step = "head" /\ req' = req /\ resp' = resp /\ state' = state
  BY DEF WriteHead, server
<1>2. out = [head |-> out.head, body |-> out.body, end |-> out.end]
  BY <1>1 DEF Phases, OutOK
<1>3. /\ step' \in {"done", "copy"}
      /\ \/ out' = [head |-> head, body |-> out.body, end |-> "clean"]
         \/ out' = [out EXCEPT !.head = head]
         \/ out' = [out EXCEPT !.end = "unsent"]
  BY DEF WriteHead
<1>4. out'.head \in {head, out.head}
  <2> HIDE DEF head
  <2>1. [out EXCEPT !.head = head] = [head |-> head, body |-> out.body, end |-> out.end]
    BY ONLY <1>2, OutExcept
  <2>2. [out EXCEPT !.end = "unsent"] = [head |-> out.head, body |-> out.body, end |-> "unsent"]
    BY ONLY <1>2, OutExcept
  <2>3. \/ out' = [head |-> head, body |-> out.body, end |-> "clean"]
        \/ out' = [head |-> head, body |-> out.body, end |-> out.end]
        \/ out' = [head |-> out.head, body |-> out.body, end |-> "unsent"]
    BY <1>3, <2>1, <2>2
  <2> QED BY <2>3
<1>5. out.head = NoHead /\ state \in States /\ IdOK(resp, req.st)
  BY <1>1 DEF HeadsSent
<1>6. "id" \in DOMAIN resp.head => out'.head \in {NoHead, HeadAt(req.reg, resp.head.id)}
  BY <1>4, <1>5
<1>7. step' \notin Before \cup {"head"} /\ step' # "handle"
  BY <1>3 DEF Before
<1> QED BY <1>1, <1>5, <1>6, <1>7 DEF HeadsSent

(* Nothing later touches the head, and a new state leaves the request alone. *)
LEMMA HeadsKept ==
    ASSUME HeadsSent, state' \in States, resp' = resp, req' = req, out'.head = out.head,
           \/ step' = step
           \/ step' = "done"
    PROVE  HeadsSent'
  BY DEF HeadsSent, Before

LEMMA NextHeads == Shape /\ HeadsSent /\ [Next]_vars => HeadsSent'
<1> SUFFICES ASSUME Shape, HeadsSent, [Next]_vars PROVE HeadsSent'
  OBVIOUS
<1>1. Phases /\ state \in States
  BY DEF Shape, Phases, HeadsSent
<1>2. CASE SwapState
  <2>1. state' \in States /\ resp' = resp /\ req' = req /\ out' = out /\ step' = step
    BY <1>2 DEF SwapState
  <2> QED BY <2>1, HeadsKept
<1>3. CASE ReplaceRegistry
  <2>1. state' = state /\ resp' = resp /\ req' = req /\ out' = out /\ step' = step
    BY <1>3 DEF ReplaceRegistry
  <2> QED BY <1>1, <2>1, HeadsKept
<1>4. CASE Truncate \/ WriteBytes
  <2>1. state' = state /\ resp' = resp /\ req' = req /\ out' = out /\ step' = step
    BY <1>4 DEF Truncate, WriteBytes, server
  <2> QED BY <1>1, <2>1, HeadsKept
<1>5. CASE Fail
  <2>1. step = "handle" /\ Reply(ServerError) /\ out' = out /\ state' = state
    BY <1>5 DEF Fail, server
  <2> QED BY <2>1, HeadsReply
<1>6. CASE CopyChunk
  <2>1. /\ state' = state /\ resp' = resp /\ req' = req /\ step' = step /\ step = "copy"
    BY <1>6 DEF CopyChunk, Copying, server
  <2>2. PICK n \in 1..Min({ChunkSize, Wanted, Len(Here)}) :
          out' = [out EXCEPT !.body = @ \o SubSeq(Here, 1, n)]
    BY <1>6 DEF CopyChunk
  <2> DEFINE b == out.body \o SubSeq(Here, 1, n)
  <2>3. out' = [out EXCEPT !.body = b]
    BY <2>2
  <2>4. out = [head |-> out.head, body |-> out.body, end |-> out.end]
    BY <2>1, <1>1 DEF Phases, OutOK
  <2> HIDE DEF b
  <2>5. out' = [head |-> out.head, body |-> b, end |-> out.end]
    BY ONLY <2>3, <2>4, OutExcept
  <2>6. out'.head = out.head
    BY <2>5
  <2> QED BY <1>1, <2>1, <2>6, HeadsKept
<1>7. ASSUME NEW how, step = "copy", End(how) PROVE HeadsSent'
  <2>1. /\ state' = state /\ resp' = resp /\ req' = req /\ step' = "done"
        /\ out' = [out EXCEPT !.end = how]
    BY <1>7 DEF End, server
  <2>2. out = [head |-> out.head, body |-> out.body, end |-> out.end]
    BY <1>7, <1>1 DEF Phases, OutOK
  <2>3. out' = [head |-> out.head, body |-> out.body, end |-> how]
    BY ONLY <2>1, <2>2, OutExcept
  <2>4. out'.head = out.head
    BY <2>3
  <2> QED BY <1>1, <2>1, <2>4, HeadsKept
<1>8. CASE UNCHANGED vars
  <2>1. state' = state /\ resp' = resp /\ req' = req /\ out' = out /\ step' = step
    BY <1>8 DEF vars, server
  <2> QED BY <1>1, <2>1, HeadsKept
<1> QED BY <1>1, <1>2, <1>3, <1>4, <1>5, <1>6, <1>7, <1>8, HeadsRequest, HeadsOpen,
           HeadsServe, HeadsWriteHead DEF Next, CopyEnds, CopyFails, Copying

LEMMA SpecHeads == Spec => []HeadsSent
  BY SpecShape, InitHeads, NextHeads, PTL DEF Spec

(* A head sent from the registry of the request's own state is the one of    *)
(* the file's mime type, 206 for a range and 200 otherwise: however many     *)
(* mime types the state registers and wherever its file heads begin.         *)
THEOREM HeadCorrect == Spec => []HeadFits
<1>1. HeadsSent => HeadFits
  <2> SUFFICES ASSUME HeadsSent, "id" \in DOMAIN resp.head, out.head # NoHead, req.reg = req.st
               PROVE  out.head = [status |-> IF resp.stream = "copyN" THEN 206 ELSE 200,
                                  mime |-> Mime]
    BY DEF HeadFits
  <2> DEFINE st == appState(req.st)
             id == resp.head.id
             code == IF resp.stream = "copyN" THEN 206 ELSE 200
  <2>1. /\ req.st \in States /\ Mime \in DOMAIN st.fileHeads
        /\ id = IF resp.stream = "copyN" THEN st.fileHeads[Mime].head206
                ELSE st.fileHeads[Mime].head200
        /\ out.head = HeadAt(req.st, id)
    BY DEF HeadsSent, IdOK
  <2>2. HeadsOK(req.st, st)
    BY <2>1, StateHeadsOK
  <2> HIDE DEF st, id
  <2>3. Located(st.heads, id, code, Mime) /\ Len(st.heads) \in Nat
    BY <2>1, <2>2 DEF HeadsOK
  <2>4. HeadAt(req.st, id) = IF id < Len(st.heads) THEN st.heads[id + 1] ELSE NoHead
    BY DEF HeadAt, st
  <2>5. id < Len(st.heads) /\ st.heads[id + 1] = [status |-> code, mime |-> Mime]
    BY <2>3 DEF Located
  <2> QED BY <2>1, <2>4, <2>5
<1> QED BY <1>1, SpecHeads, PTL
=============================================================================
