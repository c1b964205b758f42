------------------------ MODULE BuildPipelineProofs ------------------------
(***************************************************************************)
(* The build's cache, manifest and URLs, for every tree, number of workers *)
(* and edit.  Each layer of the invariant rests on the ones before it:      *)
(* Shape on the jobs there are and who holds them, Versions on the ages of  *)
(* what they carry, Covered on the files the walk has passed, Located on the *)
(* aliases it has collected.                                               *)
(***************************************************************************)
EXTENDS BuildPipeline, FiniteSetTheorems, TLAPS

-----------------------------------------------------------------------------
(* What an item can hold.  A URL is computed from some alias map.            *)
Maps == UNION {[D -> Aliases] : D \in SUBSET Dir}
Urls == {<<>>} \cup UNION {{urlForRelPath(m, f) : f \in File} : m \in Maps}
Keys == {Key(f) : f \in File} \cup {WatchKey(f) : f \in File}
Items == [file : File, key : Keys, url : Urls, mtime : Nat \ {0}]
Trees == [File -> [ver : Nat, alias : Aliases]]
Builds == [force : BOOLEAN, target : SUBSET Dir, start : Trees \cup {NoFiles},
           edits : Nat, there : SUBSET File]
Holdings == [file : File, key : Keys, url : Urls, mtime : Nat \ {0}, read : Nat]

Queued == {workChan[i] : i \in DOMAIN workChan}
Holders == {w \in Worker : busy[w] # Idle}
Jobs == Queued \cup {busy[w] : w \in Holders}

(* Only a build and a watcher have jobs; a build's are under build keys, and *)
(* the counter Wait looks at counts exactly the jobs there are.              *)
Typed ==
    /\ edits \in Nat
    /\ src \in Trees /\ opts \in Builds
    /\ run \in {"idle", "walk", "compile", "save", "finished", "watch"}
    /\ at \in Nat \ {0}
    /\ aliasMap \in Maps
    /\ workChan \in Seq(Items)
    /\ busy \in [Worker -> Holdings \cup {Idle}]
    /\ notes \subseteq File /\ timers \subseteq File /\ events \in Seq(File)
JobsCounted == activeJobs = Len(workChan) + Cardinality(Holders)
JobsPlaced ==
    /\ run \notin {"walk", "watch"} => activeJobs = 0
    /\ run = "walk" => \A j \in Jobs : j.key = Key(j.file)
    /\ \A j \in Jobs : j.key \in {Key(j.file), WatchKey(j.file)}
Shape == Typed /\ JobsCounted /\ JobsPlaced

(* After n edits, v is a version that was seen of a file whose version is now *)
(* now: a version that replaced it is higher.                                *)
SeenIn(v, now, n) == v \in Nat \ {0} /\ v <= n + 1 /\ (now # 0 => v <= now)
EntryIn(e, now, n) == e.mtime \in Nat /\ e.mtime <= e.ver /\ SeenIn(e.ver, now, n)
CacheIn(c, s, n) == \A f \in File : Key(f) \in DOMAIN c => EntryIn(c[Key(f)], s[f].ver, n)
ReadIn(b, now, n) == b.read # 0 => b.mtime <= b.read /\ SeenIn(b.read, now, n)
(* An entry is never stamped later than the version it holds.                *)
Versions ==
    /\ \A f \in File : src[f].ver <= edits + 1
    /\ \A j \in Jobs : SeenIn(j.mtime, src[j.file].ver, edits)
    /\ \A w \in Holders : ReadIn(busy[w], src[busy[w].file].ver, edits)
    /\ CacheIn(mem, src, edits) /\ CacheIn(saved, src, edits)

(* A file that was there all along and in the target: the walk passed it, so *)
(* it failed, is in work or is in the cache, no older than at the start.     *)
Passed(f) == \E i \in 1..(at - 1) : i <= Len(Walk) /\ Walk[i].file = f
Has(c, f, v) == Key(f) \in DOMAIN c /\ c[Key(f)].ver \in Nat /\ c[Key(f)].ver >= v
InTree == {f \in opts.there : DirOf[f] \in opts.target}
InWork(f) == \E j \in Jobs : j.file = f
Started ==
    \A f \in opts.there :
        opts.start[f].ver \in Nat /\ src[f].ver # 0 /\ src[f].ver >= opts.start[f].ver
JobsRecent ==
    \A f \in opts.there : \A j \in Jobs : j.file = f => j.mtime >= opts.start[f].ver
WalkCovered ==
    run = "walk" =>
        \A f \in InTree : Passed(f) => f \in errors \/ InWork(f) \/ Has(mem, f, opts.start[f].ver)
ResultCovered ==
    /\ run = "compile" => \A f \in InTree : Has(mem, f, opts.start[f].ver)
    /\ run \in {"save", "finished"} => \A f \in InTree : Has(manifest, f, opts.start[f].ver)
Covered == Started /\ JobsRecent /\ WalkCovered /\ ResultCovered

(* A forced build of the whole tree since which nobody edited it: the alias  *)
(* map holds what the pages of the directories passed so far declare.        *)
Undisturbed == opts.force /\ opts.edits = edits /\ opts.target = Dir
EntryOf(i, d) == Walk[i].dir = d /\ Walk[i].file = ""
Collected(d) == \E i \in 1..(at - 1) : i <= Len(Walk) /\ EntryOf(i, d)
AliasesKnown ==
    /\ \A d \in DOMAIN aliasMap : Declared(d) /\ aliasMap[d] = src[PageOf[d]].alias
    /\ \A d \in Dir : Collected(d) /\ Declared(d) => d \in DOMAIN aliasMap
HasUrl(c, f, u) == Key(f) \in DOMAIN c /\ c[Key(f)].url = u
AllHaveUrls(c) == \A f \in File : src[f].ver # 0 => HasUrl(c, f, DeclaredUrl(f))
JobsLocated == \A j \in Jobs : j.url = DeclaredUrl(j.file)
FilesLocated ==
    \A f \in File : src[f].ver # 0 /\ Passed(f) => InWork(f) \/ HasUrl(mem, f, DeclaredUrl(f))
WalkLocated ==
    run = "walk" /\ Undisturbed /\ errors = {} => AliasesKnown /\ JobsLocated /\ FilesLocated
ResultLocated ==
    /\ run = "compile" /\ Undisturbed => AllHaveUrls(mem)
    /\ run \in {"save", "finished"} /\ Undisturbed => AllHaveUrls(manifest)
Located == opts.edits <= edits /\ WalkLocated /\ ResultLocated

-----------------------------------------------------------------------------
LEMMA KeysDiffer ==
    ASSUME NEW f, NEW g
    PROVE  (Key(f) = Key(g) => f = g) /\ Key(f) # WatchKey(g)
  BY DEF Key, WatchKey

LEMMA WalkSteps ==
    ASSUME NEW i \in 1..Len(Walk)
    PROVE  /\ Walk[i] \in Steps /\ Walk[i].dir \in Dir /\ PageOf[Walk[i].dir] \in File
           /\ Walk[i].file # "" => Walk[i].file \in File /\ DirOf[Walk[i].file] = Walk[i].dir
<1>1. Walk \in Seq(Steps)
  BY PipelineConstants DEF PipelineConstants
<1>2. Walk[i] \in Steps
  BY <1>1
<1>3. Walk[i].dir \in Dir /\ PageOf[Walk[i].dir] \in File
  BY <1>2, PipelineConstants DEF PipelineConstants
<1>4. ASSUME Walk[i].file # ""
      PROVE  Walk[i].file \in File /\ DirOf[Walk[i].file] = Walk[i].dir
  <2> DEFINE f == Walk[i].file
             s == CHOOSE t \in Steps : t.file = f
  <2>1. f \in File
    BY <1>2, <1>4 DEF File
  <2>2. s \in Steps /\ s.file = f
    BY <1>2
  <2>3. s = Walk[i]
    BY <2>2, <1>2, <1>4, PipelineConstants DEF PipelineConstants
  <2> QED BY <2>1, <2>3 DEF DirOf
<1> QED BY <1>2, <1>3, <1>4

LEMMA FilesWalked ==
    ASSUME NEW f \in File
    PROVE  \E i \in 1..Len(Walk) : Walk[i].file = f
<1>1. Walk \in Seq(Steps)
  BY PipelineConstants DEF PipelineConstants
<1>2. PICK s \in Steps : s.file = f
  BY DEF File
<1> QED BY <1>1, <1>2 DEF Steps

LEMMA NoFileUnnamed == "" \notin File
  BY DEF File

LEMMA IdleHoldsNothing == Idle \notin Holdings
  BY NoFileUnnamed DEF Idle, Holdings

LEMMA HoldersFinite == IsFiniteSet(Holders) /\ Holders \subseteq Worker
<1>1. IsFiniteSet(Worker)
  BY PipelineConstants DEF PipelineConstants
<1>2. Holders \subseteq Worker
  BY DEF Holders
<1> QED BY <1>1, <1>2, FS_Subset

(* What there is to do when the counter is zero: nothing.                    *)
LEMMA NothingLeft ==
    ASSUME Shape, activeJobs = 0
    PROVE  Jobs = {} /\ workChan = <<>> /\ Holders = {}
<1>1. Cardinality(Holders) \in Nat
  BY HoldersFinite, FS_CardinalityType
<1>2. workChan \in Seq(Items)
  BY DEF Shape, Typed
<1>3. Len(workChan) = 0 /\ Cardinality(Holders) = 0
  BY <1>1, <1>2 DEF Shape, JobsCounted
<1>4. Holders = {}
  BY <1>3, HoldersFinite, FS_EmptySet
<1>5. workChan = <<>>
  BY <1>2, <1>3
<1> QED BY <1>4, <1>5 DEF Jobs, Queued

-----------------------------------------------------------------------------
(* How each step of a job changes the jobs there are.                        *)
Same(i, j) == i.file = j.file /\ i.key = j.key /\ i.url = j.url /\ i.mtime = j.mtime

LEMMA JobTyped ==
    ASSUME Shape, NEW j \in Jobs
    PROVE  j.file \in File /\ j.key \in Keys /\ j.url \in Urls /\ j.mtime \in Nat \ {0}
<1>1. CASE j \in Queued
  <2>1. workChan \in Seq(Items)
    BY DEF Shape, Typed
  <2>2. j \in Items
    BY <1>1, <2>1 DEF Queued
  <2> QED BY <2>2 DEF Items
<1>2. CASE j \in {busy[w] : w \in Holders}
  BY <1>2 DEF Shape, Typed, Holders, Holdings
<1> QED BY <1>1, <1>2 DEF Jobs

LEMMA HolderTyped ==
    ASSUME Shape, NEW w \in Worker, busy[w] # Idle
    PROVE  /\ w \in Holders /\ busy[w] \in Jobs /\ busy[w] \in Holdings
           /\ busy[w].read \in Nat
<1>1. w \in Holders
  BY DEF Holders
<1>2. busy[w] \in Holdings
  BY DEF Shape, Typed
<1> QED BY <1>1, <1>2 DEF Jobs, Holdings

LEMMA SubmitJobs ==
    ASSUME Shape, NEW item \in Items, Submit(item), UNCHANGED busy
    PROVE  /\ Jobs' = Jobs \cup {item} /\ Holders' = Holders
           /\ workChan' \in Seq(Items)
           /\ activeJobs' = Len(workChan') + Cardinality(Holders')
<1>1. workChan \in Seq(Items) /\ workChan' = Append(workChan, item)
  BY DEF Shape, Typed, Submit
<1>2. Queued' = Queued \cup {item}
  BY <1>1 DEF Queued
<1>3. Holders' = Holders
  BY DEF Holders
<1>4. Jobs' = Jobs \cup {item}
  BY <1>2, <1>3 DEF Jobs
<1>5. Cardinality(Holders) \in Nat
  BY HoldersFinite, FS_CardinalityType
<1>6. activeJobs' = Len(workChan') + Cardinality(Holders')
  BY <1>1, <1>3, <1>5 DEF Shape, JobsCounted, Submit
<1> QED BY <1>1, <1>3, <1>4, <1>6

LEMMA TakeJobs ==
    ASSUME Shape, NEW w \in Worker, Take(w)
    PROVE  /\ \A j \in Jobs' : \E i \in Jobs : Same(i, j)
           /\ \A i \in Jobs : \E j \in Jobs' : Same(i, j)
           /\ Holders' = Holders \cup {w} /\ busy'[w].read = 0
           /\ \A v \in Holders : busy'[v] = busy[v] /\ v # w
           /\ workChan' \in Seq(Items) /\ busy' \in [Worker -> Holdings \cup {Idle}]
           /\ activeJobs' = Len(workChan') + Cardinality(Holders')
<1> DEFINE i == Head(workChan)
           h == Held(i, 0)
<1>1. workChan \in Seq(Items) /\ workChan # <<>> /\ busy[w] = Idle
  BY DEF Shape, Typed, Take
<1>2. i \in Items /\ workChan' = Tail(workChan) /\ workChan' \in Seq(Items)
      /\ Len(workChan) = Len(workChan') + 1 /\ Len(workChan') \in Nat
  BY <1>1 DEF Take
<1>3. h \in Holdings /\ Same(i, h) /\ h.read = 0
  BY <1>2 DEF Held, Items, Holdings, Same
<1>4. busy' = [busy EXCEPT ![w] = h] /\ busy \in [Worker -> Holdings \cup {Idle}]
  BY DEF Take, Shape, Typed
<1> HIDE DEF h
<1>5. busy' \in [Worker -> Holdings \cup {Idle}] /\ busy'[w] = h
      /\ \A v \in Worker : v # w => busy'[v] = busy[v]
  BY <1>3, <1>4
<1>6. h # Idle
  BY <1>3, IdleHoldsNothing
<1>7. Holders' = Holders \cup {w} /\ w \notin Holders
  BY <1>1, <1>5, <1>6 DEF Holders
<1>8. Queued = Queued' \cup {i}
  <2>1. /\ i = workChan[1] /\ 1 \in DOMAIN workChan
        /\ \A k \in DOMAIN workChan' : k + 1 \in DOMAIN workChan /\ workChan'[k] = workChan[k + 1]
        /\ \A k \in DOMAIN workChan : k # 1 => k - 1 \in DOMAIN workChan' /\ workChan[k] = workChan'[k - 1]
    <3> DEFINE n == Len(workChan)
               t == Tail(workChan)
    <3>1. n \in Nat \ {0} /\ DOMAIN workChan = 1..n /\ Head(workChan) = workChan[1]
      BY <1>1
    <3>2. DOMAIN t = 1..(n - 1) /\ \A k \in 1..(n - 1) : t[k] = workChan[k + 1]
      BY <1>1
    <3>3. workChan' = t
      BY <1>2
    <3> HIDE DEF n, t
    <3> QED BY <3>1, <3>2, <3>3
  <2>2. Queued' \subseteq Queued /\ i \in Queued
    BY <2>1 DEF Queued
  <2>3. \A k \in DOMAIN workChan : workChan[k] \in Queued' \cup {i}
    BY <2>1 DEF Queued
  <2> QED BY <2>2, <2>3 DEF Queued
<1>9. Jobs = Queued' \cup {i} \cup {busy[v] : v \in Holders}
      /\ Jobs' = Queued' \cup {h} \cup {busy[v] : v \in Holders}
  <2>1. {busy'[v] : v \in Holders'} = {h} \cup {busy[v] : v \in Holders}
    BY <1>5, <1>7 DEF Holders
  <2> QED BY <2>1, <1>8 DEF Jobs
<1>10. \A x : Same(x, x)
  BY DEF Same
<1>11. activeJobs' = Len(workChan') + Cardinality(Holders')
  <2>1. Cardinality(Holders) \in Nat /\ Cardinality(Holders') = Cardinality(Holders) + 1
    BY <1>7, HoldersFinite, FS_CardinalityType, FS_AddElement
  <2>2. activeJobs' = activeJobs
    BY DEF Take
  <2> QED BY <2>1, <2>2, <1>2 DEF Shape, JobsCounted
<1>12. \A v \in Holders : busy'[v] = busy[v] /\ v # w
  BY <1>5, <1>7 DEF Holders
<1>13. /\ \A j \in Jobs' : \E k \in Jobs : Same(k, j)
       /\ \A k \in Jobs : \E j \in Jobs' : Same(k, j)
  BY <1>3, <1>9, <1>10
<1> QED BY <1>2, <1>3, <1>5, <1>7, <1>11, <1>12, <1>13

LEMMA ReadJobs ==
    ASSUME Shape, NEW w \in Worker, ReadFile(w)
    PROVE  /\ \A j \in Jobs' : \E i \in Jobs : Same(i, j)
           /\ \A i \in Jobs : \E j \in Jobs' : Same(i, j)
           /\ Holders' = Holders /\ w \in Holders
           /\ Same(busy[w], busy'[w]) /\ busy'[w].read = src[busy[w].file].ver
           /\ \A v \in Holders : v # w => busy'[v] = busy[v]
           /\ workChan' \in Seq(Items) /\ busy' \in [Worker -> Holdings \cup {Idle}]
           /\ activeJobs' = Len(workChan') + Cardinality(Holders')
<1> DEFINE n == src[busy[w].file].ver
           h == [busy[w] EXCEPT !.read = n]
<1>1. w \in Holders /\ busy[w] \in Holdings /\ busy[w] # Idle
  BY HolderTyped DEF ReadFile
<1>2. busy[w].file \in File /\ src \in [File -> [ver : Nat, alias : Aliases]]
  BY <1>1 DEF Shape, Typed, Holdings, Trees
<1>3. n \in Nat
  BY <1>2
<1>4. busy' = [busy EXCEPT ![w] = h] /\ busy \in [Worker -> Holdings \cup {Idle}]
  BY DEF ReadFile, Shape, Typed
<1> HIDE DEF n
<1>5. h \in Holdings /\ Same(busy[w], h) /\ h.read = n
  BY <1>1, <1>3 DEF Holdings, Same
<1> HIDE DEF h
<1>6. busy' \in [Worker -> Holdings \cup {Idle}] /\ busy'[w] = h
      /\ \A v \in Worker : v # w => busy'[v] = busy[v]
  BY <1>4, <1>5
<1>7. h # Idle
  BY <1>5, IdleHoldsNothing
<1>8. Holders' = Holders
  BY <1>1, <1>6, <1>7 DEF Holders
<1>9. workChan' = workChan /\ workChan \in Seq(Items) /\ activeJobs' = activeJobs
  BY DEF ReadFile, Shape, Typed
<1>10. Queued' = Queued
  BY <1>9 DEF Queued
<1>11. \A x : Same(x, x)
  BY DEF Same
<1>12. \A j \in Jobs' : \E i \in Jobs : Same(i, j)
  <2>1. \A v \in Holders : Same(busy[v], busy'[v])
    BY <1>5, <1>6, <1>11 DEF Holders
  <2> QED BY <2>1, <1>8, <1>10, <1>11 DEF Jobs
<1>13. \A i \in Jobs : \E j \in Jobs' : Same(i, j)
  <2>1. \A v \in Holders : Same(busy[v], busy'[v])
    BY <1>5, <1>6, <1>11 DEF Holders
  <2> QED BY <2>1, <1>8, <1>10, <1>11 DEF Jobs
<1>14. activeJobs' = Len(workChan') + Cardinality(Holders')
  BY <1>8, <1>9 DEF Shape, JobsCounted
<1>15. \A v \in Holders : v # w => busy'[v] = busy[v]
  BY <1>6 DEF Holders
<1> QED BY <1>1, <1>5, <1>6, <1>8, <1>9, <1>12, <1>13, <1>14, <1>15 DEF n

LEMMA DoneJobs ==
    ASSUME Shape, NEW w \in Worker, busy[w] # Idle, Done(w), UNCHANGED workChan
    PROVE  /\ Jobs' \subseteq Jobs /\ Jobs \subseteq Jobs' \cup {busy[w]}
           /\ Holders' = Holders \ {w} /\ w \in Holders
           /\ \A v \in Holders' : busy'[v] = busy[v]
           /\ workChan' \in Seq(Items) /\ busy' \in [Worker -> Holdings \cup {Idle}]
           /\ activeJobs' = Len(workChan') + Cardinality(Holders')
<1>1. w \in Holders
  BY HolderTyped
<1>2. busy' = [busy EXCEPT ![w] = Idle] /\ busy \in [Worker -> Holdings \cup {Idle}]
      /\ activeJobs' = activeJobs - 1
  BY DEF Done, Shape, Typed
<1>3. busy' \in [Worker -> Holdings \cup {Idle}] /\ busy'[w] = Idle
      /\ \A v \in Worker : v # w => busy'[v] = busy[v]
  BY <1>2
<1>4. Holders' = Holders \ {w}
  BY <1>1, <1>3 DEF Holders
<1>5. \A v \in Holders' : busy'[v] = busy[v]
  BY <1>3, <1>4 DEF Holders
<1>6. Queued' = Queued
  BY DEF Queued
<1>7. Jobs' \subseteq Jobs /\ Jobs \subseteq Jobs' \cup {busy[w]}
  BY <1>4, <1>5, <1>6 DEF Jobs
<1>8. activeJobs' = Len(workChan') + Cardinality(Holders')
  <2>1. Cardinality(Holders) \in Nat /\ Cardinality(Holders') = Cardinality(Holders) - 1
    BY <1>1, <1>4, HoldersFinite, FS_CardinalityType, FS_RemoveElement
  <2>2. Len(workChan) \in Nat
    BY DEF Shape, Typed
  <2> QED BY <1>2, <2>1, <2>2 DEF Shape, JobsCounted
<1>9. workChan' \in Seq(Items)
  BY DEF Shape, Typed
<1> QED BY <1>1, <1>3, <1>4, <1>5, <1>7, <1>8, <1>9

(* A step that leaves workChan, busy and the counter alone.                  *)
LEMMA OtherJobs ==
    ASSUME Shape, UNCHANGED job
    PROVE  /\ Jobs' = Jobs /\ Holders' = Holders
           /\ workChan' \in Seq(Items) /\ busy' \in [Worker -> Holdings \cup {Idle}]
           /\ activeJobs' = Len(workChan') + Cardinality(Holders')
  BY DEF Shape, Typed, JobsCounted, Jobs, Queued, Holders, job

LEMMA ExitJobs ==
    ASSUME Exit
    PROVE  /\ Jobs' = {} /\ Holders' = {} /\ activeJobs' = 0
           /\ workChan' \in Seq(Items) /\ busy' \in [Worker -> Holdings \cup {Idle}]
           /\ activeJobs' = Len(workChan') + Cardinality(Holders')
<1>1. workChan' = <<>> /\ busy' = [w \in Worker |-> Idle] /\ activeJobs' = 0
  BY DEF Exit
<1>2. Holders' = {} /\ Queued' = {}
  BY <1>1 DEF Holders, Queued
<1> QED BY <1>1, <1>2, FS_EmptySet DEF Jobs

-----------------------------------------------------------------------------
LEMMA NoFilesMap == NoFiles \in Maps
<1>1. NoFiles \in [{} -> Aliases]
  BY DEF NoFiles
<1> QED BY <1>1 DEF Maps

LEMMA PutMap ==
    ASSUME NEW m \in Maps, NEW d \in Dir, NEW a \in Aliases
    PROVE  Put(m, d, a) \in Maps
<1>1. PICK D \in SUBSET Dir : m \in [D -> Aliases]
  BY DEF Maps
<1>2. Put(m, d, a) \in [{d} \cup D -> Aliases]
  BY <1>1 DEF Put
<1>3. {d} \cup D \in SUBSET Dir
  OBVIOUS
<1> QED BY <1>2, <1>3 DEF Maps

(* What an edit does to the tree and to the files there all along.           *)
LEMMA EditEffect ==
    ASSUME Shape, NEW f \in File, Edit(f)
    PROVE  /\ src' \in Trees /\ opts' \in Builds
           /\ \A g \in File : g # f => src'[g] = src[g]
           /\ \/ src'[f].ver = edits + 2 /\ opts' = opts
              \/ /\ src'[f].ver = 0 /\ opts'.there = opts.there \ {f}
                 /\ opts'.force = opts.force /\ opts'.target = opts.target
                 /\ opts'.start = opts.start /\ opts'.edits = opts.edits
<1>1. src \in [File -> [ver : Nat, alias : Aliases]] /\ edits \in Nat /\ opts \in Builds
  BY DEF Shape, Typed, Trees
<1>2. src[f] \in [ver : Nat, alias : Aliases]
  BY <1>1
<1>3. CASE \E a \in IF f = PageOf[DirOf[f]] THEN Aliases ELSE {NoAlias} :
             src' = [src EXCEPT ![f] = [ver |-> edits + 2, alias |-> a]] /\ UNCHANGED opts
  <2>1. NoAlias \in Aliases
    BY PipelineConstants DEF PipelineConstants
  <2>2. PICK a \in Aliases :
             src' = [src EXCEPT ![f] = [ver |-> edits + 2, alias |-> a]] /\ opts' = opts
    BY <1>3, <2>1
  <2> DEFINE r == [ver |-> edits + 2, alias |-> a]
  <2>3. r \in [ver : Nat, alias : Aliases] /\ r.ver = edits + 2
    BY <1>1
  <2> HIDE DEF r
  <2>4. src' = [src EXCEPT ![f] = r]
    BY <2>2 DEF r
  <2> QED BY <1>1, <2>2, <2>3, <2>4 DEF Trees
<1>4. CASE /\ src[f].ver # 0
           /\ src' = [src EXCEPT ![f].ver = 0]
           /\ opts' = [opts EXCEPT !.there = @ \ {f}]
  <2> DEFINE r == [src[f] EXCEPT !.ver = 0]
             s == opts.there \ {f}
  <2>1. r \in [ver : Nat, alias : Aliases] /\ r.ver = 0
    BY <1>2
  <2>2. src' = [src EXCEPT ![f] = r]
    BY <1>4
  <2>3. s \in SUBSET File
    BY <1>1 DEF Builds
  <2>4. opts' = [opts EXCEPT !.there = s]
    BY <1>4
  <2> HIDE DEF r, s
  <2>5. opts' \in Builds /\ opts'.there = s
        /\ opts'.force = opts.force /\ opts'.target = opts.target
        /\ opts'.start = opts.start /\ opts'.edits = opts.edits
    BY <1>1, <2>3, <2>4 DEF Builds
  <2> QED BY <1>1, <2>1, <2>2, <2>5 DEF Trees, s
<1> QED BY <1>3, <1>4 DEF Edit

LEMMA UrlTyped ==
    ASSUME NEW m \in Maps, NEW f \in File
    PROVE  urlForRelPath(m, f) \in Urls
  BY DEF Urls

LEMMA WalkPosition ==
    ASSUME Shape, Walking
    PROVE  at \in 1..Len(Walk) /\ Here = Walk[at] /\ Len(Walk) \in Nat
<1>1. Walk \in Seq(Steps)
  BY PipelineConstants DEF PipelineConstants
<1>2. at \in Nat \ {0} /\ at <= Len(Walk) /\ Len(Walk) \in Nat
  BY <1>1 DEF Walking, Shape, Typed
<1> QED BY <1>2 DEF Here

(* The two kinds of item: of the walk and of the watcher.                    *)
LEMMA WalkItem ==
    ASSUME Shape, NEW f \in File, src[f].ver # 0
    PROVE  [file |-> f, key |-> Key(f), url |-> urlForRelPath(aliasMap, f),
            mtime |-> src[f].ver] \in Items
<1>1. src[f].ver \in Nat \ {0}
  BY DEF Shape, Typed, Trees
<1>2. aliasMap \in Maps
  BY DEF Shape, Typed
<1>3. urlForRelPath(aliasMap, f) \in Urls
  BY <1>2, UrlTyped
<1>4. Key(f) \in Keys
  BY DEF Keys
<1> QED BY <1>1, <1>3, <1>4 DEF Items

LEMMA WatchItem ==
    ASSUME Shape, NEW f \in File, src[f].ver # 0
    PROVE  [file |-> f, key |-> WatchKey(f), url |-> <<>>, mtime |-> src[f].ver] \in Items
<1>1. src[f].ver \in Nat \ {0}
  BY DEF Shape, Typed, Trees
<1>2. <<>> \in Urls /\ WatchKey(f) \in Keys
  BY DEF Urls, Keys
<1> QED BY <1>1, <1>2 DEF Items

-----------------------------------------------------------------------------
LEMMA InitShape == Init => Shape
<1> SUFFICES ASSUME Init PROVE Shape
  OBVIOUS
<1>1. FirstAlias \in [File -> Aliases]
  BY PipelineConstants DEF PipelineConstants
<1>2. src \in Trees
  BY <1>1 DEF Init, Trees
<1>3. NoBuild \in Builds
  BY DEF NoBuild, Builds
<1>4. Typed
  BY <1>2, <1>3, NoFilesMap DEF Init, Typed
<1>5. Holders = {} /\ Queued = {} /\ activeJobs = 0 /\ Len(workChan) = 0
  BY DEF Init, Holders, Queued
<1>6. JobsCounted
  BY <1>5, FS_EmptySet DEF JobsCounted
<1> QED BY <1>4, <1>5, <1>6 DEF Shape, JobsPlaced, Jobs

LEMMA BeginShape ==
    ASSUME Shape, NEW kind \in {"walk", "watch"}, Begin(kind)
    PROVE  Shape' /\ Jobs' = {} /\ Holders' = {}
<1>1. activeJobs = 0
  BY DEF Begin, Shape, JobsPlaced
<1>2. UNCHANGED job
  BY DEF Begin
<1>3. Jobs' = {} /\ Holders' = {}
  BY <1>1, <1>2, NothingLeft, OtherJobs
<1>4. opts' \in Builds
  <2>1. PICK force \in BOOLEAN, target \in {Dir} \cup {Below(d) : d \in Dir} :
          opts' = [force |-> force, target |-> target, start |-> src, edits |-> edits,
                   there |-> {f \in File : src[f].ver # 0}]
    BY DEF Begin
  <2>2. target \in SUBSET Dir
    BY DEF Below
  <2>3. src \in Trees /\ edits \in Nat
    BY DEF Shape, Typed
  <2> QED BY <2>1, <2>2, <2>3 DEF Builds
<1>5. Typed'
  BY <1>2, <1>4, OtherJobs, NoFilesMap DEF Begin, Shape, Typed, tree, watch
<1>6. JobsCounted'
  BY <1>2, OtherJobs DEF JobsCounted
<1>7. JobsPlaced'
  BY <1>3, <1>1, <1>2 DEF JobsPlaced, Begin
<1> QED BY <1>3, <1>5, <1>6, <1>7 DEF Shape

LEMMA ExitShape ==
    ASSUME Shape, Exit, UNCHANGED tree
    PROVE  Shape' /\ Jobs' = {} /\ Holders' = {}
<1>1. NoBuild \in Builds
  BY DEF NoBuild, Builds
<1>2. Typed'
  BY <1>1, ExitJobs, NoFilesMap DEF Exit, Shape, Typed, tree
<1>3. JobsCounted' /\ JobsPlaced'
  BY ExitJobs DEF JobsCounted, JobsPlaced, Exit
<1> QED BY <1>2, <1>3, ExitJobs DEF Shape

LEMMA SubmitShape ==
    ASSUME Shape, NEW item \in Items, Submit(item), UNCHANGED <<busy, run>>,
           \/ run = "walk" /\ item.key = Key(item.file)
           \/ run = "watch" /\ item.key = WatchKey(item.file)
    PROVE  JobsCounted' /\ JobsPlaced' /\ Jobs' = Jobs \cup {item} /\ Holders' = Holders
<1>1. Jobs' = Jobs \cup {item} /\ Holders' = Holders /\ JobsCounted'
  BY SubmitJobs DEF JobsCounted
<1> QED BY <1>1 DEF Shape, JobsPlaced

LEMMA NextShape == Shape /\ [Next]_vars => Shape'
<1> SUFFICES ASSUME Shape, [Next]_vars PROVE Shape'
  OBVIOUS
<1>1. ASSUME NEW f \in File, Edit(f)
      PROVE  Shape'
  <2>1. /\ UNCHANGED <<job, run, at, aliasMap, timers, events>> /\ edits' = edits + 1
        /\ notes' \in {notes, notes \cup {f}}
    BY <1>1 DEF Edit
  <2>2. src' \in Trees /\ opts' \in Builds
    BY <1>1, EditEffect
  <2>3. Typed'
    BY <2>1, <2>2, OtherJobs DEF Shape, Typed
  <2>4. JobsCounted' /\ JobsPlaced'
    BY <2>1, OtherJobs DEF Shape, JobsCounted, JobsPlaced, job
  <2> QED BY <2>3, <2>4 DEF Shape
<1>2. ASSUME Begin("walk") \/ Begin("watch")
      PROVE  Shape'
  BY <1>2, BeginShape
<1>3. ASSUME OutOfTarget
      PROVE  Shape'
  <2>1. Typed'
    BY <1>3, OtherJobs DEF OutOfTarget, Shape, Typed, tree, watch
  <2>2. JobsCounted' /\ JobsPlaced'
    BY <1>3, OtherJobs DEF OutOfTarget, Shape, JobsCounted, JobsPlaced, job
  <2> QED BY <2>1, <2>2 DEF Shape
<1>4. ASSUME processAlias
      PROVE  Shape'
  <2>1. aliasMap' \in Maps
    <3>1. Here.dir \in Dir /\ PageOf[Here.dir] \in File
      BY <1>4, WalkPosition, WalkSteps DEF processAlias
    <3>2. aliasMap \in Maps /\ src[PageOf[Here.dir]].alias \in Aliases
      BY <3>1 DEF Shape, Typed, Trees
    <3>3. Put(aliasMap, Here.dir, src[PageOf[Here.dir]].alias) \in Maps
      BY <3>1, <3>2, PutMap
    <3> QED BY <1>4, <3>2, <3>3 DEF processAlias
  <2>2. at' = at + 1 /\ UNCHANGED <<tree, run, opts, job, watch>>
    BY <1>4 DEF processAlias
  <2>3. Typed'
    BY <2>1, <2>2, OtherJobs DEF Shape, Typed, tree, watch
  <2>4. JobsCounted' /\ JobsPlaced'
    BY <2>2, OtherJobs DEF Shape, JobsCounted, JobsPlaced, job
  <2> QED BY <2>3, <2>4 DEF Shape
<1>5. ASSUME processDirectory
      PROVE  Shape'
  <2> DEFINE f == Here.file
             item == [file |-> f, key |-> Key(f), url |-> urlForRelPath(aliasMap, f),
                      mtime |-> src[f].ver]
  <2>1. f \in File
    BY <1>5, WalkPosition, WalkSteps DEF processDirectory
  <2>2. /\ at' = at + 1 /\ run = "walk"
        /\ UNCHANGED <<tree, run, opts, aliasMap, busy, errors, mem, disk, watch, runs>>
    BY <1>5 DEF processDirectory, Walking
  <2>3. CASE src[f].ver # 0 /\ Submit(item)
    <3>1. item \in Items /\ item.key = Key(item.file)
      BY <2>1, <2>3, WalkItem
    <3> HIDE DEF item
    <3>2. JobsCounted' /\ JobsPlaced' /\ workChan' \in Seq(Items)
      BY <3>1, <2>2, <2>3, SubmitShape, SubmitJobs
    <3>3. Typed'
      BY <2>2, <3>2 DEF Shape, Typed, tree, watch
    <3> QED BY <3>2, <3>3 DEF Shape
  <2>4. CASE UNCHANGED <<workChan, activeJobs>>
    <3>1. UNCHANGED job
      BY <2>2, <2>4 DEF job
    <3>2. Typed'
      BY <2>2, <3>1, OtherJobs DEF Shape, Typed, tree, watch
    <3>3. JobsCounted' /\ JobsPlaced'
      BY <2>2, <3>1, OtherJobs DEF Shape, JobsCounted, JobsPlaced, job
    <3> QED BY <3>2, <3>3 DEF Shape
  <2> QED BY <1>5, <2>3, <2>4 DEF processDirectory
<1>6. ASSUME Wait
      PROVE  Shape'
  <2>1. CASE Exit
    BY <1>6, <2>1, ExitShape DEF Wait
  <2>2. CASE run' = "compile" /\ UNCHANGED <<opts, at, aliasMap, job, errors, mem, watch>>
    <3>1. UNCHANGED tree /\ activeJobs = 0
      BY <1>6 DEF Wait
    <3>2. Typed'
      BY <2>2, <3>1, OtherJobs DEF Shape, Typed, tree, watch
    <3>3. JobsCounted'
      BY <2>2, OtherJobs DEF JobsCounted
    <3>4. JobsPlaced'
      BY <2>2, <3>1, NothingLeft, OtherJobs DEF JobsPlaced, job
    <3> QED BY <3>2, <3>3, <3>4 DEF Shape
  <2> QED BY <1>6, <2>1, <2>2 DEF Wait, Errors
<1>7. ASSUME buildRouterBinary
      PROVE  Shape'
  <2>1. CASE Exit
    BY <1>7, <2>1, ExitShape DEF buildRouterBinary
  <2>2. CASE run' = "save" /\ UNCHANGED <<opts, at, aliasMap, job, errors, mem, watch>>
    <3>1. UNCHANGED tree /\ run = "compile"
      BY <1>7 DEF buildRouterBinary
    <3>2. Typed'
      BY <2>2, <3>1, OtherJobs DEF Shape, Typed, tree, watch
    <3>3. JobsCounted' /\ JobsPlaced'
      BY <2>2, <3>1, OtherJobs DEF Shape, JobsCounted, JobsPlaced, job
    <3> QED BY <3>2, <3>3 DEF Shape
  <2> QED BY <1>7, <2>1, <2>2 DEF buildRouterBinary
<1>8. ASSUME saveAllCaches
      PROVE  Shape'
  <2>1. Typed'
    BY <1>8, OtherJobs DEF saveAllCaches, Shape, Typed, tree, watch
  <2>2. JobsCounted' /\ JobsPlaced'
    BY <1>8, OtherJobs DEF saveAllCaches, Shape, JobsCounted, JobsPlaced, job
  <2> QED BY <2>1, <2>2 DEF Shape
<1>9. ASSUME Die
      PROVE  Shape'
  BY <1>9, ExitShape DEF Die
<1>10. ASSUME NEW w \in Worker, Take(w)
       PROVE  Shape'
  <2>1. Typed'
    BY <1>10, TakeJobs DEF Take, Shape, Typed, tree
  <2>2. JobsCounted'
    BY <1>10, TakeJobs DEF JobsCounted
  <2>3. run' = run /\ activeJobs' = activeJobs
    BY <1>10 DEF Take
  <2>4. \A j \in Jobs' : \E i \in Jobs : i.key = j.key /\ i.file = j.file
    BY <1>10, TakeJobs DEF Same
  <2>5. JobsPlaced'
    BY <2>3, <2>4 DEF Shape, JobsPlaced
  <2> QED BY <2>1, <2>2, <2>5 DEF Shape
<1>11. ASSUME NEW w \in Worker, ReadFile(w)
       PROVE  Shape'
  <2>1. UNCHANGED <<tree, run, opts, at, aliasMap, activeJobs, watch>>
    BY <1>11 DEF ReadFile
  <2>2. Typed'
    BY <1>11, <2>1, ReadJobs DEF Shape, Typed, tree, watch
  <2>3. JobsCounted'
    BY <1>11, ReadJobs DEF JobsCounted
  <2>4. JobsPlaced'
    BY <1>11, <2>1, ReadJobs DEF Shape, JobsPlaced, Same
  <2> QED BY <2>2, <2>3, <2>4 DEF Shape
<1>12. ASSUME NEW w \in Worker, Store(w) \/ FailJob(w)
       PROVE  Shape'
  <2>1. UNCHANGED <<tree, run, opts, at, aliasMap, watch, workChan>> /\ Done(w) /\ busy[w] # Idle
    BY <1>12 DEF Store, FailJob
  <2>2. Typed'
    BY <2>1, DoneJobs DEF Shape, Typed, tree, watch
  <2>3. JobsCounted'
    BY <2>1, DoneJobs DEF JobsCounted
  <2>4. run \in {"walk", "watch"}
    BY <2>1, HolderTyped, NothingLeft DEF Shape, JobsPlaced
  <2>5. JobsPlaced'
    BY <2>1, <2>4, DoneJobs DEF Shape, JobsPlaced
  <2> QED BY <2>2, <2>3, <2>5 DEF Shape
<1>13. ASSUME processChange
       PROVE  Shape'
  <2> DEFINE f == Head(events)
             item == [file |-> f, key |-> WatchKey(f), url |-> <<>>, mtime |-> src[f].ver]
  <2>1. events \in Seq(File) /\ events # <<>>
    BY <1>13 DEF Shape, Typed, processChange
  <2>2. f \in File /\ Tail(events) \in Seq(File)
    BY <2>1
  <2>3. /\ events' = Tail(events) /\ run = "watch"
        /\ UNCHANGED <<tree, run, opts, at, aliasMap, busy, notes, timers>>
    BY <1>13 DEF processChange
  <2>4. CASE src[f].ver # 0 /\ Submit(item)
    <3>1. item \in Items /\ item.key = WatchKey(item.file)
      BY <2>2, <2>4, WatchItem
    <3> HIDE DEF item
    <3>2. JobsCounted' /\ JobsPlaced' /\ workChan' \in Seq(Items)
      BY <3>1, <2>3, <2>4, SubmitShape, SubmitJobs
    <3>3. Typed'
      BY <2>2, <2>3, <3>2 DEF Shape, Typed, tree
    <3> QED BY <3>2, <3>3 DEF Shape
  <2>5. CASE UNCHANGED <<workChan, activeJobs>>
    <3>1. UNCHANGED job
      BY <2>3, <2>5 DEF job
    <3>2. Typed'
      BY <2>2, <2>3, <3>1, OtherJobs DEF Shape, Typed, tree
    <3>3. JobsCounted' /\ JobsPlaced'
      BY <2>3, <3>1, OtherJobs DEF Shape, JobsCounted, JobsPlaced, job
    <3> QED BY <3>2, <3>3 DEF Shape
  <2> QED BY <1>13, <2>4, <2>5 DEF processChange
<1>14. ASSUME NEW f \in File, debounceEvent(f) \/ Fire(f)
       PROVE  Shape'
  <2>1. UNCHANGED <<tree, run, opts, at, aliasMap, job>>
    BY <1>14 DEF debounceEvent, Fire
  <2>2. notes' \subseteq File /\ timers' \subseteq File /\ events' \in Seq(File)
    <3>1. notes \subseteq File /\ timers \subseteq File /\ events \in Seq(File)
      BY DEF Shape, Typed
    <3> QED BY <1>14, <3>1 DEF debounceEvent, Fire
  <2>3. Typed'
    BY <2>1, <2>2, OtherJobs DEF Shape, Typed, tree
  <2>4. JobsCounted' /\ JobsPlaced'
    BY <2>1, OtherJobs DEF Shape, JobsCounted, JobsPlaced, job
  <2> QED BY <2>3, <2>4 DEF Shape
<1>15. CASE UNCHANGED vars
  <2>1. UNCHANGED <<tree, run, opts, at, aliasMap, job, watch>>
    BY <1>15 DEF vars
  <2>2. Typed'
    BY <2>1, OtherJobs DEF Shape, Typed, tree, watch
  <2>3. JobsCounted' /\ JobsPlaced'
    BY <2>1, OtherJobs DEF Shape, JobsCounted, JobsPlaced, job
  <2> QED BY <2>2, <2>3 DEF Shape
<1> QED BY <1>1, <1>2, <1>3, <1>4, <1>5, <1>6, <1>7, <1>8, <1>9, <1>10, <1>11, <1>12,
           <1>13, <1>14, <1>15 DEF Next, Main, Watcher, Work

-----------------------------------------------------------------------------
(* How the version of a file and the number of edits move in a step.         *)
Moves(now, n, next, m) ==
    /\ now \in Nat /\ n \in Nat /\ now <= n + 1
    /\ \/ next = now /\ m \in {n, n + 1}
       \/ next = 0 /\ m = n + 1
       \/ next = n + 2 /\ m = n + 1

LEMMA SeenMoves ==
    ASSUME NEW v, NEW now, NEW n, NEW next, NEW m, SeenIn(v, now, n), Moves(now, n, next, m)
    PROVE  SeenIn(v, next, m)
  BY DEF SeenIn, Moves

LEMMA CacheMoves ==
    ASSUME NEW c, NEW s, NEW n, NEW t, NEW m, CacheIn(c, s, n),
           \A f \in File : Moves(s[f].ver, n, t[f].ver, m)
    PROVE  CacheIn(c, t, m)
  BY SeenMoves DEF CacheIn, EntryIn

LEMMA PutCache ==
    ASSUME NEW c, NEW s, NEW n, CacheIn(c, s, n), NEW k, NEW e,
           \A f \in File : k = Key(f) => EntryIn(e, s[f].ver, n)
    PROVE  CacheIn(Put(c, k, e), s, n)
<1> DEFINE d == Put(c, k, e)
<1>1. DOMAIN d = {k} \cup DOMAIN c /\ d[k] = e /\ \A x \in DOMAIN c : x # k => d[x] = c[x]
  BY DEF Put
<1> HIDE DEF d
<1>2. CacheIn(d, s, n)
  BY <1>1 DEF CacheIn
<1> QED BY <1>2 DEF d

LEMMA TreeMoves ==
    ASSUME Shape, Versions, [Next]_vars
    PROVE  \A f \in File : Moves(src[f].ver, edits, src'[f].ver, edits')
<1>1. edits \in Nat /\ \A f \in File : src[f].ver \in Nat /\ src[f].ver <= edits + 1
  BY DEF Shape, Typed, Trees, Versions
<1>2. ASSUME NEW g \in File, Edit(g)
      PROVE  \A f \in File : Moves(src[f].ver, edits, src'[f].ver, edits')
  <2>1. edits' = edits + 1
    BY <1>2 DEF Edit
  <2>2. \A f \in File : src'[f] = src[f] \/ src'[f].ver = 0 \/ src'[f].ver = edits + 2
    BY <1>2, EditEffect
  <2> QED BY <1>1, <2>1, <2>2 DEF Moves
<1>3. ASSUME UNCHANGED tree
      PROVE  \A f \in File : Moves(src[f].ver, edits, src'[f].ver, edits')
  BY <1>1, <1>3 DEF Moves, tree
<1>4. (\E g \in File : Edit(g)) \/ UNCHANGED tree
  <2>1. ASSUME Main PROVE UNCHANGED tree
    <3>1. OutOfTarget \/ processAlias \/ processDirectory => UNCHANGED tree
      BY DEF OutOfTarget, processAlias, processDirectory
    <3>2. Wait \/ buildRouterBinary \/ saveAllCaches => UNCHANGED tree
      BY DEF Wait, buildRouterBinary, saveAllCaches
    <3> QED BY <2>1, <3>1, <3>2 DEF Main
  <2>2. ASSUME NEW w \in Worker, Work(w) PROVE UNCHANGED tree
    BY <2>2 DEF Work, Take, ReadFile, Store, FailJob
  <2>3. ASSUME Watcher PROVE UNCHANGED tree
    BY <2>3 DEF Watcher, processChange, debounceEvent, Fire
  <2>4. ASSUME Begin("walk") \/ Begin("watch") \/ Die \/ UNCHANGED vars PROVE UNCHANGED tree
    BY <2>4 DEF Begin, Die, vars
  <2> QED BY <2>1, <2>2, <2>3, <2>4 DEF Next
<1> QED BY <1>2, <1>3, <1>4

(* A version of the tree at this moment has been seen.                       *)
LEMMA PresentSeen ==
    ASSUME Shape, Versions, NEW f \in File, src[f].ver # 0
    PROVE  SeenIn(src[f].ver, src[f].ver, edits)
  BY DEF Shape, Typed, Trees, Versions, SeenIn

(* Versions after a step, from what the step does to the jobs.               *)
JobsSeen(J, s, n) == \A j \in J : SeenIn(j.mtime, s[j.file].ver, n)
ReadsSeen(W, b, s, n) == \A w \in W : ReadIn(b[w], s[b[w].file].ver, n)

LEMMA VersionsByParts ==
    Versions <=> /\ \A f \in File : src[f].ver <= edits + 1
                 /\ JobsSeen(Jobs, src, edits)
                 /\ ReadsSeen(Holders, busy, src, edits)
                 /\ CacheIn(mem, src, edits) /\ CacheIn(saved, src, edits)
  BY DEF Versions, JobsSeen, ReadsSeen

LEMMA JobsSeenMove ==
    ASSUME NEW J, NEW K, NEW s, NEW n, NEW t, NEW m, JobsSeen(J, s, n),
           \A f \in File : Moves(s[f].ver, n, t[f].ver, m),
           \A j \in K : j.file \in File /\ \E i \in J : Same(i, j)
    PROVE  JobsSeen(K, t, m)
<1> SUFFICES ASSUME NEW j \in K PROVE SeenIn(j.mtime, t[j.file].ver, m)
  BY DEF JobsSeen
<1>1. PICK i \in J : Same(i, j)
  OBVIOUS
<1>2. SeenIn(j.mtime, s[j.file].ver, n)
  BY <1>1 DEF JobsSeen, Same
<1> QED BY <1>2, SeenMoves

LEMMA ReadsSeenMove ==
    ASSUME NEW W, NEW V, NEW b, NEW c, NEW s, NEW n, NEW t, NEW m, ReadsSeen(W, b, s, n),
           \A f \in File : Moves(s[f].ver, n, t[f].ver, m),
           \A w \in V : w \in W /\ c[w] = b[w] /\ b[w].file \in File
    PROVE  ReadsSeen(V, c, t, m)
  BY SeenMoves DEF ReadsSeen, ReadIn

LEMMA NextVersionsByParts ==
    ASSUME Shape, Versions, [Next]_vars,
           \A j \in Jobs' : \/ \E i \in Jobs : Same(i, j)
                            \/ SeenIn(j.mtime, src'[j.file].ver, edits'),
           \A w \in Holders' : \/ w \in Holders /\ busy'[w] = busy[w]
                               \/ ReadIn(busy'[w], src'[busy'[w].file].ver, edits'),
           mem' \in {mem, saved} \/ CacheIn(mem', src', edits'),
           saved' \in {mem, saved} \/ CacheIn(saved', src', edits')
    PROVE  Versions'
<1>1. \A f \in File : Moves(src[f].ver, edits, src'[f].ver, edits')
  BY TreeMoves
<1>2. \A f \in File : src'[f].ver <= edits' + 1
  BY <1>1 DEF Moves
<1>3. ASSUME NEW j \in Jobs'
      PROVE  SeenIn(j.mtime, src'[j.file].ver, edits')
  <2>1. ASSUME NEW i \in Jobs, Same(i, j)
        PROVE  SeenIn(j.mtime, src'[j.file].ver, edits')
    <3>1. i.file \in File /\ i.file = j.file /\ i.mtime = j.mtime
      BY <2>1, JobTyped DEF Same
    <3>2. SeenIn(i.mtime, src[i.file].ver, edits)
      BY DEF Versions
    <3> QED BY <1>1, <3>1, <3>2, SeenMoves
  <2> QED BY <2>1
<1>4. ASSUME NEW w \in Holders'
      PROVE  ReadIn(busy'[w], src'[busy'[w].file].ver, edits')
  <2>1. CASE w \in Holders /\ busy'[w] = busy[w]
    <3>1. busy[w].file \in File
      BY <2>1, HolderTyped, JobTyped DEF Holders
    <3>2. ReadIn(busy[w], src[busy[w].file].ver, edits)
      BY <2>1 DEF Versions
    <3> QED BY <1>1, <2>1, <3>1, <3>2, SeenMoves DEF ReadIn
  <2> QED BY <2>1
<1>5. CacheIn(mem, src', edits') /\ CacheIn(saved, src', edits')
  BY <1>1, CacheMoves DEF Versions
<1>6. CacheIn(mem', src', edits') /\ CacheIn(saved', src', edits')
  BY <1>5
<1> QED BY <1>2, <1>3, <1>4, <1>6 DEF Versions

LEMMA NextVersions == Shape /\ Versions /\ [Next]_vars => Versions'
<1> SUFFICES ASSUME Shape, Versions, [Next]_vars PROVE Versions'
  OBVIOUS
<1>0. \A x : Same(x, x)
  BY DEF Same
<1>1. ASSUME UNCHANGED job, mem' \in {mem, saved}, saved' \in {mem, saved}
      PROVE  Versions'
  <2>1. Jobs' = Jobs /\ Holders' = Holders /\ busy' = busy
    BY <1>1, OtherJobs DEF job
  <2> QED BY <1>0, <1>1, <2>1, NextVersionsByParts
<1>2. ASSUME Exit, UNCHANGED saved
      PROVE  Versions'
  <2>1. mem' = NoFiles
    BY <1>2 DEF Exit
  <2>2. CacheIn(mem', src', edits')
    BY <2>1 DEF CacheIn, NoFiles
  <2> QED BY <1>2, <2>2, ExitJobs, NextVersionsByParts
<1>3. ASSUME NEW item \in Items, item.mtime = src[item.file].ver, Submit(item),
             UNCHANGED <<tree, busy, mem, saved>>
      PROVE  Versions'
  <2>1. Jobs' = Jobs \cup {item} /\ Holders' = Holders
    BY <1>3, SubmitJobs
  <2>2. item.file \in File /\ src[item.file].ver # 0
    BY <1>3 DEF Items
  <2>3. SeenIn(item.mtime, src'[item.file].ver, edits')
    BY <1>3, <2>2, PresentSeen DEF tree
  <2> QED BY <1>0, <1>3, <2>1, <2>3, NextVersionsByParts
<1>4. ASSUME processDirectory
      PROVE  Versions'
  <2> DEFINE f == Here.file
             item == [file |-> f, key |-> Key(f), url |-> urlForRelPath(aliasMap, f),
                      mtime |-> src[f].ver]
  <2>1. f \in File
    BY <1>4, WalkPosition, WalkSteps DEF processDirectory
  <2>2. UNCHANGED <<tree, busy, mem, saved>>
    BY <1>4 DEF processDirectory, disk
  <2>3. CASE src[f].ver # 0 /\ Submit(item)
    <3>1. item \in Items /\ item.mtime = src[item.file].ver
      BY <2>1, <2>3, WalkItem
    <3> HIDE DEF item
    <3> QED BY <1>3, <2>2, <2>3, <3>1
  <2>4. CASE UNCHANGED <<workChan, activeJobs>>
    BY <1>1, <2>2, <2>4 DEF job
  <2> QED BY <1>4, <2>3, <2>4 DEF processDirectory
<1>5. ASSUME processChange
      PROVE  Versions'
  <2> DEFINE f == Head(events)
             item == [file |-> f, key |-> WatchKey(f), url |-> <<>>, mtime |-> src[f].ver]
  <2>1. events \in Seq(File) /\ events # <<>>
    BY <1>5 DEF Shape, Typed, processChange
  <2>2. f \in File
    BY <2>1
  <2>3. UNCHANGED <<tree, busy, mem, saved>>
    BY <1>5 DEF processChange, disk
  <2>4. CASE src[f].ver # 0 /\ Submit(item)
    <3>1. item \in Items /\ item.mtime = src[item.file].ver
      BY <2>2, <2>4, WatchItem
    <3> HIDE DEF item
    <3> QED BY <1>3, <2>3, <2>4, <3>1
  <2>5. CASE UNCHANGED <<workChan, activeJobs>>
    BY <1>1, <2>3, <2>5 DEF job
  <2> QED BY <1>5, <2>4, <2>5 DEF processChange
<1>6. ASSUME NEW w \in Worker, Take(w)
      PROVE  Versions'
  <2>1. UNCHANGED <<mem, saved>>
    BY <1>6 DEF Take, disk
  <2>2. ReadIn(busy'[w], src'[busy'[w].file].ver, edits')
    BY <1>6, TakeJobs DEF ReadIn
  <2> QED BY <1>6, <2>1, <2>2, TakeJobs, NextVersionsByParts
<1>7. ASSUME NEW w \in Worker, ReadFile(w)
      PROVE  Versions'
  <2> DEFINE f == busy[w].file
  <2>1. UNCHANGED <<tree, mem, saved>> /\ busy[w] # Idle /\ src[f].ver # 0
    BY <1>7 DEF ReadFile, disk
  <2>2. busy[w] \in Jobs /\ f \in File
    BY <2>1, HolderTyped, JobTyped
  <2>3. busy'[w].file = f /\ busy'[w].mtime = busy[w].mtime /\ busy'[w].read = src[f].ver
    BY <1>7, ReadJobs DEF Same
  <2>4. busy[w].mtime <= src[f].ver
    BY <2>1, <2>2 DEF Versions, SeenIn
  <2>5. SeenIn(src[f].ver, src[f].ver, edits)
    BY <2>1, <2>2, PresentSeen
  <2>6. ReadIn(busy'[w], src'[busy'[w].file].ver, edits')
    BY <2>1, <2>3, <2>4, <2>5 DEF ReadIn, tree
  <2> QED BY <1>7, <2>1, <2>6, ReadJobs, NextVersionsByParts
<1>8. ASSUME NEW w \in Worker, Store(w) \/ FailJob(w)
      PROVE  Versions'
  <2> DEFINE f == busy[w].file
             e == [ver |-> busy[w].read, mtime |-> busy[w].mtime, url |-> busy[w].url]
  <2>1. UNCHANGED <<tree, saved, workChan>> /\ Done(w) /\ busy[w] # Idle
    BY <1>8 DEF Store, FailJob, disk
  <2>2. /\ Jobs' \subseteq Jobs /\ Holders' \subseteq Holders
        /\ \A v \in Holders' : busy'[v] = busy[v]
    BY <2>1, DoneJobs
  <2>3. ASSUME Store(w)
        PROVE  CacheIn(mem', src', edits')
    <3>1. mem' = Put(mem, busy[w].key, e) /\ busy[w].read # 0
      BY <2>3 DEF Store
    <3>2. w \in Holders /\ busy[w] \in Jobs
      BY <2>1, HolderTyped
    <3>3. EntryIn(e, src[f].ver, edits)
      BY <3>1, <3>2, JobTyped DEF Versions, ReadIn, EntryIn
    <3>4. \A g \in File : busy[w].key = Key(g) => g = f
      BY <3>2, KeysDiffer DEF Shape, JobsPlaced
    <3> HIDE DEF e, f
    <3>5. CacheIn(Put(mem, busy[w].key, e), src, edits)
      BY <3>3, <3>4, PutCache DEF Versions
    <3> QED BY <2>1, <3>1, <3>5 DEF tree
  <2>4. FailJob(w) => mem' = mem
    BY DEF FailJob
  <2>5. mem' \in {mem, saved} \/ CacheIn(mem', src', edits')
    BY <1>8, <2>3, <2>4
  <2> QED BY <1>0, <2>1, <2>2, <2>5, NextVersionsByParts
<1>9. ASSUME NEW f \in File, Edit(f)
      PROVE  Versions'
  BY <1>1, <1>9 DEF Edit, disk
<1>10. ASSUME Begin("walk") \/ Begin("watch")
       PROVE  Versions'
  BY <1>1, <1>10 DEF Begin, disk
<1>11. ASSUME OutOfTarget \/ processAlias
       PROVE  Versions'
  BY <1>1, <1>11 DEF OutOfTarget, processAlias, disk
<1>12. ASSUME Wait
       PROVE  Versions'
  <2>1. UNCHANGED saved /\ (Exit \/ UNCHANGED <<job, mem>>)
    BY <1>12 DEF Wait, Errors, disk
  <2> QED BY <1>1, <1>2, <2>1
<1>13. ASSUME buildRouterBinary
       PROVE  Versions'
  <2>1. UNCHANGED saved /\ (Exit \/ UNCHANGED <<job, mem>>)
    BY <1>13 DEF buildRouterBinary
  <2> QED BY <1>1, <1>2, <2>1
<1>14. ASSUME saveAllCaches
       PROVE  Versions'
  BY <1>1, <1>14 DEF saveAllCaches
<1>15. ASSUME Die
       PROVE  Versions'
  BY <1>2, <1>15 DEF Die, disk
<1>16. ASSUME NEW f \in File, debounceEvent(f) \/ Fire(f)
       PROVE  Versions'
  BY <1>1, <1>16 DEF debounceEvent, Fire, disk
<1>17. CASE UNCHANGED vars
  BY <1>1, <1>17 DEF vars, disk
<1> QED BY <1>4, <1>5, <1>6, <1>7, <1>8, <1>9, <1>10, <1>11, <1>12, <1>13, <1>14, <1>15,
           <1>16, <1>17 DEF Next, Main, Watcher, Work

LEMMA InitVersions == Init => Versions
<1> SUFFICES ASSUME Init PROVE Versions
  OBVIOUS
<1>1. \A f \in File : src[f].ver = 1
  BY DEF Init
<1>2. Jobs = {} /\ Holders = {} /\ edits = 0
  BY DEF Init, Jobs, Queued, Holders
<1>3. CacheIn(mem, src, edits) /\ CacheIn(saved, src, edits)
  BY DEF Init, CacheIn, NoFiles
<1> QED BY <1>1, <1>2, <1>3 DEF Versions

LEMMA SpecShape == Spec => []Shape
  BY InitShape, NextShape, PTL DEF Spec

LEMMA SpecVersions == Spec => []Versions
  BY InitVersions, NextVersions, SpecShape, PTL DEF Spec

(* An incremental build skips only what its cache has current, whatever was  *)
(* edited while it was built and wherever builds died, for any tree and any  *)
(* number of workers: an entry is stamped with the time the walk saw, the    *)
(* bytes are read later, and an edit is stamped later than both.             *)
THEOREM SkipsOnlyCurrent == Spec => []SkippedIsCurrent
<1>1. Shape /\ Versions => SkippedIsCurrent
  <2> SUFFICES ASSUME Shape, Versions, NEW f \in File, NEW c \in {mem, saved},
                      Key(f) \in DOMAIN c, src[f].ver # 0, c[Key(f)].mtime >= src[f].ver
               PROVE  c[Key(f)].ver = src[f].ver
    BY DEF SkippedIsCurrent
  <2>1. EntryIn(c[Key(f)], src[f].ver, edits)
    BY DEF Versions, CacheIn
  <2>2. src[f].ver \in Nat
    BY DEF Shape, Typed, Trees
  <2> QED BY <2>1, <2>2 DEF EntryIn, SeenIn
<1> QED BY <1>1, SpecShape, SpecVersions, PTL

-----------------------------------------------------------------------------
LEMMA InitCovered == Init => Covered
  BY DEF Init, NoBuild, Covered, Started, JobsRecent, WalkCovered, ResultCovered, InTree

LEMMA ExitCovered == Exit => Covered'
  BY DEF Exit, NoBuild, Covered, Started, JobsRecent, WalkCovered, ResultCovered, InTree

(* A step that leaves the tree, the flags and the walk alone.                *)
LEMMA StillCovered ==
    ASSUME Shape, Covered, UNCHANGED <<src, opts, run, at, manifest>>, errors \subseteq errors',
           \A j \in Jobs' : (\E i \in Jobs : Same(i, j)) \/ j.mtime = src[j.file].ver,
           run = "walk" =>
             \A f \in InTree :
               /\ Has(mem, f, opts.start[f].ver) => Has(mem', f, opts.start[f].ver)
               /\ InWork(f) => InWork(f)' \/ f \in errors' \/ Has(mem', f, opts.start[f].ver),
           run = "compile" => mem' = mem
    PROVE  Covered'
<1>1. opts.there \subseteq File
  BY DEF Shape, Typed, Builds
<1>2. Started'
  BY DEF Covered, Started
<1>3. JobsRecent'
  <2> SUFFICES ASSUME NEW f \in opts.there, NEW j \in Jobs', j.file = f
               PROVE  j.mtime >= opts.start[f].ver
    BY DEF JobsRecent
  <2>1. CASE j.mtime = src[j.file].ver
    BY <2>1 DEF Covered, Started
  <2>2. ASSUME NEW i \in Jobs, Same(i, j)
        PROVE  j.mtime >= opts.start[f].ver
    BY <2>2 DEF Covered, JobsRecent, Same
  <2> QED BY <2>1, <2>2
<1>4. WalkCovered'
  <2> SUFFICES ASSUME run = "walk", NEW f \in InTree, Passed(f)
               PROVE  f \in errors' \/ InWork(f)' \/ Has(mem', f, opts.start[f].ver)
    BY DEF WalkCovered, InTree, Passed
  <2>1. f \in errors \/ InWork(f) \/ Has(mem, f, opts.start[f].ver)
    BY DEF Covered, WalkCovered
  <2> QED BY <2>1
<1>5. ResultCovered'
  BY DEF Covered, ResultCovered, InTree, Has
<1> QED BY <1>2, <1>3, <1>4, <1>5 DEF Covered

(* The step of the walk to the next entry passes its file.                   *)
LEMMA PassedNext ==
    ASSUME Shape, Walking, at' = at + 1, NEW f
    PROVE  Passed(f)' => Passed(f) \/ f = Here.file
<1>1. at \in 1..Len(Walk) /\ Here = Walk[at] /\ Len(Walk) \in Nat
  BY WalkPosition
<1> QED BY <1>1 DEF Passed

LEMMA AllPassed ==
    ASSUME Shape, at > Len(Walk), NEW f \in File
    PROVE  Passed(f)
<1>1. Walk \in Seq(Steps)
  BY PipelineConstants DEF PipelineConstants
<1>2. PICK i \in 1..Len(Walk) : Walk[i].file = f
  BY FilesWalked
<1>3. at \in Nat /\ Len(Walk) \in Nat
  BY <1>1 DEF Shape, Typed
<1> QED BY <1>2, <1>3 DEF Passed

(* The walk goes on: what becomes of the entry it was at.                    *)
LEMMA WalkOnCovered ==
    ASSUME Shape, Covered, Walking, at' = at + 1, UNCHANGED <<src, opts, run, mem>>,
           errors \subseteq errors', Jobs \subseteq Jobs',
           \A j \in Jobs' : j \in Jobs \/ j.mtime = src[j.file].ver,
           NEW h, h = Here.file, h \in InTree => InWork(h)' \/ Has(mem, h, opts.start[h].ver)
    PROVE  Covered'
<1>1. run = "walk"
  BY DEF Walking
<1>2. Started'
  BY DEF Covered, Started
<1>3. JobsRecent'
  BY DEF Covered, JobsRecent, Started
<1>4. WalkCovered'
  <2> SUFFICES ASSUME NEW f \in InTree, Passed(f)'
               PROVE  f \in errors' \/ InWork(f)' \/ Has(mem, f, opts.start[f].ver)
    BY DEF WalkCovered, InTree
  <2>1. CASE f = h
    BY <2>1
  <2>2. CASE Passed(f)
    BY <1>1, <2>2 DEF Covered, WalkCovered, InWork
  <2> QED BY <2>1, <2>2, PassedNext
<1>5. ResultCovered'
  BY <1>1 DEF ResultCovered
<1> QED BY <1>2, <1>3, <1>4, <1>5 DEF Covered

LEMMA NextCovered == Shape /\ Versions /\ Covered /\ [Next]_vars => Covered'
<1> SUFFICES ASSUME Shape, Versions, Covered, [Next]_vars PROVE Covered'
  OBVIOUS
<1>0. (\A x : Same(x, x)) /\ opts.there \subseteq File
  BY DEF Same, Shape, Typed, Builds
<1>1. ASSUME NEW f \in File, Edit(f)
      PROVE  Covered'
  <2>1. /\ opts'.there \subseteq opts.there /\ opts'.start = opts.start
        /\ opts'.target = opts.target
        /\ \A g \in opts'.there : src'[g] = src[g] \/ src'[g].ver = edits + 2
    BY <1>0, <1>1, EditEffect DEF Shape, Typed, Builds
  <2>2. UNCHANGED <<job, run, at, errors, mem, manifest>> /\ edits \in Nat
    BY <1>1 DEF Edit, disk, Shape, Typed
  <2>3. Jobs' = Jobs
    BY <2>2, OtherJobs
  <2>4. \A g \in opts'.there : opts.start[g].ver \in Nat /\ opts.start[g].ver <= edits + 1
    BY <1>0, <2>1, <2>2 DEF Covered, Started, Versions, Shape, Typed, Trees
  <2>5. Started'
    BY <2>1, <2>2, <2>4 DEF Covered, Started
  <2>6. JobsRecent'
    BY <2>1, <2>3 DEF Covered, JobsRecent
  <2>7. InTree' \subseteq InTree
    BY <2>1 DEF InTree
  <2>8. WalkCovered'
    BY <2>1, <2>2, <2>3, <2>7 DEF Covered, WalkCovered, Passed, InWork
  <2>9. ResultCovered'
    BY <2>1, <2>2, <2>7 DEF Covered, ResultCovered
  <2> QED BY <2>5, <2>6, <2>8, <2>9 DEF Covered
<1>2. ASSUME NEW kind \in {"walk", "watch"}, Begin(kind)
      PROVE  Covered'
  <2>1. Jobs' = {}
    BY <1>2, BeginShape
  <2>2. PICK force \in BOOLEAN, target \in {Dir} \cup {Below(d) : d \in Dir} :
          opts' = [force |-> force, target |-> target, start |-> src, edits |-> edits,
                   there |-> {f \in File : src[f].ver # 0}]
    BY <1>2 DEF Begin
  <2>3. UNCHANGED src /\ at' = 1 /\ run' = kind
    BY <1>2 DEF Begin, tree
  <2>4. \A f \in File : src[f].ver \in Nat
    BY DEF Shape, Typed, Trees
  <2>5. Started' /\ JobsRecent'
    BY <2>1, <2>2, <2>3, <2>4 DEF Started, JobsRecent
  <2>6. WalkCovered'
    BY <2>3 DEF WalkCovered, Passed
  <2>7. ResultCovered'
    BY <2>3 DEF ResultCovered
  <2> QED BY <2>5, <2>6, <2>7 DEF Covered
<1>3. ASSUME OutOfTarget
      PROVE  Covered'
  <2>1. /\ Walking /\ at' = at + 1 /\ UNCHANGED <<src, opts, run, mem, errors, job>>
        /\ Here.dir \notin opts.target
    BY <1>3 DEF OutOfTarget, InTarget, tree
  <2>2. Jobs' = Jobs
    BY <2>1, OtherJobs
  <2>3. Here.file \notin InTree
    BY <1>0, <2>1, WalkPosition, WalkSteps, NoFileUnnamed DEF InTree
  <2> QED BY <2>1, <2>2, <2>3, WalkOnCovered
<1>4. ASSUME processAlias
      PROVE  Covered'
  <2>1. /\ Walking /\ at' = at + 1 /\ UNCHANGED <<src, opts, run, mem, job>>
        /\ Here.file = "" /\ errors \subseteq errors'
    BY <1>4 DEF processAlias, tree
  <2>2. Jobs' = Jobs
    BY <2>1, OtherJobs
  <2>3. Here.file \notin InTree
    BY <1>0, <2>1, NoFileUnnamed DEF InTree
  <2> QED BY <2>1, <2>2, <2>3, WalkOnCovered
<1>5. ASSUME processDirectory
      PROVE  Covered'
  <2> DEFINE f == Here.file
             item == [file |-> f, key |-> Key(f), url |-> urlForRelPath(aliasMap, f),
                      mtime |-> src[f].ver]
  <2>1. f \in File
    BY <1>5, WalkPosition, WalkSteps DEF processDirectory
  <2>2. Walking /\ at' = at + 1 /\ UNCHANGED <<src, opts, run, mem, errors, busy>>
    BY <1>5 DEF processDirectory, tree
  <2>3. CASE src[f].ver # 0 /\ Submit(item)
    <3>1. item \in Items /\ item.mtime = src[item.file].ver /\ item.file = f
      BY <2>1, <2>3, WalkItem
    <3> HIDE DEF item
    <3>2. Jobs' = Jobs \cup {item}
      BY <2>2, <2>3, <3>1, SubmitJobs
    <3>3. PICK h : h = f
      OBVIOUS
    <3>4. InWork(h)'
      BY <3>1, <3>2, <3>3 DEF InWork
    <3>5. \A j \in Jobs' : j \in Jobs \/ j.mtime = src[j.file].ver
      BY <3>1, <3>2
    <3>6. Jobs \subseteq Jobs' /\ h = Here.file
      BY <3>2, <3>3
    <3> QED BY <2>2, <3>4, <3>5, <3>6, WalkOnCovered
  <2>4. CASE ~(src[f].ver # 0 /\ shouldProcess(f)) /\ UNCHANGED <<workChan, activeJobs>>
    <3>1. Jobs' = Jobs
      BY <2>2, <2>4, OtherJobs DEF job
    <3>2. PICK h : h = f
      OBVIOUS
    <3>3. ASSUME h \in InTree
          PROVE  Has(mem, h, opts.start[h].ver)
      <4>1. src[h].ver # 0 /\ opts.start[h].ver \in Nat /\ src[h].ver >= opts.start[h].ver
        BY <3>3 DEF Covered, Started, InTree
      <4>2. Key(h) \in DOMAIN mem /\ ~(src[h].ver > mem[Key(h)].mtime)
        BY <2>4, <3>2, <4>1 DEF shouldProcess
      <4>3. EntryIn(mem[Key(h)], src[h].ver, edits) /\ src[h].ver \in Nat
        BY <2>1, <3>2, <4>2 DEF Versions, CacheIn, Shape, Typed, Trees
      <4> QED BY <4>1, <4>2, <4>3 DEF Has, EntryIn, SeenIn
    <3>4. h = Here.file
      BY <3>2
    <3> QED BY <2>2, <3>1, <3>3, <3>4, WalkOnCovered
  <2> QED BY <1>5, <2>3, <2>4 DEF processDirectory
<1>6. ASSUME Wait
      PROVE  Covered'
  <2>1. CASE errors = {} /\ run' = "compile" /\ UNCHANGED <<opts, at, aliasMap, job, errors, mem, watch>>
    <3>1. UNCHANGED src /\ run = "walk" /\ at > Len(Walk) /\ activeJobs = 0
      BY <1>6 DEF Wait, tree
    <3>2. Jobs = {} /\ Jobs' = {}
      BY <2>1, <3>1, NothingLeft, OtherJobs
    <3>3. \A f \in InTree : Has(mem, f, opts.start[f].ver)
      BY <1>0, <2>1, <3>1, <3>2, AllPassed DEF Covered, WalkCovered, InTree, InWork
    <3>4. Started'
      BY <2>1, <3>1 DEF Covered, Started
    <3>5. JobsRecent'
      BY <3>2 DEF JobsRecent
    <3>6. WalkCovered' /\ ResultCovered'
      BY <2>1, <3>3 DEF WalkCovered, ResultCovered, InTree
    <3> QED BY <3>4, <3>5, <3>6 DEF Covered
  <2> QED BY <1>6, <2>1, ExitCovered DEF Wait, Errors
<1>7. ASSUME buildRouterBinary
      PROVE  Covered'
  <2>1. CASE manifest' = mem /\ run' = "save" /\ UNCHANGED <<opts, at, aliasMap, job, errors, mem, watch>>
    <3>1. UNCHANGED src /\ run = "compile"
      BY <1>7 DEF buildRouterBinary, tree
    <3>2. Started'
      BY <2>1, <3>1 DEF Covered, Started
    <3>3. JobsRecent'
      BY <2>1, OtherJobs DEF Covered, JobsRecent
    <3>4. WalkCovered' /\ ResultCovered'
      BY <2>1, <3>1 DEF Covered, WalkCovered, ResultCovered, InTree
    <3> QED BY <3>2, <3>3, <3>4 DEF Covered
  <2> QED BY <1>7, <2>1, ExitCovered DEF buildRouterBinary
<1>8. ASSUME saveAllCaches
      PROVE  Covered'
  <2>1. /\ UNCHANGED <<src, opts, job, manifest>> /\ run = "save" /\ run' = "finished"
    BY <1>8 DEF saveAllCaches, tree
  <2>2. Started'
    BY <2>1 DEF Covered, Started
  <2>3. JobsRecent'
    BY <2>1, OtherJobs DEF Covered, JobsRecent
  <2>4. WalkCovered' /\ ResultCovered'
    BY <2>1 DEF Covered, WalkCovered, ResultCovered, InTree
  <2> QED BY <2>2, <2>3, <2>4 DEF Covered
<1>9. ASSUME Die
      PROVE  Covered'
  BY <1>9, ExitCovered DEF Die
<1>10. ASSUME NEW w \in Worker, Take(w)
       PROVE  Covered'
  <2>1. UNCHANGED <<src, opts, run, at, manifest, errors, mem>>
    BY <1>10 DEF Take, tree, disk
  <2>2. \A f : InWork(f) => InWork(f)'
    BY <1>10, TakeJobs DEF InWork, Same
  <2> QED BY <1>10, <2>1, <2>2, TakeJobs, StillCovered
<1>11. ASSUME NEW w \in Worker, ReadFile(w)
       PROVE  Covered'
  <2>1. UNCHANGED <<src, opts, run, at, manifest, errors, mem>>
    BY <1>11 DEF ReadFile, tree, disk
  <2>2. \A f : InWork(f) => InWork(f)'
    BY <1>11, ReadJobs DEF InWork, Same
  <2> QED BY <1>11, <2>1, <2>2, ReadJobs, StillCovered
<1>12. ASSUME NEW w \in Worker, Store(w)
       PROVE  Covered'
  <2> DEFINE g == busy[w].file
             e == [ver |-> busy[w].read, mtime |-> busy[w].mtime, url |-> busy[w].url]
  <2>1. /\ UNCHANGED <<src, opts, run, at, manifest, errors, workChan>> /\ Done(w)
        /\ busy[w] # Idle /\ busy[w].read # 0
        /\ mem' = Put(mem, busy[w].key, e)
    BY <1>12 DEF Store, tree, disk
  <2>2. w \in Holders /\ busy[w] \in Jobs /\ busy[w].read \in Nat /\ busy[w].mtime \in Nat
    BY <2>1, HolderTyped, JobTyped
  <2>3. busy[w].mtime <= busy[w].read
    BY <2>1, <2>2 DEF Versions, ReadIn
  <2>4. run # "compile"
    BY <2>2, NothingLeft DEF Shape, JobsPlaced
  <2>5. Jobs' \subseteq Jobs /\ Jobs \subseteq Jobs' \cup {busy[w]}
    BY <2>1, DoneJobs
  <2>6. ASSUME run = "walk", NEW f \in InTree
        PROVE  /\ Has(mem, f, opts.start[f].ver) => Has(mem', f, opts.start[f].ver)
               /\ InWork(f) => InWork(f)' \/ Has(mem', f, opts.start[f].ver)
    <3>1. busy[w].key = Key(g)
      BY <2>2, <2>6 DEF Shape, JobsPlaced
    <3>2. /\ DOMAIN mem' = {Key(g)} \cup DOMAIN mem /\ mem'[Key(g)].ver = busy[w].read
          /\ \A x \in DOMAIN mem : x # Key(g) => mem'[x] = mem[x]
      <4> HIDE DEF g, e
      <4>1. mem' = Put(mem, Key(g), e)
        BY <2>1, <3>1
      <4>2. e.ver = busy[w].read
        BY DEF e
      <4> QED BY <4>1, <4>2 DEF Put
    <3>3. CASE f = g
      <4>1. opts.start[f].ver \in Nat /\ busy[w].mtime >= opts.start[f].ver
        BY <2>2, <3>3 DEF Covered, Started, JobsRecent, InTree
      <4>2. Has(mem', f, opts.start[f].ver)
        BY <2>2, <2>3, <3>2, <3>3, <4>1 DEF Has
      <4> QED BY <4>2
    <3>4. CASE f # g
      <4>1. Key(f) # Key(g)
        BY <3>4, KeysDiffer
      <4>2. Has(mem, f, opts.start[f].ver) => Has(mem', f, opts.start[f].ver)
        BY <3>2, <4>1 DEF Has
      <4>3. InWork(f) => InWork(f)'
        BY <2>5, <3>4 DEF InWork
      <4> QED BY <4>2, <4>3
    <3> QED BY <3>3, <3>4
  <2> QED BY <1>0, <2>1, <2>4, <2>5, <2>6, StillCovered
<1>13. ASSUME NEW w \in Worker, FailJob(w)
       PROVE  Covered'
  <2>1. /\ UNCHANGED <<src, opts, run, at, manifest, mem, workChan>> /\ Done(w)
        /\ busy[w] # Idle /\ errors' = errors \cup {busy[w].file}
    BY <1>13 DEF FailJob, tree, disk
  <2>2. Jobs' \subseteq Jobs /\ Jobs \subseteq Jobs' \cup {busy[w]}
    BY <2>1, DoneJobs
  <2>3. \A f : InWork(f) => InWork(f)' \/ f \in errors'
    BY <2>1, <2>2 DEF InWork
  <2> QED BY <1>0, <2>1, <2>2, <2>3, StillCovered
<1>14. ASSUME processChange
       PROVE  Covered'
  <2> DEFINE f == Head(events)
             item == [file |-> f, key |-> WatchKey(f), url |-> <<>>, mtime |-> src[f].ver]
  <2>1. events \in Seq(File) /\ events # <<>>
    BY <1>14 DEF Shape, Typed, processChange
  <2>2. f \in File
    BY <2>1
  <2>3. UNCHANGED <<src, opts, run, at, manifest, errors, mem, busy>> /\ run = "watch"
    BY <1>14 DEF processChange, tree, disk
  <2>4. CASE src[f].ver # 0 /\ Submit(item)
    <3>1. item \in Items /\ item.mtime = src[item.file].ver
      BY <2>2, <2>4, WatchItem
    <3> HIDE DEF item
    <3>2. Jobs' = Jobs \cup {item}
      BY <2>3, <2>4, <3>1, SubmitJobs
    <3> QED BY <1>0, <2>3, <3>1, <3>2, StillCovered
  <2>5. CASE UNCHANGED <<workChan, activeJobs>>
    <3>1. Jobs' = Jobs
      BY <2>3, <2>5, OtherJobs DEF job
    <3> QED BY <1>0, <2>3, <3>1, StillCovered
  <2> QED BY <1>14, <2>4, <2>5 DEF processChange
<1>15. ASSUME (\E f \in File : debounceEvent(f) \/ Fire(f)) \/ UNCHANGED vars
       PROVE  Covered'
  <2>1. UNCHANGED <<src, opts, run, at, manifest, errors, mem, job>>
    BY <1>15 DEF debounceEvent, Fire, tree, disk, vars
  <2>2. Jobs' = Jobs
    BY <2>1, OtherJobs
  <2> QED BY <1>0, <2>1, <2>2, StillCovered DEF InWork
<1> QED BY <1>1, <1>2, <1>3, <1>4, <1>5, <1>6, <1>7, <1>8, <1>9, <1>10, <1>11, <1>12,
           <1>13, <1>14, <1>15 DEF Next, Main, Watcher, Work

LEMMA SpecCovered == Spec => []Covered
  BY InitCovered, NextCovered, SpecShape, SpecVersions, PTL DEF Spec

(* A build that succeeds leaves a manifest with every file of its target     *)
(* that was there all along, no older than when the build began: Wait really *)
(* waits for every job of every worker, and a file the walk skipped has an   *)
(* entry that is young enough.                                               *)
THEOREM ManifestComplete == Spec => []ManifestHasTree
<1>1. Shape /\ Covered => ManifestHasTree
  BY DEF Covered, ResultCovered, ManifestHasTree, InTree, Has, Shape, Typed, Builds
<1> QED BY <1>1, SpecShape, SpecCovered, PTL

-----------------------------------------------------------------------------
LEMMA UrlsOfTree ==
    ASSUME UNCHANGED src
    PROVE  /\ \A d : Declared(d)' <=> Declared(d)
           /\ \A f : DeclaredUrl(f)' = DeclaredUrl(f)
  BY DEF Declared, DeclaredUrl

(* Walk is in order, so the walk has met every directory on the way to a     *)
(* file: the URL it computes is the one the pages ask for.                   *)
LEMMA UrlKnown ==
    ASSUME Shape, Walking, AliasesKnown, NEW f \in File, Walk[at].file = f
    PROVE  urlForRelPath(aliasMap, f) = DeclaredUrl(f)
<1> DEFINE path == Path[DirOf[f]]
           found == [i \in DOMAIN path |-> IF path[i] \in DOMAIN aliasMap THEN aliasMap[path[i]] ELSE path[i]]
           asked == [i \in DOMAIN path |-> IF Declared(path[i]) THEN src[PageOf[path[i]]].alias ELSE path[i]]
<1>0. f # ""
  BY NoFileUnnamed
<1>1. at \in 1..Len(Walk) /\ Len(Walk) \in Nat /\ DirOf[f] = Walk[at].dir
  BY <1>0, WalkPosition, WalkSteps
<1>2. DOMAIN Walk = 1..Len(Walk)
  <2>1. Walk \in Seq(Steps)
    BY PipelineConstants DEF PipelineConstants
  <2> QED BY <2>1
<1>3. ASSUME NEW i \in DOMAIN path
      PROVE  found[i] = asked[i]
  <2> DEFINE d == path[i]
  <2>1. d \in Range(Path[Walk[at].dir])
    BY <1>1 DEF Range
  <2>2. PICK j \in 1..(at - 1) : Walk[j].dir = d /\ Walk[j].file = ""
    BY <1>0, <1>1, <1>2, <2>1, PipelineConstants DEF PipelineConstants
  <2>3. j <= Len(Walk) /\ j \in 1..Len(Walk)
    BY <1>1
  <2>4. Collected(d)
    BY <2>2, <2>3 DEF Collected, EntryOf
  <2>5. d \in Dir
    BY <2>2, <2>3, WalkSteps
  <2> HIDE DEF d
  <2>6. Declared(d) <=> d \in DOMAIN aliasMap
    BY <2>4, <2>5 DEF AliasesKnown
  <2>7. d \in DOMAIN aliasMap => aliasMap[d] = src[PageOf[d]].alias
    BY DEF AliasesKnown
  <2> QED BY <2>6, <2>7 DEF d
<1>4. found = asked
  BY <1>3
<1>5. urlForRelPath(aliasMap, f) = DropRoots(found) \o (IF f = PageOf[DirOf[f]] THEN <<>> ELSE <<f>>)
  BY Zenon DEF urlForRelPath
<1>6. DeclaredUrl(f) = DropRoots(asked) \o (IF f = PageOf[DirOf[f]] THEN <<>> ELSE <<f>>)
  BY Zenon DEF DeclaredUrl
<1> HIDE DEF found, asked
<1> QED BY <1>4, <1>5, <1>6, Zenon

LEMMA InitLocated == Init => Located
  BY DEF Init, NoBuild, Located, WalkLocated, ResultLocated

LEMMA ExitLocated == Shape /\ Exit /\ UNCHANGED tree => Located'
  BY DEF Exit, NoBuild, Located, WalkLocated, ResultLocated, tree, Shape, Typed

(* A step that leaves the tree, the flags, the walk and its aliases alone.   *)
LEMMA StillLocated ==
    ASSUME Shape, Located, UNCHANGED <<src, edits, opts, run, at, aliasMap, manifest>>,
           errors \subseteq errors',
           run = "walk" => \A j \in Jobs' : \E i \in Jobs : Same(i, j),
           run = "walk" /\ Undisturbed /\ errors' = {} /\ JobsLocated =>
             \A f \in File :
               /\ HasUrl(mem, f, DeclaredUrl(f)) => HasUrl(mem', f, DeclaredUrl(f))
               /\ InWork(f) => InWork(f)' \/ HasUrl(mem', f, DeclaredUrl(f)),
           run = "compile" => mem' = mem
    PROVE  Located'
<1>0. (\A d : Declared(d)' <=> Declared(d)) /\ (\A f : DeclaredUrl(f)' = DeclaredUrl(f))
  BY UrlsOfTree
<1>1. opts'.edits <= edits'
  BY DEF Located
<1>2. Undisturbed' <=> Undisturbed
  BY DEF Undisturbed
<1>3. ASSUME run = "walk", Undisturbed, errors' = {}
      PROVE  (AliasesKnown /\ JobsLocated /\ FilesLocated)'
  <2>1. AliasesKnown /\ JobsLocated /\ FilesLocated
    BY <1>3 DEF Located, WalkLocated
  <2>2. AliasesKnown'
    BY <1>0, <2>1 DEF AliasesKnown, Collected
  <2>3. JobsLocated'
    BY <1>0, <1>3, <2>1 DEF JobsLocated, Same
  <2>4. FilesLocated'
    <3> SUFFICES ASSUME NEW f \in File, src[f].ver # 0, Passed(f)
                 PROVE  InWork(f)' \/ HasUrl(mem', f, DeclaredUrl(f))
      BY <1>0 DEF FilesLocated, Passed
    <3>1. InWork(f) \/ HasUrl(mem, f, DeclaredUrl(f))
      BY <2>1 DEF FilesLocated
    <3> QED BY <1>3, <2>1, <3>1
  <2> QED BY <2>2, <2>3, <2>4
<1>4. WalkLocated'
  BY <1>2, <1>3 DEF WalkLocated
<1>5. ResultLocated'
  BY <1>0, <1>2 DEF Located, ResultLocated, AllHaveUrls
<1> QED BY <1>1, <1>4, <1>5 DEF Located

(* The directories collected when the walk goes on.                          *)
LEMMA CollectedNext ==
    ASSUME Shape, Walking, at' = at + 1, NEW d
    PROVE  Collected(d)' => Collected(d) \/ EntryOf(at, d)
<1>1. at \in 1..Len(Walk) /\ Len(Walk) \in Nat
  BY WalkPosition
<1> QED BY <1>1 DEF Collected

LEMMA NextLocated == Shape /\ Located /\ [Next]_vars => Located'
<1> SUFFICES ASSUME Shape, Located, [Next]_vars PROVE Located'
  OBVIOUS
<1>0. (\A x : Same(x, x)) /\ edits \in Nat /\ opts \in Builds
  BY DEF Same, Shape, Typed
<1>1. ASSUME NEW f \in File, Edit(f)
      PROVE  Located'
  <2>1. edits' = edits + 1 /\ opts'.edits = opts.edits
    BY <1>1, EditEffect DEF Edit
  <2>2. opts'.edits <= edits /\ opts'.edits \in Nat
    BY <1>0, <2>1 DEF Located, Builds
  <2>3. ~Undisturbed'
    BY <1>0, <2>1, <2>2 DEF Undisturbed
  <2> QED BY <1>0, <2>1, <2>2, <2>3 DEF Located, WalkLocated, ResultLocated
<1>2. ASSUME NEW kind \in {"walk", "watch"}, Begin(kind)
      PROVE  Located'
  <2>1. Jobs' = {}
    BY <1>2, BeginShape
  <2>2. opts'.edits = edits
    BY <1>2 DEF Begin
  <2>3. UNCHANGED <<src, edits>> /\ at' = 1 /\ run' = kind /\ aliasMap' = NoFiles
    BY <1>2 DEF Begin, tree
  <2>4. AliasesKnown'
    BY <2>3 DEF AliasesKnown, Collected, NoFiles
  <2>5. JobsLocated' /\ FilesLocated'
    BY <2>1, <2>3 DEF JobsLocated, FilesLocated, Passed
  <2> QED BY <1>0, <2>2, <2>3, <2>4, <2>5 DEF Located, WalkLocated, ResultLocated
<1>3. ASSUME Walking, at' = at + 1, UNCHANGED <<tree, run, opts, mem>>, errors \subseteq errors',
             Undisturbed /\ AliasesKnown /\ JobsLocated /\ errors' = {}
               => AliasesKnown' /\ JobsLocated',
             Jobs \subseteq Jobs',
             \A f \in File : /\ Undisturbed /\ f = Here.file /\ src[f].ver # 0
                             => InWork(f)'
      PROVE  Located'
  <2>1. UNCHANGED <<src, edits>> /\ run = "walk"
    BY <1>3 DEF tree, Walking
  <2>2. \A f : DeclaredUrl(f)' = DeclaredUrl(f)
    BY <2>1, UrlsOfTree
  <2>3. Undisturbed' <=> Undisturbed
    BY <1>3, <2>1 DEF Undisturbed
  <2>4. ASSUME Undisturbed, errors' = {}
        PROVE  (AliasesKnown /\ JobsLocated /\ FilesLocated)'
    <3>1. AliasesKnown /\ JobsLocated /\ FilesLocated
      BY <1>3, <2>1, <2>4 DEF Located, WalkLocated
    <3>2. AliasesKnown' /\ JobsLocated'
      BY <1>3, <2>4, <3>1
    <3>3. FilesLocated'
      <4> SUFFICES ASSUME NEW f \in File, src[f].ver # 0, Passed(f)'
                   PROVE  InWork(f)' \/ HasUrl(mem, f, DeclaredUrl(f))
        BY <1>3, <2>1, <2>2 DEF FilesLocated
      <4>1. CASE f = Here.file
        BY <1>3, <2>4, <4>1
      <4>2. CASE Passed(f)
        BY <1>3, <3>1, <4>2 DEF FilesLocated, InWork
      <4> QED BY <1>3, <4>1, <4>2, PassedNext
    <3> QED BY <3>2, <3>3
  <2> QED BY <1>3, <2>1, <2>3, <2>4 DEF Located, WalkLocated, ResultLocated
<1>4. ASSUME OutOfTarget
      PROVE  Located'
  <2>1. /\ Walking /\ at' = at + 1 /\ UNCHANGED <<tree, run, opts, mem, errors, job>>
        /\ Here.dir \notin opts.target
    BY <1>4 DEF OutOfTarget, InTarget
  <2>2. Jobs' = Jobs
    BY <2>1, OtherJobs
  <2>3. ~Undisturbed
    BY <2>1, WalkPosition, WalkSteps DEF Undisturbed
  <2> QED BY <1>3, <2>1, <2>2, <2>3
<1>5. ASSUME processAlias
      PROVE  Located'
  <2> DEFINE e == Here.dir
             page == src[PageOf[e]]
  <2>1. /\ Walking /\ at' = at + 1 /\ UNCHANGED <<tree, run, opts, mem, job>>
        /\ Here.file = "" /\ errors \subseteq errors'
        /\ \/ ~Declared(e) /\ aliasMap' = aliasMap
           \/ errors' # {}
           \/ Declared(e) /\ aliasMap' = Put(aliasMap, e, page.alias)
    BY <1>5 DEF processAlias, Declared
  <2>2. Jobs' = Jobs
    BY <2>1, OtherJobs
  <2>3. UNCHANGED src /\ \A d : (Declared(d)' <=> Declared(d))
    BY <2>1, UrlsOfTree DEF tree
  <2>4. \A f : DeclaredUrl(f)' = DeclaredUrl(f)
    BY <2>3, UrlsOfTree
  <2>5. ASSUME AliasesKnown, errors' = {}
        PROVE  AliasesKnown'
    <3>1. \A d \in Dir : Collected(d)' => Collected(d) \/ d = e
      BY <2>1, CollectedNext, WalkPosition DEF EntryOf
    <3>2. CASE ~Declared(e) /\ aliasMap' = aliasMap
      BY <2>3, <2>5, <3>1, <3>2 DEF AliasesKnown
    <3>3. CASE Declared(e) /\ aliasMap' = Put(aliasMap, e, page.alias)
      <4> HIDE DEF e
      <4>1. /\ DOMAIN aliasMap' = {e} \cup DOMAIN aliasMap /\ aliasMap'[e] = src[PageOf[e]].alias
            /\ \A d \in DOMAIN aliasMap : d # e => aliasMap'[d] = aliasMap[d]
        BY <3>3 DEF Put
      <4> QED BY <2>3, <2>5, <3>1, <3>3, <4>1 DEF AliasesKnown
    <3> QED BY <2>1, <2>5, <3>2, <3>3
  <2>6. JobsLocated => JobsLocated'
    BY <2>2, <2>4 DEF JobsLocated
  <2>7. \A f \in File : f # Here.file
    BY <2>1, NoFileUnnamed
  <2> HIDE DEF e
  <2> QED BY <1>3, <2>1, <2>2, <2>5, <2>6, <2>7
<1>6. ASSUME processDirectory
      PROVE  Located'
  <2> DEFINE f == Here.file
             item == [file |-> f, key |-> Key(f), url |-> urlForRelPath(aliasMap, f),
                      mtime |-> src[f].ver]
  <2>1. f \in File /\ Walk[at].file = f
    BY <1>6, WalkPosition, WalkSteps DEF processDirectory
  <2>2. /\ Walking /\ at' = at + 1
        /\ UNCHANGED <<tree, run, opts, mem, errors, busy, aliasMap>>
    BY <1>6 DEF processDirectory
  <2>3. UNCHANGED src /\ (\A d : Declared(d)' <=> Declared(d)) /\ (\A g : DeclaredUrl(g)' = DeclaredUrl(g))
    BY <2>2, UrlsOfTree DEF tree
  <2>4. AliasesKnown => AliasesKnown'
    <3>1. Walk[at].file # ""
      BY <2>1, NoFileUnnamed
    <3>2. \A d \in Dir : Collected(d)' => Collected(d)
      BY <2>2, <3>1, CollectedNext DEF EntryOf
    <3> QED BY <2>2, <2>3, <3>2 DEF AliasesKnown
  <2>5. CASE src[f].ver # 0 /\ Submit(item)
    <3>1. item \in Items /\ item.file = f /\ item.url = urlForRelPath(aliasMap, f)
      BY <2>1, <2>5, WalkItem
    <3>2. AliasesKnown => item.url = DeclaredUrl(f)
      BY <2>1, <2>2, <3>1, UrlKnown
    <3> HIDE DEF item
    <3>3. Jobs' = Jobs \cup {item}
      BY <2>2, <2>5, <3>1, SubmitJobs
    <3>4. AliasesKnown /\ JobsLocated => JobsLocated'
      BY <2>3, <3>1, <3>2, <3>3 DEF JobsLocated
    <3>5. \A g : g = Here.file => InWork(g)'
      BY <3>1, <3>3 DEF InWork
    <3>6. Jobs \subseteq Jobs'
      BY <3>3
    <3> QED BY <1>3, <2>2, <2>4, <3>4, <3>5, <3>6
  <2>6. CASE ~(src[f].ver # 0 /\ shouldProcess(f)) /\ UNCHANGED <<workChan, activeJobs>>
    <3>1. Jobs' = Jobs
      BY <2>2, <2>6, OtherJobs DEF job
    <3>2. Undisturbed => src[f].ver = 0
      BY <2>6 DEF Undisturbed, shouldProcess
    <3>3. JobsLocated => JobsLocated'
      BY <2>3, <3>1 DEF JobsLocated
    <3>4. \A g \in File : ~(Undisturbed /\ g = Here.file /\ src[g].ver # 0)
      BY <3>2
    <3> QED BY <1>3, <2>2, <2>4, <3>1, <3>3, <3>4
  <2> QED BY <1>6, <2>5, <2>6 DEF processDirectory
<1>7. ASSUME Wait
      PROVE  Located'
  <2>1. CASE errors = {} /\ run' = "compile" /\ UNCHANGED <<opts, at, aliasMap, job, errors, mem, watch>>
    <3>1. UNCHANGED <<src, edits>> /\ run = "walk" /\ at > Len(Walk) /\ activeJobs = 0
      BY <1>7 DEF Wait, tree
    <3>2. \A f : DeclaredUrl(f)' = DeclaredUrl(f)
      BY <3>1, UrlsOfTree
    <3>3. Undisturbed' => AllHaveUrls(mem)'
      <4> SUFFICES ASSUME Undisturbed, NEW f \in File, src[f].ver # 0
                   PROVE  HasUrl(mem, f, DeclaredUrl(f))
        BY <2>1, <3>1, <3>2 DEF AllHaveUrls, Undisturbed
      <4>1. FilesLocated
        BY <2>1, <3>1 DEF Located, WalkLocated
      <4>2. Passed(f) /\ ~InWork(f)
        BY <3>1, AllPassed, NothingLeft DEF InWork
      <4> QED BY <4>1, <4>2 DEF FilesLocated
    <3>4. opts'.edits <= edits'
      BY <2>1, <3>1 DEF Located
    <3> QED BY <2>1, <3>3, <3>4 DEF Located, WalkLocated, ResultLocated
  <2> QED BY <1>7, <2>1, ExitLocated DEF Wait, Errors
<1>8. ASSUME buildRouterBinary
      PROVE  Located'
  <2>1. CASE manifest' = mem /\ run' = "save" /\ UNCHANGED <<opts, at, aliasMap, job, errors, mem, watch>>
    <3>1. UNCHANGED <<src, edits>> /\ run = "compile"
      BY <1>8 DEF buildRouterBinary, tree
    <3>2. \A f : DeclaredUrl(f)' = DeclaredUrl(f)
      BY <3>1, UrlsOfTree
    <3> QED BY <2>1, <3>1, <3>2 DEF Located, WalkLocated, ResultLocated, AllHaveUrls, Undisturbed
  <2> QED BY <1>8, <2>1, ExitLocated DEF buildRouterBinary
<1>9. ASSUME saveAllCaches
      PROVE  Located'
  <2>1. /\ UNCHANGED <<src, edits, opts, manifest>> /\ run = "save" /\ run' = "finished"
    BY <1>9 DEF saveAllCaches, tree
  <2>2. \A f : DeclaredUrl(f)' = DeclaredUrl(f)
    BY <2>1, UrlsOfTree
  <2> QED BY <2>1, <2>2 DEF Located, WalkLocated, ResultLocated, AllHaveUrls, Undisturbed
<1>10. ASSUME Die
       PROVE  Located'
  BY <1>10, ExitLocated DEF Die
<1>11. ASSUME NEW w \in Worker, Take(w)
       PROVE  Located'
  <2>1. UNCHANGED <<src, edits, opts, run, at, aliasMap, manifest, errors, mem>>
    BY <1>11 DEF Take, tree, disk
  <2>2. \A f : InWork(f) => InWork(f)'
    BY <1>11, TakeJobs DEF InWork, Same
  <2> QED BY <1>11, <2>1, <2>2, TakeJobs, StillLocated
<1>12. ASSUME NEW w \in Worker, ReadFile(w)
       PROVE  Located'
  <2>1. UNCHANGED <<src, edits, opts, run, at, aliasMap, manifest, errors, mem>>
    BY <1>12 DEF ReadFile, tree, disk
  <2>2. \A f : InWork(f) => InWork(f)'
    BY <1>12, ReadJobs DEF InWork, Same
  <2> QED BY <1>12, <2>1, <2>2, ReadJobs, StillLocated
<1>13. ASSUME NEW w \in Worker, Store(w)
       PROVE  Located'
  <2> DEFINE g == busy[w].file
             e == [ver |-> busy[w].read, mtime |-> busy[w].mtime, url |-> busy[w].url]
  <2>1. /\ UNCHANGED <<src, edits, opts, run, at, aliasMap, manifest, errors, workChan>>
        /\ Done(w) /\ busy[w] # Idle
        /\ mem' = Put(mem, busy[w].key, e)
    BY <1>13 DEF Store, tree, disk
  <2>2. w \in Holders /\ busy[w] \in Jobs
    BY <2>1, HolderTyped
  <2>3. run # "compile"
    BY <2>2, NothingLeft DEF Shape, JobsPlaced
  <2>4. Jobs' \subseteq Jobs /\ Jobs \subseteq Jobs' \cup {busy[w]}
    BY <2>1, DoneJobs
  <2>5. ASSUME run = "walk", JobsLocated, NEW f \in File
        PROVE  /\ HasUrl(mem, f, DeclaredUrl(f)) => HasUrl(mem', f, DeclaredUrl(f))
               /\ InWork(f) => InWork(f)' \/ HasUrl(mem', f, DeclaredUrl(f))
    <3>1. busy[w].key = Key(g)
      BY <2>2, <2>5 DEF Shape, JobsPlaced
    <3>2. busy[w].url = DeclaredUrl(g)
      BY <2>2, <2>5 DEF JobsLocated
    <3>3. /\ DOMAIN mem' = {Key(g)} \cup DOMAIN mem /\ mem'[Key(g)].url = DeclaredUrl(g)
          /\ \A x \in DOMAIN mem : x # Key(g) => mem'[x] = mem[x]
      <4> HIDE DEF g, e
      <4>1. mem' = Put(mem, Key(g), e)
        BY <2>1, <3>1
      <4>2. e.url = DeclaredUrl(g)
        BY <3>2 DEF e
      <4> QED BY <4>1, <4>2 DEF Put
    <3> HIDE DEF g
    <3>4. CASE f = g
      BY <3>3, <3>4 DEF HasUrl
    <3>5. CASE f # g
      <4>1. Key(f) # Key(g)
        BY <3>5, KeysDiffer
      <4>2. HasUrl(mem, f, DeclaredUrl(f)) => HasUrl(mem', f, DeclaredUrl(f))
        BY <3>3, <4>1 DEF HasUrl
      <4>3. InWork(f) => InWork(f)'
        BY <2>4, <3>5 DEF InWork, g
      <4> QED BY <4>2, <4>3
    <3> QED BY <3>4, <3>5
  <2> HIDE DEF e
  <2> QED BY <1>0, <2>1, <2>3, <2>4, <2>5, StillLocated
<1>14. ASSUME NEW w \in Worker, FailJob(w)
       PROVE  Located'
  <2>1. /\ UNCHANGED <<src, edits, opts, run, at, aliasMap, manifest, mem, workChan>>
        /\ Done(w) /\ busy[w] # Idle /\ errors \subseteq errors' /\ errors' # {}
    BY <1>14 DEF FailJob, tree, disk
  <2>2. Jobs' \subseteq Jobs
    BY <2>1, DoneJobs
  <2> QED BY <1>0, <2>1, <2>2, StillLocated
<1>15. ASSUME processChange
       PROVE  Located'
  <2>1. UNCHANGED <<src, edits, opts, run, at, aliasMap, manifest, errors, mem>> /\ run = "watch"
    BY <1>15 DEF processChange, tree, disk
  <2> QED BY <2>1, StillLocated
<1>16. ASSUME (\E f \in File : debounceEvent(f) \/ Fire(f)) \/ UNCHANGED vars
       PROVE  Located'
  <2>1. UNCHANGED <<src, edits, opts, run, at, aliasMap, manifest, errors, mem, job>>
    BY <1>16 DEF debounceEvent, Fire, tree, disk, vars
  <2>2. Jobs' = Jobs
    BY <2>1, OtherJobs
  <2> QED BY <1>0, <2>1, <2>2, StillLocated DEF InWork
<1> QED BY <1>1, <1>2, <1>4, <1>5, <1>6, <1>7, <1>8, <1>9, <1>10, <1>11, <1>12,
           <1>13, <1>14, <1>15, <1>16 DEF Next, Main, Watcher, Work

LEMMA SpecLocated == Spec => []Located
  BY InitLocated, NextLocated, SpecShape, PTL DEF Spec

(* After a forced build of the whole tree during which nobody edited it,     *)
(* every file has the URL the pages on its path ask for: the walk meets a    *)
(* directory before what is below it, so no URL is computed from an alias    *)
(* map that still lacks an alias, and no old URL outlives the build.         *)
THEOREM UrlsCorrect == Spec => []UrlsFollowAliases
<1>1. Located => UrlsFollowAliases
  BY DEF Located, ResultLocated, UrlsFollowAliases, Undisturbed, AllHaveUrls, HasUrl
<1> QED BY <1>1, SpecLocated, PTL
=============================================================================
