--------------------------- MODULE BuildPipeline ---------------------------
(***************************************************************************)
(* cmd/build for one site: a batch build walks the source tree, hands the   *)
(* files that changed to a pool of workers, waits, compiles the manifest    *)
(* from the build cache and saves the cache; watch mode debounces file      *)
(* events and hands the files to the same workers.  Sources are edited and  *)
(* the process may die at any time.                                         *)
(*                                                                         *)
(* A version of a file stands for its bytes and its modification time,      *)
(* which grow together; version 0 is an absent file.                        *)
(***************************************************************************)
EXTENDS Integers, Sequences, SequencesExt, FiniteSets

CONSTANTS
    Walk,       \* filepath.Walk's order: [dir, file], file "" for the directory itself
    Path,       \* the directories on the way to each directory, itself included
    PageOf,     \* each directory's content.html
    Aliases,    \* the aliases a page may declare: NoAlias, Root ("/") and others
    NoAlias, Root,
    FirstAlias, \* the alias of each file of the first tree
    Worker,
    ChanSize,   \* capacity of workChan
    Editable, MaxEdits, MaxRuns   \* bounds: the files that change, how often, and the runs

Steps == {Walk[i] : i \in DOMAIN Walk}
File == {s.file : s \in Steps} \ {""}
DirOf == [f \in File |-> (CHOOSE s \in Steps : s.file = f).dir]
Dir == DOMAIN Path
Below(d) == {e \in Dir : d \in Range(Path[e])}
Idle == [file |-> ""]
NoFiles == <<>>
NoBuild == [force |-> FALSE, target |-> {}, start |-> NoFiles, edits |-> 0, there |-> {}]
Put(map, k, v) == [x \in {k} \cup DOMAIN map |-> IF x = k THEN v ELSE map[x]]

ASSUME PipelineConstants ==
    /\ Worker # {} /\ IsFiniteSet(Worker) /\ ChanSize \in Nat \ {0}
    /\ {NoAlias, Root} \subseteq Aliases /\ FirstAlias \in [File -> Aliases]
    /\ \A s \in Steps : s.dir \in Dir /\ PageOf[s.dir] \in File
    /\ Walk \in Seq(Steps)
    /\ \A s, t \in Steps : s.file = t.file /\ s.file # "" => s = t
    /\ \A i \in DOMAIN Walk : \A d \in Range(Path[Walk[i].dir]) :
          Walk[i].file # "" => \E j \in 1..(i - 1) : Walk[j].dir = d /\ Walk[j].file = ""

VARIABLES
    src,       \* the source tree: [ver, alias] of each file
    run,       \* "idle", "walk", "compile", "save", "finished", "watch"
    opts,      \* [force, target]: flags; history: the tree and the number of edits at the start,
               \* the files there ever since
    at,        \* how far the walk has come
    aliasMap,  \* ctx.aliasMap (usedAliases is its inverse)
    workChan, busy,   \* queued items and the item each worker holds
    activeJobs,
    errors,    \* the files whose alias or job failed in this run
    mem, saved,       \* the build cache in memory and on disk
    manifest,  \* the entries the manifest on disk was compiled from
    notes,     \* files the watcher has events for
    debounceMap, timers, events,
    touched, raced,   \* history: files edited under this watch, held by two workers at once
    edits, runs
tree == <<src, edits>>
job == <<workChan, busy, activeJobs>>
watch == <<notes, debounceMap, timers, events, touched, raced>>
disk == <<saved, manifest>>
vars == <<tree, run, opts, at, aliasMap, job, errors, mem, disk, watch, runs>>

-----------------------------------------------------------------------------
Init ==
    /\ src = [f \in File |-> [ver |-> 1, alias |-> FirstAlias[f]]]
    /\ run = "idle"
    /\ opts = NoBuild
    /\ at = 1 /\ aliasMap = NoFiles
    /\ workChan = <<>> /\ busy = [w \in Worker |-> Idle] /\ activeJobs = 0
    /\ errors = {} /\ mem = NoFiles /\ saved = NoFiles /\ manifest = NoFiles
    /\ notes = {} /\ debounceMap = {} /\ timers = {} /\ events = <<>>
    /\ touched = {} /\ raced = {}
    /\ edits = 0 /\ runs = 0

(* Someone writes a source file, a page perhaps with another alias, or       *)
(* removes it; fsnotify tells a running watcher.                             *)
Edit(f) ==
    /\ f \in Editable /\ edits < MaxEdits
    /\ edits' = edits + 1
    /\ \/ \E a \in IF f = PageOf[DirOf[f]] THEN Aliases ELSE {NoAlias} :
             src' = [src EXCEPT ![f] = [ver |-> edits + 2, alias |-> a]] /\ UNCHANGED opts
       \/ /\ src[f].ver # 0
          /\ src' = [src EXCEPT ![f].ver = 0]
          /\ opts' = [opts EXCEPT !.there = @ \ {f}]
    /\ IF run = "watch" /\ DirOf[f] \in opts.target THEN notes' = notes \cup {f} /\ touched' = touched \cup {f}
       ELSE UNCHANGED <<notes, touched>>
    /\ UNCHANGED <<run, at, aliasMap, job, errors, mem, disk, debounceMap, timers, events, raced, runs>>

(* initialize: the saved cache is loaded; -force and -target are flags.      *)
Begin(kind) ==
    /\ run \in {"idle", "finished"} /\ runs < MaxRuns
    /\ runs' = runs + 1
    /\ run' = kind
    /\ \E force \in IF kind = "walk" THEN BOOLEAN ELSE {FALSE},
          target \in {Dir} \cup {Below(d) : d \in Dir} :
          opts' = [force |-> force, target |-> target, start |-> src, edits |-> edits,
                   there |-> {f \in File : src[f].ver # 0}]
    /\ at' = 1 /\ aliasMap' = NoFiles /\ mem' = saved /\ errors' = {}
    /\ UNCHANGED <<tree, job, disk, watch>>

-----------------------------------------------------------------------------
InTarget(s) == s.dir \in opts.target
Here == Walk[at]
Walking == run = "walk" /\ at <= Len(Walk)

OutOfTarget ==
    /\ Walking /\ ~InTarget(Here)
    /\ at' = at + 1
    /\ UNCHANGED <<tree, run, opts, aliasMap, job, errors, mem, disk, watch, runs>>

(* processAlias: the alias the directory's page declares; a second use of    *)
(* an alias is an error.                                                     *)
processAlias ==
    /\ Walking /\ InTarget(Here) /\ Here.file = ""
    /\ at' = at + 1
    /\ LET page == src[PageOf[Here.dir]]
       IN  IF page.ver = 0 \/ page.alias = NoAlias THEN UNCHANGED <<aliasMap, errors>>
           ELSE IF \E d \in DOMAIN aliasMap : aliasMap[d] = page.alias
                THEN errors' = errors \cup {PageOf[Here.dir]} /\ UNCHANGED aliasMap
                ELSE aliasMap' = Put(aliasMap, Here.dir, page.alias) /\ UNCHANGED errors
    /\ UNCHANGED <<tree, run, opts, job, mem, disk, watch, runs>>

(* Segments without those whose alias is the root.                           *)
DropRoots(names) == SelectSeq(names, LAMBDA n : n # Root)

(* Mutant: the directories' own names.                                       *)
urlForRelPathPlain(map, f) == Path[DirOf[f]] \o (IF f = PageOf[DirOf[f]] THEN <<>> ELSE <<f>>)

(* The URL of a file: the alias or else the name of each directory on its    *)
(* path, without the roots, and the name of a file that is not a page.       *)
urlForRelPath(map, f) ==
    LET path == Path[DirOf[f]]
    IN  DropRoots([i \in DOMAIN path |-> IF path[i] \in DOMAIN map THEN map[path[i]] ELSE path[i]])
        \o (IF f = PageOf[DirOf[f]] THEN <<>> ELSE <<f>>)

(* The cache keys of a file: builds and the watcher relate its path to       *)
(* different directories.                                                    *)
Key(f) == <<"build", f>>
WatchKey(f) == <<"watch", f>>

shouldProcess(f) == opts.force \/ Key(f) \notin DOMAIN mem \/ src[f].ver > mem[Key(f)].mtime

Submit(item) ==
    /\ Len(workChan) < ChanSize
    /\ workChan' = Append(workChan, item)
    /\ activeJobs' = activeJobs + 1

(* A file the walk meets: submitted with the time stat just gave, or skipped. *)
processDirectory ==
    /\ Walking /\ InTarget(Here) /\ Here.file # ""
    /\ at' = at + 1
    /\ LET f == Here.file
       IN  IF src[f].ver # 0 /\ shouldProcess(f)
           THEN Submit([file |-> f, key |-> Key(f), url |-> urlForRelPath(aliasMap, f), mtime |-> src[f].ver])
           ELSE UNCHANGED <<workChan, activeJobs>>
    /\ UNCHANGED <<tree, run, opts, aliasMap, busy, errors, mem, disk, watch, runs>>

-----------------------------------------------------------------------------
(* An item in a worker's hands, and the version it has read so far.          *)
Held(item, read) ==
    [file |-> item.file, key |-> item.key, url |-> item.url, mtime |-> item.mtime, read |-> read]

Take(w) ==
    /\ busy[w] = Idle /\ workChan # <<>>
    /\ busy' = [busy EXCEPT ![w] = Held(Head(workChan), 0)]
    /\ workChan' = Tail(workChan)
    /\ LET f == Head(workChan).file
       IN  raced' = IF \E v \in Worker : busy[v].file = f THEN raced \cup {f} ELSE raced
    /\ UNCHANGED <<tree, run, opts, at, aliasMap, activeJobs, errors, mem, disk,
                   notes, debounceMap, timers, events, touched, runs>>

Done(w) == busy' = [busy EXCEPT ![w] = Idle] /\ activeJobs' = activeJobs - 1

(* processFile reads the file ...                                            *)
ReadFile(w) ==
    /\ busy[w] # Idle /\ busy[w].read = 0 /\ src[busy[w].file].ver # 0
    /\ busy' = [busy EXCEPT ![w].read = src[busy[w].file].ver]
    /\ UNCHANGED <<tree, run, opts, at, aliasMap, workChan, activeJobs, errors, mem, disk, watch, runs>>

(* Mutant: the cached time is that of the file when it is stored.            *)
StoreRestamped(w) ==
    /\ busy[w] # Idle /\ busy[w].read # 0
    /\ mem' = Put(mem, busy[w].key, [ver |-> busy[w].read, mtime |-> src[busy[w].file].ver,
                                     url |-> busy[w].url])
    /\ Done(w)
    /\ UNCHANGED <<tree, run, opts, at, aliasMap, workChan, errors, disk, watch, runs>>

(* ... and its result, with the time the walk saw, goes into the cache.      *)
Store(w) ==
    /\ busy[w] # Idle /\ busy[w].read # 0
    /\ mem' = Put(mem, busy[w].key, [ver |-> busy[w].read, mtime |-> busy[w].mtime,
                                     url |-> busy[w].url])
    /\ Done(w)
    /\ UNCHANGED <<tree, run, opts, at, aliasMap, workChan, errors, disk, watch, runs>>

(* Mutant: a worker that meets an error stops without counting it.           *)
FailJobUncounted(w) ==
    /\ busy[w] # Idle /\ activeJobs > 0
    /\ errors' = errors \cup {busy[w].file}
    /\ busy' = [busy EXCEPT ![w] = Idle]
    /\ UNCHANGED <<tree, run, opts, at, aliasMap, workChan, activeJobs, mem, disk, watch, runs>>

(* The file is gone, or its template, or the disk write fails.               *)
FailJob(w) ==
    /\ busy[w] # Idle
    /\ errors' = errors \cup {busy[w].file}
    /\ Done(w)
    /\ UNCHANGED <<tree, run, opts, at, aliasMap, workChan, mem, disk, watch, runs>>

-----------------------------------------------------------------------------
(* The process ends: what is in memory is gone.                              *)
Exit ==
    /\ run' = "idle"
    /\ at' = 1 /\ mem' = NoFiles /\ aliasMap' = NoFiles /\ errors' = {}
    /\ opts' = NoBuild
    /\ workChan' = <<>> /\ busy' = [w \in Worker |-> Idle] /\ activeJobs' = 0
    /\ notes' = {} /\ debounceMap' = {} /\ timers' = {} /\ events' = <<>>
    /\ touched' = {} /\ raced' = {}

Errors(next) ==
    IF errors # {} THEN Exit
    ELSE run' = next /\ UNCHANGED <<opts, at, aliasMap, job, errors, mem, watch>>

(* Mutant: Wait returns when the channel has been drained.                   *)
WaitDrained ==
    /\ run = "walk" /\ at > Len(Walk) /\ workChan = <<>>
    /\ Errors("compile")
    /\ UNCHANGED <<tree, disk, runs>>

(* Wait: every submitted job is done; any error ends the process here.       *)
Wait ==
    /\ run = "walk" /\ at > Len(Walk) /\ activeJobs = 0
    /\ Errors("compile")
    /\ UNCHANGED <<tree, disk, runs>>

(* buildRouterBinary: everything in the cache, renamed into place; or an     *)
(* action route collides and the process ends.                               *)
buildRouterBinary ==
    /\ run = "compile"
    /\ \/ manifest' = mem /\ run' = "save" /\ UNCHANGED <<opts, at, aliasMap, job, errors, mem, watch>>
       \/ Exit /\ UNCHANGED manifest
    /\ UNCHANGED <<tree, saved, runs>>

(* saveAllCaches: an unchanged cache is not written.                         *)
saveAllCaches ==
    /\ run = "save"
    /\ saved' = mem
    /\ run' = "finished"
    /\ UNCHANGED <<tree, opts, at, aliasMap, job, errors, mem, manifest, watch, runs>>

(* The process dies or is killed.                                            *)
Die ==
    /\ run \notin {"idle", "finished"}
    /\ Exit
    /\ UNCHANGED <<tree, disk, runs>>

-----------------------------------------------------------------------------
(* debounceEvent: the first event of a path arms a timer, the others do      *)
(* nothing while it runs.                                                    *)
debounceEvent(f) ==
    /\ run = "watch" /\ f \in notes
    /\ notes' = notes \ {f}
    /\ debounceMap' = debounceMap \cup {f}
    /\ timers' = IF f \in debounceMap THEN timers ELSE timers \cup {f}
    /\ UNCHANGED <<tree, run, opts, at, aliasMap, job, errors, mem, disk, events, touched, raced, runs>>

(* Mutant: the path stays in the debounce map when its timer fires.          *)
FireKeeps(f) ==
    /\ run = "watch" /\ f \in timers
    /\ timers' = timers \ {f} /\ events' = Append(events, f)
    /\ UNCHANGED <<tree, run, opts, at, aliasMap, job, errors, mem, disk, notes, debounceMap, touched, raced, runs>>

Fire(f) ==
    /\ run = "watch" /\ f \in timers
    /\ timers' = timers \ {f} /\ debounceMap' = debounceMap \ {f}
    /\ events' = Append(events, f)
    /\ UNCHANGED <<tree, run, opts, at, aliasMap, job, errors, mem, disk, notes, touched, raced, runs>>

(* processChange: a file that is gone is left to handleDelete, which changes *)
(* nothing; the others are submitted under a path of their own kind and      *)
(* without a URL.  Nothing is compiled or saved.                             *)
processChange ==
    /\ run = "watch" /\ events # <<>>
    /\ events' = Tail(events)
    /\ LET f == Head(events)
       IN  IF src[f].ver = 0 THEN UNCHANGED <<workChan, activeJobs>>
           ELSE Submit([file |-> f, key |-> WatchKey(f), url |-> <<>>, mtime |-> src[f].ver])
    /\ UNCHANGED <<tree, run, opts, at, aliasMap, busy, errors, mem, disk, notes, debounceMap,
                   timers, touched, raced, runs>>

-----------------------------------------------------------------------------
Main == OutOfTarget \/ processAlias \/ processDirectory \/ Wait
        \/ buildRouterBinary \/ saveAllCaches
Work(w) == Take(w) \/ ReadFile(w) \/ Store(w) \/ FailJob(w)
Watcher == processChange \/ \E f \in File : debounceEvent(f) \/ Fire(f)
Next == \/ \E f \in File : Edit(f)
        \/ Begin("walk") \/ Begin("watch")
        \/ Main \/ Watcher \/ Die
        \/ \E w \in Worker : Work(w)

(* The main goroutine, the workers and the watcher run; nobody has to edit,  *)
(* to start or to kill anything.                                             *)
Spec == /\ Init /\ [][Next]_vars
        /\ WF_vars(Main) /\ WF_vars(Watcher) /\ \A w \in Worker : WF_vars(Work(w))

-----------------------------------------------------------------------------
(* A cache entry whose time is not older than the file, which a build would  *)
(* skip, holds the file's bytes, in memory and on disk, whatever was edited  *)
(* while it was built and wherever a build died.                             *)
SkippedIsCurrent ==
    \A f \in File : \A c \in {mem, saved} :
        Key(f) \in DOMAIN c /\ src[f].ver # 0 /\ c[Key(f)].mtime >= src[f].ver =>
            c[Key(f)].ver = src[f].ver

(* A build that succeeds leaves a manifest with every file of its target     *)
(* that was there all along, no older than when the build began.             *)
ManifestHasTree ==
    run = "finished" =>
        \A f \in opts.there : DirOf[f] \in opts.target =>
            Key(f) \in DOMAIN manifest /\ manifest[Key(f)].ver >= opts.start[f].ver

(* After a forced build of the whole tree during which nobody edited it,     *)
(* every file has the URL that the pages on its path ask for.  (Without      *)
(* -force a file keeps the URL it was built with when another page's alias   *)
(* changes, and with -target a file is built without the aliases above the   *)
(* target.)                                                                  *)
Declared(d) == src[PageOf[d]].ver # 0 /\ src[PageOf[d]].alias # NoAlias
DeclaredUrl(f) ==
    LET path == Path[DirOf[f]]
    IN  DropRoots([i \in DOMAIN path |->
                     IF Declared(path[i]) THEN src[PageOf[path[i]]].alias ELSE path[i]])
        \o (IF f = PageOf[DirOf[f]] THEN <<>> ELSE <<f>>)
UrlsFollowAliases ==
    run = "finished" /\ opts.force /\ opts.edits = edits /\ opts.target = Dir =>
        \A f \in File : src[f].ver # 0 => manifest[Key(f)].url = DeclaredUrl(f)

(* A build ends: nobody waits for ever on the channel or the counter.        *)
BuildEnds == (run = "walk") ~> (run # "walk")

(* Whatever events the debouncing swallows, a watcher comes to hold the last *)
(* version of every file edited under it, unless its job failed or two       *)
(* workers had the file at once (then the older result may be stored last).  *)
Behind(f) ==
    /\ run = "watch" /\ f \in touched /\ src[f].ver # 0 /\ f \notin errors \cup raced
    /\ ~(WatchKey(f) \in DOMAIN mem /\ mem[WatchKey(f)].ver = src[f].ver)
WatchCatchesUp == \A f \in File : []<>~Behind(f)
=============================================================================
