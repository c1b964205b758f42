------------------------------- MODULE Reload -------------------------------
(***************************************************************************)
(* Hot reload (cmd/main/main.go): SIGHUP makes one goroutine load a fresh  *)
(* appState, publish it, replace the server's header registry and detach   *)
(* the previous state's output cache from fastdb, while requests load the  *)
(* registry (gogohttp/server.go) and then the state, and a pool write      *)
(* notifies whatever subscriptions it found (fastdb/subscribe.go).         *)
(*                                                                         *)
(* A state is named by its generation; it owns a registry, a subscription  *)
(* and an output cache, which here holds the page of one hole route.  Rows *)
(* are read as the database has them; FastDB is about the row cache.       *)
(***************************************************************************)
EXTENDS Integers, Sequences

CONSTANTS
    Request,      \* goroutines serving connections
    None,
    MaxLoads,     \* bound: states ever built
    MaxDeploys,   \* bound: manifests written by a build
    MaxWrites     \* bound: writes through the pool

ASSUME ReloadAssumption ==
    /\ MaxLoads \in Nat \ {0} /\ MaxDeploys \in Nat /\ MaxWrites \in Nat
    /\ None \notin Nat

VARIABLES
    disk,        \* the manifest a build left: its version and whether it loads
    sighup,      \* the signal channel, capacity one
    reloader,    \* the reload goroutine: pc, and the state it loads or replaces
    manifestOf,  \* generation -> version of the manifest it was loaded from
    published,   \* the state pointer
    registry,    \* the server's active registry, by generation
    subs,        \* Pool.subs
    pages,       \* generation -> its cached page
    write,       \* the statement in progress
    version,     \* committed pool writes
    req,         \* requests
    abandoned,   \* history: generations whose load failed after it had subscribed
    wanted       \* history: the loadable manifest the last SIGHUP was sent for,
                 \* 0 once a build has replaced it by one that does not load

vars == <<disk, sighup, reloader, manifestOf, published, registry, subs, pages,
          write, version, req, abandoned, wanted>>

reloadVars == <<disk, sighup, reloader, manifestOf, published, registry, subs,
                abandoned, wanted>>

Generation == DOMAIN manifestOf

Idle == [pc |-> "idle", reg |-> None, gen |-> None, since |-> 0, page |-> None]

NoWrite == [pc |-> "none", left |-> {}]

(* main: the first state is loaded, subscribed and stored before Serve. *)
Init ==
    /\ disk = [ver |-> 0, loads |-> "yes"]
    /\ sighup = FALSE
    /\ reloader = [pc |-> "wait", gen |-> None]
    /\ manifestOf = <<0>> /\ pages = <<None>>
    /\ published = 1 /\ registry = 1 /\ subs = {1}
    /\ write = NoWrite /\ version = 0
    /\ req = [r \in Request |-> Idle]
    /\ abandoned = {} /\ wanted = 0

---------------------------------------------------------------------------
(* A build replaces the manifest.  One that names a middleware the binary  *)
(* does not have fails to load only after loadState has subscribed.        *)
Deploy ==
    /\ disk.ver < MaxDeploys
    /\ \E loads \in {"yes", "unreadable", "unknown_middleware"} :
         /\ disk' = [ver |-> disk.ver + 1, loads |-> loads]
         /\ wanted' = IF loads = "yes" THEN wanted ELSE 0
    /\ UNCHANGED <<sighup, reloader, manifestOf, published, registry, subs, pages,
                   write, version, req, abandoned>>

(* Mutant: an unbuffered channel loses a signal sent during a load. *)
SighupUnbuffered ==
    /\ sighup' = (sighup \/ reloader.pc = "wait")
    /\ wanted' = IF disk.loads = "yes" THEN disk.ver ELSE wanted
    /\ UNCHANGED <<disk, reloader, manifestOf, published, registry, subs, pages,
                   write, version, req, abandoned>>

(* A signal that finds the channel full is dropped. *)
Sighup ==
    /\ sighup' = TRUE
    /\ wanted' = IF disk.loads = "yes" THEN disk.ver ELSE wanted
    /\ UNCHANGED <<disk, reloader, manifestOf, published, registry, subs, pages,
                   write, version, req, abandoned>>

ReceiveSighup ==
    /\ reloader.pc = "wait" /\ sighup /\ Len(manifestOf) < MaxLoads
    /\ sighup' = FALSE
    /\ reloader' = [pc |-> "load", gen |-> None]
    /\ UNCHANGED <<disk, manifestOf, published, registry, subs, pages,
                   write, version, req, abandoned, wanted>>

(* loadState up to the new output cache: the manifests are read. *)
LoadManifest ==
    /\ reloader.pc = "load"
    /\ IF disk.loads = "unreadable"
       THEN /\ reloader' = [pc |-> "wait", gen |-> None]
            /\ UNCHANGED <<manifestOf, pages>>
       ELSE /\ manifestOf' = Append(manifestOf, disk.ver)
            /\ pages' = Append(pages, None)
            /\ reloader' = [pc |-> IF disk.loads = "yes" THEN "subscribe"
                                   ELSE "subscribe_and_fail",
                            gen |-> Len(manifestOf) + 1]
    /\ UNCHANGED <<disk, sighup, published, registry, subs, write, version, req, abandoned, wanted>>

(* Mutant: the registry is replaced as soon as it is built. *)
SubscribeAndReplace ==
    /\ reloader.pc \in {"subscribe", "subscribe_and_fail"}
    /\ subs' = subs \cup {reloader.gen}
    /\ registry' = reloader.gen
    /\ reloader' = IF reloader.pc = "subscribe" THEN [reloader EXCEPT !.pc = "swap"]
                   ELSE [pc |-> "wait", gen |-> None]
    /\ abandoned' = IF reloader.pc = "subscribe" THEN abandoned
                    ELSE abandoned \cup {reloader.gen}
    /\ UNCHANGED <<disk, sighup, manifestOf, published, pages,
                   write, version, req, wanted>>

(* Subscribe, then the middleware check that may still abandon the load. *)
Subscribe ==
    /\ reloader.pc \in {"subscribe", "subscribe_and_fail"}
    /\ subs' = subs \cup {reloader.gen}
    /\ reloader' = IF reloader.pc = "subscribe" THEN [reloader EXCEPT !.pc = "swap"]
                   ELSE [pc |-> "wait", gen |-> None]
    /\ abandoned' = IF reloader.pc = "subscribe" THEN abandoned
                    ELSE abandoned \cup {reloader.gen}
    /\ UNCHANGED <<disk, sighup, manifestOf, published, registry, pages,
                   write, version, req, wanted>>

(* prev := state.Swap(next) *)
Swap ==
    /\ reloader.pc = "swap"
    /\ published' = reloader.gen
    /\ reloader' = [pc |-> "registry", gen |-> published]
    /\ UNCHANGED <<disk, sighup, manifestOf, registry, subs, pages,
                   write, version, req, abandoned, wanted>>

ReplaceRegistry ==
    /\ reloader.pc = "registry"
    /\ registry' = published
    /\ reloader' = [reloader EXCEPT !.pc = "close"]
    /\ UNCHANGED <<disk, sighup, manifestOf, published, subs, pages,
                   write, version, req, abandoned, wanted>>

(* Mutant: the new state's subscription is closed, not the previous one's. *)
CloseWrongSubscription ==
    /\ reloader.pc = "close"
    /\ subs' = subs \ {published}
    /\ reloader' = [pc |-> "wait", gen |-> None]
    /\ UNCHANGED <<disk, sighup, manifestOf, published, registry, pages,
                   write, version, req, abandoned, wanted>>

(* Mutant: the previous state stays subscribed. *)
CloseNothing ==
    /\ reloader.pc = "close"
    /\ reloader' = [pc |-> "wait", gen |-> None]
    /\ UNCHANGED <<disk, sighup, manifestOf, published, registry, subs, pages,
                   write, version, req, abandoned, wanted>>

(* prev.outputCacheSub.Close() *)
CloseSubscription ==
    /\ reloader.pc = "close"
    /\ subs' = subs \ {reloader.gen}
    /\ reloader' = [pc |-> "wait", gen |-> None]
    /\ UNCHANGED <<disk, sighup, manifestOf, published, registry, pages,
                   write, version, req, abandoned, wanted>>

---------------------------------------------------------------------------
(* A write: the rows are dropped, the subscriptions are read once, each is *)
(* called, and the statement commits.                                      *)
HookInvalidate ==
    /\ write.pc = "none" /\ version < MaxWrites
    /\ write' = [pc |-> "hooked", left |-> {}]
    /\ req' = [r \in Request |->
                 IF req[r].pc = "put" THEN [req[r] EXCEPT !.page.raced = TRUE] ELSE req[r]]
    /\ UNCHANGED <<reloadVars, pages, version>>

LoadSubscriptions ==
    /\ write.pc = "hooked"
    /\ write' = [pc |-> "notify", left |-> subs]
    /\ UNCHANGED <<reloadVars, pages, version, req>>

Notify(g) ==
    /\ write.pc = "notify" /\ g \in write.left
    /\ pages' = [pages EXCEPT ![g] = None]
    /\ write' = [write EXCEPT !.left = @ \ {g}]
    /\ UNCHANGED <<reloadVars, version, req>>

Commit ==
    /\ write.pc = "notify" /\ write.left = {}
    /\ write' = NoWrite /\ version' = version + 1
    /\ UNCHANGED <<reloadVars, pages, req>>

---------------------------------------------------------------------------
(* A request.  since is history: the writes that had returned before it.   *)
(* A page is raced when a write overlapped its rendering.                  *)
LoadRegistry(r) ==
    /\ req[r].pc = "idle"
    /\ req' = [req EXCEPT ![r] = [Idle EXCEPT !.pc = "dispatch", !.reg = registry,
                                              !.since = version]]
    /\ UNCHANGED <<reloadVars, pages, write, version>>

LoadState(r) ==
    /\ req[r].pc = "dispatch"
    /\ req' = [req EXCEPT ![r].pc = "lookup", ![r].gen = published]
    /\ UNCHANGED <<reloadVars, pages, write, version>>

Hit(r) ==
    /\ req[r].pc = "lookup" /\ pages[req[r].gen] # None
    /\ req' = [req EXCEPT ![r].pc = "respond", ![r].page = pages[req[r].gen]]
    /\ UNCHANGED <<reloadVars, pages, write, version>>

Render(r) ==
    /\ req[r].pc = "lookup" /\ pages[req[r].gen] = None
    /\ req' = [req EXCEPT ![r].pc = "put",
                          ![r].page = [snap |-> version, raced |-> write.pc # "none"]]
    /\ UNCHANGED <<reloadVars, pages, write, version>>

Put(r) ==
    /\ req[r].pc = "put"
    /\ pages' = [pages EXCEPT ![req[r].gen] = req[r].page]
    /\ req' = [req EXCEPT ![r].pc = "respond"]
    /\ UNCHANGED <<reloadVars, write, version>>

Respond(r) ==
    /\ req[r].pc = "respond"
    /\ req' = [req EXCEPT ![r] = Idle]
    /\ UNCHANGED <<reloadVars, pages, write, version>>

---------------------------------------------------------------------------
LoadStep == LoadManifest \/ Subscribe \/ Swap \/ ReplaceRegistry \/ CloseSubscription

Next ==
    \/ Deploy \/ Sighup \/ ReceiveSighup \/ LoadStep
    \/ HookInvalidate \/ LoadSubscriptions \/ Commit
    \/ \E g \in Generation : Notify(g)
    \/ \E r \in Request : \/ LoadRegistry(r) \/ LoadState(r) \/ Hit(r)
                          \/ Render(r) \/ Put(r) \/ Respond(r)

Spec == Init /\ [][Next]_vars

(* The reload goroutine is runnable whenever it is not blocked on the      *)
(* channel, and nothing else receives from it.                             *)
FairSpec == Spec /\ WF_vars(ReceiveSighup) /\ WF_vars(LoadStep)

---------------------------------------------------------------------------
IsPage(p) == DOMAIN p = {"snap", "raced"} /\ p.snap \in Nat /\ p.raced \in BOOLEAN

(* Type invariant. *)
TypeOK ==
    /\ disk \in [ver : Nat, loads : {"yes", "unreadable", "unknown_middleware"}]
    /\ sighup \in BOOLEAN
    /\ reloader.pc \in {"wait", "load", "subscribe", "subscribe_and_fail", "swap",
                        "registry", "close"}
    /\ reloader.gen \in Generation \cup {None}
    /\ manifestOf \in Seq(Nat) /\ Len(pages) = Len(manifestOf)
    /\ \A g \in Generation : pages[g] # None => IsPage(pages[g])
    /\ published \in Generation /\ registry \in Generation
    /\ subs \subseteq Generation /\ abandoned \subseteq Generation
    /\ write.pc \in {"none", "hooked", "notify"} /\ write.left \subseteq Generation
    /\ version \in Nat /\ wanted \in Nat
    /\ \A r \in Request :
         /\ req[r].pc \in {"idle", "dispatch", "lookup", "put", "respond"}
         /\ req[r].reg \in Generation \cup {None} /\ req[r].gen \in Generation \cup {None}
         /\ req[r].since \in Nat
         /\ req[r].page # None => IsPage(req[r].page)

(* A response never lacks a write that had returned before the request     *)
(* began, unless its page's rendering overlapped a write: however a reload *)
(* falls between the write's reading of the subscriptions and the request, *)
(* the cache the request uses was subscribed (Subscribe before Swap, Close *)
(* after it).                                                              *)
FreshAcrossReload ==
    \A r \in Request :
      req[r].pc = "respond" => req[r].page.snap >= req[r].since \/ req[r].page.raced

(* A request may combine the old registry with the new state, never the    *)
(* new registry with an older state: the state is published before the     *)
(* registry, and a request loads them in the opposite order.               *)
RegistryNeverAhead ==
    \A r \in Request : req[r].gen # None => req[r].reg <= req[r].gen

(* Between reloads exactly the published state's output cache is           *)
(* subscribed, and those of the loads that failed after Subscribe: whatever *)
(* reloads, failures and writes came before, every state that was served    *)
(* and replaced is detached.  The failed loads are the one leak there is    *)
(* (loadState returns at main.go:361 without closing what it opened at 327).*)
SubscriptionsAccounted ==
    reloader.pc = "wait" => subs = {published} \cup abandoned

(* Whatever signals arrive while a load is running, the manifest that was  *)
(* on disk at the last SIGHUP ends up served, unless it is replaced by one *)
(* that does not load: the one-place channel remembers a signal sent       *)
(* during a load, and that load cannot have read an older manifest later.  *)
LastSighupServed ==
    \A v \in 1..MaxDeploys :
      wanted = v ~> \/ manifestOf[published] >= v
                    \/ wanted = 0
                    \/ Len(manifestOf) = MaxLoads
=============================================================================
