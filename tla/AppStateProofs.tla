--------------------------- MODULE AppStateProofs ---------------------------
(***************************************************************************)
(* Proofs about the appState of cmd/main/main.go: which of them is         *)
(* published (Reload) and what a published one answers (Site).             *)
(*                                                                         *)
(* Reload, for every number of requests, reloads, builds and writes: the   *)
(* argument follows the order of the reload goroutine.  A state is         *)
(* subscribed before it is published and detached after it was replaced,   *)
(* so the published cache is subscribed at every moment; whichever write   *)
(* has read the subscriptions either still has to notify that cache or has *)
(* left nothing in it but pages a write overlapped.                        *)
(*                                                                         *)
(* Site, for every set of hosts, contents, routes and requests: the        *)
(* invariant is that every manifest on disk is one the compiler writes for *)
(* its content, that the published state was loaded from such manifests,   *)
(* and that a reply is what that state serves.  The rest is about the      *)
(* operators, in the order of the data: the compiler's sections hold every *)
(* claim; Load's trie has one leaf for each pattern or fails for cause;    *)
(* remap and the later heads leave earlier ids alone; walk finds the first *)
(* of the patterns that fit; serve answers with that claim's bytes.  Every *)
(* fold is read as the function of its intermediate results (SomethingRun),*)
(* and facts about all of them follow by Induction, a set of numbers that  *)
(* holds 0 and the successor of each member.                               *)
(***************************************************************************)
EXTENDS Reload, Site, FiniteSetTheorems, WellFoundedInduction, TLAPS

-----------------------------------------------------------------------------
(* Hot reload.                                                               *)


Page == [snap : Nat, raced : BOOLEAN]

StatesTyped ==
    /\ manifestOf \in Seq(Nat)
    /\ pages \in Seq(Page \cup {None}) /\ Len(pages) = Len(manifestOf)

PointersTyped ==
    /\ published \in Generation /\ registry \in Generation
    /\ subs \in SUBSET Generation /\ abandoned \in SUBSET Generation
    /\ version \in Nat

DiskTyped ==
    /\ disk \in [ver : Nat, loads : {"yes", "unreadable", "unknown_middleware"}]
    /\ wanted \in Nat

SignalTyped == sighup \in BOOLEAN

ReloaderTyped ==
    reloader \in [pc : {"wait", "load", "subscribe", "subscribe_and_fail", "swap",
                        "registry", "close"},
                  gen : Generation \cup {None}]

WriteTyped == write \in [pc : {"none", "hooked", "notify"}, left : SUBSET Generation]

RequestState ==
    [pc : {"idle", "dispatch", "lookup", "put", "respond"},
     reg : Generation \cup {None}, gen : Generation \cup {None},
     since : Nat, page : Page \cup {None}]

RequestsTyped == req \in [Request -> RequestState]

Typed == /\ StatesTyped /\ PointersTyped /\ DiskTyped /\ SignalTyped
         /\ ReloaderTyped /\ WriteTyped /\ RequestsTyped

(* Who is subscribed at each point of the reload. *)
Subscribed ==
    /\ published \notin abandoned
    /\ reloader.pc \in {"subscribe", "subscribe_and_fail", "swap", "registry", "close"} =>
         reloader.gen \in Generation \ ({published} \cup abandoned)
    /\ reloader.pc \in {"subscribe", "subscribe_and_fail", "swap"} => reloader.gen > published
    /\ subs = {published} \cup abandoned \cup
              (IF reloader.pc \in {"swap", "registry", "close"} THEN {reloader.gen} ELSE {})

(* What the requests loaded, against what is published. *)
Loaded ==
    /\ registry <= published
    /\ \A r \in Request :
         /\ req[r].pc # "idle" => req[r].reg \in Generation /\ req[r].reg <= published
         /\ req[r].pc \in {"lookup", "put", "respond"} => req[r].gen \in Generation
         /\ req[r].gen \in Generation =>
              req[r].pc # "idle" /\ req[r].gen <= published /\ req[r].reg <= req[r].gen

(* A page a request that began after v writes may be answered with. *)
FreshFor(p, v) == p # None => p.raced \/ p.snap >= v

(* The pages the caches hold. *)
CachesFresh ==
    /\ \A g \in Generation : g > published => pages[g] = None
    /\ FreshFor(pages[published], version)
    /\ write.pc = "notify" /\ published \notin write.left /\ pages[published] # None =>
         pages[published].raced
    /\ \A r \in Request : req[r].gen \in Generation => FreshFor(pages[req[r].gen], req[r].since)

(* The pages the requests hold. *)
RequestsFresh ==
    \A r \in Request :
      /\ req[r].since <= version
      /\ req[r].pc \in {"put", "respond"} => req[r].page \in Page
      /\ req[r].pc = "put" =>
           req[r].page.raced \/ (write.pc = "none" /\ req[r].page.snap = version)
      /\ req[r].pc = "respond" => req[r].page.raced \/ req[r].page.snap >= req[r].since

IInv == Typed /\ Subscribed /\ Loaded /\ CachesFresh /\ RequestsFresh

LEMMA InitIInv == Init => IInv
<1> SUFFICES ASSUME Init PROVE IInv
  OBVIOUS
<1>1. Generation = {1}
  BY DEF Init, Generation
<1>2. StatesTyped /\ PointersTyped
  BY <1>1 DEF Init, StatesTyped, PointersTyped
<1>3. DiskTyped /\ SignalTyped /\ ReloaderTyped /\ WriteTyped
  BY DEF Init, DiskTyped, SignalTyped, ReloaderTyped, WriteTyped, NoWrite
<1>4. RequestsTyped
  BY DEF Init, RequestsTyped, RequestState, Idle
<1>5. \A r \in Request : req[r] = Idle
  BY DEF Init
<1>6. Subscribed /\ Loaded
  BY <1>1, <1>5, ReloadAssumption DEF Init, Subscribed, Loaded, Idle
<1>7. CachesFresh /\ RequestsFresh
  BY <1>1, <1>5, ReloadAssumption DEF Init, CachesFresh, RequestsFresh, FreshFor, Idle, NoWrite
<1> QED BY <1>2, <1>3, <1>4, <1>6, <1>7 DEF IInv, Typed

(* A generation is a number, and None is not one. *)
LEMMA GenerationsAreNumbers ==
    ASSUME Typed
    PROVE  Generation = 1..Len(manifestOf) /\ Len(manifestOf) \in Nat /\ None \notin Generation
  BY ReloadAssumption DEF Typed, StatesTyped, Generation

LEMMA AppendFacts ==
    ASSUME NEW S, NEW seq \in Seq(S), NEW e \in S
    PROVE  /\ Append(seq, e) \in Seq(S)
           /\ Len(Append(seq, e)) = Len(seq) + 1
           /\ DOMAIN Append(seq, e) = 1..(Len(seq) + 1)
           /\ Append(seq, e)[Len(seq) + 1] = e
           /\ \A i \in 1..Len(seq) : Append(seq, e)[i] = seq[i]
  OBVIOUS

---------------------------------------------------------------------------
(* Builds and signals touch neither the states nor the caches. *)
LEMMA SignalIInv ==
    ASSUME IInv, Deploy \/ Sighup
    PROVE  IInv'
<1>1. /\ UNCHANGED <<reloader, manifestOf, published, registry, subs, pages, write, version,
                     req, abandoned>>
      /\ Generation' = Generation
  BY DEF Deploy, Sighup, Generation
<1>2. DiskTyped'
  <2>1. DiskTyped
    BY DEF IInv, Typed
  <2>2. CASE Deploy
    <3>1. PICK how \in {"yes", "unreadable", "unknown_middleware"} :
            /\ disk' = [ver |-> disk.ver + 1, loads |-> how]
            /\ wanted' = IF how = "yes" THEN wanted ELSE 0
      BY <2>2 DEF Deploy
    <3> QED BY <2>1, <3>1 DEF DiskTyped
  <2>3. CASE Sighup
    <3>1. disk' = disk /\ wanted' = IF disk.loads = "yes" THEN disk.ver ELSE wanted
      BY <2>3 DEF Sighup
    <3> QED BY <2>1, <3>1 DEF DiskTyped
  <2> QED BY <2>2, <2>3
<1>3. SignalTyped'
  BY DEF IInv, Typed, SignalTyped, Deploy, Sighup
<1>4. Typed'
  BY <1>1, <1>2, <1>3
  DEF IInv, Typed, StatesTyped, PointersTyped, ReloaderTyped, WriteTyped, RequestsTyped, RequestState
<1> QED BY <1>1, <1>4 DEF IInv, Subscribed, Loaded, CachesFresh, RequestsFresh

LEMMA ReceiveSighupIInv ==
    ASSUME IInv, ReceiveSighup
    PROVE  IInv'
<1>1. /\ UNCHANGED <<disk, manifestOf, published, registry, subs, pages, write, version,
                     req, abandoned, wanted>>
      /\ Generation' = Generation
      /\ reloader.pc = "wait" /\ reloader' = [pc |-> "load", gen |-> None]
      /\ sighup' = FALSE
  BY DEF ReceiveSighup, Generation
<1>2. SignalTyped' /\ ReloaderTyped'
  BY <1>1 DEF SignalTyped, ReloaderTyped
<1>3. Typed'
  BY <1>1, <1>2 DEF IInv, Typed, StatesTyped, PointersTyped, DiskTyped, WriteTyped, RequestsTyped, RequestState
<1>4. Subscribed'
  BY <1>1 DEF IInv, Subscribed
<1> QED BY <1>1, <1>3, <1>4 DEF IInv, Loaded, CachesFresh, RequestsFresh

(* The new generation is above every one in use, with an empty cache. *)
LEMMA LoadManifestIInv ==
    ASSUME IInv, LoadManifest
    PROVE  IInv'
<1>1. /\ UNCHANGED <<disk, published, registry, subs, write, version, req, abandoned, wanted>>
      /\ sighup' = sighup
      /\ DiskTyped' /\ SignalTyped'
      /\ reloader.pc = "load"
  BY DEF LoadManifest, IInv, Typed, DiskTyped, SignalTyped
<1>2. CASE disk.loads = "unreadable"
  <2>1. /\ UNCHANGED <<manifestOf, pages>> /\ Generation' = Generation
        /\ reloader' = [pc |-> "wait", gen |-> None]
    BY <1>2 DEF LoadManifest, Generation
  <2>2. ReloaderTyped'
    BY <2>1 DEF ReloaderTyped
  <2>3. Typed'
    BY <1>1, <2>1, <2>2
    DEF IInv, Typed, StatesTyped, PointersTyped, WriteTyped, RequestsTyped, RequestState
  <2>4. Subscribed'
    BY <1>1, <2>1 DEF IInv, Subscribed
  <2> QED BY <1>1, <2>1, <2>3, <2>4 DEF IInv, Loaded, CachesFresh, RequestsFresh
<1>3. CASE disk.loads # "unreadable"
  <2> DEFINE n == Len(manifestOf) + 1
  <2>1. /\ manifestOf' = Append(manifestOf, disk.ver) /\ pages' = Append(pages, None)
        /\ reloader' = [pc |-> IF disk.loads = "yes" THEN "subscribe"
                               ELSE "subscribe_and_fail",
                        gen |-> n]
    BY <1>3 DEF LoadManifest
  <2>2. /\ Generation = 1..Len(manifestOf) /\ Len(manifestOf) \in Nat
        /\ None \notin Generation
    BY GenerationsAreNumbers DEF IInv
  <2>3. disk.ver \in Nat
    BY DEF IInv, Typed, DiskTyped
  <2>4. manifestOf' \in Seq(Nat) /\ Len(manifestOf') = n /\ Generation' = 1..n
    <3>1. manifestOf \in Seq(Nat)
      BY DEF IInv, Typed, StatesTyped
    <3> QED BY <2>1, <2>3, <3>1, AppendFacts DEF Generation
  <2>5. /\ pages' \in Seq(Page \cup {None}) /\ Len(pages') = n /\ pages'[n] = None
        /\ \A g \in Generation : pages'[g] = pages[g]
    <3>1. pages \in Seq(Page \cup {None}) /\ Len(pages) = Len(manifestOf)
      BY DEF IInv, Typed, StatesTyped
    <3> DEFINE P == Page \cup {None}
    <3>2. pages \in Seq(P) /\ None \in P
      BY <3>1
    <3> HIDE DEF P
    <3>3. /\ pages' \in Seq(P) /\ Len(pages') = Len(pages) + 1
          /\ pages'[Len(pages) + 1] = None
          /\ \A g \in 1..Len(pages) : pages'[g] = pages[g]
      <4>1. pages' = Append(pages, None)
        BY <2>1
      <4> QED BY <4>1, <3>2, AppendFacts
    <3> QED BY <2>2, <3>1, <3>3 DEF P
  <2>6. Generation \subseteq Generation' /\ n \notin Generation /\ n \in Generation'
        /\ None \notin Generation'
    BY <2>2, <2>4, ReloadAssumption
  <2>7. StatesTyped'
    BY <2>4, <2>5 DEF StatesTyped
  <2>8. PointersTyped' /\ ReloaderTyped' /\ WriteTyped'
    BY <1>1, <2>1, <2>6 DEF IInv, Typed, PointersTyped, ReloaderTyped, WriteTyped
  <2>9. RequestsTyped'
    <3> DEFINE R(G) == [pc : {"idle", "dispatch", "lookup", "put", "respond"},
                        reg : G \cup {None}, gen : G \cup {None},
                        since : Nat, page : Page \cup {None}]
    <3>1. R(Generation) \subseteq R(Generation')
      BY <2>6
    <3>2. req' = req /\ req \in [Request -> R(Generation)]
      BY <1>1 DEF IInv, Typed, RequestsTyped, RequestState
    <3>3. req' \in [Request -> R(Generation')]
      <4> HIDE DEF R
      <4> QED BY <3>1, <3>2
    <3> QED BY <3>3 DEF RequestsTyped, RequestState
  <2>10. Subscribed'
    <3>1. /\ reloader'.pc \in {"subscribe", "subscribe_and_fail"} /\ reloader'.gen = n
          /\ reloader'.pc \notin {"swap", "registry", "close"}
      BY <2>1
    <3>2. published \in Generation /\ abandoned \subseteq Generation
      BY DEF IInv, Typed, PointersTyped
    <3>3. n > published
      BY <2>2, <3>2
    <3>4. subs = {published} \cup abandoned /\ published \notin abandoned
      BY <1>1 DEF IInv, Subscribed
    <3> HIDE DEF n
    <3> QED BY <1>1, <2>6, <3>1, <3>2, <3>3, <3>4 DEF Subscribed
  <2>11. \A r \in Request :
           /\ req[r].gen \in Generation' <=> req[r].gen \in Generation
           /\ req[r].reg \in Generation' <=> req[r].reg \in Generation
    BY <2>6 DEF IInv, Typed, RequestsTyped, RequestState
  <2>12. Loaded'
    BY <1>1, <2>11 DEF IInv, Loaded
  <2> HIDE DEF n
  <2>13. CachesFresh'
    <3>1. published \in Generation
      BY DEF IInv, Typed, PointersTyped
    <3>2. \A g \in Generation' : g \in Generation \/ g = n
      BY <2>2, <2>4 DEF n
    <3>3. \A g \in Generation' : g > published => pages'[g] = None
      BY <2>5, <3>2 DEF IInv, CachesFresh
    <3> QED BY <1>1, <2>5, <2>11, <3>1, <3>3 DEF IInv, CachesFresh, FreshFor
  <2> HIDE DEF n
  <2> QED BY <1>1, <2>7, <2>8, <2>9, <2>10, <2>12, <2>13 DEF IInv, Typed, RequestsFresh
<1> QED BY <1>2, <1>3

LEMMA SubscribeIInv ==
    ASSUME IInv, Subscribe
    PROVE  IInv'
<1>1. /\ UNCHANGED <<disk, manifestOf, published, registry, pages, write, version, req, wanted>>
      /\ sighup' = sighup
      /\ Generation' = Generation
  BY DEF Subscribe, Generation
<1>2. DiskTyped' /\ SignalTyped' /\ StatesTyped' /\ WriteTyped' /\ RequestsTyped'
  BY <1>1 DEF IInv, Typed, DiskTyped, SignalTyped, StatesTyped, WriteTyped, RequestsTyped, RequestState
<1>3. PointersTyped'
  BY <1>1 DEF IInv, Typed, PointersTyped, Subscribed, Subscribe
<1>4. ReloaderTyped'
  BY <1>1 DEF IInv, Typed, ReloaderTyped, Subscribed, Subscribe
<1>5. Subscribed'
  BY <1>1 DEF IInv, Typed, ReloaderTyped, Subscribed, Subscribe
<1> QED BY <1>1, <1>2, <1>3, <1>4, <1>5 DEF IInv, Typed, Loaded, CachesFresh, RequestsFresh

(* The state that is published is above the one it replaces and its cache  *)
(* is still empty.                                                         *)
LEMMA SwapIInv ==
    ASSUME IInv, Swap
    PROVE  IInv'
<1>1. /\ UNCHANGED <<disk, manifestOf, registry, subs, pages, write, version, req, abandoned,
                     wanted>>
      /\ sighup' = sighup
      /\ Generation' = Generation
  BY DEF Swap, Generation
<1>2. DiskTyped' /\ SignalTyped' /\ StatesTyped' /\ WriteTyped' /\ RequestsTyped'
  BY <1>1 DEF IInv, Typed, DiskTyped, SignalTyped, StatesTyped, WriteTyped, RequestsTyped, RequestState
<1>3. /\ Generation = 1..Len(manifestOf) /\ Len(manifestOf) \in Nat
      /\ None \notin Generation
  BY GenerationsAreNumbers DEF IInv
<1>4. /\ published' = reloader.gen /\ published' \in Generation /\ published \in Generation
      /\ published' > published /\ pages[published'] = None
      /\ reloader' = [pc |-> "registry", gen |-> published] /\ reloader.pc = "swap"
  BY DEF Swap, IInv, Typed, PointersTyped, Subscribed, CachesFresh
<1>5. PointersTyped' /\ ReloaderTyped'
  BY <1>1, <1>4 DEF IInv, Typed, PointersTyped, ReloaderTyped
<1>6. Subscribed'
  BY <1>1, <1>3, <1>4 DEF IInv, Subscribed
<1>7. Loaded'
  BY <1>1, <1>3, <1>4 DEF IInv, Typed, PointersTyped, RequestsTyped, RequestState, Loaded
<1>8. CachesFresh'
  BY <1>1, <1>3, <1>4 DEF IInv, Typed, CachesFresh, FreshFor
<1> QED BY <1>1, <1>2, <1>5, <1>6, <1>7, <1>8 DEF IInv, Typed, RequestsFresh

LEMMA ReplaceRegistryIInv ==
    ASSUME IInv, ReplaceRegistry
    PROVE  IInv'
<1>1. /\ UNCHANGED <<disk, manifestOf, published, subs, pages, write, version, req, abandoned,
                     wanted>>
      /\ sighup' = sighup
      /\ Generation' = Generation
      /\ registry' = published
      /\ reloader.pc = "registry" /\ reloader' = [reloader EXCEPT !.pc = "close"]
  BY DEF ReplaceRegistry, Generation
<1>2. DiskTyped' /\ SignalTyped' /\ StatesTyped' /\ WriteTyped' /\ RequestsTyped'
  BY <1>1 DEF IInv, Typed, DiskTyped, SignalTyped, StatesTyped, WriteTyped, RequestsTyped, RequestState
<1>3. PointersTyped' /\ ReloaderTyped'
  BY <1>1 DEF IInv, Typed, PointersTyped, ReloaderTyped
<1>4. Subscribed'
  BY <1>1 DEF IInv, Typed, ReloaderTyped, Subscribed
<1>5. Loaded'
  BY <1>1, GenerationsAreNumbers DEF IInv, Typed, PointersTyped, Loaded
<1> QED BY <1>1, <1>2, <1>3, <1>4, <1>5 DEF IInv, Typed, CachesFresh, RequestsFresh

LEMMA CloseSubscriptionIInv ==
    ASSUME IInv, CloseSubscription
    PROVE  IInv'
<1>1. /\ UNCHANGED <<disk, manifestOf, published, registry, pages, write, version, req, abandoned,
                     wanted>>
      /\ sighup' = sighup
      /\ Generation' = Generation
      /\ reloader.pc = "close" /\ reloader' = [pc |-> "wait", gen |-> None]
      /\ subs' = subs \ {reloader.gen}
  BY DEF CloseSubscription, Generation
<1>2. DiskTyped' /\ SignalTyped' /\ StatesTyped' /\ WriteTyped' /\ RequestsTyped'
  BY <1>1 DEF IInv, Typed, DiskTyped, SignalTyped, StatesTyped, WriteTyped, RequestsTyped, RequestState
<1>3. PointersTyped' /\ ReloaderTyped'
  BY <1>1 DEF IInv, Typed, PointersTyped, ReloaderTyped
<1>4. Subscribed'
  BY <1>1 DEF IInv, Subscribed
<1> QED BY <1>1, <1>2, <1>3, <1>4 DEF IInv, Typed, Loaded, CachesFresh, RequestsFresh

---------------------------------------------------------------------------
(* A write touches no state, pointer or subscription. *)
LEMMA ReloadUnchanged ==
    ASSUME IInv, UNCHANGED reloadVars, version' \in Nat
    PROVE  /\ Generation' = Generation
           /\ published' = published /\ published \in Generation
           /\ Generation = 1..Len(manifestOf) /\ Len(manifestOf) \in Nat
           /\ None \notin Generation
           /\ PointersTyped' /\ DiskTyped' /\ SignalTyped' /\ ReloaderTyped'
           /\ Subscribed'
<1>1. /\ UNCHANGED <<disk, reloader, manifestOf, published, registry, subs, abandoned, wanted>>
      /\ sighup' = sighup
      /\ Generation' = Generation
  BY DEF reloadVars, Generation
<1>2. PointersTyped' /\ DiskTyped' /\ SignalTyped' /\ ReloaderTyped'
  BY <1>1 DEF IInv, Typed, PointersTyped, DiskTyped, SignalTyped, ReloaderTyped
<1>3. Subscribed'
  BY <1>1 DEF IInv, Subscribed
<1> QED BY <1>1, <1>2, <1>3, GenerationsAreNumbers DEF IInv, Typed, PointersTyped

(* Every page that is being rendered is raced from here on. *)
LEMMA HookInvalidateIInv ==
    ASSUME IInv, HookInvalidate
    PROVE  IInv'
<1>1. /\ UNCHANGED reloadVars /\ pages' = pages /\ version' = version /\ version' \in Nat
      /\ write' = [pc |-> "hooked", left |-> {}]
      /\ manifestOf' = manifestOf /\ registry' = registry
  BY DEF HookInvalidate, reloadVars, IInv, Typed, PointersTyped
<1>2. /\ Generation' = Generation /\ published' = published /\ Subscribed'
      /\ PointersTyped' /\ DiskTyped' /\ SignalTyped' /\ ReloaderTyped'
  BY <1>1, ReloadUnchanged
<1>3. StatesTyped' /\ WriteTyped'
  BY <1>1 DEF IInv, Typed, StatesTyped, WriteTyped
<1>4. ASSUME NEW r \in Request
      PROVE  /\ req'[r] \in RequestState
             /\ req'[r].pc = req[r].pc /\ req'[r].reg = req[r].reg
             /\ req'[r].gen = req[r].gen /\ req'[r].since = req[r].since
             /\ req[r].pc = "put" => req'[r].page \in Page /\ req'[r].page.raced
             /\ req[r].pc # "put" => req'[r].page = req[r].page
  <2>1. req'[r] = IF req[r].pc = "put" THEN [req[r] EXCEPT !.page.raced = TRUE] ELSE req[r]
    BY DEF HookInvalidate
  <2>2. req[r] \in RequestState
    BY DEF IInv, Typed, RequestsTyped, RequestState
  <2>3. CASE req[r].pc = "put"
    <3>1. req[r].page \in Page
      BY <2>3 DEF IInv, RequestsFresh
    <3>2. /\ [req[r].page EXCEPT !.raced = TRUE] \in Page
          /\ [req[r].page EXCEPT !.raced = TRUE].raced
      BY <3>1 DEF Page
    <3>3. req'[r] = [req[r] EXCEPT !.page = [req[r].page EXCEPT !.raced = TRUE]]
      BY <2>1, <2>3
    <3> QED BY <2>2, <2>3, <3>2, <3>3 DEF RequestState
  <2>4. CASE req[r].pc # "put"
    BY <2>1, <2>2, <2>4 DEF RequestState
  <2> QED BY <2>3, <2>4
<1>5. RequestsTyped'
  BY <1>2, <1>4 DEF RequestsTyped, RequestState, HookInvalidate
<1>6. Loaded'
  BY <1>1, <1>2, <1>4 DEF IInv, Loaded
<1>7. CachesFresh'
  BY <1>1, <1>2, <1>4 DEF IInv, CachesFresh
<1>8. RequestsFresh'
  BY <1>1, <1>4 DEF IInv, RequestsFresh
<1> QED BY <1>2, <1>3, <1>5, <1>6, <1>7, <1>8 DEF IInv, Typed

(* The published cache is among the subscriptions read here. *)
LEMMA LoadSubscriptionsIInv ==
    ASSUME IInv, LoadSubscriptions
    PROVE  IInv'
<1>1. /\ UNCHANGED reloadVars /\ pages' = pages /\ version' = version /\ version' \in Nat
      /\ req' = req
      /\ write.pc = "hooked" /\ write' = [pc |-> "notify", left |-> subs]
      /\ manifestOf' = manifestOf /\ registry' = registry
  BY DEF LoadSubscriptions, reloadVars, IInv, Typed, PointersTyped
<1>2. /\ Generation' = Generation /\ published' = published /\ Subscribed'
      /\ PointersTyped' /\ DiskTyped' /\ SignalTyped' /\ ReloaderTyped'
  BY <1>1, ReloadUnchanged
<1>3. published \in subs /\ subs \subseteq Generation
  BY DEF IInv, Typed, PointersTyped, Subscribed
<1>4. StatesTyped' /\ WriteTyped' /\ RequestsTyped'
  BY <1>1, <1>2, <1>3 DEF IInv, Typed, StatesTyped, WriteTyped, RequestsTyped, RequestState
<1>5. Loaded' /\ RequestsFresh'
  BY <1>1, <1>2 DEF IInv, Loaded, RequestsFresh
<1>6. CachesFresh'
  BY <1>1, <1>2, <1>3 DEF IInv, CachesFresh
<1> QED BY <1>2, <1>4, <1>5, <1>6 DEF IInv, Typed

LEMMA NotifyIInv ==
    ASSUME IInv, NEW g \in Generation, Notify(g)
    PROVE  IInv'
<1>1. /\ UNCHANGED reloadVars /\ version' = version /\ version' \in Nat
      /\ req' = req
      /\ write.pc = "notify" /\ write' = [write EXCEPT !.left = @ \ {g}]
      /\ pages' = [pages EXCEPT ![g] = None]
      /\ manifestOf' = manifestOf /\ registry' = registry
  BY DEF Notify, reloadVars, IInv, Typed, PointersTyped
<1>2. /\ Generation' = Generation /\ published' = published /\ Subscribed'
      /\ published \in Generation /\ Generation = 1..Len(manifestOf)
      /\ PointersTyped' /\ DiskTyped' /\ SignalTyped' /\ ReloaderTyped'
  BY <1>1, ReloadUnchanged
<1>3. /\ pages' \in Seq(Page \cup {None}) /\ Len(pages') = Len(pages)
      /\ \A h \in Generation : pages'[h] = IF h = g THEN None ELSE pages[h]
  <2> DEFINE P == Page \cup {None}
  <2>1. pages \in Seq(P) /\ None \in P /\ Len(pages) = Len(manifestOf)
    BY DEF IInv, Typed, StatesTyped
  <2> HIDE DEF P
  <2>2. /\ pages' \in Seq(P) /\ Len(pages') = Len(pages)
        /\ \A h \in Generation : pages'[h] = IF h = g THEN None ELSE pages[h]
    BY <1>1, <1>2, <2>1
  <2> QED BY <2>2 DEF P
<1>4. StatesTyped' /\ WriteTyped' /\ RequestsTyped'
  BY <1>1, <1>2, <1>3 DEF IInv, Typed, StatesTyped, WriteTyped, RequestsTyped, RequestState
<1>5. Loaded' /\ RequestsFresh'
  BY <1>1, <1>2 DEF IInv, Typed, WriteTyped, Loaded, RequestsFresh
<1>6. write'.left = write.left \ {g}
  BY <1>1 DEF IInv, Typed, WriteTyped
<1>7. CachesFresh'
  BY <1>1, <1>2, <1>3, <1>6 DEF IInv, CachesFresh, FreshFor
<1> QED BY <1>2, <1>4, <1>5, <1>7 DEF IInv, Typed

(* The version grows only when the published cache has been notified. *)
LEMMA CommitIInv ==
    ASSUME IInv, Commit
    PROVE  IInv'
<1>1. /\ UNCHANGED reloadVars /\ pages' = pages /\ req' = req
      /\ version \in Nat /\ version' = version + 1 /\ version' \in Nat
      /\ write.pc = "notify" /\ write.left = {} /\ write' = [pc |-> "none", left |-> {}]
      /\ manifestOf' = manifestOf /\ registry' = registry
  BY DEF Commit, NoWrite, reloadVars, IInv, Typed, PointersTyped
<1>2. /\ Generation' = Generation /\ published' = published /\ Subscribed'
      /\ PointersTyped' /\ DiskTyped' /\ SignalTyped' /\ ReloaderTyped'
  BY <1>1, ReloadUnchanged
<1>3. StatesTyped' /\ WriteTyped' /\ RequestsTyped'
  BY <1>1, <1>2 DEF IInv, Typed, StatesTyped, WriteTyped, RequestsTyped, RequestState
<1>4. Loaded'
  BY <1>1, <1>2 DEF IInv, Loaded
<1>5. CachesFresh'
  BY <1>1, <1>2 DEF IInv, CachesFresh, FreshFor
<1>6. RequestsFresh'
  BY <1>1 DEF IInv, Typed, RequestsTyped, RequestState, RequestsFresh
<1> QED BY <1>2, <1>3, <1>4, <1>5, <1>6 DEF IInv, Typed

---------------------------------------------------------------------------
(* A step of a request that leaves the caches alone preserves everything   *)
(* that is not about the request itself.                                   *)
LEMMA RequestStep ==
    ASSUME IInv, NEW r \in Request, NEW q,
           UNCHANGED <<reloadVars, pages, write, version>>,
           req' = [req EXCEPT ![r] = q],
           q \in RequestState,
           q.pc # "idle" => q.reg \in Generation /\ q.reg <= published,
           q.pc \in {"lookup", "put", "respond"} => q.gen \in Generation,
           q.gen \in Generation =>
             /\ q.pc # "idle" /\ q.gen <= published /\ q.reg <= q.gen
             /\ FreshFor(pages[q.gen], q.since),
           q.since <= version,
           q.pc \in {"put", "respond"} => q.page \in Page,
           q.pc = "put" => q.page.raced \/ (write.pc = "none" /\ q.page.snap = version),
           q.pc = "respond" => q.page.raced \/ q.page.snap >= q.since
    PROVE  IInv'
<1>1. /\ UNCHANGED reloadVars /\ pages' = pages /\ write' = write /\ version' = version
      /\ version' \in Nat /\ manifestOf' = manifestOf /\ registry' = registry
  BY DEF reloadVars, IInv, Typed, PointersTyped
<1>2. /\ Generation' = Generation /\ published' = published /\ Subscribed'
      /\ PointersTyped' /\ DiskTyped' /\ SignalTyped' /\ ReloaderTyped'
  BY <1>1, ReloadUnchanged
<1>3. StatesTyped' /\ WriteTyped' /\ RequestsTyped'
  BY <1>1, <1>2 DEF IInv, Typed, StatesTyped, WriteTyped, RequestsTyped, RequestState
<1>4. req'[r] = q /\ \A s \in Request : s # r => req'[s] = req[s]
  BY DEF IInv, Typed, RequestsTyped, RequestState
<1>5. Loaded'
  BY <1>1, <1>2, <1>4 DEF IInv, Loaded
<1>6. CachesFresh'
  BY <1>1, <1>2, <1>4 DEF IInv, CachesFresh
<1>7. RequestsFresh'
  BY <1>1, <1>4 DEF IInv, RequestsFresh
<1> QED BY <1>2, <1>3, <1>5, <1>6, <1>7 DEF IInv, Typed

LEMMA LoadRegistryIInv ==
    ASSUME IInv, NEW r \in Request, LoadRegistry(r)
    PROVE  IInv'
<1> DEFINE q == [Idle EXCEPT !.pc = "dispatch", !.reg = registry, !.since = version]
<1>1. req' = [req EXCEPT ![r] = q] /\ UNCHANGED <<reloadVars, pages, write, version>>
  BY DEF LoadRegistry
<1>2. /\ registry \in Generation /\ version \in Nat /\ registry <= published
      /\ None \notin Generation /\ version <= version
  BY GenerationsAreNumbers DEF IInv, Typed, PointersTyped, Loaded
<1>3. q \in RequestState
  BY <1>2 DEF Idle, RequestState
<1>4. q.pc = "dispatch" /\ q.reg = registry /\ q.gen = None /\ q.since = version
  BY DEF Idle
<1> HIDE DEF q
<1> QED BY <1>1, <1>2, <1>3, <1>4, RequestStep

LEMMA LoadStateIInv ==
    ASSUME IInv, NEW r \in Request, LoadState(r)
    PROVE  IInv'
<1> DEFINE q == [req[r] EXCEPT !.pc = "lookup", !.gen = published]
<1>1. req' = [req EXCEPT ![r] = q] /\ UNCHANGED <<reloadVars, pages, write, version>>
  BY DEF LoadState
<1>2. /\ published \in Generation /\ version \in Nat /\ Generation = 1..Len(manifestOf)
      /\ Len(manifestOf) \in Nat
  BY GenerationsAreNumbers DEF IInv, Typed, PointersTyped
<1>3. /\ q \in RequestState
      /\ q.pc = "lookup" /\ q.reg = req[r].reg /\ q.gen = published
      /\ q.since = req[r].since /\ q.since \in Nat
  BY <1>2 DEF IInv, Typed, RequestsTyped, RequestState
<1>4. /\ req[r].reg \in Generation /\ req[r].reg <= published /\ req[r].since <= version
  BY DEF LoadState, IInv, Loaded, RequestsFresh
<1>5. FreshFor(pages[published], req[r].since)
  <2>1. CASE pages[published] = None
    BY <2>1 DEF FreshFor
  <2>2. CASE pages[published] # None
    <3>1. pages[published] \in Page
      BY <1>2, <2>2 DEF IInv, Typed, StatesTyped
    <3>2. pages[published].snap \in Nat
      BY <3>1 DEF Page
    <3> QED BY <1>2, <1>3, <1>4, <2>2, <3>2 DEF IInv, CachesFresh, FreshFor
  <2> QED BY <2>1, <2>2
<1>6. published <= published
  BY <1>2
<1> HIDE DEF q
<1> QED BY <1>1, <1>2, <1>3, <1>4, <1>5, <1>6, RequestStep

LEMMA HitIInv ==
    ASSUME IInv, NEW r \in Request, Hit(r)
    PROVE  IInv'
<1> DEFINE q == [req[r] EXCEPT !.pc = "respond", !.page = pages[req[r].gen]]
<1>1. req' = [req EXCEPT ![r] = q] /\ UNCHANGED <<reloadVars, pages, write, version>>
  BY DEF Hit
<1>2. req[r].gen \in Generation /\ pages[req[r].gen] # None
  BY DEF Hit, IInv, Loaded
<1>3. pages[req[r].gen] \in Page
  BY <1>2, GenerationsAreNumbers DEF IInv, Typed, StatesTyped
<1>4. /\ q \in RequestState
      /\ q.pc = "respond" /\ q.reg = req[r].reg /\ q.gen = req[r].gen
      /\ q.since = req[r].since /\ q.page = pages[req[r].gen]
  BY <1>3 DEF IInv, Typed, RequestsTyped, RequestState
<1>5. /\ req[r].reg \in Generation /\ req[r].reg <= published /\ req[r].since <= version
      /\ req[r].gen <= published /\ req[r].reg <= req[r].gen
  BY <1>2 DEF Hit, IInv, Loaded, RequestsFresh
<1>6. FreshFor(pages[req[r].gen], req[r].since)
  BY <1>2 DEF IInv, CachesFresh
<1> HIDE DEF q
<1> QED BY <1>1, <1>2, <1>3, <1>4, <1>5, <1>6, RequestStep DEF FreshFor

LEMMA RenderIInv ==
    ASSUME IInv, NEW r \in Request, Render(r)
    PROVE  IInv'
<1> DEFINE p == [snap |-> version, raced |-> write.pc # "none"]
           q == [req[r] EXCEPT !.pc = "put", !.page = p]
<1>1. req' = [req EXCEPT ![r] = q] /\ UNCHANGED <<reloadVars, pages, write, version>>
  BY DEF Render
<1>2. req[r].gen \in Generation /\ version \in Nat
  BY DEF Render, IInv, Typed, PointersTyped, Loaded
<1>3. p \in Page /\ p.snap = version /\ (p.raced \/ write.pc = "none")
  BY <1>2 DEF Page
<1>4. /\ q \in RequestState
      /\ q.pc = "put" /\ q.reg = req[r].reg /\ q.gen = req[r].gen
      /\ q.since = req[r].since /\ q.page = p
  <2> HIDE DEF p
  <2> QED BY <1>3 DEF IInv, Typed, RequestsTyped, RequestState
<1>5. /\ req[r].reg \in Generation /\ req[r].reg <= published /\ req[r].since <= version
      /\ req[r].gen <= published /\ req[r].reg <= req[r].gen
  BY <1>2 DEF Render, IInv, Loaded, RequestsFresh
<1>6. FreshFor(pages[req[r].gen], req[r].since)
  BY <1>2 DEF IInv, CachesFresh
<1> HIDE DEF p, q
<1> QED BY <1>1, <1>2, <1>3, <1>4, <1>5, <1>6, RequestStep

LEMMA RespondIInv ==
    ASSUME IInv, NEW r \in Request, Respond(r)
    PROVE  IInv'
<1>1. req' = [req EXCEPT ![r] = Idle] /\ UNCHANGED <<reloadVars, pages, write, version>>
  BY DEF Respond
<1>2. version \in Nat /\ None \notin Generation /\ 0 <= version
  BY GenerationsAreNumbers DEF IInv, Typed, PointersTyped
<1>3. /\ Idle \in RequestState
      /\ Idle.pc = "idle" /\ Idle.gen = None /\ Idle.since = 0
  BY DEF Idle, RequestState
<1> QED BY <1>1, <1>2, <1>3, RequestStep

(* A page goes into the cache of the state the request loaded. *)
LEMMA PutIInv ==
    ASSUME IInv, NEW r \in Request, Put(r)
    PROVE  IInv'
<1> DEFINE p == req[r].page
           g == req[r].gen
<1>1. /\ UNCHANGED reloadVars /\ write' = write /\ version' = version
      /\ version' \in Nat /\ manifestOf' = manifestOf /\ registry' = registry
      /\ pages' = [pages EXCEPT ![g] = p]
      /\ req' = [req EXCEPT ![r].pc = "respond"]
      /\ req[r].pc = "put"
  BY DEF Put, reloadVars, IInv, Typed, PointersTyped
<1>2. /\ Generation' = Generation /\ published' = published /\ Subscribed'
      /\ published \in Generation /\ Generation = 1..Len(manifestOf)
      /\ Len(manifestOf) \in Nat
      /\ PointersTyped' /\ DiskTyped' /\ SignalTyped' /\ ReloaderTyped'
  BY <1>1, ReloadUnchanged
<1>3. /\ g \in Generation /\ g <= published /\ p \in Page
      /\ p.raced \/ (write.pc = "none" /\ p.snap = version)
  BY <1>1 DEF IInv, Loaded, RequestsFresh
<1>4. /\ pages' \in Seq(Page \cup {None}) /\ Len(pages') = Len(pages)
      /\ \A h \in Generation : pages'[h] = IF h = g THEN p ELSE pages[h]
  <2> DEFINE P == Page \cup {None}
  <2>1. pages \in Seq(P) /\ p \in P /\ Len(pages) = Len(manifestOf)
    BY <1>3 DEF IInv, Typed, StatesTyped
  <2> HIDE DEF P, p, g
  <2>2. /\ pages' \in Seq(P) /\ Len(pages') = Len(pages)
        /\ \A h \in Generation : pages'[h] = IF h = g THEN p ELSE pages[h]
    BY <1>1, <1>2, <1>3, <2>1
  <2> QED BY <2>2 DEF P
<1>5. /\ \A s \in Request : s # r => req'[s] = req[s]
      /\ req'[r] = [req[r] EXCEPT !.pc = "respond"]
      /\ req'[r].pc = "respond" /\ req'[r].reg = req[r].reg /\ req'[r].gen = g
      /\ req'[r].since = req[r].since /\ req'[r].page = p
      /\ req[r].since \in Nat
  BY <1>1 DEF IInv, Typed, RequestsTyped, RequestState
<1>6. StatesTyped' /\ WriteTyped' /\ RequestsTyped'
  <2>1. RequestsTyped'
    <3> DEFINE q == [req[r] EXCEPT !.pc = "respond"]
    <3>1. /\ req' = [req EXCEPT ![r] = q]
          /\ q \in RequestState
      BY <1>1 DEF IInv, Typed, RequestsTyped, RequestState
    <3> HIDE DEF q
    <3> QED BY <1>2, <3>1 DEF IInv, Typed, RequestsTyped, RequestState
  <2> QED BY <1>1, <1>2, <1>4, <2>1 DEF IInv, Typed, StatesTyped, WriteTyped
<1>7. Loaded'
  BY <1>1, <1>2, <1>5 DEF IInv, Loaded
<1>8. \A s \in Request : req'[s].since = req[s].since /\ req'[s].gen = req[s].gen
                         /\ req[s].since <= version
  BY <1>5 DEF IInv, RequestsFresh
<1>9. \A v \in Nat : v <= version => FreshFor(p, v)
  BY <1>1, <1>3 DEF FreshFor, Page
<1>10. \A s \in Request : req[s].since \in Nat
  BY DEF IInv, Typed, RequestsTyped, RequestState
<1>11. CachesFresh'
  <2> HIDE DEF p, g
  <2>1. \A h \in Generation : h > published => pages'[h] = None
    BY <1>2, <1>3, <1>4 DEF IInv, CachesFresh
  <2>2. version <= version
    BY <1>1
  <2>3. FreshFor(pages'[published], version)
    BY <1>1, <1>2, <1>4, <1>9, <2>2 DEF IInv, CachesFresh
  <2>4. write.pc = "notify" /\ published \notin write.left /\ pages'[published] # None =>
          pages'[published].raced
    BY <1>2, <1>3, <1>4 DEF IInv, CachesFresh
  <2>5. \A s \in Request : req[s].gen \in Generation => FreshFor(pages'[req[s].gen], req[s].since)
    BY <1>4, <1>8, <1>9, <1>10 DEF IInv, CachesFresh
  <2> QED BY <1>1, <1>2, <1>8, <2>1, <2>3, <2>4, <2>5 DEF CachesFresh
<1>12. RequestsFresh'
  <2>1. p.raced \/ p.snap >= req[r].since
    BY <1>1, <1>3, <1>5, <1>8 DEF Page
  <2> QED BY <1>1, <1>3, <1>5, <2>1 DEF IInv, RequestsFresh
<1> QED BY <1>2, <1>6, <1>7, <1>11, <1>12 DEF IInv, Typed

---------------------------------------------------------------------------
LEMMA NextIInv == IInv /\ [Next]_vars => IInv'
<1> SUFFICES ASSUME IInv, [Next]_vars PROVE IInv'
  OBVIOUS
<1>1. CASE Deploy \/ Sighup \/ ReceiveSighup
  BY <1>1, SignalIInv, ReceiveSighupIInv
<1>2. CASE LoadStep
  BY <1>2, LoadManifestIInv, SubscribeIInv, SwapIInv, ReplaceRegistryIInv, CloseSubscriptionIInv
  DEF LoadStep
<1>3. CASE HookInvalidate \/ LoadSubscriptions \/ Commit
  BY <1>3, HookInvalidateIInv, LoadSubscriptionsIInv, CommitIInv
<1>4. CASE \E g \in Generation : Notify(g)
  BY <1>4, NotifyIInv
<1>5. CASE \E r \in Request : \/ LoadRegistry(r) \/ LoadState(r) \/ Hit(r)
                              \/ Render(r) \/ Put(r) \/ Respond(r)
  BY <1>5, LoadRegistryIInv, LoadStateIInv, HitIInv, RenderIInv, PutIInv, RespondIInv
<1>6. CASE UNCHANGED vars
  <2>1. /\ UNCHANGED <<disk, reloader, manifestOf, published, registry, subs, pages,
                       write, version, req, abandoned, wanted>>
        /\ sighup' = sighup /\ Generation' = Generation
    BY <1>6 DEF vars, Generation
  <2>2. Typed'
    BY <2>1 DEF IInv, Typed, StatesTyped, PointersTyped, DiskTyped, SignalTyped, ReloaderTyped,
                WriteTyped, RequestsTyped, RequestState
  <2> QED BY <2>1, <2>2 DEF IInv, Subscribed, Loaded, CachesFresh, RequestsFresh
<1> QED BY <1>1, <1>2, <1>3, <1>4, <1>5, <1>6 DEF Next

LEMMA SpecIInv == Spec => []IInv
  BY InitIInv, NextIInv, PTL DEF Spec

(* The state of the reload goroutine, the registries and caches, the write *)
(* and the requests is well typed at every moment.                         *)
THEOREM TypeCorrect == Spec => []TypeOK
<1>1. IInv => TypeOK
  <2> SUFFICES ASSUME IInv PROVE TypeOK
    OBVIOUS
  <2>1. \A p \in Page : IsPage(p)
    BY DEF Page, IsPage
  <2>2. \A g \in Generation : pages[g] # None => IsPage(pages[g])
    BY <2>1, GenerationsAreNumbers DEF IInv, Typed, StatesTyped
  <2>3. \A r \in Request :
          /\ req[r].pc \in {"idle", "dispatch", "lookup", "put", "respond"}
          /\ req[r].reg \in Generation \cup {None} /\ req[r].gen \in Generation \cup {None}
          /\ req[r].since \in Nat
          /\ req[r].page # None => IsPage(req[r].page)
    BY <2>1 DEF IInv, Typed, RequestsTyped, RequestState
  <2>4. sighup \in BOOLEAN
    BY DEF IInv, Typed, SignalTyped
  <2>5. /\ disk \in [ver : Nat, loads : {"yes", "unreadable", "unknown_middleware"}]
        /\ reloader.pc \in {"wait", "load", "subscribe", "subscribe_and_fail", "swap",
                            "registry", "close"}
        /\ reloader.gen \in Generation \cup {None}
        /\ write.pc \in {"none", "hooked", "notify"} /\ write.left \subseteq Generation
        /\ wanted \in Nat
    BY DEF IInv, Typed, DiskTyped, ReloaderTyped, WriteTyped
  <2>6. /\ manifestOf \in Seq(Nat) /\ Len(pages) = Len(manifestOf)
        /\ published \in Generation /\ registry \in Generation
        /\ subs \subseteq Generation /\ abandoned \subseteq Generation
        /\ version \in Nat
    BY DEF IInv, Typed, StatesTyped, PointersTyped
  <2> QED BY <2>2, <2>3, <2>4, <2>5, <2>6 DEF TypeOK
<1> QED BY <1>1, SpecIInv, PTL

(* However reloads, writes and requests interleave, a response lacks no    *)
(* write that had returned before its request began unless a write         *)
(* overlapped the rendering (Subscribe before Swap, Close after it).       *)
THEOREM Freshness == Spec => []FreshAcrossReload
<1>1. IInv => FreshAcrossReload
  BY DEF IInv, RequestsFresh, FreshAcrossReload
<1> QED BY <1>1, SpecIInv, PTL

(* No request serves an older state with the registry of a newer one: the  *)
(* reload publishes state then registry, a request loads them in reverse.  *)
THEOREM RegistryOrder == Spec => []RegistryNeverAhead
<1>1. IInv => RegistryNeverAhead
  BY DEF IInv, Typed, RequestsTyped, RequestState, Loaded, RegistryNeverAhead
<1> QED BY <1>1, SpecIInv, PTL

(* Between reloads the pool's subscriptions are the published state's and  *)
(* those that loads failing after Subscribe left behind, and no others.    *)
THEOREM SubscriptionsExact == Spec => []SubscriptionsAccounted
<1>1. IInv => SubscriptionsAccounted
  BY DEF IInv, Subscribed, SubscriptionsAccounted
<1> QED BY <1>1, SpecIInv, PTL

-----------------------------------------------------------------------------
(* From build results to replies: induction, folds and sequences.            *)

LEMMA Induction ==
    ASSUME NEW G, 0 \in G, \A n \in Nat : n \in G => n + 1 \in G, NEW m \in Nat
    PROVE  m \in G
<1> DEFINE R == {p \in Nat \X Nat : p[1] < p[2]}
<1> DEFINE B == Nat \ G
<1> SUFFICES ASSUME B # {} PROVE FALSE
  OBVIOUS
<1>1. IsWellFoundedOn(R, Nat)
  <2>1. R = OpToRel(<, Nat)
    BY DEF OpToRel
  <2> HIDE DEF R
  <2> QED BY <2>1, NatLessThanWellFounded
<1>2. PICK n \in B : \A k \in B : ~(<<k, n>> \in R)
  <2>1. B \subseteq Nat
    OBVIOUS
  <2> HIDE DEF R, B
  <2> QED BY <1>1, <2>1, WFMin
<1>3. n # 0 /\ n - 1 \in Nat /\ (n - 1) + 1 = n
  OBVIOUS
<1>4. n - 1 \in B /\ <<n - 1, n>> \in R
  BY <1>3
<1> QED BY <1>2, <1>4

-----------------------------------------------------------------------------
(* A fold takes the largest index first: Max of a set of indices.            *)
LEMMA MaxIn ==
    ASSUME NEW n \in Nat, NEW U \in SUBSET (1..n), U # {}
    PROVE  Max(U) \in U /\ \A y \in U : Max(U) >= y
<1> DEFINE G == {m \in Nat : \A V \in SUBSET (1..m) : V # {} => \E x \in V : \A y \in V : x >= y}
<1>1. 0 \in G
  BY 1..0 = {}
<1>2. ASSUME NEW m \in Nat, m \in G PROVE m + 1 \in G
  <2> SUFFICES ASSUME NEW V \in SUBSET (1..(m + 1)), V # {}
               PROVE  \E x \in V : \A y \in V : x >= y
    OBVIOUS
  <2>1. CASE m + 1 \in V
    BY <2>1
  <2>2. CASE m + 1 \notin V
    <3>1. V \in SUBSET (1..m)
      BY <2>2
    <3> QED BY <1>2, <3>1
  <2> QED BY <2>1, <2>2
<1> HIDE DEF G
<1>3. n \in G
  BY <1>1, <1>2, Induction
<1>4. \E x \in U : \A y \in U : x >= y
  BY <1>3 DEF G
<1> QED BY <1>4 DEF Max

LEMMA TopOf ==
    ASSUME NEW n \in Nat, NEW U \in SUBSET (1..(n + 1)), n + 1 \in U
    PROVE  Max(U) = n + 1 /\ U \ {n + 1} \in SUBSET (1..n)
<1> DEFINE m == Max(U)
<1>1. m \in U /\ \A y \in U : m >= y
  BY MaxIn, n + 1 \in Nat
<1> HIDE DEF m
<1>2. m \in Int /\ n + 1 >= m /\ m >= n + 1
  BY <1>1
<1>3. m = n + 1
  BY <1>2
<1>4. Max(U) = n + 1
  BY <1>3 DEF m
<1> QED BY <1>4

LEMMA TopOfPrefix ==
    ASSUME NEW n \in Nat \ {0}
    PROVE  Max(1..n) = n /\ (1..n) \ {n} = 1..(n - 1) /\ 1..n # {}
<1>1. n - 1 \in Nat /\ (n - 1) + 1 = n /\ 1..n \in SUBSET (1..((n - 1) + 1)) /\ n \in 1..n
  OBVIOUS
<1>2. Max(1..n) = n
  BY <1>1, TopOf
<1> QED BY <1>1, <1>2

-----------------------------------------------------------------------------
(* Each fold of the model as the run of its accumulator.                     *)
(* The registry, head by head. *)
InternTable(reg, heads, n, h) ==
    h = [U \in SUBSET (1..n) |->
            IF U = {} THEN reg ELSE internMime(h[U \ {Max(U)}], heads[Max(U)])]
InternRun(reg, heads, r) ==
    /\ DOMAIN r = 0..Len(heads)
    /\ r[0] = reg
    /\ \A n \in 1..Len(heads) : r[n] = internMime(r[n - 1], heads[n])

LEMMA InternRuns ==
    ASSUME NEW reg, NEW heads, heads \in Seq(ToSet(heads)), Len(heads) \in Nat
    PROVE  \E r : InternRun(reg, heads, r) /\ internAll(reg, heads) = r[Len(heads)]
<1> DEFINE G == {n \in Nat : \E h : InternTable(reg, heads, n, h)}
<1>1. 0 \in G
  <2>1. InternTable(reg, heads, 0, [U \in SUBSET (1..0) |-> reg])
    BY 1..0 = {} DEF InternTable
  <2> QED BY <2>1
<1>2. ASSUME NEW n \in Nat, n \in G PROVE n + 1 \in G
  <2>1. PICK h : InternTable(reg, heads, n, h)
    BY <1>2
  <2> DEFINE g == [U \in SUBSET (1..(n + 1)) |->
                     IF n + 1 \in U THEN internMime(h[U \ {n + 1}], heads[n + 1]) ELSE h[U]]
  <2>2. ASSUME NEW U \in SUBSET (1..(n + 1))
        PROVE  g[U] = IF U = {} THEN reg ELSE internMime(g[U \ {Max(U)}], heads[Max(U)])
    <3>1. CASE n + 1 \in U
      <4>1. Max(U) = n + 1 /\ U \ {n + 1} \in SUBSET (1..n) /\ n + 1 \notin U \ {n + 1}
        BY <3>1, TopOf
      <4>2. g[U \ {n + 1}] = h[U \ {n + 1}]
        BY <4>1
      <4> QED BY <3>1, <4>1, <4>2
    <3>2. CASE n + 1 \notin U
      <4>1. U \in SUBSET (1..n)
        BY <3>2
      <4>2. h[U] = IF U = {} THEN reg ELSE internMime(h[U \ {Max(U)}], heads[Max(U)])
        BY <2>1, <4>1 DEF InternTable
      <4>3. g[U] = h[U] /\ g[U \ {Max(U)}] = h[U \ {Max(U)}]
        BY <3>2, <4>1
      <4> HIDE DEF g
      <4> QED BY <4>2, <4>3
    <3> QED BY <3>1, <3>2
  <2>3. g = [U \in SUBSET (1..(n + 1)) |-> g[U]]
    OBVIOUS
  <2> HIDE DEF g
  <2>4. InternTable(reg, heads, n + 1, g)
    BY <2>2, <2>3 DEF InternTable
  <2> QED BY <2>4
<1> HIDE DEF G
<1>3. Len(heads) \in G
  BY <1>1, <1>2, Induction
<1> DEFINE t == CHOOSE h : InternTable(reg, heads, Len(heads), h)
<1>4. InternTable(reg, heads, Len(heads), t)
  BY <1>3 DEF G
<1>5. internAll(reg, heads) = t[1..Len(heads)]
  BY DOMAIN heads = 1..Len(heads) DEF internAll, FoldLeft, MapThenFoldSet, InternTable
<1> HIDE DEF t
<1> DEFINE r == [n \in 0..Len(heads) |-> t[1..n]]
<1>6. t[1..0] = reg /\ 1..0 = {}
  BY <1>4 DEF InternTable
<1>7. ASSUME NEW n \in 1..Len(heads) PROVE t[1..n] = internMime(t[1..(n - 1)], heads[n])
  <2>1. 1..n \in SUBSET (1..Len(heads)) /\ 1..n # {} /\ Max(1..n) = n /\ (1..n) \ {n} = 1..(n - 1)
    BY TopOfPrefix, n \in Nat \ {0}
  <2> QED BY <1>4, <2>1 DEF InternTable
<1>8. InternRun(reg, heads, r) /\ t[1..Len(heads)] = r[Len(heads)]
  BY <1>6, <1>7, 0 \in 0..Len(heads) DEF InternRun
<1> QED BY <1>5, <1>8

(* The segments of a pattern. *)
SegmentsTable(url, n, h) ==
    h = [U \in SUBSET (1..n) |->
            IF U = {} THEN <<>> ELSE AddSegment(h[U \ {Max(U)}], url[Max(U)])]
SegmentsRun(url, r) ==
    /\ DOMAIN r = 0..Len(url)
    /\ r[0] = <<>>
    /\ \A n \in 1..Len(url) : r[n] = AddSegment(r[n - 1], url[n])

LEMMA SegmentsRuns ==
    ASSUME NEW url, url \in Seq(ToSet(url)), Len(url) \in Nat
    PROVE  \E r : SegmentsRun(url, r) /\ Segments(url) = r[Len(url)]
<1> DEFINE G == {n \in Nat : \E h : SegmentsTable(url, n, h)}
<1>1. 0 \in G
  <2>1. SegmentsTable(url, 0, [U \in SUBSET (1..0) |-> <<>>])
    BY 1..0 = {} DEF SegmentsTable
  <2> QED BY <2>1
<1>2. ASSUME NEW n \in Nat, n \in G PROVE n + 1 \in G
  <2>1. PICK h : SegmentsTable(url, n, h)
    BY <1>2
  <2> DEFINE g == [U \in SUBSET (1..(n + 1)) |->
                     IF n + 1 \in U THEN AddSegment(h[U \ {n + 1}], url[n + 1]) ELSE h[U]]
  <2>2. ASSUME NEW U \in SUBSET (1..(n + 1))
        PROVE  g[U] = IF U = {} THEN <<>> ELSE AddSegment(g[U \ {Max(U)}], url[Max(U)])
    <3>1. CASE n + 1 \in U
      <4>1. Max(U) = n + 1 /\ U \ {n + 1} \in SUBSET (1..n) /\ n + 1 \notin U \ {n + 1}
        BY <3>1, TopOf
      <4>2. g[U \ {n + 1}] = h[U \ {n + 1}]
        BY <4>1
      <4> QED BY <3>1, <4>1, <4>2
    <3>2. CASE n + 1 \notin U
      <4>1. U \in SUBSET (1..n)
        BY <3>2
      <4>2. h[U] = IF U = {} THEN <<>> ELSE AddSegment(h[U \ {Max(U)}], url[Max(U)])
        BY <2>1, <4>1 DEF SegmentsTable
      <4>3. g[U] = h[U] /\ g[U \ {Max(U)}] = h[U \ {Max(U)}]
        BY <3>2, <4>1
      <4> HIDE DEF g
      <4> QED BY <4>2, <4>3
    <3> QED BY <3>1, <3>2
  <2>3. g = [U \in SUBSET (1..(n + 1)) |-> g[U]]
    OBVIOUS
  <2> HIDE DEF g
  <2>4. SegmentsTable(url, n + 1, g)
    BY <2>2, <2>3 DEF SegmentsTable
  <2> QED BY <2>4
<1> HIDE DEF G
<1>3. Len(url) \in G
  BY <1>1, <1>2, Induction
<1> DEFINE t == CHOOSE h : SegmentsTable(url, Len(url), h)
<1>4. SegmentsTable(url, Len(url), t)
  BY <1>3 DEF G
<1>5. Segments(url) = t[1..Len(url)]
  BY DOMAIN url = 1..Len(url) DEF Segments, FoldLeft, MapThenFoldSet, SegmentsTable
<1> HIDE DEF t
<1> DEFINE r == [n \in 0..Len(url) |-> t[1..n]]
<1>6. t[1..0] = <<>> /\ 1..0 = {}
  BY <1>4 DEF SegmentsTable
<1>7. ASSUME NEW n \in 1..Len(url) PROVE t[1..n] = AddSegment(t[1..(n - 1)], url[n])
  <2>1. 1..n \in SUBSET (1..Len(url)) /\ 1..n # {} /\ Max(1..n) = n /\ (1..n) \ {n} = 1..(n - 1)
    BY TopOfPrefix, n \in Nat \ {0}
  <2> QED BY <1>4, <2>1 DEF SegmentsTable
<1>8. SegmentsRun(url, r) /\ t[1..Len(url)] = r[Len(url)]
  BY <1>6, <1>7, 0 \in 0..Len(url) DEF SegmentsRun
<1> QED BY <1>5, <1>8

(* The captures of a pattern. *)
CapturesTable(p, segs, n, h) ==
    h = [U \in SUBSET (1..n) |->
            IF U = {} THEN <<>> ELSE AddCapture(h[U \ {Max(U)}], p, Max(U), segs)]
CapturesIndexed(p, segs, h) ==
    h = [U \in SUBSET (DOMAIN [i \in DOMAIN p |-> i]) |->
            IF U = {} THEN <<>>
            ELSE AddCapture(h[U \ {Max(U)}], p, [i \in DOMAIN p |-> i][Max(U)], segs)]
CapturesRun(p, segs, r) ==
    /\ DOMAIN r = 0..Len(p)
    /\ r[0] = <<>>
    /\ \A n \in 1..Len(p) : r[n] = AddCapture(r[n - 1], p, n, segs)

LEMMA CapturesRuns ==
    ASSUME NEW p, NEW segs, p \in Seq(ToSet(p)), Len(p) \in Nat
    PROVE  \E r : CapturesRun(p, segs, r) /\ Captures(p, segs) = r[Len(p)]
<1> DEFINE G == {n \in Nat : \E h : CapturesTable(p, segs, n, h)}
<1>1. 0 \in G
  <2>1. CapturesTable(p, segs, 0, [U \in SUBSET (1..0) |-> <<>>])
    BY 1..0 = {} DEF CapturesTable
  <2> QED BY <2>1
<1>2. ASSUME NEW n \in Nat, n \in G PROVE n + 1 \in G
  <2>1. PICK h : CapturesTable(p, segs, n, h)
    BY <1>2
  <2> DEFINE g == [U \in SUBSET (1..(n + 1)) |->
                     IF n + 1 \in U THEN AddCapture(h[U \ {n + 1}], p, n + 1, segs) ELSE h[U]]
  <2>2. ASSUME NEW U \in SUBSET (1..(n + 1))
        PROVE  g[U] = IF U = {} THEN <<>> ELSE AddCapture(g[U \ {Max(U)}], p, Max(U), segs)
    <3>1. CASE n + 1 \in U
      <4>1. Max(U) = n + 1 /\ U \ {n + 1} \in SUBSET (1..n) /\ n + 1 \notin U \ {n + 1}
        BY <3>1, TopOf
      <4>2. g[U \ {n + 1}] = h[U \ {n + 1}]
        BY <4>1
      <4> QED BY <3>1, <4>1, <4>2
    <3>2. CASE n + 1 \notin U
      <4>1. U \in SUBSET (1..n)
        BY <3>2
      <4>2. h[U] = IF U = {} THEN <<>> ELSE AddCapture(h[U \ {Max(U)}], p, Max(U), segs)
        BY <2>1, <4>1 DEF CapturesTable
      <4>3. g[U] = h[U] /\ g[U \ {Max(U)}] = h[U \ {Max(U)}]
        BY <3>2, <4>1
      <4> HIDE DEF g
      <4> QED BY <4>2, <4>3
    <3> QED BY <3>1, <3>2
  <2>3. g = [U \in SUBSET (1..(n + 1)) |-> g[U]]
    OBVIOUS
  <2> HIDE DEF g
  <2>4. CapturesTable(p, segs, n + 1, g)
    BY <2>2, <2>3 DEF CapturesTable
  <2> QED BY <2>4
<1> HIDE DEF G
<1>3. Len(p) \in G
  BY <1>1, <1>2, Induction
<1> DEFINE t == CHOOSE h : CapturesIndexed(p, segs, h)
<1>4. CapturesTable(p, segs, Len(p), t)
  <2>1. \A h : CapturesTable(p, segs, Len(p), h) <=> CapturesIndexed(p, segs, h)
    <3>1. DOMAIN p = 1..Len(p) /\ DOMAIN [i \in DOMAIN p |-> i] = 1..Len(p)
      OBVIOUS
    <3>2. \A U \in SUBSET (1..Len(p)) : U # {} => [i \in DOMAIN p |-> i][Max(U)] = Max(U)
      BY <3>1, MaxIn
    <3> QED BY <3>1, <3>2 DEF CapturesTable, CapturesIndexed
  <2>2. \E h : CapturesIndexed(p, segs, h)
    BY <1>3, <2>1 DEF G
  <2>3. CapturesIndexed(p, segs, t)
    BY <2>2
  <2> QED BY <2>1, <2>3
<1>5. Captures(p, segs) = t[1..Len(p)]
  <2>1. Captures(p, segs) = t[DOMAIN [i \in DOMAIN p |-> i]]
    BY DEF Captures, FoldLeftDomain, FoldLeft, MapThenFoldSet, CapturesIndexed
  <2>2. DOMAIN [i \in DOMAIN p |-> i] = 1..Len(p)
    OBVIOUS
  <2> QED BY <2>1, <2>2
<1> HIDE DEF t
<1> DEFINE r == [n \in 0..Len(p) |-> t[1..n]]
<1>6. t[1..0] = <<>> /\ 1..0 = {}
  BY <1>4 DEF CapturesTable
<1>7. ASSUME NEW n \in 1..Len(p) PROVE t[1..n] = AddCapture(t[1..(n - 1)], p, n, segs)
  <2>1. 1..n \in SUBSET (1..Len(p)) /\ 1..n # {} /\ Max(1..n) = n /\ (1..n) \ {n} = 1..(n - 1)
    BY TopOfPrefix, n \in Nat \ {0}
  <2> QED BY <1>4, <2>1 DEF CapturesTable
<1>8. CapturesRun(p, segs, r) /\ t[1..Len(p)] = r[Len(p)]
  BY <1>6, <1>7, 0 \in 0..Len(p) DEF CapturesRun
<1> QED BY <1>5, <1>8

(* Insert's walk down the trie. *)
InsertTable(trie, url, n, h) ==
    h = [U \in SUBSET (1..n) |->
            IF U = {} THEN [ok |-> TRUE, cursor |-> <<>>, nodes |-> trie] ELSE Descend(h[U \ {Max(U)}], url, Max(U))]
InsertIndexed(trie, url, h) ==
    h = [U \in SUBSET (DOMAIN [i \in DOMAIN url |-> i]) |->
            IF U = {} THEN [ok |-> TRUE, cursor |-> <<>>, nodes |-> trie]
            ELSE Descend(h[U \ {Max(U)}], url, [i \in DOMAIN url |-> i][Max(U)])]
InsertRun(trie, url, r) ==
    /\ DOMAIN r = 0..Len(url)
    /\ r[0] = [ok |-> TRUE, cursor |-> <<>>, nodes |-> trie]
    /\ \A n \in 1..Len(url) : r[n] = Descend(r[n - 1], url, n)

LEMMA InsertRuns ==
    ASSUME NEW trie, NEW url, url \in Seq(ToSet(url)), Len(url) \in Nat
    PROVE  \E r : InsertRun(trie, url, r) /\ Descended(trie, url) = r[Len(url)]
<1> DEFINE G == {n \in Nat : \E h : InsertTable(trie, url, n, h)}
<1>1. 0 \in G
  <2>1. InsertTable(trie, url, 0, [U \in SUBSET (1..0) |-> [ok |-> TRUE, cursor |-> <<>>, nodes |-> trie]])
    BY 1..0 = {} DEF InsertTable
  <2> QED BY <2>1
<1>2. ASSUME NEW n \in Nat, n \in G PROVE n + 1 \in G
  <2>1. PICK h : InsertTable(trie, url, n, h)
    BY <1>2
  <2> DEFINE g == [U \in SUBSET (1..(n + 1)) |->
                     IF n + 1 \in U THEN Descend(h[U \ {n + 1}], url, n + 1) ELSE h[U]]
  <2>2. ASSUME NEW U \in SUBSET (1..(n + 1))
        PROVE  g[U] = IF U = {} THEN [ok |-> TRUE, cursor |-> <<>>, nodes |-> trie] ELSE Descend(g[U \ {Max(U)}], url, Max(U))
    <3>1. CASE n + 1 \in U
      <4>1. Max(U) = n + 1 /\ U \ {n + 1} \in SUBSET (1..n) /\ n + 1 \notin U \ {n + 1}
        BY <3>1, TopOf
      <4>2. g[U \ {n + 1}] = h[U \ {n + 1}]
        BY <4>1
      <4> QED BY <3>1, <4>1, <4>2
    <3>2. CASE n + 1 \notin U
      <4>1. U \in SUBSET (1..n)
        BY <3>2
      <4>2. h[U] = IF U = {} THEN [ok |-> TRUE, cursor |-> <<>>, nodes |-> trie] ELSE Descend(h[U \ {Max(U)}], url, Max(U))
        BY <2>1, <4>1 DEF InsertTable
      <4>3. g[U] = h[U] /\ g[U \ {Max(U)}] = h[U \ {Max(U)}]
        BY <3>2, <4>1
      <4> HIDE DEF g
      <4> QED BY <4>2, <4>3
    <3> QED BY <3>1, <3>2
  <2>3. g = [U \in SUBSET (1..(n + 1)) |-> g[U]]
    OBVIOUS
  <2> HIDE DEF g
  <2>4. InsertTable(trie, url, n + 1, g)
    BY <2>2, <2>3 DEF InsertTable
  <2> QED BY <2>4
<1> HIDE DEF G
<1>3. Len(url) \in G
  BY <1>1, <1>2, Induction
<1> DEFINE t == CHOOSE h : InsertIndexed(trie, url, h)
<1>4. InsertTable(trie, url, Len(url), t)
  <2>1. \A h : InsertTable(trie, url, Len(url), h) <=> InsertIndexed(trie, url, h)
    <3>1. DOMAIN url = 1..Len(url) /\ DOMAIN [i \in DOMAIN url |-> i] = 1..Len(url)
      OBVIOUS
    <3>2. \A U \in SUBSET (1..Len(url)) : U # {} => [i \in DOMAIN url |-> i][Max(U)] = Max(U)
      BY <3>1, MaxIn
    <3> QED BY <3>1, <3>2 DEF InsertTable, InsertIndexed
  <2>2. \E h : InsertIndexed(trie, url, h)
    BY <1>3, <2>1 DEF G
  <2>3. InsertIndexed(trie, url, t)
    BY <2>2
  <2> QED BY <2>1, <2>3
<1>5. Descended(trie, url) = t[1..Len(url)]
  <2>1. Descended(trie, url) = t[DOMAIN [i \in DOMAIN url |-> i]]
    BY DEF Descended, FoldLeftDomain, FoldLeft, MapThenFoldSet, InsertIndexed
  <2>2. DOMAIN [i \in DOMAIN url |-> i] = 1..Len(url)
    OBVIOUS
  <2> QED BY <2>1, <2>2
<1> HIDE DEF t
<1> DEFINE r == [n \in 0..Len(url) |-> t[1..n]]
<1>6. t[1..0] = [ok |-> TRUE, cursor |-> <<>>, nodes |-> trie] /\ 1..0 = {}
  BY <1>4 DEF InsertTable
<1>7. ASSUME NEW n \in 1..Len(url) PROVE t[1..n] = Descend(t[1..(n - 1)], url, n)
  <2>1. 1..n \in SUBSET (1..Len(url)) /\ 1..n # {} /\ Max(1..n) = n /\ (1..n) \ {n} = 1..(n - 1)
    BY TopOfPrefix, n \in Nat \ {0}
  <2> QED BY <1>4, <2>1 DEF InsertTable
<1>8. InsertRun(trie, url, r) /\ t[1..Len(url)] = r[Len(url)]
  BY <1>6, <1>7, 0 \in 0..Len(url) DEF InsertRun
<1> QED BY <1>5, <1>8

(* Load's trie, route by route. *)
LoadTable(file, n, h) ==
    h = [U \in SUBSET (1..n) |->
            IF U = {} THEN [ok |-> TRUE, nodes |-> NewTrie] ELSE InsertRoute(h[U \ {Max(U)}], file, Max(U))]
LoadIndexed(file, h) ==
    h = [U \in SUBSET (DOMAIN [i \in DOMAIN file.table |-> i]) |->
            IF U = {} THEN [ok |-> TRUE, nodes |-> NewTrie]
            ELSE InsertRoute(h[U \ {Max(U)}], file, [i \in DOMAIN file.table |-> i][Max(U)])]
LoadRun(file, r) ==
    /\ DOMAIN r = 0..Len(file.table)
    /\ r[0] = [ok |-> TRUE, nodes |-> NewTrie]
    /\ \A n \in 1..Len(file.table) : r[n] = InsertRoute(r[n - 1], file, n)

LEMMA LoadRuns ==
    ASSUME NEW file, file.table \in Seq(ToSet(file.table)), Len(file.table) \in Nat
    PROVE  \E r : LoadRun(file, r) /\ LoadTrie(file) = r[Len(file.table)]
<1> DEFINE G == {n \in Nat : \E h : LoadTable(file, n, h)}
<1>1. 0 \in G
  <2>1. LoadTable(file, 0, [U \in SUBSET (1..0) |-> [ok |-> TRUE, nodes |-> NewTrie]])
    BY 1..0 = {} DEF LoadTable
  <2> QED BY <2>1
<1>2. ASSUME NEW n \in Nat, n \in G PROVE n + 1 \in G
  <2>1. PICK h : LoadTable(file, n, h)
    BY <1>2
  <2> DEFINE g == [U \in SUBSET (1..(n + 1)) |->
                     IF n + 1 \in U THEN InsertRoute(h[U \ {n + 1}], file, n + 1) ELSE h[U]]
  <2>2. ASSUME NEW U \in SUBSET (1..(n + 1))
        PROVE  g[U] = IF U = {} THEN [ok |-> TRUE, nodes |-> NewTrie] ELSE InsertRoute(g[U \ {Max(U)}], file, Max(U))
    <3>1. CASE n + 1 \in U
      <4>1. Max(U) = n + 1 /\ U \ {n + 1} \in SUBSET (1..n) /\ n + 1 \notin U \ {n + 1}
        BY <3>1, TopOf
      <4>2. g[U \ {n + 1}] = h[U \ {n + 1}]
        BY <4>1
      <4> QED BY <3>1, <4>1, <4>2
    <3>2. CASE n + 1 \notin U
      <4>1. U \in SUBSET (1..n)
        BY <3>2
      <4>2. h[U] = IF U = {} THEN [ok |-> TRUE, nodes |-> NewTrie] ELSE InsertRoute(h[U \ {Max(U)}], file, Max(U))
        BY <2>1, <4>1 DEF LoadTable
      <4>3. g[U] = h[U] /\ g[U \ {Max(U)}] = h[U \ {Max(U)}]
        BY <3>2, <4>1
      <4> HIDE DEF g
      <4> QED BY <4>2, <4>3
    <3> QED BY <3>1, <3>2
  <2>3. g = [U \in SUBSET (1..(n + 1)) |-> g[U]]
    OBVIOUS
  <2> HIDE DEF g
  <2>4. LoadTable(file, n + 1, g)
    BY <2>2, <2>3 DEF LoadTable
  <2> QED BY <2>4
<1> HIDE DEF G
<1>3. Len(file.table) \in G
  BY <1>1, <1>2, Induction
<1> DEFINE t == CHOOSE h : LoadIndexed(file, h)
<1>4. LoadTable(file, Len(file.table), t)
  <2>1. \A h : LoadTable(file, Len(file.table), h) <=> LoadIndexed(file, h)
    <3>1. DOMAIN file.table = 1..Len(file.table) /\ DOMAIN [i \in DOMAIN file.table |-> i] = 1..Len(file.table)
      OBVIOUS
    <3>2. \A U \in SUBSET (1..Len(file.table)) : U # {} => [i \in DOMAIN file.table |-> i][Max(U)] = Max(U)
      BY <3>1, MaxIn
    <3> QED BY <3>1, <3>2 DEF LoadTable, LoadIndexed
  <2>2. \E h : LoadIndexed(file, h)
    BY <1>3, <2>1 DEF G
  <2>3. LoadIndexed(file, t)
    BY <2>2
  <2> QED BY <2>1, <2>3
<1>5. LoadTrie(file) = t[1..Len(file.table)]
  <2>1. LoadTrie(file) = t[DOMAIN [i \in DOMAIN file.table |-> i]]
    BY DEF LoadTrie, FoldLeftDomain, FoldLeft, MapThenFoldSet, LoadIndexed
  <2>2. DOMAIN [i \in DOMAIN file.table |-> i] = 1..Len(file.table)
    OBVIOUS
  <2> QED BY <2>1, <2>2
<1> HIDE DEF t
<1> DEFINE r == [n \in 0..Len(file.table) |-> t[1..n]]
<1>6. t[1..0] = [ok |-> TRUE, nodes |-> NewTrie] /\ 1..0 = {}
  BY <1>4 DEF LoadTable
<1>7. ASSUME NEW n \in 1..Len(file.table) PROVE t[1..n] = InsertRoute(t[1..(n - 1)], file, n)
  <2>1. 1..n \in SUBSET (1..Len(file.table)) /\ 1..n # {} /\ Max(1..n) = n /\ (1..n) \ {n} = 1..(n - 1)
    BY TopOfPrefix, n \in Nat \ {0}
  <2> QED BY <1>4, <2>1 DEF LoadTable
<1>8. LoadRun(file, r) /\ t[1..Len(file.table)] = r[Len(file.table)]
  BY <1>6, <1>7, 0 \in 0..Len(file.table) DEF LoadRun
<1> QED BY <1>5, <1>8

(* The compiler over the build results. *)
ClaimTable(order, n, h) ==
    h = [U \in SUBSET (1..n) |->
            IF U = {} THEN [c |-> NewV2Compiler, claimed |-> {}] ELSE claim(h[U \ {Max(U)}], order[Max(U)])]
ClaimRun(order, r) ==
    /\ DOMAIN r = 0..Len(order)
    /\ r[0] = [c |-> NewV2Compiler, claimed |-> {}]
    /\ \A n \in 1..Len(order) : r[n] = claim(r[n - 1], order[n])

LEMMA ClaimRuns ==
    ASSUME NEW order, order \in Seq(ToSet(order)), Len(order) \in Nat
    PROVE  \E r : ClaimRun(order, r) /\ Claimed(order) = r[Len(order)]
<1> DEFINE G == {n \in Nat : \E h : ClaimTable(order, n, h)}
<1>1. 0 \in G
  <2>1. ClaimTable(order, 0, [U \in SUBSET (1..0) |-> [c |-> NewV2Compiler, claimed |-> {}]])
    BY 1..0 = {} DEF ClaimTable
  <2> QED BY <2>1
<1>2. ASSUME NEW n \in Nat, n \in G PROVE n + 1 \in G
  <2>1. PICK h : ClaimTable(order, n, h)
    BY <1>2
  <2> DEFINE g == [U \in SUBSET (1..(n + 1)) |->
                     IF n + 1 \in U THEN claim(h[U \ {n + 1}], order[n + 1]) ELSE h[U]]
  <2>2. ASSUME NEW U \in SUBSET (1..(n + 1))
        PROVE  g[U] = IF U = {} THEN [c |-> NewV2Compiler, claimed |-> {}] ELSE claim(g[U \ {Max(U)}], order[Max(U)])
    <3>1. CASE n + 1 \in U
      <4>1. Max(U) = n + 1 /\ U \ {n + 1} \in SUBSET (1..n) /\ n + 1 \notin U \ {n + 1}
        BY <3>1, TopOf
      <4>2. g[U \ {n + 1}] = h[U \ {n + 1}]
        BY <4>1
      <4> QED BY <3>1, <4>1, <4>2
    <3>2. CASE n + 1 \notin U
      <4>1. U \in SUBSET (1..n)
        BY <3>2
      <4>2. h[U] = IF U = {} THEN [c |-> NewV2Compiler, claimed |-> {}] ELSE claim(h[U \ {Max(U)}], order[Max(U)])
        BY <2>1, <4>1 DEF ClaimTable
      <4>3. g[U] = h[U] /\ g[U \ {Max(U)}] = h[U \ {Max(U)}]
        BY <3>2, <4>1
      <4> HIDE DEF g
      <4> QED BY <4>2, <4>3
    <3> QED BY <3>1, <3>2
  <2>3. g = [U \in SUBSET (1..(n + 1)) |-> g[U]]
    OBVIOUS
  <2> HIDE DEF g
  <2>4. ClaimTable(order, n + 1, g)
    BY <2>2, <2>3 DEF ClaimTable
  <2> QED BY <2>4
<1> HIDE DEF G
<1>3. Len(order) \in G
  BY <1>1, <1>2, Induction
<1> DEFINE t == CHOOSE h : ClaimTable(order, Len(order), h)
<1>4. ClaimTable(order, Len(order), t)
  BY <1>3 DEF G
<1>5. Claimed(order) = t[1..Len(order)]
  BY DOMAIN order = 1..Len(order) DEF Claimed, FoldLeft, MapThenFoldSet, ClaimTable
<1> HIDE DEF t
<1> DEFINE r == [n \in 0..Len(order) |-> t[1..n]]
<1>6. t[1..0] = [c |-> NewV2Compiler, claimed |-> {}] /\ 1..0 = {}
  BY <1>4 DEF ClaimTable
<1>7. ASSUME NEW n \in 1..Len(order) PROVE t[1..n] = claim(t[1..(n - 1)], order[n])
  <2>1. 1..n \in SUBSET (1..Len(order)) /\ 1..n # {} /\ Max(1..n) = n /\ (1..n) \ {n} = 1..(n - 1)
    BY TopOfPrefix, n \in Nat \ {0}
  <2> QED BY <1>4, <2>1 DEF ClaimTable
<1>8. ClaimRun(order, r) /\ t[1..Len(order)] = r[Len(order)]
  BY <1>6, <1>7, 0 \in 0..Len(order) DEF ClaimRun
<1> QED BY <1>5, <1>8

(* The compiler over the action routes. *)
ActionTable(c, routes, n, h) ==
    h = [U \in SUBSET (1..n) |->
            IF U = {} THEN c ELSE AddActionRoute(h[U \ {Max(U)}], routes[Max(U)])]
ActionRun(c, routes, r) ==
    /\ DOMAIN r = 0..Len(routes)
    /\ r[0] = c
    /\ \A n \in 1..Len(routes) : r[n] = AddActionRoute(r[n - 1], routes[n])

LEMMA ActionRuns ==
    ASSUME NEW c, NEW routes, routes \in Seq(ToSet(routes)), Len(routes) \in Nat
    PROVE  \E r : ActionRun(c, routes, r) /\ AddActionRoutes(c, routes) = r[Len(routes)]
<1> DEFINE G == {n \in Nat : \E h : ActionTable(c, routes, n, h)}
<1>1. 0 \in G
  <2>1. ActionTable(c, routes, 0, [U \in SUBSET (1..0) |-> c])
    BY 1..0 = {} DEF ActionTable
  <2> QED BY <2>1
<1>2. ASSUME NEW n \in Nat, n \in G PROVE n + 1 \in G
  <2>1. PICK h : ActionTable(c, routes, n, h)
    BY <1>2
  <2> DEFINE g == [U \in SUBSET (1..(n + 1)) |->
                     IF n + 1 \in U THEN AddActionRoute(h[U \ {n + 1}], routes[n + 1]) ELSE h[U]]
  <2>2. ASSUME NEW U \in SUBSET (1..(n + 1))
        PROVE  g[U] = IF U = {} THEN c ELSE AddActionRoute(g[U \ {Max(U)}], routes[Max(U)])
    <3>1. CASE n + 1 \in U
      <4>1. Max(U) = n + 1 /\ U \ {n + 1} \in SUBSET (1..n) /\ n + 1 \notin U \ {n + 1}
        BY <3>1, TopOf
      <4>2. g[U \ {n + 1}] = h[U \ {n + 1}]
        BY <4>1
      <4> QED BY <3>1, <4>1, <4>2
    <3>2. CASE n + 1 \notin U
      <4>1. U \in SUBSET (1..n)
        BY <3>2
      <4>2. h[U] = IF U = {} THEN c ELSE AddActionRoute(h[U \ {Max(U)}], routes[Max(U)])
        BY <2>1, <4>1 DEF ActionTable
      <4>3. g[U] = h[U] /\ g[U \ {Max(U)}] = h[U \ {Max(U)}]
        BY <3>2, <4>1
      <4> HIDE DEF g
      <4> QED BY <4>2, <4>3
    <3> QED BY <3>1, <3>2
  <2>3. g = [U \in SUBSET (1..(n + 1)) |-> g[U]]
    OBVIOUS
  <2> HIDE DEF g
  <2>4. ActionTable(c, routes, n + 1, g)
    BY <2>2, <2>3 DEF ActionTable
  <2> QED BY <2>4
<1> HIDE DEF G
<1>3. Len(routes) \in G
  BY <1>1, <1>2, Induction
<1> DEFINE t == CHOOSE h : ActionTable(c, routes, Len(routes), h)
<1>4. ActionTable(c, routes, Len(routes), t)
  BY <1>3 DEF G
<1>5. AddActionRoutes(c, routes) = t[1..Len(routes)]
  BY DOMAIN routes = 1..Len(routes) DEF AddActionRoutes, FoldLeft, MapThenFoldSet, ActionTable
<1> HIDE DEF t
<1> DEFINE r == [n \in 0..Len(routes) |-> t[1..n]]
<1>6. t[1..0] = c /\ 1..0 = {}
  BY <1>4 DEF ActionTable
<1>7. ASSUME NEW n \in 1..Len(routes) PROVE t[1..n] = AddActionRoute(t[1..(n - 1)], routes[n])
  <2>1. 1..n \in SUBSET (1..Len(routes)) /\ 1..n # {} /\ Max(1..n) = n /\ (1..n) \ {n} = 1..(n - 1)
    BY TopOfPrefix, n \in Nat \ {0}
  <2> QED BY <1>4, <2>1 DEF ActionTable
<1>8. ActionRun(c, routes, r) /\ t[1..Len(routes)] = r[Len(routes)]
  BY <1>6, <1>7, 0 \in 0..Len(routes) DEF ActionRun
<1> QED BY <1>5, <1>8

(* The main site, site by site. *)
MainTable(hosts, n, h) ==
    h = [U \in SUBSET (1..n) |->
            IF U = {} THEN 0 ELSE nextMain(h[U \ {Max(U)}], hosts, Max(U))]
MainIndexed(hosts, h) ==
    h = [U \in SUBSET (DOMAIN [i \in DOMAIN hosts |-> i]) |->
            IF U = {} THEN 0
            ELSE nextMain(h[U \ {Max(U)}], hosts, [i \in DOMAIN hosts |-> i][Max(U)])]
MainRun(hosts, r) ==
    /\ DOMAIN r = 0..Len(hosts)
    /\ r[0] = 0
    /\ \A n \in 1..Len(hosts) : r[n] = nextMain(r[n - 1], hosts, n)

LEMMA MainRuns ==
    ASSUME NEW hosts, hosts \in Seq(ToSet(hosts)), Len(hosts) \in Nat
    PROVE  \E r : MainRun(hosts, r) /\ mainSite(hosts) = r[Len(hosts)]
<1> DEFINE G == {n \in Nat : \E h : MainTable(hosts, n, h)}
<1>1. 0 \in G
  <2>1. MainTable(hosts, 0, [U \in SUBSET (1..0) |-> 0])
    BY 1..0 = {} DEF MainTable
  <2> QED BY <2>1
<1>2. ASSUME NEW n \in Nat, n \in G PROVE n + 1 \in G
  <2>1. PICK h : MainTable(hosts, n, h)
    BY <1>2
  <2> DEFINE g == [U \in SUBSET (1..(n + 1)) |->
                     IF n + 1 \in U THEN nextMain(h[U \ {n + 1}], hosts, n + 1) ELSE h[U]]
  <2>2. ASSUME NEW U \in SUBSET (1..(n + 1))
        PROVE  g[U] = IF U = {} THEN 0 ELSE nextMain(g[U \ {Max(U)}], hosts, Max(U))
    <3>1. CASE n + 1 \in U
      <4>1. Max(U) = n + 1 /\ U \ {n + 1} \in SUBSET (1..n) /\ n + 1 \notin U \ {n + 1}
        BY <3>1, TopOf
      <4>2. g[U \ {n + 1}] = h[U \ {n + 1}]
        BY <4>1
      <4> QED BY <3>1, <4>1, <4>2
    <3>2. CASE n + 1 \notin U
      <4>1. U \in SUBSET (1..n)
        BY <3>2
      <4>2. h[U] = IF U = {} THEN 0 ELSE nextMain(h[U \ {Max(U)}], hosts, Max(U))
        BY <2>1, <4>1 DEF MainTable
      <4>3. g[U] = h[U] /\ g[U \ {Max(U)}] = h[U \ {Max(U)}]
        BY <3>2, <4>1
      <4> HIDE DEF g
      <4> QED BY <4>2, <4>3
    <3> QED BY <3>1, <3>2
  <2>3. g = [U \in SUBSET (1..(n + 1)) |-> g[U]]
    OBVIOUS
  <2> HIDE DEF g
  <2>4. MainTable(hosts, n + 1, g)
    BY <2>2, <2>3 DEF MainTable
  <2> QED BY <2>4
<1> HIDE DEF G
<1>3. Len(hosts) \in G
  BY <1>1, <1>2, Induction
<1> DEFINE t == CHOOSE h : MainIndexed(hosts, h)
<1>4. MainTable(hosts, Len(hosts), t)
  <2>1. \A h : MainTable(hosts, Len(hosts), h) <=> MainIndexed(hosts, h)
    <3>1. DOMAIN hosts = 1..Len(hosts) /\ DOMAIN [i \in DOMAIN hosts |-> i] = 1..Len(hosts)
      OBVIOUS
    <3>2. \A U \in SUBSET (1..Len(hosts)) : U # {} => [i \in DOMAIN hosts |-> i][Max(U)] = Max(U)
      BY <3>1, MaxIn
    <3> QED BY <3>1, <3>2 DEF MainTable, MainIndexed
  <2>2. \E h : MainIndexed(hosts, h)
    BY <1>3, <2>1 DEF G
  <2>3. MainIndexed(hosts, t)
    BY <2>2
  <2> QED BY <2>1, <2>3
<1>5. mainSite(hosts) = t[1..Len(hosts)]
  <2>1. mainSite(hosts) = t[DOMAIN [i \in DOMAIN hosts |-> i]]
    BY DEF mainSite, FoldLeftDomain, FoldLeft, MapThenFoldSet, MainIndexed
  <2>2. DOMAIN [i \in DOMAIN hosts |-> i] = 1..Len(hosts)
    OBVIOUS
  <2> QED BY <2>1, <2>2
<1> HIDE DEF t
<1> DEFINE r == [n \in 0..Len(hosts) |-> t[1..n]]
<1>6. t[1..0] = 0 /\ 1..0 = {}
  BY <1>4 DEF MainTable
<1>7. ASSUME NEW n \in 1..Len(hosts) PROVE t[1..n] = nextMain(t[1..(n - 1)], hosts, n)
  <2>1. 1..n \in SUBSET (1..Len(hosts)) /\ 1..n # {} /\ Max(1..n) = n /\ (1..n) \ {n} = 1..(n - 1)
    BY TopOfPrefix, n \in Nat \ {0}
  <2> QED BY <1>4, <2>1 DEF MainTable
<1>8. MainRun(hosts, r) /\ t[1..Len(hosts)] = r[Len(hosts)]
  BY <1>6, <1>7, 0 \in 0..Len(hosts) DEF MainRun
<1> QED BY <1>5, <1>8

(* The manifests remapped, one by one. *)
RemapTable(loaded, N, n, h) ==
    h = [U \in SUBSET (1..n) |->
            IF U = {} THEN [reg |-> DefaultRegistry, ms |-> <<>>] ELSE remapNext(h[U \ {Max(U)}], loaded, Max(U))]
RemapIndexed(loaded, N, h) ==
    h = [U \in SUBSET (DOMAIN [i \in DOMAIN [s \in 1..N |-> s] |-> i]) |->
            IF U = {} THEN [reg |-> DefaultRegistry, ms |-> <<>>]
            ELSE remapNext(h[U \ {Max(U)}], loaded, [i \in DOMAIN [s \in 1..N |-> s] |-> i][Max(U)])]
RemapRun(loaded, N, r) ==
    /\ DOMAIN r = 0..N
    /\ r[0] = [reg |-> DefaultRegistry, ms |-> <<>>]
    /\ \A n \in 1..N : r[n] = remapNext(r[n - 1], loaded, n)

LEMMA RemapRuns ==
    ASSUME NEW loaded, NEW N, TRUE, N \in Nat
    PROVE  \E r : RemapRun(loaded, N, r) /\ remapAll(loaded, N) = r[N]
<1> DEFINE G == {n \in Nat : \E h : RemapTable(loaded, N, n, h)}
<1>1. 0 \in G
  <2>1. RemapTable(loaded, N, 0, [U \in SUBSET (1..0) |-> [reg |-> DefaultRegistry, ms |-> <<>>]])
    BY 1..0 = {} DEF RemapTable
  <2> QED BY <2>1
<1>2. ASSUME NEW n \in Nat, n \in G PROVE n + 1 \in G
  <2>1. PICK h : RemapTable(loaded, N, n, h)
    BY <1>2
  <2> DEFINE g == [U \in SUBSET (1..(n + 1)) |->
                     IF n + 1 \in U THEN remapNext(h[U \ {n + 1}], loaded, n + 1) ELSE h[U]]
  <2>2. ASSUME NEW U \in SUBSET (1..(n + 1))
        PROVE  g[U] = IF U = {} THEN [reg |-> DefaultRegistry, ms |-> <<>>] ELSE remapNext(g[U \ {Max(U)}], loaded, Max(U))
    <3>1. CASE n + 1 \in U
      <4>1. Max(U) = n + 1 /\ U \ {n + 1} \in SUBSET (1..n) /\ n + 1 \notin U \ {n + 1}
        BY <3>1, TopOf
      <4>2. g[U \ {n + 1}] = h[U \ {n + 1}]
        BY <4>1
      <4> QED BY <3>1, <4>1, <4>2
    <3>2. CASE n + 1 \notin U
      <4>1. U \in SUBSET (1..n)
        BY <3>2
      <4>2. h[U] = IF U = {} THEN [reg |-> DefaultRegistry, ms |-> <<>>] ELSE remapNext(h[U \ {Max(U)}], loaded, Max(U))
        BY <2>1, <4>1 DEF RemapTable
      <4>3. g[U] = h[U] /\ g[U \ {Max(U)}] = h[U \ {Max(U)}]
        BY <3>2, <4>1
      <4> HIDE DEF g
      <4> QED BY <4>2, <4>3
    <3> QED BY <3>1, <3>2
  <2>3. g = [U \in SUBSET (1..(n + 1)) |-> g[U]]
    OBVIOUS
  <2> HIDE DEF g
  <2>4. RemapTable(loaded, N, n + 1, g)
    BY <2>2, <2>3 DEF RemapTable
  <2> QED BY <2>4
<1> HIDE DEF G
<1>3. N \in G
  BY <1>1, <1>2, Induction
<1> DEFINE t == CHOOSE h : RemapIndexed(loaded, N, h)
<1>4. RemapTable(loaded, N, N, t)
  <2>1. \A h : RemapTable(loaded, N, N, h) <=> RemapIndexed(loaded, N, h)
    <3>1. DOMAIN [s \in 1..N |-> s] = 1..N /\ DOMAIN [i \in DOMAIN [s \in 1..N |-> s] |-> i] = 1..N
      OBVIOUS
    <3>2. \A U \in SUBSET (1..N) : U # {} => [i \in DOMAIN [s \in 1..N |-> s] |-> i][Max(U)] = Max(U)
      BY <3>1, MaxIn
    <3> QED BY <3>1, <3>2 DEF RemapTable, RemapIndexed
  <2>2. \E h : RemapIndexed(loaded, N, h)
    BY <1>3, <2>1 DEF G
  <2>3. RemapIndexed(loaded, N, t)
    BY <2>2
  <2> QED BY <2>1, <2>3
<1>5. remapAll(loaded, N) = t[1..N]
  <2>1. remapAll(loaded, N) = t[DOMAIN [i \in DOMAIN [s \in 1..N |-> s] |-> i]]
    BY DEF remapAll, FoldLeftDomain, FoldLeft, MapThenFoldSet, RemapIndexed
  <2>2. DOMAIN [i \in DOMAIN [s \in 1..N |-> s] |-> i] = 1..N
    OBVIOUS
  <2> QED BY <2>1, <2>2
<1> HIDE DEF t
<1> DEFINE r == [n \in 0..N |-> t[1..n]]
<1>6. t[1..0] = [reg |-> DefaultRegistry, ms |-> <<>>] /\ 1..0 = {}
  BY <1>4 DEF RemapTable
<1>7. ASSUME NEW n \in 1..N PROVE t[1..n] = remapNext(t[1..(n - 1)], loaded, n)
  <2>1. 1..n \in SUBSET (1..N) /\ 1..n # {} /\ Max(1..n) = n /\ (1..n) \ {n} = 1..(n - 1)
    BY TopOfPrefix, n \in Nat \ {0}
  <2> QED BY <1>4, <2>1 DEF RemapTable
<1>8. RemapRun(loaded, N, r) /\ t[1..N] = r[N]
  BY <1>6, <1>7, 0 \in 0..N DEF RemapRun
<1> QED BY <1>5, <1>8

IsSeq(s) == s \in Seq(ToSet(s))

LEMMA SeqFacts ==
    ASSUME NEW s, IsSeq(s)
    PROVE  Len(s) \in Nat /\ DOMAIN s = 1..Len(s) /\ s = [i \in 1..Len(s) |-> s[i]]
  BY DEF IsSeq

LEMMA SeqIs ==
    ASSUME NEW s, NEW n \in Nat, DOMAIN s = 1..n, s = [i \in 1..n |-> s[i]]
    PROVE  IsSeq(s) /\ Len(s) = n
<1>1. \A i \in 1..n : s[i] \in ToSet(s)
  BY DEF ToSet
<1>2. s \in Seq(ToSet(s))
  BY <1>1
<1> QED BY <1>2 DEF IsSeq

LEMMA SeqIn ==
    ASSUME NEW S, NEW s \in Seq(S)
    PROVE  IsSeq(s) /\ \A i \in 1..Len(s) : s[i] \in S
<1>1. Len(s) \in Nat /\ DOMAIN s = 1..Len(s) /\ s = [i \in 1..Len(s) |-> s[i]] /\ \A i \in 1..Len(s) : s[i] \in S
  OBVIOUS
<1> QED BY <1>1, SeqIs

LEMMA InSeq ==
    ASSUME NEW S, NEW s, IsSeq(s), \A i \in 1..Len(s) : s[i] \in S
    PROVE  s \in Seq(S)
  BY SeqFacts

LEMMA EmptyIsSeq == IsSeq(<<>>) /\ Len(<<>>) = 0
  BY DEF IsSeq

LEMMA SeqEq ==
    ASSUME NEW s, NEW t, IsSeq(s), IsSeq(t), Len(s) = Len(t), \A i \in 1..Len(s) : s[i] = t[i]
    PROVE  s = t
  BY SeqFacts

LEMMA AppendSeq ==
    ASSUME NEW s, NEW x, IsSeq(s)
    PROVE  /\ IsSeq(Append(s, x)) /\ Len(Append(s, x)) = Len(s) + 1
           /\ \A i \in 1..Len(s) : Append(s, x)[i] = s[i]
           /\ Append(s, x)[Len(s) + 1] = x
           /\ ToSet(Append(s, x)) = ToSet(s) \cup {x}
<1>1. s \in Seq(ToSet(s) \cup {x}) /\ Len(s) \in Nat /\ DOMAIN s = 1..Len(s)
  BY InSeq, SeqFacts DEF ToSet
<1> DEFINE t == Append(s, x)
<1>2. t \in Seq(ToSet(s) \cup {x}) /\ Len(t) = Len(s) + 1 /\ t[Len(s) + 1] = x /\ \A i \in 1..Len(s) : t[i] = s[i]
  BY <1>1
<1> HIDE DEF t
<1>3. IsSeq(t) /\ DOMAIN t = 1..(Len(s)+1)
  <2>1. IsSeq(t)
    BY <1>2, SeqIn
  <2> QED BY <1>2, <2>1, SeqFacts
<1>4. ToSet(t) = ToSet(s) \cup {x}
  <2>1. ToSet(t) \subseteq ToSet(s) \cup {x}
    BY <1>1, <1>2, <1>3 DEF ToSet
  <2>2. \A i \in DOMAIN s : t[i] = s[i] /\ i \in DOMAIN t
    BY <1>1, <1>2, <1>3
  <2>3. x = t[Len(s)+1] /\ Len(s)+1 \in DOMAIN t
    BY <1>1, <1>2, <1>3
  <2> QED BY <2>1, <2>2, <2>3 DEF ToSet
<1> QED BY <1>2, <1>3, <1>4 DEF t

LEMMA ConcatSeq ==
    ASSUME NEW s, NEW t, IsSeq(s), IsSeq(t)
    PROVE  /\ IsSeq(s \o t) /\ Len(s \o t) = Len(s) + Len(t)
           /\ \A i \in 1..Len(s) : (s \o t)[i] = s[i]
           /\ \A i \in 1..Len(t) : (s \o t)[Len(s) + i] = t[i]
<1> DEFINE U == ToSet(s) \cup ToSet(t)
<1>1. s \in Seq(U) /\ t \in Seq(U)
  BY InSeq, SeqFacts DEF ToSet
<1> HIDE DEF U
<1>2. s \o t \in Seq(U) /\ Len(s) \in Nat /\ Len(t) \in Nat /\ Len(s \o t) = Len(s) + Len(t)
  BY <1>1
<1>3. \A i \in 1..Len(s) : (s \o t)[i] = s[i]
  BY <1>1
<1>4. \A i \in 1..Len(t) : (s \o t)[Len(s) + i] = t[i]
  BY <1>1
<1> QED BY <1>2, <1>3, <1>4, SeqIn

LEMMA PartSeq ==
    ASSUME NEW s, NEW m \in Int, NEW n \in Int
    PROVE  /\ IsSeq(SubSeq(s, m, n))
           /\ Len(SubSeq(s, m, n)) = IF m <= n THEN n - m + 1 ELSE 0
           /\ \A i \in 1..(n - m + 1) : SubSeq(s, m, n)[i] = s[m + i - 1]
<1>0. SubSeq(s, m, n) = [i \in 1..(1 + n - m) |-> s[m + i - 1]]
  OBVIOUS
<1> DEFINE S == {s[i] : i \in m..n}
<1>1. \A i \in m..n : s[i] \in S
  OBVIOUS
<1> HIDE DEF S
<1>2. SubSeq(s, m, n) \in Seq(S) /\ Len(SubSeq(s, m, n)) = IF m <= n THEN n - m + 1 ELSE 0
  BY <1>1
<1>3. IsSeq(SubSeq(s, m, n))
  BY <1>2, SeqIn
<1>4. \A i \in 1..(n - m + 1) : SubSeq(s, m, n)[i] = s[m + i - 1]
  BY <1>0
<1> QED BY <1>2, <1>3, <1>4

LEMMA TailSeq ==
    ASSUME NEW s, IsSeq(s), s # <<>>
    PROVE  IsSeq(Tail(s)) /\ Len(Tail(s)) = Len(s) - 1 /\ \A i \in 1..(Len(s) - 1) : Tail(s)[i] = s[i + 1]
<1>1. s \in Seq(ToSet(s)) /\ Len(s) \in Nat
  BY DEF IsSeq
<1>2. Tail(s) \in Seq(ToSet(s)) /\ Len(Tail(s)) = Len(s) - 1
  BY <1>1
<1>3. \A i \in 1..(Len(s) - 1) : Tail(s)[i] = s[i + 1]
  BY <1>1
<1> QED BY <1>2, <1>3, SeqIn

LEMMA InToSet ==
    ASSUME NEW s, IsSeq(s), NEW x
    PROVE  x \in ToSet(s) <=> \E i \in 1..Len(s) : s[i] = x
  BY SeqFacts DEF ToSet

(* s is the beginning of t. *)
Begins(s, t) == IsSeq(s) /\ IsSeq(t) /\ Len(s) <= Len(t) /\ \A i \in 1..Len(s) : t[i] = s[i]

LEMMA BeginsSame == ASSUME NEW s, IsSeq(s) PROVE Begins(s, s)
  BY SeqFacts DEF Begins

LEMMA BeginsTrans ==
    ASSUME NEW s, NEW t, NEW u, Begins(s, t), Begins(t, u)
    PROVE  Begins(s, u)
  BY SeqFacts DEF Begins

LEMMA BeginsAppend ==
    ASSUME NEW s, NEW x, IsSeq(s)
    PROVE  Begins(s, Append(s, x))
  BY SeqFacts, AppendSeq DEF Begins

LEMMA BeginsConcat ==
    ASSUME NEW s, NEW t, IsSeq(s), IsSeq(t)
    PROVE  /\ Begins(s, s \o t)
           /\ SubSeq(s \o t, Len(s) + 1, Len(s) + Len(t)) = t
<1>1. Len(s) \in Nat /\ Len(t) \in Nat
  BY SeqFacts
<1>2. Begins(s, s \o t)
  BY <1>1, ConcatSeq DEF Begins
<1> DEFINE u == s \o t
<1>3. \A i \in 1..Len(t) : u[Len(s) + i] = t[i]
  BY ConcatSeq
<1> HIDE DEF u
<1> DEFINE v == SubSeq(u, Len(s) + 1, Len(s) + Len(t))
<1>4. IsSeq(v) /\ Len(v) = Len(t) /\ \A i \in 1..Len(t) : v[i] = u[Len(s) + i]
  <2> DEFINE a == Len(s) + 1
             b == Len(s) + Len(t)
  <2>1. a \in Int /\ b \in Int /\ b - a + 1 = Len(t) /\ (a <= b <=> Len(t) # 0)
    BY <1>1
  <2>2. \A i \in 1..Len(t) : a + i - 1 = Len(s) + i
    BY <1>1
  <2> HIDE DEF a, b
  <2>3. IsSeq(SubSeq(u, a, b)) /\ Len(SubSeq(u, a, b)) = IF a <= b THEN b - a + 1 ELSE 0
    BY <2>1, PartSeq
  <2>4. \A i \in 1..Len(t) : SubSeq(u, a, b)[i] = u[Len(s) + i]
    <3>1. \A i \in 1..(b - a + 1) : SubSeq(u, a, b)[i] = u[a + i - 1]
      BY <2>1, PartSeq
    <3> QED BY <3>1, <2>1, <2>2
  <2> QED BY <2>1, <2>3, <2>4 DEF a, b
<1> HIDE DEF v
<1>5. v = t
  BY <1>3, <1>4, SeqEq
<1> QED BY <1>2, <1>5 DEF u, v

LEMMA BeginsPart ==
    ASSUME NEW s, NEW t, Begins(s, t), NEW off \in Nat, NEW len \in Nat, off + len <= Len(s)
    PROVE  SubSeq(t, off + 1, off + len) = SubSeq(s, off + 1, off + len)
<1>1. \A i \in (off + 1)..(off + len) : t[i] = s[i]
  BY DEF Begins
<1>2. SubSeq(t, off + 1, off + len) = [i \in 1..(1 + (off + len) - (off + 1)) |-> t[(off + 1) + i - 1]]
  OBVIOUS
<1>3. SubSeq(s, off + 1, off + len) = [i \in 1..(1 + (off + len) - (off + 1)) |-> s[(off + 1) + i - 1]]
  OBVIOUS
<1>4. \A i \in 1..(1 + (off + len) - (off + 1)) : (off + 1) + i - 1 \in (off + 1)..(off + len)
  OBVIOUS
<1> QED BY <1>1, <1>2, <1>3, <1>4

LEMMA IndexOfIn ==
    ASSUME NEW s, NEW x \in ToSet(s), IsSeq(s)
    PROVE  IndexOf(s, x) \in 1..Len(s) /\ s[IndexOf(s, x)] = x
  BY InToSet, SeqFacts DEF IndexOf

LEMMA Interned ==
    ASSUME NEW reg, NEW key, IsSeq(reg)
    PROVE  Begins(reg, internMime(reg, key)) /\ key \in ToSet(internMime(reg, key))
  BY AppendSeq, BeginsAppend, BeginsSame DEF internMime

LEMMA BeginsToSet ==
    ASSUME NEW s, NEW t, Begins(s, t)
    PROVE  ToSet(s) \subseteq ToSet(t)
  BY InToSet, SeqFacts DEF Begins

LEMMA InternedAll ==
    ASSUME NEW reg, NEW heads, IsSeq(reg), IsSeq(heads)
    PROVE  Begins(reg, internAll(reg, heads)) /\ ToSet(heads) \subseteq ToSet(internAll(reg, heads))
<1>1. Len(heads) \in Nat
  BY SeqFacts
<1>2. PICK r : InternRun(reg, heads, r) /\ internAll(reg, heads) = r[Len(heads)]
  BY <1>1, InternRuns DEF IsSeq
<1> DEFINE G == {n \in Nat : n <= Len(heads) =>
                   Begins(reg, r[n]) /\ \A i \in 1..n : heads[i] \in ToSet(r[n])}
<1>3. 0 \in G
  BY <1>2, BeginsSame DEF InternRun
<1>4. ASSUME NEW n \in Nat, n \in G PROVE n + 1 \in G
  <2> SUFFICES ASSUME n + 1 <= Len(heads)
               PROVE  Begins(reg, r[n + 1]) /\ \A i \in 1..(n + 1) : heads[i] \in ToSet(r[n + 1])
    OBVIOUS
  <2>1. Begins(reg, r[n]) /\ \A i \in 1..n : heads[i] \in ToSet(r[n])
    BY <1>1, <1>4
  <2>2. r[n + 1] = internMime(r[n], heads[n + 1])
    <3>1. n + 1 \in 1..Len(heads) /\ (n + 1) - 1 = n
      BY <1>1
    <3> QED BY <1>2, <3>1 DEF InternRun
  <2>3. Begins(r[n], r[n + 1]) /\ heads[n + 1] \in ToSet(r[n + 1])
    BY <2>1, <2>2, Interned DEF Begins
  <2>4. Begins(reg, r[n + 1]) /\ ToSet(r[n]) \subseteq ToSet(r[n + 1])
    BY <2>1, <2>3, BeginsTrans, BeginsToSet
  <2> QED BY <2>1, <2>3, <2>4
<1> HIDE DEF G
<1>5. Len(heads) \in G
  BY <1>1, <1>3, <1>4, Induction
<1>6. Begins(reg, r[Len(heads)]) /\ \A i \in 1..Len(heads) : heads[i] \in ToSet(r[Len(heads)])
  BY <1>1, <1>5 DEF G
<1> QED BY <1>2, <1>6, InToSet

LEMMA Flattened ==
    ASSUME NEW ss, IsSeq(ss), \A i \in 1..Len(ss) : IsSeq(ss[i])
    PROVE  IsSeq(FlattenSeq(ss))
<1> DEFINE Flat(n, f) == f = [i \in 1..n |-> IF i = 1 THEN ss[i] ELSE f[i - 1] \o ss[i]]
<1> DEFINE G == {n \in Nat : n <= Len(ss) => \E f : Flat(n, f) /\ \A i \in 1..n : IsSeq(f[i])}
<1>1. 0 \in G
  <2>1. Flat(0, [i \in 1..0 |-> 0])
    BY 1..0 = {}
  <2> HIDE DEF Flat
  <2> QED BY <2>1
<1> HIDE DEF Flat
<1>2. ASSUME NEW n \in Nat, n \in G PROVE n + 1 \in G
  <2> SUFFICES ASSUME n + 1 <= Len(ss)
               PROVE  \E f : Flat(n + 1, f) /\ \A i \in 1..(n + 1) : IsSeq(f[i])
    OBVIOUS
  <2>0. Len(ss) \in Nat
    BY SeqFacts
  <2>1. PICK f : Flat(n, f) /\ \A i \in 1..n : IsSeq(f[i])
    BY <1>2, <2>0
  <2> DEFINE last == IF n + 1 = 1 THEN ss[n + 1] ELSE f[n] \o ss[n + 1]
             g == [i \in 1..(n + 1) |-> IF i = n + 1 THEN last ELSE f[i]]
  <2>2. IsSeq(last)
    BY <2>0, <2>1, ConcatSeq
  <2> HIDE DEF last
  <2>3. \A i \in 1..(n + 1) : IsSeq(g[i])
    BY <2>1, <2>2
  <2>4. ASSUME NEW i \in 1..(n + 1) PROVE g[i] = IF i = 1 THEN ss[i] ELSE g[i - 1] \o ss[i]
    <3>1. CASE i = n + 1
      BY <3>1 DEF last
    <3>2. CASE i # n + 1
      <4>1. i \in 1..n /\ (i # 1 => i - 1 \in 1..n)
        BY <3>2
      <4>2. f[i] = IF i = 1 THEN ss[i] ELSE f[i - 1] \o ss[i]
        BY <2>1, <4>1 DEF Flat
      <4> QED BY <3>2, <4>1, <4>2
    <3> QED BY <3>1, <3>2
  <2>5. g = [i \in 1..(n + 1) |-> g[i]]
    OBVIOUS
  <2> HIDE DEF g
  <2>6. Flat(n + 1, g)
    BY <2>4, <2>5 DEF Flat
  <2> QED BY <2>3, <2>6
<1> HIDE DEF G
<1>3. Len(ss) \in G /\ Len(ss) \in Nat
  BY <1>1, <1>2, Induction, SeqFacts
<1> DEFINE t == CHOOSE f : Flat(Len(ss), f)
<1>4. PICK f : Flat(Len(ss), f) /\ \A i \in 1..Len(ss) : IsSeq(f[i])
  BY <1>3 DEF G
<1>5. Flat(Len(ss), t)
  BY <1>4
<1> HIDE DEF t
<1> DEFINE H == {n \in Nat : n \in 1..Len(ss) => IsSeq(t[n])}
<1>6. 0 \in H
  OBVIOUS
<1>7. ASSUME NEW n \in Nat, n \in H PROVE n + 1 \in H
  <2> SUFFICES ASSUME n + 1 \in 1..Len(ss) PROVE IsSeq(t[n + 1])
    OBVIOUS
  <2>1. t[n + 1] = IF n + 1 = 1 THEN ss[n + 1] ELSE t[(n + 1) - 1] \o ss[n + 1]
    BY <1>5 DEF Flat
  <2>2. IsSeq(ss[n + 1])
    OBVIOUS
  <2>3. n # 0 => n \in 1..Len(ss) /\ IsSeq(t[n])
    BY <1>3, <1>7
  <2> QED BY <2>1, <2>2, <2>3, ConcatSeq
<1> HIDE DEF H
<1>8. Len(ss) \in H
  BY <1>3, <1>6, <1>7, Induction
<1>9. FlattenSeq(ss) = IF Len(ss) = 0 THEN ss ELSE t[Len(ss)]
  BY DEF FlattenSeq, t, Flat
<1> QED BY <1>3, <1>8, <1>9 DEF H

(* Rows with different hashes: the sorted table holds each of them once.     *)
Distinct(nodes) ==
    /\ IsSeq(nodes)
    /\ \A i \in 1..Len(nodes) : nodes[i].hash \in Nat
    /\ \A i, j \in 1..Len(nodes) : nodes[i].hash = nodes[j].hash => i = j

LEMMA SortedTable ==
    ASSUME NEW nodes, Distinct(nodes)
    PROVE  /\ Distinct(Sorted(nodes)) /\ Len(Sorted(nodes)) = Len(nodes)
           /\ ToSet(Sorted(nodes)) = ToSet(nodes)
<1> DEFINE S == ToSet(nodes)
           N == Len(nodes)
           Below(e) == {x \in S : x.hash < e.hash}
           rank(e) == Cardinality(Below(e))
<1>1. N \in Nat /\ DOMAIN nodes = 1..N /\ S = {nodes[i] : i \in 1..N}
  BY SeqFacts DEF Distinct, ToSet
<1>2. \A e \in S : e.hash \in Nat
  BY <1>1 DEF Distinct
<1>3. \A e, f \in S : e.hash = f.hash => e = f
  BY <1>1 DEF Distinct
<1>4. IsFiniteSet(S) /\ Cardinality(S) = N
  <2> DEFINE g == [i \in 1..N |-> nodes[i]]
  <2>1. g \in Bijection(1..N, S)
    <3>1. g \in Injection(1..N, S)
      BY <1>1 DEF Distinct, Injection, IsInjective
    <3>2. \A e \in S : \E i \in 1..N : g[i] = e
      BY <1>1
    <3> QED BY <3>1, <3>2 DEF Bijection, Surjection, Injection
  <2>2. IsFiniteSet(1..N) /\ Cardinality(1..N) = N
    <3> HIDE DEF N
    <3>1. IsFiniteSet(1..N) /\ Cardinality(1..N) = IF 1 > N THEN 0 ELSE N - 1 + 1
      BY <1>1, FS_Interval, 1 \in Int, N \in Int
    <3> QED BY <1>1, <3>1
  <2>3. ExistsBijection(1..N, S)
    BY <2>1 DEF ExistsBijection
  <2> QED BY <2>2, <2>3, FS_Bijection
<1>5. \A e \in S : IsFiniteSet(Below(e)) /\ rank(e) \in 0..(N - 1)
  <2> SUFFICES ASSUME NEW e \in S PROVE IsFiniteSet(Below(e)) /\ rank(e) \in 0..(N - 1)
    OBVIOUS
  <2>1. Below(e) \in SUBSET (S \ {e})
    BY <1>2
  <2>2. IsFiniteSet(S \ {e}) /\ Cardinality(S \ {e}) = N - 1
    BY <1>4, FS_RemoveElement
  <2>3. IsFiniteSet(Below(e)) /\ Cardinality(Below(e)) <= N - 1 /\ Cardinality(Below(e)) \in Nat
    BY <2>1, <2>2, FS_Subset, FS_CardinalityType
  <2> QED BY <1>1, <2>3
<1>6. \A e, f \in S : e.hash < f.hash => rank(e) < rank(f)
  <2> SUFFICES ASSUME NEW e \in S, NEW f \in S, e.hash < f.hash PROVE rank(e) < rank(f)
    OBVIOUS
  <2>1. Below(e) \in SUBSET (Below(f) \ {e}) /\ e \in Below(f)
    BY <1>2
  <2>2. IsFiniteSet(Below(f)) /\ rank(f) \in Nat
    BY <1>5
  <2>3. IsFiniteSet(Below(f) \ {e}) /\ Cardinality(Below(f) \ {e}) = rank(f) - 1
    BY <2>1, <2>2, FS_RemoveElement
  <2>4. rank(e) <= rank(f) - 1 /\ rank(e) \in Nat
    BY <2>1, <2>3, FS_Subset, FS_CardinalityType, <1>5
  <2> HIDE DEF rank
  <2> QED BY <2>2, <2>4
<1>7. \A e, f \in S : rank(e) = rank(f) => e = f
  <2> SUFFICES ASSUME NEW e \in S, NEW f \in S, rank(e) = rank(f), e # f PROVE FALSE
    OBVIOUS
  <2>1. e.hash < f.hash \/ f.hash < e.hash
    BY <1>2, <1>3
  <2>2. rank(e) \in Int /\ rank(f) \in Int
    <3>1. rank(e) \in 0..(N - 1) /\ rank(f) \in 0..(N - 1)
      BY <1>5
    <3> HIDE DEF rank, N
    <3> QED BY <3>1, <1>1
  <2>3. rank(e) < rank(f) \/ rank(f) < rank(e)
    BY <1>6, <2>1
  <2> HIDE DEF rank
  <2> QED BY <2>2, <2>3
<1> HIDE DEF rank, Below
<1>8. \A k \in 0..(N - 1) : \E e \in S : rank(e) = k
  <2> DEFINE g == [e \in S |-> rank(e)]
  <2>1. g \in Injection(S, 0..(N - 1))
    BY <1>5, <1>7 DEF Injection, IsInjective
  <2>2. IsFiniteSet(0..(N - 1)) /\ Cardinality(0..(N - 1)) = N
    <3>1. IsFiniteSet(0..(N - 1)) /\ Cardinality(0..(N - 1)) = IF 0 > N - 1 THEN 0 ELSE (N - 1) - 0 + 1
      BY <1>1, FS_Interval, 0 \in Int, N - 1 \in Int
    <3> HIDE DEF N
    <3> QED BY <1>1, <3>1
  <2>3. g \in Surjection(S, 0..(N - 1))
    BY <1>4, <2>1, <2>2, FS_Injection
  <2> QED BY <2>3 DEF Surjection
<1> DEFINE T == Sorted(nodes)
<1>9. DOMAIN T = 1..N /\ T = [i \in 1..N |-> T[i]] /\ \A i \in 1..N : T[i] = CHOOSE e \in S : rank(e) = i - 1
  <2>1. DOMAIN nodes = 1..N
    BY <1>1
  <2>2. T = [i \in 1..N |-> CHOOSE e \in S : rank(e) = i - 1]
    BY <2>1 DEF Sorted, rank, Below
  <2> HIDE DEF T, S, N
  <2> QED BY <2>2
<1> HIDE DEF T
<1>10. \A i \in 1..N : T[i] \in S /\ rank(T[i]) = i - 1
  <2> SUFFICES ASSUME NEW i \in 1..N PROVE T[i] \in S /\ rank(T[i]) = i - 1
    OBVIOUS
  <2>1. i - 1 \in 0..(N - 1)
    BY <1>1
  <2>2. \E e \in S : rank(e) = i - 1
    BY <1>8, <2>1
  <2> HIDE DEF S
  <2> QED BY <1>9, <2>2
<1>11. \A e \in S : \E i \in 1..N : T[i] = e
  <2> SUFFICES ASSUME NEW e \in S PROVE \E i \in 1..N : T[i] = e
    OBVIOUS
  <2>1. rank(e) \in 0..(N - 1)
    BY <1>5
  <2>2. rank(e) + 1 \in 1..N /\ (rank(e) + 1) - 1 = rank(e)
    BY <1>1, <2>1
  <2> QED BY <1>7, <1>10, <2>2
<1>12. IsSeq(T) /\ Len(T) = N
  BY <1>1, <1>9, SeqIs
<1>13. ToSet(T) = S
  <2>1. ToSet(T) = {T[i] : i \in 1..N}
    BY <1>9 DEF ToSet
  <2> HIDE DEF S
  <2> QED BY <1>10, <1>11, <2>1
<1>14. \A i \in 1..N : T[i].hash \in Nat
  BY <1>2, <1>10
<1>15. \A i, j \in 1..N : T[i].hash = T[j].hash => i = j
  <2> SUFFICES ASSUME NEW i \in 1..N, NEW j \in 1..N, T[i].hash = T[j].hash PROVE i = j
    OBVIOUS
  <2>1. T[i] = T[j]
    BY <1>3, <1>10
  <2>2. i - 1 = j - 1
    BY <1>10, <2>1
  <2> QED BY <2>2, <1>1
<1>16. Distinct(T)
  BY <1>12, <1>14, <1>15 DEF Distinct
<1> QED BY <1>12, <1>13, <1>16 DEF T

-----------------------------------------------------------------------------
(* What the compiler lays out.                                               *)
IsCompiler(c) ==
    /\ c = [nodes |-> c.nodes, payloads |-> c.payloads, paths |-> c.paths,
            holeBlobs |-> c.holeBlobs, mwBlobs |-> c.mwBlobs, mimes |-> c.mimes]
    /\ IsSeq(c.nodes) /\ IsSeq(c.payloads) /\ IsSeq(c.paths)
    /\ IsSeq(c.holeBlobs) /\ IsSeq(c.mwBlobs) /\ IsSeq(c.mimes)

Grows(c, d) ==
    /\ Begins(c.payloads, d.payloads) /\ Begins(c.paths, d.paths)
    /\ Begins(c.holeBlobs, d.holeBlobs) /\ Begins(c.mwBlobs, d.mwBlobs) /\ Begins(c.mimes, d.mimes)

IsEntry(e) ==
    /\ e = [hash |-> e.hash, pathOff |-> e.pathOff, pathLen |-> e.pathLen, action |-> e.action,
            methods |-> e.methods, hole |-> e.hole, variants |-> e.variants,
            mwOff |-> e.mwOff, mwCount |-> e.mwCount]
    /\ e.variants = [enc \in Encodings |-> e.variants[enc]]

(* The part of a section from off on is body.                                *)
Held(section, off, body) ==
    /\ off \in Nat /\ IsSeq(body) /\ off + Len(body) <= Len(section)
    /\ SubSeq(section, off + 1, off + Len(body)) = body

(* What a claim asks of its entry: the action, the methods, the middlewares, *)
(* the blob and the bytes under each encoding, none if it is not encoded so. *)
ActionOf(x) == IF x.kind = "action" THEN x.action ELSE IF x.kind = "file" THEN "file" ELSE "static"
MethodsOf(x) == IF x.kind = "action" THEN ParseMethods(x.methods) ELSE GetHead
MwOf(x) == IF x.kind = "action" THEN x.mw ELSE <<>>
BlobOf(x) == IF x.kind = "file" THEN [kind |-> "file", src |-> x.src, mime |-> x.mime]
             ELSE [kind |-> "hole", src |-> x.src, tables |-> x.tables]
Bytes(x, enc) ==
    IF x.kind \notin {"static", "hole"} THEN <<>>
    ELSE IF enc = "identity" THEN x.body
    ELSE IF x.kind = "static" /\ x.mime \in Compressible /\ x.body # <<>> THEN Compressed(x.body, enc)
    ELSE <<>>

IsClaim(x) ==
    /\ x.url \in DOMAIN Hash /\ x.kind \in {"static", "hole", "file", "action"}
    /\ IsSeq(MwOf(x)) /\ (x.kind # "action" => IsSeq(x.body))

HeaderOK(c, e, x) ==
    /\ IsEntry(e) /\ e.hash = Hash[x.url] /\ e.pathLen = Len(x.url) /\ Held(c.paths, e.pathOff, x.url)
    /\ e.action = ActionOf(x) /\ e.methods = MethodsOf(x)
MwOK(c, e, x) == e.mwCount = Len(MwOf(x)) /\ Held(c.mwBlobs, e.mwOff, MwOf(x))
HoleOK(c, e, x) ==
    IF x.kind \in {"hole", "file"}
    THEN e.hole \in Nat \ {0} /\ e.hole + 1 <= Len(c.holeBlobs) /\ c.holeBlobs[e.hole + 1] = BlobOf(x)
    ELSE e.hole = 0
PutAt(c, v, key, body) ==
    /\ v = [head |-> v.head, off |-> v.off, len |-> v.len]
    /\ v.len = Len(body) /\ Held(c.payloads, v.off, body)
    /\ v.len > 0 => v.head + 1 \in 1..Len(c.mimes) /\ c.mimes[v.head + 1] = key
VariantOK(c, e, x, enc) == PutAt(c, e.variants[enc], <<x.mime, enc>>, Bytes(x, enc))
Describes(c, e, x) ==
    /\ HeaderOK(c, e, x) /\ MwOK(c, e, x) /\ HoleOK(c, e, x)
    /\ \A enc \in Encodings : VariantOK(c, e, x, enc)

LEMMA HeldGrows ==
    ASSUME NEW s, NEW t, NEW off, NEW body, Held(s, off, body), Begins(s, t)
    PROVE  Held(t, off, body)
<1>1. Len(body) \in Nat /\ Len(s) \in Nat /\ Len(t) \in Nat /\ Len(s) <= Len(t)
  BY SeqFacts DEF Held, Begins
<1> DEFINE n == Len(body)
<1>2. off \in Nat /\ n \in Nat /\ off + n <= Len(s)
  BY <1>1 DEF Held
<1> HIDE DEF n
<1>3. SubSeq(t, off + 1, off + n) = SubSeq(s, off + 1, off + n)
  BY <1>2, BeginsPart
<1>4. SubSeq(t, off + 1, off + Len(body)) = body
  BY <1>3 DEF Held, n
<1> QED BY <1>1, <1>4 DEF Held

LEMMA HeldConcat ==
    ASSUME NEW s, NEW body, IsSeq(s), IsSeq(body)
    PROVE  Held(s \o body, Len(s), body)
<1>1. Len(s) \in Nat /\ Len(body) \in Nat /\ Len(s \o body) = Len(s) + Len(body)
  BY SeqFacts, ConcatSeq
<1>2. SubSeq(s \o body, Len(s) + 1, Len(s) + Len(body)) = body
  BY BeginsConcat
<1> DEFINE n == Len(s)
           t == s \o body
<1>3. n \in Nat /\ n + Len(body) <= Len(t) /\ SubSeq(t, n + 1, n + Len(body)) = body
  BY <1>1, <1>2
<1> HIDE DEF n, t
<1>4. Held(t, n, body)
  BY <1>3 DEF Held
<1> QED BY <1>4 DEF n, t

LEMMA BeginsAt ==
    ASSUME NEW s, NEW t, Begins(s, t)
    PROVE  \A i \in 1..Len(s) : i \in 1..Len(t) /\ t[i] = s[i]
<1>1. Len(s) \in Nat /\ Len(t) \in Nat
  BY SeqFacts DEF Begins
<1> QED BY <1>1 DEF Begins

LEMMA HeldEmpty ==
    ASSUME NEW s, NEW off \in Nat, IsSeq(s), off <= Len(s)
    PROVE  Held(s, off, <<>>)
<1>1. Len(<<>>) = 0 /\ IsSeq(<<>>)
  BY EmptyIsSeq
<1>2. SubSeq(s, off + 1, off + 0) = <<>>
  <2>1. off + 1 \in Int /\ off + 0 \in Int /\ ~(off + 1 <= off + 0) /\ 1..(off + 0 - (off + 1) + 1) = {}
    OBVIOUS
  <2>2. IsSeq(SubSeq(s, off + 1, off + 0)) /\ Len(SubSeq(s, off + 1, off + 0)) = 0
    BY <2>1, PartSeq
  <2> QED BY <1>1, <2>2, SeqEq, 1..0 = {}
<1> QED BY <1>1, <1>2, SeqFacts DEF Held

LEMMA PutGrows ==
    ASSUME NEW c, NEW d, NEW v, NEW key, NEW body, PutAt(c, v, key, body), Grows(c, d)
    PROVE  PutAt(d, v, key, body)
<1>1. Held(d.payloads, v.off, body)
  BY HeldGrows DEF PutAt, Grows
<1>2. v.len > 0 => v.head + 1 \in 1..Len(d.mimes) /\ d.mimes[v.head + 1] = key
  <2> SUFFICES ASSUME v.len > 0
               PROVE  v.head + 1 \in 1..Len(d.mimes) /\ d.mimes[v.head + 1] = key
    OBVIOUS
  <2> DEFINE i == v.head + 1
  <2>1. i \in 1..Len(c.mimes) /\ c.mimes[i] = key /\ Begins(c.mimes, d.mimes)
    BY DEF PutAt, Grows
  <2> HIDE DEF i
  <2>2. i \in 1..Len(d.mimes) /\ d.mimes[i] = c.mimes[i]
    BY <2>1, BeginsAt
  <2> QED BY <2>1, <2>2 DEF i
<1> QED BY <1>1, <1>2 DEF PutAt

LEMMA DescribesGrows ==
    ASSUME NEW c, NEW d, NEW e, NEW x, Describes(c, e, x), Grows(c, d)
    PROVE  Describes(d, e, x)
<1>1. HeaderOK(d, e, x)
  BY HeldGrows DEF Describes, HeaderOK, Grows
<1>2. MwOK(d, e, x)
  BY HeldGrows DEF Describes, MwOK, Grows
<1>3. HoleOK(d, e, x)
  <2> DEFINE i == e.hole + 1
  <2>1. x.kind \in {"hole", "file"} => i \in 1..Len(c.holeBlobs) /\ c.holeBlobs[i] = BlobOf(x)
    <3>1. Len(c.holeBlobs) \in Nat
      BY SeqFacts DEF Grows, Begins
    <3> QED BY <3>1 DEF Describes, HoleOK
  <2> HIDE DEF i
  <2>2. Begins(c.holeBlobs, d.holeBlobs) /\ Len(d.holeBlobs) \in Nat
    BY SeqFacts DEF Grows, Begins
  <2>3. ASSUME x.kind \in {"hole", "file"}
        PROVE  i \in 1..Len(d.holeBlobs) /\ d.holeBlobs[i] = BlobOf(x)
    <3>1. i \in 1..Len(c.holeBlobs) /\ c.holeBlobs[i] = BlobOf(x)
      BY <2>1, <2>3
    <3>2. i \in 1..Len(d.holeBlobs) /\ d.holeBlobs[i] = c.holeBlobs[i]
      BY <3>1, <2>2, BeginsAt
    <3> QED BY <3>1, <3>2
  <2> QED BY <2>2, <2>3 DEF Describes, HoleOK, i
<1>4. \A enc \in Encodings : VariantOK(d, e, x, enc)
  BY PutGrows DEF Describes, VariantOK
<1> QED BY <1>1, <1>2, <1>3, <1>4 DEF Describes

LEMMA GrowsSame == ASSUME NEW c, IsCompiler(c) PROVE Grows(c, c)
  BY BeginsSame DEF IsCompiler, Grows

LEMMA GrowsTrans ==
    ASSUME NEW c, NEW d, NEW f, Grows(c, d), Grows(d, f)
    PROVE  Grows(c, f)
  BY BeginsTrans DEF Grows

(* An entry e of the compiler d beside c: nothing but sections have grown.   *)
Beside(c, d) == IsCompiler(d) /\ Grows(c, d) /\ d.nodes = c.nodes

LEMMA BesideTrans ==
    ASSUME NEW c, NEW d, NEW f, Beside(c, d), Beside(d, f)
    PROVE  Beside(c, f)
  BY GrowsTrans DEF Beside

LEMMA NewEntryDoes ==
    ASSUME NEW c, NEW url, NEW action, NEW methods, IsCompiler(c), url \in DOMAIN Hash
    PROVE  LET s == NewEntry(c, url, action, methods)
           IN  /\ Beside(c, s.c) /\ s.c.mwBlobs = c.mwBlobs
               /\ IsEntry(s.e) /\ s.e.hash = Hash[url] /\ s.e.pathLen = Len(url)
               /\ Held(s.c.paths, s.e.pathOff, url) /\ s.e.action = action /\ s.e.methods = methods
               /\ s.e.hole = 0 /\ s.e.mwOff = 0 /\ s.e.mwCount = 0
               /\ \A enc \in Encodings : s.e.variants[enc] = NoVariant
<1> DEFINE s == NewEntry(c, url, action, methods)
<1>1. IsSeq(url)
  BY HashInjective, SeqIn
<1>2. s.c = [c EXCEPT !.paths = c.paths \o url]
  BY DEF NewEntry
<1>3. s.e = [hash |-> Hash[url], pathOff |-> Len(c.paths), pathLen |-> Len(url),
            action |-> action, methods |-> methods, hole |-> 0,
            variants |-> [enc \in Encodings |-> NoVariant], mwOff |-> 0, mwCount |-> 0]
  BY DEF NewEntry
<1> HIDE DEF s
<1>4. IsSeq(c.paths) /\ Len(c.paths) \in Nat /\ IsSeq(c.paths \o url) /\ Begins(c.paths, c.paths \o url)
      /\ Len(c.paths \o url) = Len(c.paths) + Len(url) /\ Len(url) \in Nat
      /\ SubSeq(c.paths \o url, Len(c.paths) + 1, Len(c.paths) + Len(url)) = url
  BY <1>1, ConcatSeq, BeginsConcat, SeqFacts DEF IsCompiler
<1>5. /\ s.c = [nodes |-> c.nodes, payloads |-> c.payloads, paths |-> c.paths \o url,
               holeBlobs |-> c.holeBlobs, mwBlobs |-> c.mwBlobs, mimes |-> c.mimes]
  BY <1>2 DEF IsCompiler
<1>6. Beside(c, s.c) /\ s.c.mwBlobs = c.mwBlobs
  <2>1. IsCompiler(s.c)
    BY <1>4, <1>5 DEF IsCompiler
  <2>2. Grows(c, s.c)
    BY <1>4, <1>5, BeginsSame DEF Grows, IsCompiler
  <2> QED BY <1>5, <2>1, <2>2 DEF Beside
<1>7. Held(s.c.paths, s.e.pathOff, url)
  BY <1>1, <1>3, <1>4, <1>5, HeldConcat
<1>8. IsEntry(s.e) /\ \A enc \in Encodings : s.e.variants[enc] = NoVariant
  BY <1>3 DEF IsEntry
<1> QED BY <1>3, <1>6, <1>7, <1>8 DEF s

LEMMA PutVariantDoes ==
    ASSUME NEW s, NEW mime, NEW enc \in Encodings, NEW body,
           IsCompiler(s.c), IsEntry(s.e), IsSeq(body)
    PROVE  LET o == PutVariant(s, mime, enc, body)
           IN  /\ Beside(s.c, o.c) /\ o.c.mwBlobs = s.c.mwBlobs /\ IsEntry(o.e)
               /\ o.e.hash = s.e.hash /\ o.e.pathLen = s.e.pathLen /\ o.e.pathOff = s.e.pathOff
               /\ o.e.action = s.e.action /\ o.e.methods = s.e.methods
               /\ o.e.hole = s.e.hole /\ o.e.mwOff = s.e.mwOff /\ o.e.mwCount = s.e.mwCount
               /\ \A k \in Encodings \ {enc} : o.e.variants[k] = s.e.variants[k]
               /\ PutAt(o.c, o.e.variants[enc], <<mime, enc>>, body)
<1> DEFINE o == PutVariant(s, mime, enc, body)
           key == <<mime, enc>>
           mimes == internMime(s.c.mimes, key)
           v == [head |-> IndexOf(mimes, key) - 1, off |-> Len(s.c.payloads), len |-> Len(body)]
<1>1. o.c = [s.c EXCEPT !.mimes = mimes, !.payloads = s.c.payloads \o body]
  BY DEF PutVariant
<1>2. o.e = [s.e EXCEPT !.variants[enc] = v]
  BY DEF PutVariant
<1> HIDE DEF o
<1>3. Begins(s.c.mimes, mimes) /\ key \in ToSet(mimes)
  BY Interned DEF IsCompiler
<1> HIDE DEF mimes
<1>4. IndexOf(mimes, key) \in 1..Len(mimes) /\ mimes[IndexOf(mimes, key)] = key /\ IsSeq(mimes) /\ Len(mimes) \in Nat
  BY <1>3, IndexOfIn, SeqFacts DEF Begins
<1>5. o.c = [nodes |-> s.c.nodes, payloads |-> s.c.payloads \o body, paths |-> s.c.paths,
             holeBlobs |-> s.c.holeBlobs, mwBlobs |-> s.c.mwBlobs, mimes |-> mimes]
  BY <1>1 DEF IsCompiler
<1>6. Begins(s.c.payloads, s.c.payloads \o body) /\ IsSeq(s.c.payloads \o body)
      /\ Len(s.c.payloads \o body) = Len(s.c.payloads) + Len(body)
      /\ Len(s.c.payloads) \in Nat /\ Len(body) \in Nat
      /\ SubSeq(s.c.payloads \o body, Len(s.c.payloads) + 1, Len(s.c.payloads) + Len(body)) = body
  BY ConcatSeq, BeginsConcat, SeqFacts DEF IsCompiler
<1>7. Beside(s.c, o.c) /\ o.c.mwBlobs = s.c.mwBlobs
  <2>1. IsCompiler(o.c)
    BY <1>4, <1>5, <1>6 DEF IsCompiler
  <2>2. Grows(s.c, o.c)
    BY <1>3, <1>5, <1>6, BeginsSame DEF Grows, IsCompiler
  <2> QED BY <1>5, <2>1, <2>2 DEF Beside
<1> HIDE DEF v
<1>8. /\ o.e = [hash |-> s.e.hash, pathOff |-> s.e.pathOff, pathLen |-> s.e.pathLen,
               action |-> s.e.action, methods |-> s.e.methods, hole |-> s.e.hole,
               variants |-> [s.e.variants EXCEPT ![enc] = v],
               mwOff |-> s.e.mwOff, mwCount |-> s.e.mwCount]
  BY <1>2 DEF IsEntry
<1>9. o.e.variants = [k \in Encodings |-> IF k = enc THEN v ELSE s.e.variants[k]]
  <2>1. o.e.variants = [s.e.variants EXCEPT ![enc] = v]
    BY <1>8
  <2>2. DOMAIN s.e.variants = Encodings
    BY DEF IsEntry
  <2> QED BY <2>1, <2>2
<1>10. IsEntry(o.e)
  BY <1>8, <1>9 DEF IsEntry
<1>11. PutAt(o.c, o.e.variants[enc], key, body)
  <2>1. o.e.variants[enc] = v
    BY <1>9
  <2>2. Held(o.c.payloads, v.off, body)
    <3>1. Held(s.c.payloads \o body, Len(s.c.payloads), body)
      BY HeldConcat DEF IsCompiler
    <3> QED BY <3>1, <1>5 DEF v
  <2>3. v.head + 1 \in 1..Len(o.c.mimes) /\ o.c.mimes[v.head + 1] = key
    <3>1. v.head + 1 = IndexOf(mimes, key)
      BY <1>4 DEF v
    <3> HIDE DEF key
    <3> QED BY <1>4, <1>5, <3>1
  <2> HIDE DEF key
  <2>4. v = [head |-> v.head, off |-> v.off, len |-> v.len] /\ v.len = Len(body)
    BY DEF v
  <2> QED BY <2>1, <2>2, <2>3, <2>4 DEF PutAt
<1> QED BY <1>7, <1>8, <1>9, <1>10, <1>11 DEF o

LEMMA AppendBlobDoes ==
    ASSUME NEW s, NEW blob, IsCompiler(s.c), IsEntry(s.e)
    PROVE  LET o == appendBlob(s, blob)
           IN  /\ Beside(s.c, o.c) /\ o.c.mwBlobs = s.c.mwBlobs /\ IsEntry(o.e)
               /\ o.e.hash = s.e.hash /\ o.e.pathLen = s.e.pathLen /\ o.e.pathOff = s.e.pathOff
               /\ o.e.action = s.e.action /\ o.e.methods = s.e.methods
               /\ o.e.mwOff = s.e.mwOff /\ o.e.mwCount = s.e.mwCount /\ o.e.variants = s.e.variants
               /\ o.e.hole \in Nat \ {0} /\ o.e.hole + 1 <= Len(o.c.holeBlobs)
               /\ o.c.holeBlobs[o.e.hole + 1] = blob
<1> DEFINE o == appendBlob(s, blob)
           blobs == IF s.c.holeBlobs = <<>> THEN <<[kind |-> "reserved"]>> ELSE s.c.holeBlobs
           all == Append(blobs, blob)
<1>1. o.c = [s.c EXCEPT !.holeBlobs = all] /\ o.e = [s.e EXCEPT !.hole = Len(blobs)]
  BY DEF appendBlob
<1> HIDE DEF o
<1>2. IsSeq(blobs) /\ Len(blobs) \in Nat \ {0} /\ Begins(s.c.holeBlobs, blobs)
  <2>1. CASE s.c.holeBlobs = <<>>
    <3>1. IsSeq(blobs) /\ Len(blobs) = 1
      <4> DEFINE a == [kind |-> "reserved"]
      <4>1. blobs = <<a>>
        BY <2>1
      <4> HIDE DEF a, blobs
      <4>2. <<a>> \in Seq({a}) /\ Len(<<a>>) = 1
        OBVIOUS
      <4> QED BY <4>1, <4>2, SeqIn
    <3>2. Begins(<<>>, blobs)
      BY <3>1, EmptyIsSeq DEF Begins
    <3> QED BY <2>1, <3>1, <3>2
  <2>2. CASE s.c.holeBlobs # <<>>
    <3>1. IsSeq(s.c.holeBlobs) /\ Len(s.c.holeBlobs) # 0
      BY <2>2, SeqEq, EmptyIsSeq, 1..0 = {} DEF IsCompiler
    <3> QED BY <2>2, <3>1, SeqFacts, BeginsSame
  <2> QED BY <2>1, <2>2
<1> HIDE DEF blobs
<1>3. IsSeq(all) /\ Len(all) = Len(blobs) + 1 /\ all[Len(blobs) + 1] = blob /\ Begins(s.c.holeBlobs, all)
  BY <1>2, AppendSeq, BeginsAppend, BeginsTrans
<1> HIDE DEF all
<1>4. o.c = [nodes |-> s.c.nodes, payloads |-> s.c.payloads, paths |-> s.c.paths,
             holeBlobs |-> all, mwBlobs |-> s.c.mwBlobs, mimes |-> s.c.mimes]
  BY <1>1 DEF IsCompiler
<1>5. Beside(s.c, o.c) /\ o.c.mwBlobs = s.c.mwBlobs
  <2>1. IsCompiler(o.c)
    BY <1>3, <1>4 DEF IsCompiler
  <2>2. Grows(s.c, o.c)
    BY <1>3, <1>4, BeginsSame DEF Grows, IsCompiler
  <2> QED BY <1>4, <2>1, <2>2 DEF Beside
<1>6. o.e = [hash |-> s.e.hash, pathOff |-> s.e.pathOff, pathLen |-> s.e.pathLen,
             action |-> s.e.action, methods |-> s.e.methods, hole |-> Len(blobs),
             variants |-> s.e.variants, mwOff |-> s.e.mwOff, mwCount |-> s.e.mwCount]
  BY <1>1 DEF IsEntry
<1>7. IsEntry(o.e)
  BY <1>6 DEF IsEntry
<1> QED BY <1>2, <1>3, <1>4, <1>5, <1>6, <1>7 DEF o

LEMMA HeaderMoves ==
    ASSUME NEW c, NEW d, NEW e, NEW f, NEW x, HeaderOK(c, e, x), Grows(c, d), IsEntry(f),
           f.hash = e.hash, f.pathLen = e.pathLen, f.pathOff = e.pathOff,
           f.action = e.action, f.methods = e.methods
    PROVE  HeaderOK(d, f, x)
<1>1. Held(d.paths, e.pathOff, x.url)
  BY HeldGrows DEF HeaderOK, Grows
<1> QED BY <1>1 DEF HeaderOK

LEMMA PutNothing ==
    ASSUME NEW c, NEW key, IsCompiler(c)
    PROVE  PutAt(c, NoVariant, key, <<>>)
<1>1. IsSeq(c.payloads) /\ Len(c.payloads) \in Nat
  BY SeqFacts DEF IsCompiler
<1>2. Held(c.payloads, 0, <<>>)
  BY <1>1, HeldEmpty
<1>3. NoVariant.off = 0 /\ NoVariant.len = 0 /\ NoVariant.head = 0
      /\ NoVariant = [head |-> NoVariant.head, off |-> NoVariant.off, len |-> NoVariant.len]
  BY DEF NoVariant
<1>4. Len(<<>>) = 0
  BY EmptyIsSeq
<1> QED BY <1>2, <1>3, <1>4 DEF PutAt

(* The middlewares of a page's entry, which has none.                        *)
LEMMA NoMw ==
    ASSUME NEW c, NEW e, NEW x, IsCompiler(c), x.kind # "action", e.mwOff = 0, e.mwCount = 0
    PROVE  MwOK(c, e, x)
<1>1. IsSeq(c.mwBlobs) /\ Len(c.mwBlobs) \in Nat
  BY SeqFacts DEF IsCompiler
<1>2. Held(c.mwBlobs, 0, <<>>)
  BY <1>1, HeldEmpty
<1> QED BY <1>2, EmptyIsSeq DEF MwOK, MwOf

LEMMA CompressedSeq ==
    ASSUME NEW body, NEW enc
    PROVE  IsSeq(Compressed(body, enc)) /\ Len(Compressed(body, enc)) = 1
<1> DEFINE a == [Head(body) EXCEPT !.enc = enc]
<1>1. Compressed(body, enc) = <<a>>
  BY DEF Compressed
<1> HIDE DEF a
<1>2. <<a>> \in Seq({a}) /\ Len(<<a>>) = 1
  OBVIOUS
<1> QED BY <1>1, <1>2, SeqIn

(* The encodings of a body. *)
Encoded(body, mime, enc) ==
    IF enc = "identity" THEN body
    ELSE IF mime \in Compressible /\ body # <<>> THEN Compressed(body, enc) ELSE <<>>

Filled(s, o) ==
    /\ Beside(s.c, o.c) /\ o.c.mwBlobs = s.c.mwBlobs /\ IsEntry(o.e)
    /\ o.e.hash = s.e.hash /\ o.e.pathLen = s.e.pathLen /\ o.e.pathOff = s.e.pathOff
    /\ o.e.action = s.e.action /\ o.e.methods = s.e.methods
    /\ o.e.hole = s.e.hole /\ o.e.mwOff = s.e.mwOff /\ o.e.mwCount = s.e.mwCount

LEMMA FilledTrans ==
    ASSUME NEW s, NEW o, NEW p, Filled(s, o), Filled(o, p)
    PROVE  Filled(s, p)
  BY BesideTrans DEF Filled

Puts(s, o, mime, enc, body) ==
    /\ Filled(s, o)
    /\ \A k \in Encodings \ {enc} : o.e.variants[k] = s.e.variants[k]
    /\ PutAt(o.c, o.e.variants[enc], <<mime, enc>>, body)

LEMMA PutFills ==
    ASSUME NEW s, NEW mime, NEW enc \in Encodings, NEW body,
           IsCompiler(s.c), IsEntry(s.e), IsSeq(body)
    PROVE  Puts(s, PutVariant(s, mime, enc, body), mime, enc, body)
  BY PutVariantDoes DEF Puts, Filled

LEMMA FillDoes ==
    ASSUME NEW s, NEW body, NEW mime, IsCompiler(s.c), IsEntry(s.e), IsSeq(body),
           \A enc \in Encodings : s.e.variants[enc] = NoVariant
    PROVE  LET o == fillStaticVariants(s, body, mime)
           IN  /\ Filled(s, o)
               /\ \A enc \in Encodings :
                     PutAt(o.c, o.e.variants[enc], <<mime, enc>>, Encoded(body, mime, enc))
<1> DEFINE id == PutVariant(s, mime, "identity", body)
           zbody == Compressed(body, "gzip")
           bbody == Compressed(body, "br")
           gz == PutVariant(id, mime, "gzip", zbody)
           br == PutVariant(gz, mime, "br", bbody)
<1>1. fillStaticVariants(s, body, mime) = IF mime \in Compressible /\ body # <<>> THEN br ELSE id
  BY DEF fillStaticVariants
<1>2. IsSeq(zbody) /\ IsSeq(bbody)
  BY CompressedSeq
<1>0. /\ id = PutVariant(s, mime, "identity", body) /\ gz = PutVariant(id, mime, "gzip", zbody)
      /\ br = PutVariant(gz, mime, "br", bbody)
  OBVIOUS
<1> HIDE DEF id, gz, br, zbody, bbody
<1>3. "identity" \in Encodings /\ "gzip" \in Encodings /\ "br" \in Encodings
      /\ Encodings = {"identity", "gzip", "br"}
  BY DEF Encodings
<1>4. /\ Filled(s, id)
      /\ id.e.variants["gzip"] = NoVariant /\ id.e.variants["br"] = NoVariant
      /\ PutAt(id.c, id.e.variants["identity"], <<mime, "identity">>, body)
  <2>1. "gzip" \in Encodings \ {"identity"} /\ "br" \in Encodings \ {"identity"}
    BY <1>3
  <2>3. /\ Filled(s, id)
        /\ \A k \in Encodings \ {"identity"} : id.e.variants[k] = s.e.variants[k]
        /\ PutAt(id.c, id.e.variants["identity"], <<mime, "identity">>, body)
    <3>1. Puts(s, id, mime, "identity", body)
      BY <1>0, <1>3, PutFills
    <3> QED BY <3>1 DEF Puts
  <2> QED BY <2>1, <2>3
<1>5. IsCompiler(id.c) /\ IsEntry(id.e)
  BY <1>4 DEF Filled, Beside
<1>6. /\ Filled(id, gz)
      /\ gz.e.variants["identity"] = id.e.variants["identity"] /\ gz.e.variants["br"] = NoVariant
      /\ PutAt(gz.c, gz.e.variants["gzip"], <<mime, "gzip">>, zbody)
  <2>1. "identity" \in Encodings \ {"gzip"} /\ "br" \in Encodings \ {"gzip"}
    BY <1>3
  <2>3. /\ Filled(id, gz)
        /\ \A k \in Encodings \ {"gzip"} : gz.e.variants[k] = id.e.variants[k]
        /\ PutAt(gz.c, gz.e.variants["gzip"], <<mime, "gzip">>, zbody)
    <3>1. Puts(id, gz, mime, "gzip", zbody)
      BY <1>0, <1>2, <1>3, <1>5, PutFills
    <3> QED BY <3>1 DEF Puts
  <2> QED BY <1>4, <2>1, <2>3
<1>7. IsCompiler(gz.c) /\ IsEntry(gz.e)
  BY <1>6 DEF Filled, Beside
<1>8. /\ Filled(gz, br)
      /\ br.e.variants["identity"] = gz.e.variants["identity"]
      /\ br.e.variants["gzip"] = gz.e.variants["gzip"]
      /\ PutAt(br.c, br.e.variants["br"], <<mime, "br">>, bbody)
  <2>1. "identity" \in Encodings \ {"br"} /\ "gzip" \in Encodings \ {"br"}
    BY <1>3
  <2>3. /\ Filled(gz, br)
        /\ \A k \in Encodings \ {"br"} : br.e.variants[k] = gz.e.variants[k]
        /\ PutAt(br.c, br.e.variants["br"], <<mime, "br">>, bbody)
    <3>1. Puts(gz, br, mime, "br", bbody)
      BY <1>0, <1>2, <1>3, <1>7, PutFills
    <3> QED BY <3>1 DEF Puts
  <2> QED BY <2>1, <2>3
<1>9. Filled(s, br)
  BY <1>4, <1>6, <1>8, FilledTrans
<1>10. CASE mime \in Compressible /\ body # <<>>
  <2>1. PutAt(br.c, br.e.variants["gzip"], <<mime, "gzip">>, zbody)
    BY <1>6, <1>8, PutGrows DEF Filled, Beside
  <2>2. PutAt(br.c, br.e.variants["identity"], <<mime, "identity">>, body)
    <3>1. PutAt(gz.c, id.e.variants["identity"], <<mime, "identity">>, body)
      BY <1>4, <1>6, PutGrows DEF Filled, Beside
    <3>2. PutAt(br.c, id.e.variants["identity"], <<mime, "identity">>, body)
      BY <1>8, <3>1, PutGrows DEF Filled, Beside
    <3> QED BY <1>6, <1>8, <3>2
  <2>3. Encoded(body, mime, "identity") = body /\ Encoded(body, mime, "gzip") = zbody
        /\ Encoded(body, mime, "br") = bbody
    BY <1>10 DEF Encoded, zbody, bbody
  <2>4. \A enc \in Encodings : PutAt(br.c, br.e.variants[enc], <<mime, enc>>, Encoded(body, mime, enc))
    BY <1>3, <1>8, <2>1, <2>2, <2>3
  <2> QED BY <1>1, <1>9, <1>10, <2>4
<1>11. CASE ~(mime \in Compressible /\ body # <<>>)
  <2>1. Encoded(body, mime, "identity") = body /\ Encoded(body, mime, "gzip") = <<>>
        /\ Encoded(body, mime, "br") = <<>>
    BY <1>11 DEF Encoded
  <2>2. PutAt(id.c, id.e.variants["gzip"], <<mime, "gzip">>, <<>>)
        /\ PutAt(id.c, id.e.variants["br"], <<mime, "br">>, <<>>)
    BY <1>4, <1>5, PutNothing
  <2>3. \A enc \in Encodings : PutAt(id.c, id.e.variants[enc], <<mime, enc>>, Encoded(body, mime, enc))
    BY <1>3, <1>4, <2>1, <2>2
  <2> QED BY <1>1, <1>4, <1>11, <2>3
<1> QED BY <1>10, <1>11

(* d is the compiler c with an entry for the claim x.                        *)
Adds(c, d, x) ==
    /\ IsCompiler(d) /\ Grows(c, d)
    /\ \E e : d.nodes = Append(c.nodes, e) /\ Describes(d, e, x)

LEMMA AddDoes ==
    ASSUME NEW c, NEW s, NEW x, Beside(c, s.c), Describes(s.c, s.e, x)
    PROVE  Adds(c, Add(s), x) /\ Add(s).mwBlobs = s.c.mwBlobs
<1> DEFINE d == Add(s)
           nodes == Append(s.c.nodes, s.e)
<1>1. d = [s.c EXCEPT !.nodes = nodes]
  BY DEF Add
<1>2. IsCompiler(s.c) /\ s.c.nodes = c.nodes
  BY DEF Beside
<1>3. IsSeq(nodes)
  BY <1>2, AppendSeq DEF IsCompiler
<1> HIDE DEF d, nodes
<1>4. d = [nodes |-> nodes, payloads |-> s.c.payloads, paths |-> s.c.paths,
           holeBlobs |-> s.c.holeBlobs, mwBlobs |-> s.c.mwBlobs, mimes |-> s.c.mimes]
  BY <1>1, <1>2 DEF IsCompiler
<1>5. IsCompiler(d) /\ Grows(s.c, d)
  BY <1>2, <1>3, <1>4, BeginsSame DEF IsCompiler, Grows
<1>6. Grows(c, d) /\ Describes(d, s.e, x)
  BY <1>5, GrowsTrans, DescribesGrows DEF Beside
<1>7. d.nodes = Append(c.nodes, s.e) /\ d.mwBlobs = s.c.mwBlobs
  BY <1>2, <1>4 DEF nodes
<1> QED BY <1>5, <1>6, <1>7 DEF Adds, d

LEMMA PipelineEntryAdds ==
    ASSUME NEW c, NEW r, IsCompiler(c), IsResult(r), r.kind # "meta"
    PROVE  Adds(c, addPipelineEntry(c, r), r)
<1> DEFINE act == IF r.kind = "file" THEN "file" ELSE "static"
           s == NewEntry(c, r.url, act, GetHead)
<1>1. r.url \in DOMAIN Hash /\ IsSeq(r.body) /\ r.kind \in {"static", "hole", "file"}
  BY SeqIn DEF IsResult
<1>2. /\ Beside(c, s.c) /\ HeaderOK(s.c, s.e, r)
      /\ s.e.hole = 0 /\ s.e.mwOff = 0 /\ s.e.mwCount = 0
      /\ \A enc \in Encodings : s.e.variants[enc] = NoVariant
  <2> HIDE DEF s, act
  <2>1. /\ Beside(c, s.c) /\ s.c.mwBlobs = c.mwBlobs
        /\ IsEntry(s.e) /\ s.e.hash = Hash[r.url] /\ s.e.pathLen = Len(r.url)
        /\ Held(s.c.paths, s.e.pathOff, r.url) /\ s.e.action = act /\ s.e.methods = GetHead
        /\ s.e.hole = 0 /\ s.e.mwOff = 0 /\ s.e.mwCount = 0
        /\ \A enc \in Encodings : s.e.variants[enc] = NoVariant
    BY <1>1, NewEntryDoes DEF s
  <2>2. act = ActionOf(r) /\ GetHead = MethodsOf(r)
    BY <1>1 DEF ActionOf, MethodsOf, act
  <2>3. HeaderOK(s.c, s.e, r)
    BY <2>1, <2>2 DEF HeaderOK
  <2> QED BY <2>1, <2>3
<1>3. addPipelineEntry(c, r) =
        Add(CASE r.kind = "file" -> appendBlob(s, [kind |-> "file", src |-> r.src, mime |-> r.mime])
              [] r.kind = "hole" -> appendBlob(PutVariant(s, r.mime, "identity", r.body),
                                               [kind |-> "hole", src |-> r.src, tables |-> r.tables])
              [] OTHER -> fillStaticVariants(s, r.body, r.mime))
  BY DEF addPipelineEntry
<1> HIDE DEF s, act
<1>4. IsCompiler(s.c) /\ IsEntry(s.e)
  BY <1>2 DEF Beside, HeaderOK
<1>5. CASE r.kind = "static"
  <2> DEFINE o == fillStaticVariants(s, r.body, r.mime)
  <2>1. /\ Filled(s, o)
        /\ \A enc \in Encodings : PutAt(o.c, o.e.variants[enc], <<r.mime, enc>>, Encoded(r.body, r.mime, enc))
    BY <1>1, <1>2, <1>4, FillDoes
  <2> HIDE DEF o
  <2>2. \A enc \in Encodings : Encoded(r.body, r.mime, enc) = Bytes(r, enc)
    BY <1>5 DEF Encoded, Bytes
  <2>3. HeaderOK(o.c, o.e, r)
    BY <1>2, <2>1, HeaderMoves DEF Filled, Beside
  <2>4. MwOK(o.c, o.e, r)
    BY <1>2, <1>5, <2>1, NoMw DEF Filled, Beside
  <2>5. HoleOK(o.c, o.e, r)
    BY <1>2, <1>5, <2>1 DEF HoleOK, Filled
  <2>6. Describes(o.c, o.e, r)
    BY <2>1, <2>2, <2>3, <2>4, <2>5 DEF Describes, VariantOK
  <2>7. Beside(c, o.c)
    BY <1>2, <2>1, BesideTrans DEF Filled
  <2>8. addPipelineEntry(c, r) = Add(o)
    BY <1>3, <1>5 DEF o
  <2> QED BY <2>6, <2>7, <2>8, AddDoes
<1>6. CASE r.kind = "hole"
  <2> DEFINE p == PutVariant(s, r.mime, "identity", r.body)
             blob == [kind |-> "hole", src |-> r.src, tables |-> r.tables]
             o == appendBlob(p, blob)
  <2>0. "identity" \in Encodings
    BY DEF Encodings
  <2>1. /\ Filled(s, p) /\ PutAt(p.c, p.e.variants["identity"], <<r.mime, "identity">>, r.body)
        /\ \A k \in Encodings \ {"identity"} : p.e.variants[k] = NoVariant
    <3> HIDE DEF p
    <3> QED BY <1>1, <1>2, <1>4, <2>0, PutVariantDoes DEF Filled, p
  <2>2. IsCompiler(p.c) /\ IsEntry(p.e)
    BY <2>1 DEF Filled, Beside
  <2> HIDE DEF p, blob
  <2>3. /\ Beside(p.c, o.c) /\ IsEntry(o.e)
        /\ o.e.hash = p.e.hash /\ o.e.pathLen = p.e.pathLen /\ o.e.pathOff = p.e.pathOff
        /\ o.e.action = p.e.action /\ o.e.methods = p.e.methods
        /\ o.e.mwOff = p.e.mwOff /\ o.e.mwCount = p.e.mwCount /\ o.e.variants = p.e.variants
        /\ o.e.hole \in Nat \ {0} /\ o.e.hole + 1 <= Len(o.c.holeBlobs)
        /\ o.c.holeBlobs[o.e.hole + 1] = blob
    BY <2>2, AppendBlobDoes
  <2> HIDE DEF o
  <2>4. HeaderOK(o.c, o.e, r)
    <3>1. HeaderOK(p.c, p.e, r)
      BY <1>2, <2>1, HeaderMoves DEF Filled, Beside
    <3> QED BY <2>3, <3>1, HeaderMoves DEF Beside
  <2>5. MwOK(o.c, o.e, r)
    BY <1>2, <1>6, <2>1, <2>3, NoMw DEF Filled, Beside
  <2>6. HoleOK(o.c, o.e, r)
    <3>1. BlobOf(r) = blob
      BY <1>6 DEF BlobOf, blob
    <3> QED BY <1>6, <2>3, <3>1 DEF HoleOK
  <2>7. ASSUME NEW enc \in Encodings PROVE VariantOK(o.c, o.e, r, enc)
    <3>1. CASE enc = "identity"
      <4>1. PutAt(o.c, o.e.variants[enc], <<r.mime, enc>>, r.body)
        BY <2>1, <2>3, <3>1, PutGrows DEF Beside
      <4>2. Bytes(r, enc) = r.body
        BY <1>6, <3>1 DEF Bytes
      <4> QED BY <4>1, <4>2 DEF VariantOK
    <3>2. CASE enc # "identity"
      <4>1. Bytes(r, enc) = <<>>
        BY <1>6, <3>2 DEF Bytes
      <4>2. o.e.variants[enc] = NoVariant
        BY <2>1, <2>3, <3>2
      <4> QED BY <2>3, <4>1, <4>2, PutNothing DEF VariantOK, Beside
    <3> QED BY <3>1, <3>2
  <2>8. Describes(o.c, o.e, r)
    BY <2>4, <2>5, <2>6, <2>7 DEF Describes
  <2>9. Beside(c, o.c)
    BY <1>2, <2>1, <2>3, BesideTrans DEF Filled
  <2>10. addPipelineEntry(c, r) = Add(o)
    BY <1>3, <1>6 DEF o, p, blob
  <2> QED BY <2>8, <2>9, <2>10, AddDoes
<1>7. CASE r.kind = "file"
  <2> DEFINE blob == [kind |-> "file", src |-> r.src, mime |-> r.mime]
             o == appendBlob(s, blob)
  <2> HIDE DEF blob
  <2>3. /\ Beside(s.c, o.c) /\ IsEntry(o.e)
        /\ o.e.hash = s.e.hash /\ o.e.pathLen = s.e.pathLen /\ o.e.pathOff = s.e.pathOff
        /\ o.e.action = s.e.action /\ o.e.methods = s.e.methods
        /\ o.e.mwOff = s.e.mwOff /\ o.e.mwCount = s.e.mwCount /\ o.e.variants = s.e.variants
        /\ o.e.hole \in Nat \ {0} /\ o.e.hole + 1 <= Len(o.c.holeBlobs)
        /\ o.c.holeBlobs[o.e.hole + 1] = blob
    BY <1>4, AppendBlobDoes
  <2> HIDE DEF o
  <2>4. HeaderOK(o.c, o.e, r)
    BY <1>2, <2>3, HeaderMoves DEF Beside
  <2>5. MwOK(o.c, o.e, r)
    BY <1>2, <1>7, <2>3, NoMw DEF Beside
  <2>6. HoleOK(o.c, o.e, r)
    <3>1. BlobOf(r) = blob
      BY <1>7 DEF BlobOf, blob
    <3> QED BY <1>7, <2>3, <3>1 DEF HoleOK
  <2>7. ASSUME NEW enc \in Encodings PROVE VariantOK(o.c, o.e, r, enc)
    <3>1. Bytes(r, enc) = <<>>
      BY <1>7 DEF Bytes
    <3>2. o.e.variants[enc] = NoVariant
      BY <1>2, <2>3
    <3> QED BY <2>3, <3>1, <3>2, PutNothing DEF VariantOK, Beside
  <2>8. Describes(o.c, o.e, r)
    BY <2>4, <2>5, <2>6, <2>7 DEF Describes
  <2>9. Beside(c, o.c)
    BY <1>2, <2>3, BesideTrans
  <2>10. addPipelineEntry(c, r) = Add(o)
    BY <1>3, <1>7 DEF o, blob
  <2> QED BY <2>8, <2>9, <2>10, AddDoes
<1> QED BY <1>1, <1>5, <1>6, <1>7

(* The studio's index page as a claim.                                       *)
StudioPage ==
    [url |-> <<>>, kind |-> "static", src |-> "studio", mime |-> HTML, body |-> StudioBody]

LEMMA StaticRouteAdds ==
    ASSUME NEW c, IsCompiler(c)
    PROVE  Adds(c, AddStaticRoute(c, <<>>, StudioBody, HTML), StudioPage)
<1> DEFINE x == StudioPage
           s == NewEntry(c, <<>>, "static", GetHead)
           o == IF StudioBody # <<>> THEN fillStaticVariants(s, StudioBody, HTML) ELSE s
<1>1. <<>> \in DOMAIN Hash /\ IsSeq(StudioBody)
  BY StudioConstants, SeqIn
<1>2. AddStaticRoute(c, <<>>, StudioBody, HTML) = Add(o)
  BY DEF AddStaticRoute
<1>3. x.url = <<>> /\ x.kind = "static" /\ x.mime = HTML /\ x.body = StudioBody
  BY DEF StudioPage
<1> HIDE DEF x
<1>4. /\ Beside(c, s.c) /\ s.c.mwBlobs = c.mwBlobs
      /\ IsEntry(s.e) /\ s.e.hash = Hash[<<>>] /\ s.e.pathLen = Len(<<>>)
      /\ Held(s.c.paths, s.e.pathOff, <<>>) /\ s.e.action = "static" /\ s.e.methods = GetHead
      /\ s.e.hole = 0 /\ s.e.mwOff = 0 /\ s.e.mwCount = 0
      /\ \A enc \in Encodings : s.e.variants[enc] = NoVariant
  BY <1>1, NewEntryDoes
<1>5. HeaderOK(s.c, s.e, x)
  BY <1>3, <1>4 DEF HeaderOK, ActionOf, MethodsOf
<1> HIDE DEF s
<1>6. /\ Filled(s, o)
      /\ \A enc \in Encodings : PutAt(o.c, o.e.variants[enc], <<HTML, enc>>, Encoded(StudioBody, HTML, enc))
  <2>1. IsCompiler(s.c)
    BY <1>4 DEF Beside
  <2>2. CASE StudioBody # <<>>
    <3>1. o = fillStaticVariants(s, StudioBody, HTML)
      BY <2>2
    <3> HIDE DEF o
    <3> QED BY <1>1, <1>4, <2>1, <3>1, FillDoes
  <2>3. CASE StudioBody = <<>>
    <3>1. o = s
      BY <2>3
    <3> HIDE DEF o
    <3>2. Filled(s, s)
      BY <1>4, <2>1, GrowsSame DEF Filled, Beside
    <3>3. \A enc \in Encodings : Encoded(StudioBody, HTML, enc) = <<>>
      BY <2>3 DEF Encoded
    <3> QED BY <1>4, <2>1, <3>1, <3>2, <3>3, PutNothing
  <2> QED BY <2>2, <2>3
<1> HIDE DEF o
<1>7. IsCompiler(o.c) /\ Grows(s.c, o.c) /\ Beside(c, o.c)
  BY <1>4, <1>6, BesideTrans DEF Filled, Beside
<1>8. HeaderOK(o.c, o.e, x)
  BY <1>5, <1>6, <1>7, HeaderMoves DEF Filled
<1>9. MwOK(o.c, o.e, x)
  BY <1>3, <1>4, <1>6, <1>7, NoMw DEF Filled
<1>10. HoleOK(o.c, o.e, x)
  BY <1>3, <1>4, <1>6 DEF Filled, HoleOK
<1>11. \A enc \in Encodings : VariantOK(o.c, o.e, x, enc)
  <2>1. \A enc \in Encodings : Bytes(x, enc) = Encoded(StudioBody, HTML, enc)
    BY <1>3 DEF Bytes, Encoded
  <2> QED BY <1>3, <1>6, <2>1 DEF VariantOK
<1>12. Describes(o.c, o.e, x)
  BY <1>8, <1>9, <1>10, <1>11 DEF Describes
<1> QED BY <1>2, <1>7, <1>12, AddDoes DEF x

LEMMA EntryWithMw ==
    ASSUME NEW e, IsEntry(e), NEW off, NEW count
    PROVE  [e EXCEPT !.mwOff = off, !.mwCount = count] =
               [hash |-> e.hash, pathOff |-> e.pathOff, pathLen |-> e.pathLen,
                action |-> e.action, methods |-> e.methods, hole |-> e.hole,
                variants |-> e.variants, mwOff |-> off, mwCount |-> count]
<1> DEFINE h == e.hash  p == e.pathOff  l == e.pathLen  a == e.action  m == e.methods
           o == e.hole  v == e.variants  f == e.mwOff  n == e.mwCount
<1>1. e = [hash |-> h, pathOff |-> p, pathLen |-> l, action |-> a, methods |-> m,
           hole |-> o, variants |-> v, mwOff |-> f, mwCount |-> n]
  BY DEF IsEntry
<1> HIDE DEF h, p, l, a, m, o, v, f, n
<1> DEFINE g == [e EXCEPT !.mwOff = off]
<1>2. g = [hash |-> h, pathOff |-> p, pathLen |-> l, action |-> a, methods |-> m,
           hole |-> o, variants |-> v, mwOff |-> off, mwCount |-> n]
  BY <1>1
<1>3. [e EXCEPT !.mwOff = off, !.mwCount = count] = [g EXCEPT !.mwCount = count]
  BY <1>1
<1> HIDE DEF g
<1>4. [g EXCEPT !.mwCount = count] =
          [hash |-> h, pathOff |-> p, pathLen |-> l, action |-> a, methods |-> m,
           hole |-> o, variants |-> v, mwOff |-> off, mwCount |-> count]
  BY <1>2
<1> QED BY <1>3, <1>4 DEF h, p, l, a, m, o, v

LEMMA ActionRouteAdds ==
    ASSUME NEW c, NEW r, IsCompiler(c), IsRoute(r)
    PROVE  Adds(c, AddActionRoute(c, r), ActionClaim(r))
<1> DEFINE x == ActionClaim(r)
           s == NewEntry(c, r.url, r.action, ParseMethods(r.methods))
           oc == [s.c EXCEPT !.mwBlobs = s.c.mwBlobs \o r.mw]
           off == Len(c.mwBlobs)
           count == Len(r.mw)
           oe == [s.e EXCEPT !.mwOff = off, !.mwCount = count]
           o == IF r.mw = <<>> THEN s ELSE [c |-> oc, e |-> oe]
<1>1. r.url \in DOMAIN Hash /\ IsSeq(r.mw)
  BY SeqIn DEF IsRoute
<1>2. AddActionRoute(c, r) = Add(o)
  BY DEF AddActionRoute
<1>3. x.url = r.url /\ x.kind = "action" /\ x.methods = r.methods /\ x.mw = r.mw /\ x.action = r.action
  BY DEF ActionClaim
<1> HIDE DEF x
<1>4. /\ Beside(c, s.c) /\ s.c.mwBlobs = c.mwBlobs
      /\ IsEntry(s.e) /\ s.e.hash = Hash[r.url] /\ s.e.pathLen = Len(r.url)
      /\ Held(s.c.paths, s.e.pathOff, r.url) /\ s.e.action = r.action
      /\ s.e.methods = ParseMethods(r.methods)
      /\ s.e.hole = 0 /\ s.e.mwOff = 0 /\ s.e.mwCount = 0
      /\ \A enc \in Encodings : s.e.variants[enc] = NoVariant
  BY <1>1, NewEntryDoes
<1> HIDE DEF s
<1>5. HeaderOK(s.c, s.e, x)
  BY <1>3, <1>4 DEF HeaderOK, ActionOf, MethodsOf
<1>6. IsCompiler(s.c) /\ Grows(c, s.c)
  BY <1>4 DEF Beside
<1>7. HoleOK(s.c, s.e, x)
  BY <1>3, <1>4 DEF HoleOK
<1>8. ASSUME NEW d, IsCompiler(d), NEW e, e.variants = s.e.variants
      PROVE  \A enc \in Encodings : VariantOK(d, e, x, enc)
  <2>1. \A enc \in Encodings : Bytes(x, enc) = <<>>
    BY <1>3 DEF Bytes
  <2> QED BY <1>4, <1>8, <2>1, PutNothing DEF VariantOK
<1>9. CASE r.mw = <<>>
  <2>1. o = s
    BY <1>9
  <2>2. MwOf(x) = <<>>
    BY <1>3, <1>9 DEF MwOf
  <2>3. Held(s.c.mwBlobs, 0, <<>>)
    <3>1. IsSeq(s.c.mwBlobs) /\ Len(s.c.mwBlobs) \in Nat
      BY <1>6, SeqFacts DEF IsCompiler
    <3> QED BY <3>1, HeldEmpty
  <2>4. MwOK(s.c, s.e, x)
    BY <1>4, <2>2, <2>3, EmptyIsSeq DEF MwOK
  <2>5. Describes(s.c, s.e, x)
    BY <1>5, <1>6, <1>7, <1>8, <2>4 DEF Describes
  <2> HIDE DEF o
  <2> QED BY <1>2, <1>4, <2>1, <2>5, AddDoes DEF x
<1>10. CASE r.mw # <<>>
  <2> DEFINE blobs == s.c.mwBlobs \o r.mw
  <2>1. IsSeq(s.c.mwBlobs) /\ IsSeq(blobs) /\ Begins(s.c.mwBlobs, blobs) /\ Held(blobs, Len(s.c.mwBlobs), r.mw)
    BY <1>1, <1>6, ConcatSeq, BeginsConcat, HeldConcat DEF IsCompiler
  <2>2. oc = [s.c EXCEPT !.mwBlobs = blobs]
    OBVIOUS
  <2> HIDE DEF blobs
  <2>3. oc = [nodes |-> s.c.nodes, payloads |-> s.c.payloads, paths |-> s.c.paths,
              holeBlobs |-> s.c.holeBlobs, mwBlobs |-> blobs, mimes |-> s.c.mimes]
    BY <1>6, <2>2 DEF IsCompiler
  <2>4. oe = [hash |-> s.e.hash, pathOff |-> s.e.pathOff, pathLen |-> s.e.pathLen,
              action |-> s.e.action, methods |-> s.e.methods, hole |-> s.e.hole,
              variants |-> s.e.variants, mwOff |-> off, mwCount |-> count]
    <3>1. IsEntry(s.e)
      BY <1>4
    <3> HIDE DEF off, count
    <3> QED BY <3>1, EntryWithMw
  <2>5. o.c = oc /\ o.e = oe
    BY <1>10
  <2> HIDE DEF o, oc, oe
  <2>6. IsCompiler(oc) /\ Grows(s.c, oc) /\ oc.nodes = s.c.nodes
    BY <1>6, <2>1, <2>3, BeginsSame DEF IsCompiler, Grows
  <2>7. Beside(c, oc)
    BY <1>4, <2>6, BesideTrans DEF Beside
  <2>8. IsEntry(oe) /\ oe.variants = s.e.variants
    BY <1>4, <2>4 DEF IsEntry
  <2>9. HeaderOK(oc, oe, x)
    BY <1>5, <2>4, <2>6, <2>8, HeaderMoves
  <2>10. MwOK(oc, oe, x)
    <3>1. oe.mwOff = Len(s.c.mwBlobs) /\ oe.mwCount = Len(r.mw) /\ oc.mwBlobs = blobs
      BY <1>4, <2>3, <2>4
    <3>2. MwOf(x) = r.mw
      BY <1>3 DEF MwOf
    <3> QED BY <2>1, <3>1, <3>2 DEF MwOK
  <2>11. HoleOK(oc, oe, x)
    BY <1>3, <1>4, <2>4 DEF HoleOK
  <2>12. Describes(oc, oe, x)
    BY <1>8, <2>6, <2>8, <2>9, <2>10, <2>11 DEF Describes
  <2> QED BY <1>2, <2>5, <2>7, <2>12, AddDoes DEF x
<1> QED BY <1>9, <1>10

-----------------------------------------------------------------------------
(* c has one entry for each URL claimed in X.                                *)
Hashes(c) == {c.nodes[i].hash : i \in 1..Len(c.nodes)}
Compiled(c, X) ==
    /\ IsCompiler(c) /\ Distinct(c.nodes)
    /\ \A i \in 1..Len(c.nodes) : \E x \in X : Describes(c, c.nodes[i], x)
    /\ \A x \in X : Hash[x.url] \in Hashes(c)

LEMMA CompiledNothing == Compiled(NewV2Compiler, {}) /\ Hashes(NewV2Compiler) = {}
<1>1. IsSeq(<<>>) /\ Len(<<>>) = 0 /\ 1..0 = {}
  BY EmptyIsSeq
<1>2. NewV2Compiler.nodes = <<>>
  BY DEF NewV2Compiler
<1>3. IsCompiler(NewV2Compiler)
  BY <1>1 DEF NewV2Compiler, IsCompiler
<1>4. Distinct(<<>>)
  BY <1>1 DEF Distinct
<1> QED BY <1>1, <1>2, <1>3, <1>4 DEF Compiled, Hashes

LEMMA CompiledAdds ==
    ASSUME NEW c, NEW d, NEW X, NEW x, Compiled(c, X), Adds(c, d, x),
           x.url \in DOMAIN Hash, Hash[x.url] \notin Hashes(c)
    PROVE  Compiled(d, X \cup {x}) /\ Hashes(d) = Hashes(c) \cup {Hash[x.url]}
<1>1. PICK e : d.nodes = Append(c.nodes, e) /\ Describes(d, e, x)
  BY DEF Adds
<1> DEFINE n == Len(c.nodes)
<1>2. IsSeq(c.nodes) /\ n \in Nat
  BY SeqFacts DEF Compiled, IsCompiler
<1>3. /\ IsSeq(d.nodes) /\ Len(d.nodes) = n + 1 /\ d.nodes[n + 1] = e
      /\ \A i \in 1..n : d.nodes[i] = c.nodes[i]
  BY <1>1, <1>2, AppendSeq
<1> HIDE DEF n
<1>4. e.hash = Hash[x.url] /\ Hash[x.url] \in Nat
  BY <1>1, HashInjective DEF Describes, HeaderOK
<1>5. Hashes(c) = {c.nodes[i].hash : i \in 1..n}
  BY DEF Hashes, n
<1>6. Hashes(d) = Hashes(c) \cup {e.hash}
  <2>1. Hashes(d) = {d.nodes[i].hash : i \in 1..(n + 1)}
    BY <1>3 DEF Hashes
  <2>2. 1..(n + 1) = 1..n \cup {n + 1}
    BY <1>2
  <2> QED BY <1>3, <1>5, <2>1, <2>2
<1>7. \A i \in 1..n : c.nodes[i].hash \in Nat /\ \A j \in 1..n : c.nodes[i].hash = c.nodes[j].hash => i = j
  BY DEF Compiled, Distinct, n
<1>8. Distinct(d.nodes)
  <2>1. \A i \in 1..(n + 1) : i \in 1..n \/ i = n + 1
    BY <1>2
  <2>2. \A i \in 1..n : d.nodes[i].hash # e.hash
    BY <1>3, <1>4, <1>5
  <2>3. \A i \in 1..(n + 1) : d.nodes[i].hash \in Nat
    BY <1>3, <1>4, <1>7, <2>1
  <2>4. \A i, j \in 1..(n + 1) : d.nodes[i].hash = d.nodes[j].hash => i = j
    BY <1>3, <1>7, <2>1, <2>2
  <2> QED BY <1>3, <2>3, <2>4 DEF Distinct
<1>9. ASSUME NEW i \in 1..(n + 1) PROVE \E y \in X \cup {x} : Describes(d, d.nodes[i], y)
  <2>1. CASE i = n + 1
    BY <1>1, <1>3, <2>1
  <2>2. CASE i # n + 1
    <3>1. i \in 1..n /\ d.nodes[i] = c.nodes[i]
      BY <1>2, <1>3, <2>2
    <3>2. PICK y \in X : Describes(c, c.nodes[i], y)
      BY <3>1 DEF Compiled, n
    <3> QED BY <3>1, <3>2, DescribesGrows DEF Adds
  <2> QED BY <2>1, <2>2
<1>10. \A y \in X \cup {x} : Hash[y.url] \in Hashes(d)
  BY <1>4, <1>6 DEF Compiled
<1> QED BY <1>3, <1>4, <1>6, <1>8, <1>9, <1>10 DEF Compiled, Adds

LEMMA CompiledSame ==
    ASSUME NEW c, NEW X, NEW x, Compiled(c, X), Hash[x.url] \in Hashes(c)
    PROVE  Compiled(c, X \cup {x})
  BY DEF Compiled

(* Compile's first loop. *)
LEMMA ClaimedCompiles ==
    ASSUME NEW order, IsSeq(order), \A r \in ToSet(order) : IsResult(r)
    PROVE  /\ Compiled(Claimed(order).c, {r \in ToSet(order) : r.kind # "meta"})
           /\ Claimed(order).claimed = Hashes(Claimed(order).c)
<1> DEFINE N == Len(order)
<1>1. N \in Nat /\ ToSet(order) = {order[i] : i \in 1..N}
  BY SeqFacts DEF ToSet
<1>2. PICK r : ClaimRun(order, r) /\ Claimed(order) = r[N]
  BY <1>1, ClaimRuns DEF IsSeq
<1> DEFINE X(n) == {x \in {order[i] : i \in 1..n} : x.kind # "meta"}
           G == {n \in Nat : n <= N => Compiled(r[n].c, X(n)) /\ r[n].claimed = Hashes(r[n].c)}
<1>3. 0 \in G
  <2>1. r[0] = [c |-> NewV2Compiler, claimed |-> {}]
    BY <1>2 DEF ClaimRun
  <2>2. r[0].c = NewV2Compiler /\ r[0].claimed = {}
    BY <2>1
  <2>3. X(0) = {}
    BY 1..0 = {}
  <2> HIDE DEF X
  <2> QED BY <2>2, <2>3, CompiledNothing
<1>4. ASSUME NEW n \in Nat, n \in G PROVE n + 1 \in G
  <2> SUFFICES ASSUME n + 1 <= N
               PROVE  Compiled(r[n + 1].c, X(n + 1)) /\ r[n + 1].claimed = Hashes(r[n + 1].c)
    OBVIOUS
  <2>1. Compiled(r[n].c, X(n)) /\ r[n].claimed = Hashes(r[n].c)
    BY <1>1, <1>4
  <2> DEFINE x == order[n + 1]
  <2>2. r[n + 1] = claim(r[n], x)
    <3>1. n + 1 \in 1..Len(order) /\ (n + 1) - 1 = n
      BY <1>1
    <3> QED BY <1>2, <3>1 DEF ClaimRun
  <2>3. IsResult(x)
    BY <1>1
  <2>4. X(n + 1) = IF x.kind = "meta" THEN X(n) ELSE X(n) \cup {x}
    <3>1. 1..(n + 1) = 1..n \cup {n + 1}
      OBVIOUS
    <3> QED BY <3>1
  <2> HIDE DEF X, x
  <2>5. CASE x.kind = "meta"
    <3>1. r[n + 1] = r[n]
      BY <2>2, <2>5 DEF claim
    <3> QED BY <2>1, <2>4, <2>5, <3>1
  <2>6. CASE x.kind # "meta" /\ Hash[x.url] \in r[n].claimed
    <3>1. r[n + 1] = r[n]
      BY <2>2, <2>6 DEF claim
    <3>2. Compiled(r[n].c, X(n) \cup {x})
      BY <2>1, <2>6, CompiledSame
    <3> QED BY <2>1, <2>4, <2>6, <3>1, <3>2
  <2>7. CASE x.kind # "meta" /\ Hash[x.url] \notin r[n].claimed
    <3>1. r[n + 1].c = addPipelineEntry(r[n].c, x) /\ r[n + 1].claimed = r[n].claimed \cup {Hash[x.url]}
      BY <2>2, <2>7 DEF claim
    <3>2. Adds(r[n].c, r[n + 1].c, x)
      BY <2>1, <2>3, <2>7, <3>1, PipelineEntryAdds DEF Compiled
    <3>3. x.url \in DOMAIN Hash
      BY <2>3 DEF IsResult
    <3>4. Compiled(r[n + 1].c, X(n) \cup {x}) /\ Hashes(r[n + 1].c) = Hashes(r[n].c) \cup {Hash[x.url]}
      <4>1. Compiled(r[n].c, X(n)) /\ Hash[x.url] \notin Hashes(r[n].c)
        BY <2>1, <2>7
      <4> QED BY <4>1, <3>2, <3>3, CompiledAdds
    <3> QED BY <2>1, <2>4, <2>7, <3>1, <3>4
  <2> QED BY <2>5, <2>6, <2>7
<1> HIDE DEF G
<1>5. N \in G
  BY <1>1, <1>3, <1>4, Induction
<1>6. X(N) = {x \in ToSet(order) : x.kind # "meta"}
  BY <1>1
<1> HIDE DEF X, N
<1>7. Compiled(r[N].c, X(N)) /\ r[N].claimed = Hashes(r[N].c)
  BY <1>1, <1>5 DEF G
<1> QED BY <1>2, <1>6, <1>7

(* AddActionRoute over routes whose URLs nobody has claimed.                 *)
LEMMA ActionRoutesCompile ==
    ASSUME NEW c, NEW X, NEW routes, Compiled(c, X), IsSeq(routes),
           \A i \in 1..Len(routes) : IsRoute(routes[i]) /\ Hash[routes[i].url] \notin Hashes(c),
           \A i, j \in 1..Len(routes) : Hash[routes[i].url] = Hash[routes[j].url] => i = j
    PROVE  Compiled(AddActionRoutes(c, routes), X \cup {ActionClaim(r) : r \in ToSet(routes)})
<1> DEFINE N == Len(routes)
<1>1. N \in Nat /\ ToSet(routes) = {routes[i] : i \in 1..N}
  BY SeqFacts DEF ToSet
<1>2. PICK r : ActionRun(c, routes, r) /\ AddActionRoutes(c, routes) = r[N]
  BY <1>1, ActionRuns DEF IsSeq
<1> DEFINE Y(n) == X \cup {ActionClaim(routes[i]) : i \in 1..n}
           H(n) == Hashes(c) \cup {Hash[routes[i].url] : i \in 1..n}
           G == {n \in Nat : n <= N => Compiled(r[n], Y(n)) /\ Hashes(r[n]) = H(n)}
<1>3. 0 \in G
  <2>1. r[0] = c
    BY <1>2 DEF ActionRun
  <2>2. Y(0) = X /\ H(0) = Hashes(c)
    BY 1..0 = {}
  <2> HIDE DEF Y, H
  <2> QED BY <2>1, <2>2
<1>4. ASSUME NEW n \in Nat, n \in G PROVE n + 1 \in G
  <2> SUFFICES ASSUME n + 1 <= N PROVE Compiled(r[n + 1], Y(n + 1)) /\ Hashes(r[n + 1]) = H(n + 1)
    OBVIOUS
  <2>1. Compiled(r[n], Y(n)) /\ Hashes(r[n]) = H(n)
    BY <1>1, <1>4
  <2>2. n + 1 \in 1..N /\ (n + 1) - 1 = n /\ 1..(n + 1) = 1..n \cup {n + 1}
    BY <1>1
  <2>3. r[n + 1] = AddActionRoute(r[n], routes[n + 1])
    BY <1>2, <2>2 DEF ActionRun
  <2> DEFINE x == ActionClaim(routes[n + 1])
  <2>4. x.url = routes[n + 1].url
    BY DEF ActionClaim
  <2>5. Y(n + 1) = Y(n) \cup {x}
    BY <2>2
  <2>6. H(n + 1) = H(n) \cup {Hash[x.url]}
    BY <2>2, <2>4
  <2>7. Hash[x.url] \notin H(n)
    <3>1. \A i \in 1..n : i \in 1..N /\ i # n + 1
      BY <1>1, <2>2
    <3> QED BY <2>2, <2>4, <3>1
  <2> HIDE DEF Y, H, x, G
  <2>8. Adds(r[n], r[n + 1], x)
    BY <2>1, <2>2, <2>3, ActionRouteAdds DEF Compiled, x
  <2>9. x.url \in DOMAIN Hash
    BY <2>2, <2>4 DEF IsRoute
  <2>10. Hash[x.url] \notin Hashes(r[n])
    BY <2>1, <2>7
  <2>11. Compiled(r[n + 1], Y(n) \cup {x}) /\ Hashes(r[n + 1]) = Hashes(r[n]) \cup {Hash[x.url]}
    BY <2>1, <2>8, <2>9, <2>10, CompiledAdds
  <2> QED BY <2>1, <2>5, <2>6, <2>11
<1> HIDE DEF G
<1>5. N \in G
  BY <1>1, <1>3, <1>4, Induction
<1>6. Y(N) = X \cup {ActionClaim(q) : q \in ToSet(routes)}
  BY <1>1
<1> HIDE DEF Y, H, N
<1>7. Compiled(r[N], Y(N))
  BY <1>1, <1>5 DEF G
<1> QED BY <1>2, <1>6, <1>7

(* What the content of a site claims. *)
ClaimsOf(s, content) ==
    IF s = Studio THEN {StudioPage} \cup {ActionClaim(r) : r \in ToSet(StudioRoutes)}
    ELSE {r \in content : r.kind # "meta"} \cup {ActionClaim(r) : r \in ToSet(Routes)}

LEMMA ClaimsAre ==
    ASSUME NEW s, NEW d
    PROVE  Claims(s, d) = ClaimsOf(s, d[s].content)
  BY DEF Claims, ClaimsOf, StudioPage

LEMMA CompileCompiles ==
    ASSUME NEW order, IsSeq(order), \A r \in ToSet(order) : IsResult(r), Compile(order, Routes).ok
    PROVE  Compiled(Compile(order, Routes).c,
                    {r \in ToSet(order) : r.kind # "meta"} \cup {ActionClaim(r) : r \in ToSet(Routes)})
<1> DEFINE compiled == Claimed(order)
           hashes == [i \in DOMAIN Routes |-> Hash[Routes[i].url]]
           X == {r \in ToSet(order) : r.kind # "meta"}
<1>1. Compile(order, Routes).ok <=> ToSet(hashes) \cap compiled.claimed = {} /\ IsInjective(hashes)
  BY DEF Compile
<1>2. Compile(order, Routes).c = AddActionRoutes(compiled.c, Routes)
  BY DEF Compile
<1>3. Compiled(compiled.c, X) /\ compiled.claimed = Hashes(compiled.c)
  BY ClaimedCompiles
<1>4. IsSeq(Routes) /\ DOMAIN Routes = 1..Len(Routes)
  BY SiteConstants, SeqIn, SeqFacts
<1>5. \A i \in 1..Len(Routes) : IsRoute(Routes[i])
  BY <1>4, SiteConstants, InToSet
<1>6. DOMAIN hashes = 1..Len(Routes) /\ \A i \in 1..Len(Routes) : hashes[i] = Hash[Routes[i].url]
  BY <1>4
<1> HIDE DEF hashes, compiled, X
<1>7. \A i \in 1..Len(Routes) : hashes[i] \in ToSet(hashes)
  BY <1>6 DEF ToSet
<1>8. \A i \in 1..Len(Routes) : Hash[Routes[i].url] \notin Hashes(compiled.c)
  BY <1>1, <1>3, <1>6, <1>7
<1>9. \A i, j \in 1..Len(Routes) : Hash[Routes[i].url] = Hash[Routes[j].url] => i = j
  BY <1>1, <1>6 DEF IsInjective
<1>10. Compiled(AddActionRoutes(compiled.c, Routes), X \cup {ActionClaim(r) : r \in ToSet(Routes)})
  BY <1>3, <1>4, <1>5, <1>8, <1>9, ActionRoutesCompile
<1> QED BY <1>2, <1>10 DEF X

LEMMA StudioCompiles ==
    Compiled(AddActionRoutes(AddStaticRoute(NewV2Compiler, <<>>, StudioBody, HTML), StudioRoutes),
             ClaimsOf(Studio, {}))
<1> DEFINE page == AddStaticRoute(NewV2Compiler, <<>>, StudioBody, HTML)
<1>1. Compiled(NewV2Compiler, {}) /\ Hashes(NewV2Compiler) = {} /\ IsCompiler(NewV2Compiler)
  BY CompiledNothing DEF Compiled
<1>2. Adds(NewV2Compiler, page, StudioPage)
  BY <1>1, StaticRouteAdds
<1>3. StudioPage.url = <<>>
  BY DEF StudioPage
<1>4. <<>> \in DOMAIN Hash
  BY StudioConstants
<1> HIDE DEF page
<1>5. Compiled(page, {} \cup {StudioPage}) /\ Hashes(page) = Hashes(NewV2Compiler) \cup {Hash[StudioPage.url]}
  <2> DEFINE c == NewV2Compiler  x == StudioPage  X == {}
  <2>1. Compiled(c, X) /\ Adds(c, page, x) /\ x.url \in DOMAIN Hash /\ Hash[x.url] \notin Hashes(c)
    BY <1>1, <1>2, <1>3, <1>4
  <2> HIDE DEF c, x, X
  <2>2. Compiled(page, X \cup {x}) /\ Hashes(page) = Hashes(c) \cup {Hash[x.url]}
    BY <2>1, CompiledAdds
  <2> QED BY <2>2 DEF c, x, X
<1>6. Compiled(page, {StudioPage}) /\ Hashes(page) = {Hash[<<>>]}
  <2>1. {} \cup {StudioPage} = {StudioPage}
    OBVIOUS
  <2> QED BY <1>1, <1>3, <1>5, <2>1
<1>7. IsSeq(StudioRoutes) /\ DOMAIN StudioRoutes = 1..Len(StudioRoutes)
  BY StudioConstants, SeqIn, SeqFacts
<1>8. \A i \in 1..Len(StudioRoutes) : StudioRoutes[i] \in ToSet(StudioRoutes)
  BY <1>7, InToSet
<1>9. \A i \in 1..Len(StudioRoutes) : IsRoute(StudioRoutes[i]) /\ StudioRoutes[i].url # <<>>
  BY <1>8, StudioConstants
<1>10. \A i \in 1..Len(StudioRoutes) : Hash[StudioRoutes[i].url] \notin Hashes(page)
  BY <1>4, <1>6, <1>9, HashInjective DEF IsRoute
<1>11. \A i, j \in 1..Len(StudioRoutes) : Hash[StudioRoutes[i].url] = Hash[StudioRoutes[j].url] => i = j
  <2> SUFFICES ASSUME NEW i \in 1..Len(StudioRoutes), NEW j \in 1..Len(StudioRoutes),
                      Hash[StudioRoutes[i].url] = Hash[StudioRoutes[j].url]
               PROVE  i = j
    OBVIOUS
  <2>1. StudioRoutes[i].url = StudioRoutes[j].url
    BY <1>9, HashInjective DEF IsRoute
  <2> QED BY <1>7, <2>1, StudioConstants
<1>12. Compiled(AddActionRoutes(page, StudioRoutes),
                {StudioPage} \cup {ActionClaim(r) : r \in ToSet(StudioRoutes)})
  BY <1>6, <1>7, <1>9, <1>10, <1>11, ActionRoutesCompile
<1> QED BY <1>12 DEF page, ClaimsOf

(* An order in which the build results are met is a sequence of all of them. *)
LEMMA Orders ==
    ASSUME NEW S, IsFiniteSet(S), NEW order \in SetToSeqs(S)
    PROVE  IsSeq(order) /\ ToSet(order) = S
<1> DEFINE n == Cardinality(S)
<1>1. n \in Nat
  BY FS_CardinalityType
<1>2. order \in [1..n -> S] /\ \A i, j \in 1..n : i # j => order[i] # order[j]
  BY DEF SetToSeqs
<1>3. IsFiniteSet(1..n) /\ Cardinality(1..n) = n
  <2> HIDE DEF n
  <2>1. IsFiniteSet(1..n) /\ Cardinality(1..n) = IF 1 > n THEN 0 ELSE n - 1 + 1
    BY <1>1, FS_Interval, 1 \in Int, n \in Int
  <2> QED BY <1>1, <2>1
<1>4. order \in Injection(1..n, S)
  BY <1>2 DEF Injection, IsInjective
<1>5. order \in Surjection(1..n, S)
  BY <1>3, <1>4, FS_Injection
<1> HIDE DEF n
<1>6. DOMAIN order = 1..n /\ order = [i \in 1..n |-> order[i]] /\ S = {order[i] : i \in 1..n}
  <2>1. \A x \in S : \E i \in 1..n : order[i] = x
    BY <1>5 DEF Surjection
  <2> QED BY <1>2, <2>1
<1>7. IsSeq(order)
  BY <1>1, <1>6, SeqIs
<1> QED BY <1>6, <1>7 DEF ToSet

-----------------------------------------------------------------------------
(* Patterns, their shapes and the nodes on the way to their leaf.            *)
Text == STRING \cup {""}
Seg == [kind : {"lit", "param", "all"}, text : Text]
Node(p, k) == Shape(SubSeq(p, 1, k))

LEMMA EdgeFacts ==
    ASSUME NEW s \in Seg
    PROVE  /\ Edge(s) \in Seg /\ Edge(s).kind = s.kind
           /\ s.kind = "lit" => Edge(s) = s
           /\ s.kind = "param" => Edge(s) = ParamEdge
           /\ s.kind = "all" => Edge(s) = AllEdge
<1> DEFINE k == s.kind
           e == [kind |-> k, text |-> ""]
<1>1. k \in {"lit", "param", "all"} /\ s = [kind |-> k, text |-> s.text]
  BY DEF Seg
<1>2. e \in Seg /\ e.kind = k
  BY <1>1 DEF Seg, Text
<1>3. [s EXCEPT !.text = ""] = e
  <2> DEFINE t == s.text
             z == ""
  <2>1. s = [kind |-> k, text |-> t]
    BY <1>1
  <2> HIDE DEF k, t, z, e
  <2>2. [s EXCEPT !.text = z] = [kind |-> k, text |-> z]
    BY <2>1
  <2> QED BY <2>2 DEF z, e
<1>4. Edge(s) = IF k = "lit" THEN s ELSE e
  BY <1>3 DEF Edge
<1>5. (k = "param" => e = ParamEdge) /\ (k = "all" => e = AllEdge)
  BY DEF ParamEdge, AllEdge
<1> HIDE DEF e
<1> QED BY <1>1, <1>2, <1>4, <1>5

LEMMA EdgeEqual ==
    ASSUME NEW s \in Seg, NEW t \in Seg, Edge(s) = Edge(t)
    PROVE  s.kind = t.kind /\ (s.kind = "lit" => s = t) /\ (s.text = t.text => s = t)
<1>1. s.kind = t.kind
  BY EdgeFacts
<1>2. s.kind = "lit" => s = t
  BY <1>1, EdgeFacts
<1>3. s = [kind |-> s.kind, text |-> s.text] /\ t = [kind |-> t.kind, text |-> t.text]
  BY DEF Seg
<1> QED BY <1>1, <1>2, <1>3

LEMMA ShapeFacts ==
    ASSUME NEW p \in Seq(Seg)
    PROVE  /\ Shape(p) \in Seq(Seg) /\ Len(Shape(p)) = Len(p)
           /\ \A i \in 1..Len(p) : Shape(p)[i] = Edge(p[i])
<1>1. DOMAIN p = 1..Len(p) /\ Len(p) \in Nat /\ \A i \in 1..Len(p) : p[i] \in Seg
  OBVIOUS
<1> DEFINE n == Len(p)
           e == Shape(p)
<1>2. e = [i \in 1..n |-> Edge(p[i])] /\ n \in Nat
  BY <1>1 DEF Shape
<1> HIDE DEF n, e
<1>3. \A i \in 1..n : e[i] = Edge(p[i]) /\ Edge(p[i]) \in Seg
  BY <1>1, <1>2, EdgeFacts DEF n
<1>4. IsSeq(e) /\ Len(e) = n
  BY <1>2, SeqIs
<1>5. e \in Seq(Seg)
  BY <1>3, <1>4, InSeq
<1> QED BY <1>3, <1>4, <1>5 DEF n, e

LEMMA NodeFacts ==
    ASSUME NEW p \in Seq(Seg), NEW k \in 0..Len(p)
    PROVE  /\ Node(p, k) \in Seq(Seg) /\ Len(Node(p, k)) = k
           /\ \A i \in 1..k : Node(p, k)[i] = Edge(p[i])
<1>1. Len(p) \in Nat /\ k \in Nat /\ \A i \in 1..k : p[i] \in Seg
  OBVIOUS
<1> DEFINE q == SubSeq(p, 1, k)
<1>2. IsSeq(q) /\ Len(q) = k /\ \A i \in 1..k : q[i] = p[i]
  <2>1. IsSeq(q) /\ Len(q) = IF 1 <= k THEN k - 1 + 1 ELSE 0
    BY <1>1, PartSeq, 1 \in Int, k \in Int
  <2>2. \A i \in 1..(k - 1 + 1) : q[i] = p[1 + i - 1]
    BY <1>1, PartSeq, 1 \in Int, k \in Int
  <2> HIDE DEF q
  <2>3. \A i \in 1..k : i \in 1..(k - 1 + 1) /\ 1 + i - 1 = i
    BY <1>1
  <2> QED BY <1>1, <2>1, <2>2, <2>3
<1> HIDE DEF q
<1>3. q \in Seq(Seg)
  BY <1>1, <1>2, InSeq
<1>4. Node(p, k) = Shape(q)
  BY DEF Node, q
<1>5. Shape(q) \in Seq(Seg) /\ Len(Shape(q)) = Len(q) /\ \A i \in 1..Len(q) : Shape(q)[i] = Edge(q[i])
  BY <1>3, ShapeFacts
<1> QED BY <1>2, <1>4, <1>5

LEMMA SameNode ==
    ASSUME NEW S, NEW s \in Seq(S), NEW t \in Seq(S), Len(s) = Len(t), \A i \in 1..Len(s) : s[i] = t[i]
    PROVE  s = t
  BY SeqEq, SeqIn

LEMMA NodeRoot == ASSUME NEW p \in Seq(Seg) PROVE Node(p, 0) = <<>>
<1>1. Len(p) \in Nat /\ 0 \in 0..Len(p)
  OBVIOUS
<1>2. Node(p, 0) \in Seq(Seg) /\ Len(Node(p, 0)) = 0
  BY <1>1, NodeFacts
<1> QED BY <1>2, EmptyIsSeq, SameNode, 1..0 = {}, <<>> \in Seq(Seg)

LEMMA NodeLeaf == ASSUME NEW p \in Seq(Seg) PROVE Node(p, Len(p)) = Shape(p)
<1>1. Len(p) \in Nat /\ Len(p) \in 0..Len(p)
  OBVIOUS
<1>2. Node(p, Len(p)) \in Seq(Seg) /\ Len(Node(p, Len(p))) = Len(p)
      /\ \A i \in 1..Len(p) : Node(p, Len(p))[i] = Edge(p[i])
  BY <1>1, NodeFacts
<1> QED BY <1>2, ShapeFacts, SameNode

LEMMA NodeNext ==
    ASSUME NEW p \in Seq(Seg), NEW k \in Nat, k + 1 <= Len(p)
    PROVE  Node(p, k + 1) = Append(Node(p, k), Edge(p[k + 1]))
<1>1. Len(p) \in Nat /\ k \in 0..Len(p) /\ k + 1 \in 0..Len(p) /\ k + 1 \in 1..(k + 1) /\ p[k + 1] \in Seg
  OBVIOUS
<1> DEFINE m == Node(p, k)
           n == Node(p, k + 1)
           a == Append(m, Edge(p[k + 1]))
<1>2. m \in Seq(Seg) /\ Len(m) = k /\ \A i \in 1..k : m[i] = Edge(p[i])
  BY <1>1, NodeFacts
<1>3. n \in Seq(Seg) /\ Len(n) = k + 1 /\ \A i \in 1..(k + 1) : n[i] = Edge(p[i])
  BY <1>1, NodeFacts
<1> HIDE DEF m, n
<1>4. Edge(p[k + 1]) \in Seg
  BY <1>1, EdgeFacts
<1>5. a \in Seq(Seg) /\ Len(a) = k + 1 /\ a[k + 1] = Edge(p[k + 1]) /\ \A i \in 1..k : a[i] = m[i]
  BY <1>2, <1>4
<1> HIDE DEF a
<1>6. \A i \in 1..(k + 1) : a[i] = n[i]
  BY <1>2, <1>3, <1>5
<1> QED BY <1>3, <1>5, <1>6, SameNode DEF m, n, a

LEMMA NodeOfLonger ==
    ASSUME NEW p \in Seq(Seg), NEW s \in Seg, NEW k \in 0..Len(p)
    PROVE  Node(Append(p, s), k) = Node(p, k)
<1> DEFINE q == Append(p, s)
<1>1. q \in Seq(Seg) /\ Len(q) = Len(p) + 1 /\ Len(p) \in Nat /\ \A i \in 1..Len(p) : q[i] = p[i]
  OBVIOUS
<1> HIDE DEF q
<1>2. k \in 0..Len(q) /\ k \in Nat /\ \A i \in 1..k : q[i] = p[i]
  BY <1>1
<1>3. Node(p, k) \in Seq(Seg) /\ Len(Node(p, k)) = k /\ \A i \in 1..k : Node(p, k)[i] = Edge(p[i])
  BY NodeFacts
<1>4. Node(q, k) \in Seq(Seg) /\ Len(Node(q, k)) = k /\ \A i \in 1..k : Node(q, k)[i] = Edge(q[i])
  BY <1>1, <1>2, NodeFacts
<1>5. Node(q, k) = Node(p, k)
  BY <1>2, <1>3, <1>4, SameNode
<1> QED BY <1>5 DEF q

LEMMA ShapeNext ==
    ASSUME NEW p \in Seq(Seg), NEW s \in Seg
    PROVE  Shape(Append(p, s)) = Append(Shape(p), Edge(s))
<1> DEFINE q == Append(p, s)
<1>1. q \in Seq(Seg) /\ Len(q) = Len(p) + 1 /\ Len(p) \in Nat /\ q[Len(p) + 1] = s
  OBVIOUS
<1>2. Node(q, Len(p)) = Node(p, Len(p))
  BY <1>1, NodeOfLonger
<1> HIDE DEF q
<1>3. Node(q, Len(p) + 1) = Append(Node(q, Len(p)), Edge(q[Len(p) + 1]))
  BY <1>1, NodeNext
<1> QED BY <1>1, <1>2, <1>3, NodeLeaf DEF q

(* Two nodes with a common node below the root agree above it.               *)
LEMMA NodeAbove ==
    ASSUME NEW p \in Seq(Seg), NEW q \in Seq(Seg), NEW k \in 0..Len(p), NEW l \in 0..Len(q),
           Node(p, k) = Node(q, l), NEW j \in 0..k
    PROVE  k = l /\ Node(p, j) = Node(q, j)
<1>1. k = l
  BY NodeFacts
<1>2. Len(p) \in Nat /\ Len(q) \in Nat /\ j \in 0..Len(p) /\ j \in 0..Len(q) /\ \A i \in 1..j : i \in 1..k
  BY <1>1
<1>3. \A i \in 1..k : Edge(p[i]) = Edge(q[i])
  BY <1>1, NodeFacts
<1>4. Node(p, j) \in Seq(Seg) /\ Len(Node(p, j)) = j /\ \A i \in 1..j : Node(p, j)[i] = Edge(p[i])
  BY <1>2, NodeFacts
<1>5. Node(q, j) \in Seq(Seg) /\ Len(Node(q, j)) = j /\ \A i \in 1..j : Node(q, j)[i] = Edge(q[i])
  BY <1>2, NodeFacts
<1>6. Node(p, j) = Node(q, j)
  BY <1>2, <1>3, <1>4, <1>5, SameNode
<1> QED BY <1>1, <1>6

(* The segments of a URL pattern are its pieces without the empty ones.      *)
LEMMA SegmentsFacts ==
    ASSUME NEW url \in Seq(Seg)
    PROVE  /\ Segments(url) \in Seq(Seg)
           /\ \E sr : /\ SegmentsRun(url, sr) /\ Segments(url) = sr[Len(url)]
                      /\ \A n \in 0..Len(url) : sr[n] \in Seq(Seg)
<1> DEFINE N == Len(url)
<1>1. IsSeq(url) /\ N \in Nat /\ \A i \in 1..N : url[i] \in Seg
  BY SeqIn
<1>2. PICK sr : SegmentsRun(url, sr) /\ Segments(url) = sr[N]
  BY <1>1, SegmentsRuns DEF IsSeq
<1> DEFINE G == {n \in Nat : n <= N => sr[n] \in Seq(Seg)}
<1>3. 0 \in G
  BY <1>2, <<>> \in Seq(Seg) DEF SegmentsRun
<1>4. ASSUME NEW n \in Nat, n \in G PROVE n + 1 \in G
  <2> SUFFICES ASSUME n + 1 <= N PROVE sr[n + 1] \in Seq(Seg)
    OBVIOUS
  <2>1. n + 1 \in 1..N /\ (n + 1) - 1 = n /\ sr[n] \in Seq(Seg)
    BY <1>1, <1>4
  <2>2. sr[n + 1] = AddSegment(sr[n], url[n + 1])
    BY <1>2, <2>1 DEF SegmentsRun
  <2>3. url[n + 1] \in Seg
    BY <1>1, <2>1
  <2> DEFINE a == sr[n]
             x == url[n + 1]
  <2>4. a \in Seq(Seg) /\ x \in Seg /\ sr[n + 1] = AddSegment(a, x)
    BY <2>1, <2>2, <2>3
  <2> HIDE DEF N, a, x
  <2>5. Append(a, x) \in Seq(Seg)
    BY <2>4
  <2> QED BY <2>4, <2>5 DEF AddSegment
<1> HIDE DEF G
<1>5. \A n \in Nat : n \in G
  BY <1>3, <1>4, Induction
<1>6. \A n \in 0..N : sr[n] \in Seq(Seg)
  BY <1>1, <1>5 DEF G
<1>7. N \in 0..N
  BY <1>1
<1> QED BY <1>2, <1>6, <1>7

-----------------------------------------------------------------------------
(* One insertion: the way down grows the trie by the nodes of the pattern.   *)
SegOK(url, i) == /\ url[i].kind # "lit" => url[i].text # ""
                 /\ url[i].kind = "all" => i = Len(url)
Way(p) == {Node(p, k) : k \in 0..Len(p)}
Grown(t, p) == [n \in DOMAIN t \cup Way(p) |->
                  IF n \in DOMAIN t THEN t[n] ELSE [label |-> p[Len(n)].text, route |-> 0]]
Planted(g, c, s) ==
    [n \in DOMAIN g \cup {c} |-> IF n \in DOMAIN g THEN g[n] ELSE [label |-> s.text, route |-> 0]]
At(a, cursor, nodes) == a.ok /\ a = [ok |-> a.ok, cursor |-> cursor, nodes |-> nodes]
Walked(a, t, p) == At(a, Shape(p), Grown(t, p))
FitAt(t, p, k) == Node(p, k) \in DOMAIN t => t[Node(p, k)].label = p[k].text
Fit(t, p) == \A k \in 1..Len(p) : FitAt(t, p, k)

LEMMA WayNext ==
    ASSUME NEW p \in Seq(Seg), NEW s \in Seg
    PROVE  /\ Way(Append(p, s)) = Way(p) \cup {Append(Shape(p), Edge(s))}
           /\ Append(Shape(p), Edge(s)) \notin Way(p)
<1> DEFINE q == Append(p, s)
           N == Len(p)
           c == Append(Shape(p), Edge(s))
<1>1. q \in Seq(Seg) /\ Len(q) = N + 1 /\ N \in Nat
  OBVIOUS
<1>2. \A k \in 0..N : Node(q, k) = Node(p, k) /\ Len(Node(p, k)) = k
  BY NodeOfLonger, NodeFacts
<1>3. Node(q, N + 1) = c
  BY <1>1, NodeLeaf, ShapeNext
<1>4. Len(c) = N + 1
  BY <1>1, <1>3, NodeFacts, N + 1 \in 0..(N + 1)
<1> HIDE DEF q, c, N
<1>5. Way(q) = {Node(q, k) : k \in 0..(N + 1)} /\ Way(p) = {Node(p, k) : k \in 0..N}
  BY <1>1 DEF Way, N
<1>6. 0..(N + 1) = 0..N \cup {N + 1} /\ \A k \in 0..N : k # N + 1
  BY <1>1
<1>7. Way(q) = Way(p) \cup {c}
  <2>1. ASSUME NEW x \in Way(q) PROVE x \in Way(p) \cup {c}
    BY <2>1, <1>5, <1>6, <1>2, <1>3
  <2>2. ASSUME NEW x \in Way(p) PROVE x \in Way(q)
    BY <2>2, <1>5, <1>6, <1>2
  <2>3. c \in Way(q)
    BY <1>5, <1>6, <1>3
  <2> QED BY <2>1, <2>2, <2>3
<1>8. c \notin Way(p)
  BY <1>2, <1>4, <1>5, <1>6
<1> QED BY <1>7, <1>8 DEF q, c

LEMMA GrownNext ==
    ASSUME NEW t, <<>> \in DOMAIN t, NEW p \in Seq(Seg), NEW s \in Seg
    PROVE  LET g == Grown(t, p)
               c == Append(Shape(p), Edge(s))
           IN  /\ c \in DOMAIN g <=> c \in DOMAIN t
               /\ c \in DOMAIN t => g[c] = t[c]
               /\ Planted(g, c, s) = Grown(t, Append(p, s))
<1> DEFINE g == Grown(t, p)
           c == Append(Shape(p), Edge(s))
           q == Append(p, s)
           N == Len(p)
           G(n) == IF n \in DOMAIN g THEN g[n] ELSE [label |-> s.text, route |-> 0]
           H(n) == IF n \in DOMAIN t THEN t[n] ELSE [label |-> q[Len(n)].text, route |-> 0]
<1>1. q \in Seq(Seg) /\ N \in Nat /\ q[N + 1] = s /\ \A i \in 1..N : q[i] = p[i]
  OBVIOUS
<1>2. Way(q) = Way(p) \cup {c} /\ c \notin Way(p)
  BY WayNext
<1>3. Len(c) = N + 1
  BY <1>1, NodeLeaf, ShapeNext, ShapeFacts, N + 1 = Len(q)
<1>4. \A k \in 0..N : Len(Node(p, k)) = k
  BY NodeFacts
<1>5. Node(p, 0) = <<>>
  BY NodeRoot
<1>6. DOMAIN g = DOMAIN t \cup Way(p) /\ (\A n \in DOMAIN t : g[n] = t[n])
      /\ \A n \in Way(p) : n \notin DOMAIN t => g[n] = [label |-> p[Len(n)].text, route |-> 0]
  BY DEF Grown
<1>7. \A n \in Way(p) : n \notin DOMAIN t => Len(n) \in 1..N
  <2> SUFFICES ASSUME NEW n \in Way(p), n \notin DOMAIN t PROVE Len(n) \in 1..N
    OBVIOUS
  <2>1. PICK k \in 0..N : n = Node(p, k)
    BY DEF Way
  <2>2. k # 0
    BY <1>5, <2>1
  <2> QED BY <1>1, <1>4, <2>1, <2>2
<1>8. Grown(t, q) = [n \in DOMAIN t \cup Way(q) |-> H(n)]
  BY DEF Grown
<1> HIDE DEF g, c, q, N
<1>9. \A n \in DOMAIN g \cup {c} : G(n) = H(n)
  <2> SUFFICES ASSUME NEW n \in DOMAIN g \cup {c} PROVE G(n) = H(n)
    OBVIOUS
  <2>1. CASE n \in DOMAIN t
    BY <1>6, <2>1
  <2>2. CASE n \notin DOMAIN t /\ n \in Way(p)
    <3>1. q[Len(n)] = p[Len(n)]
      BY <1>1, <1>7, <2>2
    <3> QED BY <1>6, <2>2, <3>1
  <2>3. CASE n \notin DOMAIN t /\ n \notin Way(p)
    <3>1. n = c /\ n \notin DOMAIN g /\ q[Len(n)] = s
      BY <1>1, <1>3, <1>6, <2>3
    <3> QED BY <2>3, <3>1
  <2> QED BY <2>1, <2>2, <2>3
<1>10. DOMAIN g \cup {c} = DOMAIN t \cup Way(q)
  BY <1>2, <1>6
<1>11. [n \in DOMAIN g \cup {c} |-> G(n)] = Grown(t, q)
  BY <1>8, <1>9, <1>10
<1>12. (c \in DOMAIN g <=> c \in DOMAIN t) /\ (c \in DOMAIN t => g[c] = t[c])
  BY <1>2, <1>6
<1> QED BY <1>11, <1>12 DEF g, c, q, Planted

Refused(a) == [a EXCEPT !.ok = FALSE]
Moved(a, c, n) == [a EXCEPT !.cursor = c, !.nodes = n]

LEMMA WalkMoves ==
    ASSUME NEW a, NEW y, NEW z, At(a, y, z), NEW c, NEW n
    PROVE  /\ At(Moved(a, c, n), c, n)
           /\ Refused(a).ok = FALSE
           /\ a.ok /\ a.cursor = y /\ a.nodes = z
<1> DEFINE x == a.ok
           b == [a EXCEPT !.cursor = c]
           d == [b EXCEPT !.nodes = n]
<1>1. a = [ok |-> x, cursor |-> y, nodes |-> z]
  BY DEF At
<1>0. x
  BY DEF At
<1> HIDE DEF x
<1>2. b = [ok |-> x, cursor |-> c, nodes |-> z]
  BY <1>1, Z3
<1>3. [a EXCEPT !.cursor = c, !.nodes = n] = d
  BY <1>1, Z3
<1>4. [a EXCEPT !.ok = FALSE].ok = FALSE
  BY <1>1
<1> HIDE DEF b
<1>5. d = [ok |-> x, cursor |-> c, nodes |-> n]
  BY <1>2, Z3
<1> HIDE DEF d
<1>6. Moved(a, c, n) = d
  BY <1>3 DEF Moved
<1>7. d.ok = x
  BY <1>5
<1>8. At(d, c, n)
  BY <1>0, <1>5, <1>7 DEF At
<1>9. Refused(a).ok = FALSE
  BY <1>4 DEF Refused
<1>10. a.ok /\ a.cursor = y /\ a.nodes = z
  BY <1>1 DEF At
<1> QED BY <1>6, <1>8, <1>9, <1>10

LEMMA OneMore ==
    ASSUME NEW p \in Seq(Seg), NEW s \in Seg
    PROVE  /\ Append(p, s) \in Seq(Seg) /\ Len(Append(p, s)) = Len(p) + 1
           /\ Append(p, s)[Len(Append(p, s))] = s
           /\ Node(Append(p, s), Len(Append(p, s))) = Append(Shape(p), Edge(s))
           /\ Shape(Append(p, s)) = Append(Shape(p), Edge(s))
<1> DEFINE q == Append(p, s)
<1>1. q \in Seq(Seg) /\ Len(q) = Len(p) + 1 /\ q[Len(p) + 1] = s
  OBVIOUS
<1> HIDE DEF q
<1>2. Node(q, Len(q)) = Shape(q)
  BY <1>1, NodeLeaf
<1>3. Shape(q) = Append(Shape(p), Edge(s))
  BY ShapeNext DEF q
<1> QED BY <1>1, <1>2, <1>3 DEF q

LEMMA DescendStep ==
    ASSUME NEW t, <<>> \in DOMAIN t, NEW p \in Seq(Seg), NEW url, NEW i, url[i] \in Seg,
           url[i] # Lit(""), NEW a, Walked(a, t, p)
    PROVE  LET q == Append(p, url[i])
           IN  IF SegOK(url, i) /\ FitAt(t, q, Len(q))
               THEN Walked(Descend(a, url, i), t, q)
               ELSE Descend(a, url, i).ok = FALSE
<1> DEFINE s == url[i]
           q == Append(p, s)
           c == Append(Shape(p), Edge(s))
           g == Grown(t, p)
           new == Planted(g, c, s)
           bad == \/ s.kind # "lit" /\ s.text = ""
                  \/ s.kind = "all" /\ ~(i = Len(url))
                  \/ c \in DOMAIN g /\ g[c].label # s.text
<1>1. /\ q \in Seq(Seg) /\ q[Len(q)] = s
      /\ Node(q, Len(q)) = c /\ Shape(q) = c
  BY OneMore
<1>2. (c \in DOMAIN g <=> c \in DOMAIN t) /\ (c \in DOMAIN t => g[c] = t[c]) /\ new = Grown(t, q)
  BY GrownNext
<1>3. bad <=> ~(SegOK(url, i) /\ FitAt(t, q, Len(q)))
  BY <1>1, <1>2 DEF SegOK, FitAt
<1>4. At(a, Shape(p), g)
  BY DEF Walked
<1>5. a.ok /\ a.cursor = Shape(p) /\ a.nodes = g
  BY <1>4, WalkMoves
<1>6. Descend(a, url, i) = IF bad THEN Refused(a) ELSE Moved(a, c, new)
  BY <1>5 DEF Descend, Planted, Moved, Refused
<1> HIDE DEF new, bad, c, g, q
<1>7. At(Moved(a, c, new), c, new) /\ Refused(a).ok = FALSE
  BY <1>4, WalkMoves
<1>8. Walked(Moved(a, c, new), t, q)
  BY <1>1, <1>2, <1>7 DEF Walked
<1> QED BY <1>3, <1>6, <1>7, <1>8 DEF q

-----------------------------------------------------------------------------
(* Insert takes a pattern that can be routed and fits the trie.              *)
LEMMA FitNext ==
    ASSUME NEW t, NEW p \in Seq(Seg), NEW s \in Seg
    PROVE  LET q == Append(p, s) IN Fit(t, q) <=> Fit(t, p) /\ FitAt(t, q, Len(q))
<1> DEFINE q == Append(p, s)
           N == Len(p)
<1>1. q \in Seq(Seg) /\ Len(q) = N + 1 /\ N \in Nat /\ \A i \in 1..N : q[i] = p[i]
  OBVIOUS
<1>2. \A k \in 0..N : Node(q, k) = Node(p, k)
  BY NodeOfLonger
<1> HIDE DEF q, N
<1>3. \A k \in 1..N : FitAt(t, q, k) <=> FitAt(t, p, k)
  BY <1>1, <1>2 DEF FitAt
<1>4. 1..(N + 1) = 1..N \cup {N + 1}
  BY <1>1
<1>5. Fit(t, q) <=> (\A k \in 1..N : FitAt(t, q, k)) /\ FitAt(t, q, N + 1)
  BY <1>1, <1>4 DEF Fit
<1>6. Fit(t, p) <=> \A k \in 1..N : FitAt(t, p, k)
  BY DEF Fit, N
<1> QED BY <1>1, <1>3, <1>5, <1>6 DEF q

IsTree(t) == t = [m \in DOMAIN t |-> t[m]] /\ <<>> \in DOMAIN t

LEMMA WalkedNothing ==
    ASSUME NEW t, IsTree(t)
    PROVE  Walked([ok |-> TRUE, cursor |-> <<>>, nodes |-> t], t, <<>>) /\ Fit(t, <<>>)
<1> DEFINE a == [ok |-> TRUE, cursor |-> <<>>, nodes |-> t]
           p == <<>>
<1>1. p \in Seq(Seg) /\ Len(p) = 0 /\ 0 \in Nat
  OBVIOUS
<1> HIDE DEF p
<1>2. Shape(p) = <<>> /\ Node(p, 0) = <<>>
  BY <1>1, NodeLeaf, NodeRoot
<1>3. Way(p) = {<<>>}
  BY <1>1, <1>2 DEF Way
<1>4. DOMAIN t \cup Way(p) = DOMAIN t
  BY <1>3 DEF IsTree
<1>5. Grown(t, p) = t
  BY <1>4 DEF Grown, IsTree
<1>6. At(a, <<>>, t)
  BY DEF At
<1>7. Fit(t, p)
  BY <1>1 DEF Fit
<1> QED BY <1>2, <1>5, <1>6, <1>7 DEF Walked, p

LEMMA InsertWalks ==
    ASSUME NEW t, IsTree(t), NEW url \in Seq(Seg)
    PROVE  /\ Segments(url) \in Seq(Seg)
           /\ IF Routable(url) /\ Fit(t, Segments(url))
              THEN Walked(Descended(t, url), t, Segments(url))
              ELSE Descended(t, url).ok = FALSE
<1> DEFINE N == Len(url)
           Fine(n) == \A i \in 1..n : SegOK(url, i)
<1>1. IsSeq(url) /\ N \in Nat /\ \A i \in 1..N : url[i] \in Seg
  BY SeqIn
<1>2. PICK sr : SegmentsRun(url, sr) /\ Segments(url) = sr[N] /\ \A n \in 0..N : sr[n] \in Seq(Seg)
  BY SegmentsFacts
<1>3. PICK ir : InsertRun(t, url, ir) /\ Descended(t, url) = ir[N]
  BY <1>1, InsertRuns DEF IsSeq
<1> DEFINE Here(n) == IF Fine(n) /\ Fit(t, sr[n]) THEN Walked(ir[n], t, sr[n]) ELSE ir[n].ok = FALSE
           G == {n \in Nat : n <= N => Here(n)}
<1>4. 0 \in G
  <2>1. sr[0] = <<>> /\ ir[0] = [ok |-> TRUE, cursor |-> <<>>, nodes |-> t]
    BY <1>2, <1>3 DEF SegmentsRun, InsertRun
  <2>2. Walked(ir[0], t, sr[0]) /\ Fit(t, sr[0])
    BY <2>1, WalkedNothing
  <2> HIDE DEF N
  <2>3. Fine(0)
    OBVIOUS
  <2> QED BY <2>2, <2>3
<1>5. ASSUME NEW n \in Nat, n \in G PROVE n + 1 \in G
  <2> HIDE DEF N, Here
  <2> SUFFICES ASSUME n + 1 <= N PROVE Here(n + 1)
    OBVIOUS
  <2>1. n + 1 \in 1..N /\ (n + 1) - 1 = n /\ n \in 0..N /\ Here(n)
    BY <1>1, <1>5
  <2> USE DEF Here
  <2> DEFINE s == url[n + 1]
             p == sr[n]
             q == Append(p, s)
             a == ir[n]
  <2>2. s \in Seg /\ p \in Seq(Seg) /\ <<>> \in DOMAIN t
    BY <1>1, <1>2, <2>1 DEF IsTree
  <2>3. sr[n + 1] = AddSegment(p, s) /\ ir[n + 1] = Descend(a, url, n + 1)
    BY <1>2, <1>3, <2>1 DEF SegmentsRun, InsertRun, N
  <2>4. Fine(n + 1) <=> Fine(n) /\ SegOK(url, n + 1)
    <3>1. 1..(n + 1) = 1..n \cup {n + 1}
      OBVIOUS
    <3> QED BY <3>1
  <2>5. CASE s = Lit("")
    <3>1. sr[n + 1] = p
      BY <2>3, <2>5 DEF AddSegment
    <3>2. ir[n + 1] = a
      BY <2>3, <2>5 DEF Descend
    <3>3. SegOK(url, n + 1)
      <4>1. Lit("").kind = "lit"
        BY DEF Lit
      <4>2. s.kind = "lit"
        BY <2>5, <4>1
      <4> QED BY <4>2 DEF SegOK
    <3> HIDE DEF Fine
    <3> QED BY <2>1, <2>4, <3>1, <3>2, <3>3
  <2>6. CASE s # Lit("") /\ ~(Fine(n) /\ Fit(t, p))
    <3>1. a.ok = FALSE
      BY <2>1, <2>6
    <3>2. ir[n + 1] = a
      BY <2>3, <3>1 DEF Descend
    <3>3. sr[n + 1] = q
      BY <2>3, <2>6 DEF AddSegment
    <3>4. Fit(t, q) => Fit(t, p)
      BY <2>2, FitNext
    <3> HIDE DEF Fine, q, p, a, s
    <3> QED BY <2>4, <2>6, <3>1, <3>2, <3>3, <3>4
  <2>7. CASE s # Lit("") /\ Fine(n) /\ Fit(t, p)
    <3>1. Walked(a, t, p)
      BY <2>1, <2>7
    <3>2. sr[n + 1] = q
      BY <2>3, <2>7 DEF AddSegment
    <3>3. Fit(t, q) <=> Fit(t, p) /\ FitAt(t, q, Len(q))
      BY <2>2, FitNext
    <3>4. IF SegOK(url, n + 1) /\ FitAt(t, q, Len(q))
          THEN Walked(Descend(a, url, n + 1), t, q)
          ELSE Descend(a, url, n + 1).ok = FALSE
      <4> HIDE DEF a, p
      <4> QED BY <2>2, <2>7, <3>1, DescendStep
    <3> HIDE DEF Fine, q, p, a, s
    <3> QED BY <2>3, <2>4, <2>7, <3>2, <3>3, <3>4
  <2> QED BY <2>5, <2>6, <2>7
<1> HIDE DEF G
<1>6. N \in G
  BY <1>1, <1>4, <1>5, Induction
<1>7. Here(N)
  BY <1>1, <1>6 DEF G
<1>8. Routable(url) <=> Fine(N)
  BY <1>1, SeqFacts DEF Routable, SegOK
<1>9. Segments(url) \in Seq(Seg)
  BY <1>1, <1>2
<1> HIDE DEF Fine
<1> QED BY <1>2, <1>3, <1>7, <1>8, <1>9

Free(t, p) == Fit(t, p) /\ (Shape(p) \in DOMAIN t => t[Shape(p)].route = 0)

LEMMA InsertDoes ==
    ASSUME NEW t, IsTree(t), NEW url \in Seq(Seg), NEW idx
    PROVE  LET p == Segments(url)
               o == Insert(t, url, idx)
           IN  IF Routable(url) /\ Free(t, p)
               THEN o.ok /\ o.nodes = [Grown(t, p) EXCEPT ![Shape(p)].route = idx]
               ELSE ~o.ok
<1> DEFINE p == Segments(url)
           a == Descended(t, url)
           o == Insert(t, url, idx)
           g == Grown(t, p)
           n == [a.nodes EXCEPT ![a.cursor].route = idx]
<1>1. p \in Seq(Seg) /\ (IF Routable(url) /\ Fit(t, p) THEN Walked(a, t, p) ELSE a.ok = FALSE)
  BY InsertWalks
<1>2. o = IF a.ok /\ a.nodes[a.cursor].route = 0 THEN [ok |-> TRUE, nodes |-> n]
          ELSE [ok |-> FALSE, nodes |-> a.nodes]
  BY DEF Insert
<1>3. Shape(p) \in Way(p) /\ Len(Shape(p)) = Len(p)
  <2>1. Len(p) \in 0..Len(p) /\ Node(p, Len(p)) = Shape(p)
    BY <1>1, NodeLeaf
  <2> QED BY <1>1, <2>1, ShapeFacts DEF Way
<1>4. g[Shape(p)].route = 0 <=> (Shape(p) \in DOMAIN t => t[Shape(p)].route = 0)
  BY <1>3 DEF Grown
<1>5. CASE Routable(url) /\ Fit(t, p)
  <2>1. At(a, Shape(p), g)
    BY <1>1, <1>5 DEF Walked
  <2> HIDE DEF a, g
  <2>2. a.ok /\ a.cursor = Shape(p) /\ a.nodes = g
    BY <2>1, WalkMoves
  <2>3. n = [g EXCEPT ![Shape(p)].route = idx]
    BY <2>2
  <2>4. Free(t, p) <=> a.nodes[a.cursor].route = 0
    BY <1>4, <1>5, <2>2 DEF Free
  <2> HIDE DEF p, n, o
  <2>5. CASE Free(t, p)
    <3>1. o = [ok |-> TRUE, nodes |-> n]
      BY <1>2, <2>2, <2>4, <2>5
    <3>2. o.ok /\ o.nodes = n
      BY <3>1
    <3> QED BY <1>5, <2>3, <2>5, <3>2 DEF p, o, g
  <2>6. CASE ~Free(t, p)
    <3>1. o = [ok |-> FALSE, nodes |-> a.nodes]
      BY <1>2, <2>4, <2>6
    <3>2. ~o.ok
      BY <3>1
    <3> QED BY <2>6, <3>2 DEF p, o
  <2> QED BY <2>5, <2>6
<1>6. CASE ~(Routable(url) /\ Fit(t, p))
  <2>1. o = [ok |-> FALSE, nodes |-> a.nodes]
    BY <1>1, <1>2, <1>6
  <2>2. ~o.ok
    BY <2>1
  <2> QED BY <1>6, <2>2 DEF Free
<1> QED BY <1>5, <1>6

-----------------------------------------------------------------------------
(* The trie of the first n patterns of ps.                                   *)
TrieNodes(t, ps, n) ==
    \A m : m \in DOMAIN t <=> m = <<>> \/ \E i \in 1..n : \E k \in 0..Len(ps[i]) : m = Node(ps[i], k)
TrieRoutes(t, ps, n) ==
    \A m \in DOMAIN t : /\ t[m] = [label |-> t[m].label, route |-> t[m].route]
                        /\ t[m].route \in 0..n
                        /\ t[m].route # 0 => Shape(ps[t[m].route]) = m
TrieLabels(t, ps, n) == \A i \in 1..n : \A k \in 1..Len(ps[i]) : t[Node(ps[i], k)].label = ps[i][k].text
TrieLeaves(t, ps, n) == \A i \in 1..n : t[Shape(ps[i])].route = i
TrieOf(t, ps, n) ==
    IsTree(t) /\ TrieNodes(t, ps, n) /\ TrieRoutes(t, ps, n) /\ TrieLabels(t, ps, n) /\ TrieLeaves(t, ps, n)

(* Two patterns that one trie can hold.                                      *)
Agree(p, q) ==
    /\ Shape(p) # Shape(q)
    /\ \A k \in 1..Len(p) : k <= Len(q) /\ Node(p, k) = Node(q, k) => p[k].text = q[k].text

LEMMA FreeIffAgree ==
    ASSUME NEW t, NEW ps, NEW n \in Nat, TrieOf(t, ps, n), \A i \in 1..n : ps[i] \in Seq(Seg),
           NEW p \in Seq(Seg)
    PROVE  Free(t, p) <=> \A i \in 1..n : Agree(ps[i], p)
<1>1. TrieNodes(t, ps, n) /\ TrieRoutes(t, ps, n) /\ TrieLabels(t, ps, n) /\ TrieLeaves(t, ps, n)
  BY DEF TrieOf
<1>2. ASSUME Free(t, p), NEW i \in 1..n PROVE Agree(ps[i], p)
  <2> DEFINE q == ps[i]
  <2>1. q \in Seq(Seg) /\ Len(q) \in Nat /\ i \in Nat /\ i # 0
    <3>1. q \in Seq(Seg)
      OBVIOUS
    <3> QED BY <3>1, SeqFacts, SeqIn
  <2>2. Shape(q) # Shape(p)
    <3> SUFFICES ASSUME Shape(p) = Shape(q) PROVE FALSE
      OBVIOUS
    <3>1. Shape(q) = Node(q, Len(q)) /\ Len(q) \in 0..Len(q)
      BY <2>1, NodeLeaf
    <3>2. Shape(q) \in DOMAIN t
      BY <1>1, <3>1 DEF TrieNodes
    <3>3. t[Shape(q)].route = i
      BY <1>1 DEF TrieLeaves
    <3> QED BY <1>2, <2>1, <3>2, <3>3 DEF Free
  <2>3. ASSUME NEW k \in 1..Len(q), k <= Len(p), Node(q, k) = Node(p, k)
        PROVE  q[k].text = p[k].text
    <3>1. k \in 0..Len(q) /\ k \in 1..Len(p)
      <4>1. Len(p) \in Nat
        BY SeqFacts, SeqIn
      <4> QED BY <2>1, <2>3, <4>1
    <3>2. Node(q, k) \in DOMAIN t
      BY <1>1, <3>1 DEF TrieNodes
    <3>3. t[Node(q, k)].label = q[k].text
      BY <1>1 DEF TrieLabels
    <3>4. FitAt(t, p, k)
      BY <1>2, <3>1 DEF Free, Fit
    <3> QED BY <2>3, <3>2, <3>3, <3>4 DEF FitAt
  <2> QED BY <2>2, <2>3 DEF Agree
<1>3. ASSUME \A i \in 1..n : Agree(ps[i], p) PROVE Free(t, p)
  <2>1. ASSUME NEW k \in 1..Len(p), Node(p, k) \in DOMAIN t PROVE t[Node(p, k)].label = p[k].text
    <3>1. Len(p) \in Nat /\ k \in Nat /\ k \in 0..Len(p) /\ k # 0
      <4>1. Len(p) \in Nat
        BY SeqFacts, SeqIn
      <4> QED BY <4>1
    <3>2. Len(Node(p, k)) = k
      BY <3>1, NodeFacts
    <3>3. Node(p, k) # <<>>
      BY <3>1, <3>2, EmptyIsSeq
    <3>0. PICK i \in 1..n : \E l \in 0..Len(ps[i]) : Node(p, k) = Node(ps[i], l)
      BY <1>1, <2>1, <3>3 DEF TrieNodes
    <3>4. PICK l \in 0..Len(ps[i]) : Node(p, k) = Node(ps[i], l)
      BY <3>0
    <3> DEFINE q == ps[i]
    <3>5. q \in Seq(Seg) /\ Agree(q, p)
      BY <1>3
    <3>6. Len(q) \in Nat
      BY <3>5, SeqFacts, SeqIn
    <3>7. l = k
      BY <3>2, <3>4, <3>5, NodeFacts
    <3>8. k \in 1..Len(q) /\ k <= Len(p)
      BY <3>1, <3>6, <3>7
    <3>9. q[k].text = p[k].text
      BY <3>4, <3>5, <3>7, <3>8 DEF Agree
    <3> QED BY <1>1, <3>4, <3>7, <3>8, <3>9 DEF TrieLabels
  <2>2. ASSUME Shape(p) \in DOMAIN t PROVE t[Shape(p)].route = 0
    <3> DEFINE r == t[Shape(p)].route
    <3>1. r \in 0..n /\ (r # 0 => Shape(ps[r]) = Shape(p))
      BY <1>1, <2>2 DEF TrieRoutes
    <3>2. r # 0 => r \in 1..n
      BY <3>1
    <3> QED BY <1>3, <3>1, <3>2 DEF Agree
  <2> QED BY <2>1, <2>2 DEF Free, Fit, FitAt
<1> QED BY <1>2, <1>3

LEMMA LeafRecord ==
    ASSUME NEW r, NEW l, NEW x, r = [label |-> l, route |-> x], NEW idx
    PROVE  [r EXCEPT !.route = idx] = [label |-> l, route |-> idx]
  BY Z3

LEMMA TrieNext ==
    ASSUME NEW t, NEW ps, NEW n \in Nat, TrieOf(t, ps, n), \A i \in 1..(n + 1) : ps[i] \in Seq(Seg),
           Free(t, ps[n + 1])
    PROVE  TrieOf([Grown(t, ps[n + 1]) EXCEPT ![Shape(ps[n + 1])].route = n + 1], ps, n + 1)
<1> DEFINE p == ps[n + 1]
           g == Grown(t, p)
           leaf == Shape(p)
           u == [g EXCEPT ![leaf].route = n + 1]
           N == Len(p)
<1>1. IsTree(t) /\ TrieNodes(t, ps, n) /\ TrieRoutes(t, ps, n) /\ TrieLabels(t, ps, n) /\ TrieLeaves(t, ps, n)
  BY DEF TrieOf
<1>2. p \in Seq(Seg) /\ n + 1 \in 1..(n + 1) /\ 1..(n + 1) = 1..n \cup {n + 1}
  OBVIOUS
<1>3. N \in Nat
  BY <1>2, SeqIn, SeqFacts
<1>4. leaf = Node(p, N) /\ leaf \in Way(p)
  BY <1>2, <1>3, NodeLeaf, N \in 0..N DEF Way
<1>5. g = [m \in DOMAIN t \cup Way(p) |->
             IF m \in DOMAIN t THEN t[m] ELSE [label |-> p[Len(m)].text, route |-> 0]]
  BY DEF Grown
<1> HIDE DEF g, leaf
<1>6. /\ u = [m \in DOMAIN u |-> u[m]] /\ DOMAIN u = DOMAIN t \cup Way(p)
      /\ \A m \in DOMAIN u : m # leaf => u[m] = g[m]
      /\ u[leaf] = [g[leaf] EXCEPT !.route = n + 1]
  BY <1>4, <1>5
<1> HIDE DEF u
<1>7. \A m \in DOMAIN u : /\ g[m] = [label |-> g[m].label, route |-> g[m].route]
                          /\ g[m].route \in 0..n
                          /\ g[m].route # 0 => m \in DOMAIN t /\ Shape(ps[g[m].route]) = m
  <2> SUFFICES ASSUME NEW m \in DOMAIN u
               PROVE  /\ g[m] = [label |-> g[m].label, route |-> g[m].route]
                      /\ g[m].route \in 0..n
                      /\ g[m].route # 0 => m \in DOMAIN t /\ Shape(ps[g[m].route]) = m
    OBVIOUS
  <2>1. CASE m \in DOMAIN t
    <3>1. g[m] = t[m]
      BY <1>5, <1>6, <2>1
    <3> QED BY <1>1, <2>1, <3>1 DEF TrieRoutes
  <2>2. CASE m \notin DOMAIN t
    <3> DEFINE x == p[Len(m)].text
               z == 0
    <3>1. g[m] = [label |-> x, route |-> z]
      BY <1>5, <1>6, <2>2
    <3> HIDE DEF x, z
    <3>2. g[m].label = x /\ g[m].route = z
      BY <3>1
    <3>3. z \in 0..n /\ z = 0
      BY DEF z
    <3> QED BY <3>1, <3>2, <3>3
  <2> QED BY <2>1, <2>2
<1>8. u[leaf] = [label |-> g[leaf].label, route |-> n + 1]
  <2>1. leaf \in DOMAIN u
    BY <1>4, <1>6
  <2> QED BY <1>6, <1>7, <2>1, LeafRecord
<1>9. u[leaf].route = n + 1 /\ u[leaf].label = g[leaf].label /\ u[leaf] = [label |-> u[leaf].label, route |-> u[leaf].route]
  BY <1>8
<1>10. \A m \in DOMAIN u : u[m].label = g[m].label
  BY <1>6, <1>9
<1>11. \A m \in DOMAIN t : g[m] = t[m]
  BY <1>5
<1>12. IsTree(u)
  BY <1>1, <1>6 DEF IsTree
<1>13. TrieNodes(u, ps, n + 1)
  <2>1. \A m : m \in Way(p) <=> \E k \in 0..Len(p) : m = Node(p, k)
    BY DEF Way
  <2> HIDE DEF p
  <2>2. \A m : (\E i \in 1..(n + 1) : \E k \in 0..Len(ps[i]) : m = Node(ps[i], k))
               <=> \/ \E i \in 1..n : \E k \in 0..Len(ps[i]) : m = Node(ps[i], k)
                   \/ \E k \in 0..Len(p) : m = Node(p, k)
    BY <1>2 DEF p
  <2> QED BY <1>1, <1>6, <2>1, <2>2 DEF TrieNodes
<1>14. TrieRoutes(u, ps, n + 1)
  <2> SUFFICES ASSUME NEW m \in DOMAIN u
               PROVE  /\ u[m] = [label |-> u[m].label, route |-> u[m].route]
                      /\ u[m].route \in 0..(n + 1)
                      /\ u[m].route # 0 => Shape(ps[u[m].route]) = m
    BY DEF TrieRoutes
  <2>1. CASE m = leaf
    BY <1>9, <2>1 DEF leaf
  <2>2. CASE m # leaf
    <3>1. \A x \in 0..n : x \in 0..(n + 1)
      OBVIOUS
    <3> QED BY <1>6, <1>7, <2>2, <3>1
  <2> QED BY <2>1, <2>2
<1>15. TrieLabels(u, ps, n + 1)
  <2> SUFFICES ASSUME NEW i \in 1..(n + 1), NEW k \in 1..Len(ps[i])
               PROVE  u[Node(ps[i], k)].label = ps[i][k].text
    BY DEF TrieLabels
  <2>1. ps[i] \in Seq(Seg) /\ Len(ps[i]) \in Nat
    BY SeqIn, SeqFacts
  <2>2. k \in 0..Len(ps[i]) /\ Len(Node(ps[i], k)) = k
    BY <2>1, NodeFacts
  <2>3. Node(ps[i], k) \in DOMAIN u
    BY <1>13, <2>2 DEF TrieNodes
  <2>4. CASE i \in 1..n
    <3>1. Node(ps[i], k) \in DOMAIN t
      BY <1>1, <2>2, <2>4 DEF TrieNodes
    <3> QED BY <1>1, <1>10, <1>11, <2>3, <2>4, <3>1 DEF TrieLabels
  <2>5. CASE i = n + 1
    <3>1. Node(p, k) \in DOMAIN t => t[Node(p, k)].label = p[k].text
      BY <2>5 DEF Free, Fit, FitAt
    <3>2. g[Node(p, k)].label = p[k].text
      <4>1. CASE Node(p, k) \in DOMAIN t
        BY <1>11, <3>1, <4>1
      <4>2. CASE Node(p, k) \notin DOMAIN t
        <5>1. g[Node(p, k)] = [label |-> p[Len(Node(p, k))].text, route |-> 0]
          BY <1>5, <1>6, <2>3, <2>5, <4>2
        <5> QED BY <2>2, <2>5, <5>1
      <4> QED BY <4>1, <4>2
    <3> QED BY <1>10, <2>3, <2>5, <3>2
  <2> QED BY <1>2, <2>4, <2>5
<1>16. TrieLeaves(u, ps, n + 1)
  <2> SUFFICES ASSUME NEW i \in 1..(n + 1) PROVE u[Shape(ps[i])].route = i
    BY DEF TrieLeaves
  <2>1. CASE i = n + 1
    BY <1>9, <2>1 DEF leaf
  <2>2. CASE i \in 1..n
    <3>1. ps[i] \in Seq(Seg) /\ Len(ps[i]) \in 0..Len(ps[i])
      BY SeqIn, SeqFacts
    <3>2. Shape(ps[i]) \in DOMAIN t
      BY <1>1, <2>2, <3>1, NodeLeaf DEF TrieNodes
    <3>3. t[Shape(ps[i])].route = i /\ i # 0
      BY <1>1, <2>2 DEF TrieLeaves
    <3>4. Shape(ps[i]) # leaf
      BY <3>2, <3>3 DEF Free, leaf
    <3> QED BY <1>6, <1>11, <3>2, <3>3, <3>4
  <2> QED BY <1>2, <2>1, <2>2
<1> QED BY <1>12, <1>13, <1>14, <1>15, <1>16 DEF TrieOf, u, g, leaf

LEMMA TrieNothing == ASSUME NEW ps PROVE TrieOf(NewTrie, ps, 0)
<1> DEFINE t == NewTrie
           l == ""
           z == 0
<1>1. t = [m \in {<<>>} |-> [label |-> l, route |-> z]]
  BY DEF NewTrie
<1>2. z = 0
  OBVIOUS
<1> HIDE DEF t, l, z
<1>3. DOMAIN t = {<<>>} /\ t[<<>>] = [label |-> l, route |-> z] /\ t = [m \in DOMAIN t |-> t[m]]
  BY <1>1
<1>4. t[<<>>].label = l /\ t[<<>>].route = z
  BY <1>3
<1>5. 1..0 = {} /\ 0 \in 0..0
  OBVIOUS
<1>6. IsTree(t)
  BY <1>3 DEF IsTree
<1>7. TrieNodes(t, ps, 0)
  BY <1>3, <1>5 DEF TrieNodes
<1>8. TrieRoutes(t, ps, 0)
  BY <1>2, <1>3, <1>4, <1>5 DEF TrieRoutes
<1>9. TrieLabels(t, ps, 0) /\ TrieLeaves(t, ps, 0)
  BY <1>5 DEF TrieLabels, TrieLeaves
<1> QED BY <1>6, <1>7, <1>8, <1>9 DEF TrieOf, t

(* Load's trie: all or nothing.                                              *)
Patterns(file) == [i \in 1..Len(file.table) |-> Segments(PathOf(file, file.table[i]))]
Separate(ps, n) == \A i \in 1..n : \A j \in 1..(i - 1) : Agree(ps[j], ps[i])
Enters(file, n) ==
    /\ \A i \in 1..n : Routable(PathOf(file, file.table[i]))
    /\ Separate(Patterns(file), n)

LEMMA EntersNext ==
    ASSUME NEW file, NEW n \in Nat
    PROVE  Enters(file, n + 1) <=> /\ Enters(file, n)
                                   /\ Routable(PathOf(file, file.table[n + 1]))
                                   /\ \A j \in 1..n : Agree(Patterns(file)[j], Patterns(file)[n + 1])
<1> DEFINE ps == Patterns(file)
           R(i) == Routable(PathOf(file, file.table[i]))
           S(i) == \A j \in 1..(i - 1) : Agree(ps[j], ps[i])
<1>1. \A m : Enters(file, m) <=> (\A i \in 1..m : R(i)) /\ (\A i \in 1..m : S(i))
  BY DEF Enters, Separate
<1>2. S(n + 1) <=> \A j \in 1..n : Agree(ps[j], ps[n + 1])
  <2>1. (n + 1) - 1 = n
    OBVIOUS
  <2> QED BY <2>1
<1>3. 1..(n + 1) = 1..n \cup {n + 1}
  OBVIOUS
<1> HIDE DEF R, S, ps
<1>4. Enters(file, n + 1) <=> Enters(file, n) /\ R(n + 1) /\ S(n + 1)
  BY <1>1, <1>3
<1> QED BY <1>2, <1>4 DEF R, ps

LEMMA LoadsTrie ==
    ASSUME NEW file, IsSeq(file.table),
           \A i \in 1..Len(file.table) : PathOf(file, file.table[i]) \in Seq(Seg)
    PROVE  LET o == LoadTrie(file)
               N == Len(file.table)
           IN  IF Enters(file, N) THEN o.ok /\ TrieOf(o.nodes, Patterns(file), N) ELSE ~o.ok
<1> DEFINE N == Len(file.table)
           ps == Patterns(file)
           url(i) == PathOf(file, file.table[i])
<1>1. N \in Nat /\ DOMAIN ps = 1..N /\ \A i \in 1..N : url(i) \in Seq(Seg) /\ ps[i] = Segments(url(i))
  BY SeqFacts DEF Patterns
<1>2. \A i \in 1..N : ps[i] \in Seq(Seg)
  BY <1>1, SegmentsFacts
<1>3. PICK r : LoadRun(file, r) /\ LoadTrie(file) = r[N]
  BY SeqFacts, LoadRuns DEF IsSeq
<1> DEFINE Here(n) == IF Enters(file, n) THEN r[n].ok /\ TrieOf(r[n].nodes, ps, n) ELSE ~r[n].ok
           G == {n \in Nat : n <= N => Here(n)}
<1>4. Here(0)
  <2>1. r[0] = [ok |-> TRUE, nodes |-> NewTrie]
    BY <1>3 DEF LoadRun
  <2>2. r[0].ok /\ r[0].nodes = NewTrie
    BY <2>1
  <2>3. TrieOf(NewTrie, ps, 0)
    BY TrieNothing
  <2>4. 1..0 = {}
    OBVIOUS
  <2>5. Enters(file, 0)
    BY <2>4 DEF Enters, Separate
  <2> QED BY <2>2, <2>3, <2>5
<1>5. ASSUME NEW n \in Nat, n + 1 <= N, Here(n) PROVE Here(n + 1)
  <2>1. n + 1 \in 1..N /\ (n + 1) - 1 = n /\ (\A i \in 1..(n + 1) : i \in 1..N) /\ \A i \in 1..n : i \in 1..N
    BY <1>1, <1>5
  <2> DEFINE a == r[n]
             t == a.nodes
             u == url(n + 1)
             p == Segments(u)
             o == Insert(t, u, n + 1)
  <2>2. r[n + 1] = InsertRoute(a, file, n + 1)
    BY <1>3, <2>1 DEF LoadRun
  <2>3. u \in Seq(Seg) /\ ps[n + 1] = p /\ p \in Seq(Seg) /\ (\A i \in 1..(n + 1) : ps[i] \in Seq(Seg))
        /\ \A i \in 1..n : ps[i] \in Seq(Seg)
    BY <1>1, <1>2, <2>1
  <2>4. r[n + 1] = IF a.ok THEN o ELSE a
    BY <2>2 DEF InsertRoute
  <2>5. Enters(file, n + 1) <=> Enters(file, n) /\ Routable(u) /\ \A j \in 1..n : Agree(ps[j], p)
    <3>1. Enters(file, n + 1) <=> Enters(file, n) /\ Routable(u) /\ \A j \in 1..n : Agree(ps[j], ps[n + 1])
      BY EntersNext
    <3> QED BY <2>3, <3>1
  <2>6. CASE ~Enters(file, n)
    BY <1>5, <2>4, <2>5, <2>6
  <2>7. CASE Enters(file, n)
    <3>1. a.ok /\ TrieOf(t, ps, n)
      BY <1>5, <2>7
    <3>2. IsTree(t)
      BY <3>1 DEF TrieOf
    <3> HIDE DEF a, t, u, ps, N
    <3>3. IF Routable(u) /\ Free(t, p)
          THEN o.ok /\ o.nodes = [Grown(t, p) EXCEPT ![Shape(p)].route = n + 1] ELSE ~o.ok
      BY <2>3, <3>2, InsertDoes
    <3>4. Free(t, p) <=> \A j \in 1..n : Agree(ps[j], p)
      BY <2>3, <3>1, FreeIffAgree
    <3>5. ASSUME Free(t, p) PROVE TrieOf([Grown(t, p) EXCEPT ![Shape(p)].route = n + 1], ps, n + 1)
      BY <2>3, <3>1, <3>5, TrieNext
    <3> HIDE DEF p, o
    <3>6. r[n + 1] = o
      BY <2>4, <3>1
    <3>7. Enters(file, n + 1) <=> Routable(u) /\ Free(t, p)
      BY <2>5, <2>7, <3>4
    <3> QED BY <3>3, <3>5, <3>6, <3>7
  <2> QED BY <2>6, <2>7
<1> HIDE DEF Here, N
<1>6. 0 \in G
  BY <1>4
<1>7. ASSUME NEW n \in Nat, n \in G PROVE n + 1 \in G
  <2>1. n + 1 <= N => n <= N
    BY <1>1
  <2> QED BY <1>5, <1>7, <2>1
<1> HIDE DEF G
<1>8. N \in G
  BY <1>1, <1>6, <1>7, Induction
<1>9. Here(N)
  BY <1>1, <1>8 DEF G
<1> QED BY <1>3, <1>9 DEF Here, N, ps

-----------------------------------------------------------------------------
(* walk, level by level from the end of the path.                            *)
Rest(segs, left) == SubSeq(segs, Len(segs) - left + 1, Len(segs))
Visits(t, segs, deeper, left) ==
    [n \in DOMAIN t |-> [ps \in Params |-> visit(t, deeper, n, Rest(segs, left), ps)]]
WalkTable(t, segs, m, h) == h = [left \in 0..m |-> Visits(t, segs, h[left - 1], left)]

LEMMA NothingLeft ==
    ASSUME NEW t, NEW segs, IsSeq(segs)
    PROVE  Rest(segs, 0) = <<>> /\ \A d, e : Visits(t, segs, d, 0) = Visits(t, segs, e, 0)
<1> DEFINE N == Len(segs)
           rest == Rest(segs, 0)
           m == N - 0 + 1
<1>0. N \in Nat
  BY SeqFacts
<1>1. m \in Int /\ N \in Int /\ ~(m <= N)
  <2> HIDE DEF N
  <2> QED BY <1>0
<1>2. rest = SubSeq(segs, m, N)
  BY DEF Rest
<1> HIDE DEF m, N, rest
<1>3. IsSeq(rest) /\ Len(rest) = 0
  BY <1>1, <1>2, PartSeq
<1>4. rest = <<>>
  BY <1>3, EmptyIsSeq, SeqEq, 1..0 = {}
<1>5. \A d, e, n, ps : visit(t, d, n, rest, ps) = visit(t, e, n, rest, ps)
  BY <1>4 DEF visit
<1> QED BY <1>4, <1>5 DEF Visits, rest

LEMMA MatchRuns ==
    ASSUME NEW t, NEW pieces, IsSeq(splitPath(pieces))
    PROVE  LET segs == splitPath(pieces)
               N == Len(segs)
           IN  \E h : WalkTable(t, segs, N, h) /\ Match(t, pieces) = h[N][<<>>][<<>>]
<1> DEFINE segs == splitPath(pieces)
           N == Len(segs)
           G == {m \in Nat : \E h : WalkTable(t, segs, m, h)}
<1>1. N \in Nat
  BY SeqFacts
<1>2. 0 \in G
  <2> DEFINE h == [left \in 0..0 |-> Visits(t, segs, <<>>, 0)]
  <2>1. Visits(t, segs, h[0 - 1], 0) = Visits(t, segs, <<>>, 0)
    BY NothingLeft
  <2> DEFINE x == Visits(t, segs, <<>>, 0)
             y == Visits(t, segs, h[0 - 1], 0)
  <2>2. h = [left \in 0..0 |-> Visits(t, segs, h[left - 1], left)]
    <3>1. \A left \in 0..0 : left = 0
      OBVIOUS
    <3>2. \A left \in 0..0 : Visits(t, segs, h[left - 1], left) = Visits(t, segs, <<>>, 0)
      BY <2>1, <3>1
    <3> QED BY <3>2
  <2> QED BY <2>2 DEF WalkTable
<1>3. ASSUME NEW m \in Nat, m \in G PROVE m + 1 \in G
  <2>1. PICK h : WalkTable(t, segs, m, h)
    BY <1>3
  <2> DEFINE v == Visits(t, segs, h[m], m + 1)
             g == [left \in 0..(m + 1) |-> IF left = m + 1 THEN v ELSE h[left]]
  <2> HIDE DEF v, segs
  <2>2. ASSUME NEW left \in 0..(m + 1) PROVE g[left] = Visits(t, segs, g[left - 1], left)
    <3>1. CASE left = m + 1
      <4>1. left - 1 = m /\ m \in 0..(m + 1) /\ m # m + 1
        BY <3>1
      <4>2. g[left - 1] = h[m] /\ g[left] = v
        BY <3>1, <4>1
      <4> QED BY <3>1, <4>2 DEF v
    <3>2. CASE left # m + 1 /\ left # 0
      <4>1. left \in 0..m /\ left - 1 \in 0..(m + 1) /\ left - 1 # m + 1
        BY <3>2
      <4>2. g[left] = h[left] /\ g[left - 1] = h[left - 1]
        BY <3>2, <4>1
      <4>3. h[left] = Visits(t, segs, h[left - 1], left)
        BY <2>1, <4>1 DEF WalkTable
      <4> QED BY <4>2, <4>3
    <3>3. CASE left = 0
      <4>1. 0 \in 0..m /\ 0 # m + 1
        OBVIOUS
      <4>2. g[0] = h[0] /\ h[0] = Visits(t, segs, h[0 - 1], 0)
        BY <2>1, <4>1 DEF WalkTable
      <4> DEFINE d == h[0 - 1]
                 e == g[0 - 1]
      <4>3. IsSeq(segs)
        BY DEF segs
      <4>4. Visits(t, segs, d, 0) = Visits(t, segs, e, 0)
        BY <4>3, NothingLeft
      <4> QED BY <3>3, <4>2, <4>4
    <3> QED BY <3>1, <3>2, <3>3
  <2>3. g = [left \in 0..(m + 1) |-> g[left]]
    OBVIOUS
  <2> HIDE DEF g
  <2>4. WalkTable(t, segs, m + 1, g)
    BY <2>2, <2>3 DEF WalkTable
  <2> QED BY <2>4
<1> HIDE DEF G
<1>4. N \in G
  BY <1>1, <1>2, <1>3, Induction
<1>5. PICK h : WalkTable(t, segs, N, h)
  BY <1>4 DEF G
<1> DEFINE walk == CHOOSE f : f = [left \in 0..N |->
                                     [n \in DOMAIN t |-> [ps \in Params |->
                                         visit(t, f[left - 1], n, SubSeq(segs, N - left + 1, N), ps)]]]
<1>6. Match(t, pieces) = walk[N][<<>>][<<>>]
  BY DEF Match
<1>7. WalkTable(t, segs, N, walk)
  <2>1. h = [left \in 0..N |->
               [n \in DOMAIN t |-> [ps \in Params |->
                   visit(t, h[left - 1], n, SubSeq(segs, N - left + 1, N), ps)]]]
    BY <1>5 DEF WalkTable, Visits, Rest
  <2>2. walk = [left \in 0..N |->
                  [n \in DOMAIN t |-> [ps \in Params |->
                      visit(t, walk[left - 1], n, SubSeq(segs, N - left + 1, N), ps)]]]
    BY <2>1
  <2> HIDE DEF walk
  <2> QED BY <2>2 DEF WalkTable, Visits, Rest
<1> HIDE DEF walk
<1> QED BY <1>6, <1>7

-----------------------------------------------------------------------------
(* What a visit finds, and that one that fails leaves the captures as they   *)
(* were.                                                                     *)
Cap == STRING \X Seq(STRING)

LEMMA SplitTyped ==
    ASSUME NEW pieces \in Seq(STRING)
    PROVE  splitPath(pieces) \in Seq(STRING)
<1> DEFINE tail == IF Len(pieces) > 1 /\ Head(pieces) = "" THEN Tail(pieces) ELSE pieces
           body == IF Len(tail) > 1 /\ Last(tail) = "" THEN Front(tail) ELSE tail
<1>1. tail \in Seq(STRING)
  <2>1. Len(pieces) > 1 => pieces # <<>> /\ Tail(pieces) \in Seq(STRING)
    OBVIOUS
  <2> QED BY <2>1
<1> HIDE DEF tail
<1>2. body \in Seq(STRING)
  <2>1. Len(tail) > 1 => Front(tail) \in Seq(STRING)
    <3>1. IsSeq(tail) /\ Len(tail) \in Nat /\ \A i \in 1..Len(tail) : tail[i] \in STRING
      BY <1>1, SeqIn, SeqFacts
    <3> DEFINE f == SubSeq(tail, 1, Len(tail) - 1)
               n == Len(tail) - 1
    <3> SUFFICES ASSUME Len(tail) > 1 PROVE f \in Seq(STRING)
      BY DEF Front
    <3>2. 1 \in Int /\ n \in Nat /\ 1 <= n /\ n - 1 + 1 = n /\ n <= Len(tail)
      BY <3>1
    <3>3. f = SubSeq(tail, 1, n)
      OBVIOUS
    <3> HIDE DEF n, f
    <3>4. IsSeq(f) /\ Len(f) = n /\ \A i \in 1..n : f[i] = tail[1 + i - 1]
      BY <3>2, <3>3, PartSeq
    <3>5. \A i \in 1..n : f[i] \in STRING
      <4>1. \A i \in 1..n : 1 + i - 1 = i /\ i \in 1..Len(tail)
        BY <3>1, <3>2
      <4> QED BY <3>1, <3>4, <4>1
    <3> QED BY <3>4, <3>5, InSeq
  <2> QED BY <1>1, <2>1
<1> HIDE DEF body
<1>3. splitPath(pieces) = IF body = <<"">> THEN <<>> ELSE body
  BY DEF splitPath, body, tail
<1>4. <<>> \in Seq(STRING)
  OBVIOUS
<1> QED BY <1>2, <1>3, <1>4

LEMMA FrontAppend ==
    ASSUME NEW S, NEW ps \in Seq(S), NEW x \in S
    PROVE  Append(ps, x) \in Seq(S) /\ Front(Append(ps, x)) = ps
<1> DEFINE a == Append(ps, x)
           n == Len(ps)
           f == SubSeq(a, 1, n)
<1>1. a \in Seq(S) /\ Len(a) = n + 1 /\ n \in Nat /\ \A i \in 1..n : a[i] = ps[i]
  OBVIOUS
<1> HIDE DEF a
<1>2. Front(a) = f
  <2>1. Len(a) - 1 = n
    BY <1>1
  <2> QED BY <2>1 DEF Front
<1> HIDE DEF n
<1>3. n - 1 + 1 = n /\ (1 <= n \/ n = 0) /\ 1 \in Int /\ n \in Int /\ \A i \in 1..n : 1 + i - 1 = i
  BY <1>1
<1>4. IsSeq(f) /\ Len(f) = (IF 1 <= n THEN n - 1 + 1 ELSE 0) /\ \A i \in 1..(n - 1 + 1) : f[i] = a[1 + i - 1]
  BY <1>3, PartSeq
<1> HIDE DEF f
<1>5. Len(f) = n /\ \A i \in 1..n : f[i] = ps[i]
  BY <1>1, <1>3, <1>4
<1>6. IsSeq(ps) /\ Len(ps) = n
  BY SeqIn DEF n
<1>7. f = ps
  BY <1>4, <1>5, <1>6, SeqEq
<1> QED BY <1>1, <1>2, <1>7 DEF a

Labelled(t) ==
    /\ \A m \in DOMAIN t : t[m].route \in Nat
    /\ \A n \in DOMAIN t :
          /\ Append(n, ParamEdge) \in DOMAIN t => t[Append(n, ParamEdge)].label \in STRING
          /\ Append(n, AllEdge) \in DOMAIN t => t[Append(n, AllEdge)].label \in STRING
Sound(t, r, ps) ==
    /\ r = Result(r.route, r.params) /\ r.params \in Params /\ r.route \in Nat
    /\ IF r.route = 0 THEN r.params = ps ELSE \E m \in DOMAIN t : r.route = t[m].route
SoundBelow(t, deeper) == \A n \in DOMAIN t : \A ps \in Params : Sound(t, deeper[n][ps], ps)

Step(t, n, rest, ps) == Append(ps, <<t[Append(n, ParamEdge)].label, <<Head(rest)>>>>)
Chosen(t, deeper, n, rest, ps) ==
    LET l == Append(n, Lit(Head(rest)))
        p == Append(n, ParamEdge)
    IN  IF rest = <<>> /\ t[n].route > 0 THEN Result(t[n].route, ps)
        ELSE IF rest # <<>> /\ l \in DOMAIN t /\ Found(deeper[l][ps]) THEN deeper[l][ps]
        ELSE IF rest # <<>> /\ p \in DOMAIN t /\ Found(deeper[p][Step(t, n, rest, ps)])
             THEN deeper[p][Step(t, n, rest, ps)]
        ELSE take(t, n, rest, ps)

LEMMA ResultFields ==
    ASSUME NEW x, NEW y
    PROVE  Result(x, y).route = x /\ Result(x, y).params = y
  BY DEF Result

LEMMA StepTyped ==
    ASSUME NEW t, Labelled(t), NEW n \in DOMAIN t, NEW rest \in Seq(STRING), rest # <<>>, NEW ps \in Params,
           Append(n, ParamEdge) \in DOMAIN t
    PROVE  Step(t, n, rest, ps) \in Params /\ Front(Step(t, n, rest, ps)) = ps
<1> DEFINE l == t[Append(n, ParamEdge)].label
           h == Head(rest)
           o == <<h>>
           c == <<l, o>>
<1>1. l \in STRING
  BY DEF Labelled
<1>2. h \in STRING
  OBVIOUS
<1> HIDE DEF l, h
<1>0. o \in Seq(STRING)
  <2>1. \A S : \A x \in S : <<x>> \in Seq(S)
    OBVIOUS
  <2> QED BY <1>2, <2>1
<1> HIDE DEF o
<1>3. c \in Cap
  BY <1>0, <1>1 DEF Cap
<1> HIDE DEF c
<1>4. Append(ps, c) \in Seq(Cap) /\ Front(Append(ps, c)) = ps
  BY <1>3, FrontAppend DEF Params, Cap
<1> QED BY <1>4 DEF Step, Params, Cap, c, o, l, h

LEMMA TakeTyped ==
    ASSUME NEW t, Labelled(t), NEW n \in DOMAIN t, NEW rest \in Seq(STRING), NEW ps \in Params
    PROVE  Sound(t, take(t, n, rest, ps), ps)
<1> DEFINE c == Append(n, AllEdge)
           l == t[c].label
           x == t[c].route
           q == Append(ps, <<l, rest>>)
           r == take(t, n, rest, ps)
<1>1. CASE c \in DOMAIN t /\ x > 0
  <2>1. l \in STRING /\ x \in Nat
    BY <1>1 DEF Labelled
  <2>2. r = Result(x, q)
    BY <1>1 DEF take
  <2> HIDE DEF r
  <2>3. q \in Params
    <3> HIDE DEF l
    <3>1. <<l, rest>> \in Cap
      BY <2>1 DEF Cap
    <3> QED BY <3>1, FrontAppend DEF Params, Cap
  <2>4. r.route = x /\ r.params = q
    BY <2>2, ResultFields
  <2>5. \E m \in DOMAIN t : r.route = t[m].route
    BY <1>1, <2>4
  <2> HIDE DEF q, x
  <2>6. r.route \in Nat /\ r.route # 0
    BY <1>1, <2>1, <2>4
  <2> QED BY <2>2, <2>3, <2>4, <2>5, <2>6 DEF Sound, r
<1>2. CASE ~(c \in DOMAIN t /\ x > 0)
  <2>1. r = Result(0, ps)
    BY <1>2 DEF take
  <2> HIDE DEF r
  <2>2. r.route = 0 /\ r.params = ps
    BY <2>1, ResultFields
  <2> QED BY <2>1, <2>2 DEF Sound, r
<1> QED BY <1>1, <1>2

LEMMA VisitIs ==
    ASSUME NEW t, Labelled(t), NEW deeper, NEW n \in DOMAIN t, NEW rest \in Seq(STRING), NEW ps \in Params,
           rest # <<>> => SoundBelow(t, deeper)
    PROVE  visit(t, deeper, n, rest, ps) = Chosen(t, deeper, n, rest, ps)
<1>1. CASE rest = <<>>
  BY <1>1 DEF visit, Chosen
<1>2. CASE rest # <<>>
  <2> DEFINE l == Append(n, Lit(Head(rest)))
             p == Append(n, ParamEdge)
             lit == IF l \in DOMAIN t THEN deeper[l][ps] ELSE Result(0, ps)
             sub == deeper[p][Append(lit.params, <<t[p].label, <<Head(rest)>>>>)]
             param == IF p \notin DOMAIN t THEN lit
                      ELSE IF Found(sub) THEN sub
                      ELSE [sub EXCEPT !.params = DropParam(@)]
             v == visit(t, deeper, n, rest, ps)
             tk == take(t, n, rest, ps)
             s == deeper[p][Step(t, n, rest, ps)]
  <2>1. v = IF Found(lit) THEN lit ELSE IF Found(param) THEN param ELSE take(t, n, rest, param.params)
    BY <1>2 DEF visit
  <2>2. Chosen(t, deeper, n, rest, ps) =
            IF l \in DOMAIN t /\ Found(deeper[l][ps]) THEN deeper[l][ps]
            ELSE IF p \in DOMAIN t /\ Found(s) THEN s ELSE tk
    BY <1>2 DEF Chosen
  <2>3. Sound(t, lit, ps)
    <3>1. Result(0, ps).route = 0 /\ Result(0, ps).params = ps
      BY ResultFields
    <3>2. Sound(t, Result(0, ps), ps)
      BY <3>1 DEF Sound
    <3> QED BY <1>2, <3>2 DEF SoundBelow
  <2>4. Found(lit) <=> l \in DOMAIN t /\ Found(deeper[l][ps])
    BY ResultFields DEF Found
  <2>5. CASE Found(lit)
    BY <2>1, <2>2, <2>4, <2>5
  <2>6. CASE ~Found(lit)
    <3>1. lit.params = ps
      BY <2>3, <2>6 DEF Sound, Found
    <3>2. sub = s
      BY <3>1 DEF Step
    <3>3. CASE p \notin DOMAIN t
      <4>1. param = lit
        BY <3>3
      <4> QED BY <2>1, <2>2, <2>4, <2>6, <3>1, <3>3, <4>1
    <3>4. CASE p \in DOMAIN t /\ Found(s)
      <4>1. param = s
        BY <3>2, <3>4
      <4> QED BY <2>1, <2>2, <2>4, <2>6, <3>4, <4>1
    <3>5. CASE p \in DOMAIN t /\ ~Found(s)
      <4> DEFINE q == Step(t, n, rest, ps)
      <4>1. q \in Params /\ Front(q) = ps
        BY <1>2, <3>5, StepTyped
      <4>2. Sound(t, s, q)
        BY <1>2, <3>5, <4>1 DEF SoundBelow
      <4> HIDE DEF q
      <4>3. s = Result(s.route, s.params) /\ s.route = 0 /\ s.params = q
        BY <3>5, <4>2 DEF Sound, Found
      <4>4. param = [s EXCEPT !.params = Front(@)]
        BY <3>2, <3>5 DEF DropParam
      <4> HIDE DEF s, lit, sub, l, p
      <4>5. [s EXCEPT !.params = Front(@)] = [route |-> s.route, params |-> Front(s.params)]
        <5> DEFINE x == s.route
                   y == s.params
                   z == Front(y)
        <5>1. s = [route |-> x, params |-> y]
          BY <4>3 DEF Result
        <5> HIDE DEF x, y
        <5>2. s.params = y
          BY <5>1
        <5>3. [s EXCEPT !.params = Front(@)] = [s EXCEPT !.params = z]
          BY <5>2
        <5> HIDE DEF z
        <5>4. [s EXCEPT !.params = z] = [route |-> x, params |-> z]
          BY <5>1, Z3
        <5> QED BY <5>3, <5>4 DEF x, y, z
      <4>6. param.params = ps /\ ~Found(param)
        BY <4>1, <4>3, <4>4, <4>5 DEF Found
      <4> HIDE DEF param
      <4> QED BY <2>1, <2>2, <2>4, <2>6, <3>5, <4>6
    <3> QED BY <3>3, <3>4, <3>5
  <2> QED BY <2>5, <2>6
<1> QED BY <1>1, <1>2

LEMMA VisitSound ==
    ASSUME NEW t, Labelled(t), NEW deeper, NEW n \in DOMAIN t, NEW rest \in Seq(STRING), NEW ps \in Params,
           rest # <<>> => SoundBelow(t, deeper)
    PROVE  Sound(t, visit(t, deeper, n, rest, ps), ps)
<1> DEFINE l == Append(n, Lit(Head(rest)))
           p == Append(n, ParamEdge)
           q == Step(t, n, rest, ps)
           v == visit(t, deeper, n, rest, ps)
<1>1. v = Chosen(t, deeper, n, rest, ps)
  BY VisitIs
<1>2. CASE rest = <<>> /\ t[n].route > 0
  <2>1. v = Result(t[n].route, ps)
    BY <1>1, <1>2 DEF Chosen
  <2>2. v.route = t[n].route /\ v.params = ps /\ v.route \in Nat
    BY <2>1, ResultFields DEF Labelled
  <2> HIDE DEF v
  <2> QED BY <2>1, <2>2 DEF Sound, v
<1>3. CASE rest # <<>> /\ l \in DOMAIN t /\ Found(deeper[l][ps])
  <2>1. v = deeper[l][ps]
    BY <1>1, <1>3 DEF Chosen
  <2> QED BY <1>3, <2>1 DEF SoundBelow
<1>4. CASE rest # <<>> /\ ~(l \in DOMAIN t /\ Found(deeper[l][ps])) /\ p \in DOMAIN t /\ Found(deeper[p][q])
  <2>1. v = deeper[p][q]
    BY <1>1, <1>4 DEF Chosen
  <2>2. q \in Params
    BY <1>4, StepTyped
  <2>3. Sound(t, v, q) /\ v.route # 0
    BY <1>4, <2>1, <2>2 DEF SoundBelow, Found
  <2> QED BY <2>3 DEF Sound
<1>5. CASE /\ ~(rest = <<>> /\ t[n].route > 0)
           /\ ~(rest # <<>> /\ l \in DOMAIN t /\ Found(deeper[l][ps]))
           /\ ~(rest # <<>> /\ p \in DOMAIN t /\ Found(deeper[p][q]))
  <2>1. v = take(t, n, rest, ps)
    BY <1>1, <1>5 DEF Chosen
  <2> QED BY <2>1, TakeTyped
<1> QED BY <1>2, <1>3, <1>4, <1>5

LEMMA RestTyped ==
    ASSUME NEW segs \in Seq(STRING), NEW left \in 0..Len(segs)
    PROVE  /\ Rest(segs, left) \in Seq(STRING) /\ Len(Rest(segs, left)) = left
           /\ \A i \in 1..left : Rest(segs, left)[i] = segs[Len(segs) - left + i]
           /\ Rest(segs, left) = <<>> <=> left = 0
<1> DEFINE N == Len(segs)
           m == N - left + 1
           r == Rest(segs, left)
<1>1. IsSeq(segs) /\ N \in Nat /\ \A i \in 1..N : segs[i] \in STRING
  BY SeqIn, SeqFacts
<1>2. r = SubSeq(segs, m, N)
  BY DEF Rest
<1> HIDE DEF N, r
<1>3. m \in Int /\ N \in Int /\ left \in Nat /\ (IF m <= N THEN N - m + 1 ELSE 0) = left /\ N - m + 1 = left
      /\ \A i \in 1..left : m + i - 1 = N - left + i /\ N - left + i \in 1..N
  BY <1>1 DEF N
<1> HIDE DEF m
<1>4. IsSeq(r) /\ Len(r) = (IF m <= N THEN N - m + 1 ELSE 0) /\ \A i \in 1..(N - m + 1) : r[i] = segs[m + i - 1]
  BY <1>2, <1>3, PartSeq
<1>5. Len(r) = left /\ \A i \in 1..left : r[i] = segs[N - left + i] /\ r[i] \in STRING
  BY <1>1, <1>3, <1>4
<1>6. r \in Seq(STRING)
  BY <1>4, <1>5, InSeq
<1>7. r = <<>> <=> left = 0
  BY <1>4, <1>5, EmptyIsSeq, SeqEq, 1..0 = {}
<1> QED BY <1>5, <1>6, <1>7 DEF r, N

LEMMA WalkSound ==
    ASSUME NEW t, Labelled(t), NEW segs \in Seq(STRING), NEW h, WalkTable(t, segs, Len(segs), h)
    PROVE  \A left \in 0..Len(segs) :
              /\ SoundBelow(t, h[left])
              /\ \A n \in DOMAIN t : \A ps \in Params :
                    h[left][n][ps] = Chosen(t, h[left - 1], n, Rest(segs, left), ps)
<1> DEFINE N == Len(segs)
           Here(left) == /\ SoundBelow(t, h[left])
                         /\ \A n \in DOMAIN t : \A ps \in Params :
                               h[left][n][ps] = Chosen(t, h[left - 1], n, Rest(segs, left), ps)
           G == {left \in Nat : left <= N => Here(left)}
<1>1. N \in Nat
  BY SeqIn, SeqFacts
<1>2. ASSUME NEW left \in 0..N, left # 0 => SoundBelow(t, h[left - 1]) PROVE Here(left)
  <2> DEFINE rest == Rest(segs, left)
             d == h[left - 1]
  <2>1. h[left] = Visits(t, segs, d, left)
    BY DEF WalkTable
  <2>2. rest \in Seq(STRING) /\ (rest # <<>> => SoundBelow(t, d))
    BY <1>2, RestTyped
  <2> HIDE DEF rest, d
  <2>3. \A n \in DOMAIN t : \A ps \in Params : h[left][n][ps] = visit(t, d, n, rest, ps)
    BY <2>1 DEF Visits, rest
  <2>4. \A n \in DOMAIN t : \A ps \in Params :
          visit(t, d, n, rest, ps) = Chosen(t, d, n, rest, ps) /\ Sound(t, visit(t, d, n, rest, ps), ps)
    BY <2>2, VisitIs, VisitSound
  <2> QED BY <2>3, <2>4 DEF SoundBelow, rest, d
<1>3. Here(0)
  BY <1>1, <1>2, 0 \in 0..N
<1>4. 0 \in G
  BY <1>3
<1>5. ASSUME NEW n \in Nat, n \in G PROVE n + 1 \in G
  <2> HIDE DEF Here, N
  <2>1. CASE n + 1 <= N
    <3>1. n + 1 \in 0..N /\ (n + 1) - 1 = n /\ n <= N
      BY <1>1, <2>1
    <3>2. SoundBelow(t, h[n])
      BY <1>5, <3>1 DEF Here
    <3>3. Here(n + 1)
      BY <1>2, <3>1, <3>2
    <3> QED BY <3>3
  <2> QED BY <2>1
<1> HIDE DEF G
<1>6. \A n \in Nat : n \in G
  BY <1>4, <1>5, Induction
<1> HIDE DEF Here
<1>7. \A left \in 0..N : Here(left)
  BY <1>1, <1>6 DEF G
<1> QED BY <1>7 DEF Here

LEMMA MatchSound ==
    ASSUME NEW t, IsTree(t), Labelled(t), NEW pieces \in Seq(STRING)
    PROVE  Sound(t, Match(t, pieces), <<>>)
<1> DEFINE segs == splitPath(pieces)
           N == Len(segs)
<1>1. segs \in Seq(STRING)
  BY SplitTyped
<1>2. IsSeq(segs) /\ N \in Nat
  BY <1>1, SeqIn, SeqFacts
<1>3. PICK h : WalkTable(t, segs, N, h) /\ Match(t, pieces) = h[N][<<>>][<<>>]
  BY <1>2, MatchRuns
<1>4. <<>> \in Params /\ <<>> \in DOMAIN t /\ N \in 0..N
  BY <1>2 DEF Params, IsTree
<1> HIDE DEF segs
<1>5. SoundBelow(t, h[N])
  BY <1>1, <1>3, <1>4, WalkSound
<1> QED BY <1>3, <1>4, <1>5 DEF SoundBelow

(* A pattern that can be routed, piece by piece.                             *)
Proper(p) ==
    \A k \in 1..Len(p) : (p[k].kind # "lit" => p[k].text # "") /\ (p[k].kind = "all" => k = Len(p))

LEMMA RoutableProper ==
    ASSUME NEW url \in Seq(Seg), Routable(url)
    PROVE  Proper(Segments(url))
<1> DEFINE N == Len(url)
<1>1. IsSeq(url) /\ N \in Nat /\ (\A i \in 1..N : url[i] \in Seg) /\ DOMAIN url = 1..N
  BY SeqIn, SeqFacts
<1>2. PICK sr : SegmentsRun(url, sr) /\ Segments(url) = sr[N] /\ \A n \in 0..N : sr[n] \in Seq(Seg)
  BY SegmentsFacts
<1> DEFINE Good(p, n) == \A k \in 1..Len(p) : /\ p[k].kind # "lit" => p[k].text # ""
                                              /\ p[k].kind = "all" => n = N /\ k = Len(p)
           G == {n \in Nat : n <= N => Good(sr[n], n)}
<1>3. 0 \in G
  <2>1. sr[0] = <<>> /\ Len(<<>>) = 0 /\ 1..0 = {}
    BY <1>2, EmptyIsSeq DEF SegmentsRun
  <2> QED BY <2>1
<1>4. ASSUME NEW n \in Nat, n \in G PROVE n + 1 \in G
  <2> HIDE DEF N, Good
  <2> SUFFICES ASSUME n + 1 <= N PROVE Good(sr[n + 1], n + 1)
    OBVIOUS
  <2>1. n + 1 \in 1..N /\ (n + 1) - 1 = n /\ n \in 0..N /\ Good(sr[n], n) /\ n # N
    BY <1>1, <1>4
  <2> DEFINE s == url[n + 1]
             p == sr[n]
             q == Append(p, s)
  <2>2. s \in Seg /\ p \in Seq(Seg) /\ sr[n + 1] = AddSegment(p, s)
    BY <1>1, <1>2, <2>1 DEF SegmentsRun, N
  <2>3. (s.kind # "lit" => s.text # "") /\ (s.kind = "all" => n + 1 = N)
    BY <1>1, <2>1 DEF Routable, N
  <2>4. Good(p, n + 1)
    BY <2>1 DEF Good
  <2> HIDE DEF s, p
  <2>5. Len(q) = Len(p) + 1 /\ Len(p) \in Nat /\ q[Len(p) + 1] = s /\ \A k \in 1..Len(p) : q[k] = p[k]
    BY <2>2
  <2> HIDE DEF q
  <2>6. Good(q, n + 1)
    <3>1. \A k \in 1..Len(q) : k \in 1..Len(p) \/ k = Len(p) + 1
      BY <2>5
    <3>2. \A k \in 1..Len(p) : p[k].kind # "all" /\ (p[k].kind # "lit" => p[k].text # "")
      BY <2>1 DEF Good, p
    <3> QED BY <2>3, <2>5, <3>1, <3>2 DEF Good
  <2> QED BY <2>2, <2>4, <2>6 DEF AddSegment, q
<1> HIDE DEF G
<1>5. N \in G
  BY <1>1, <1>3, <1>4, Induction
<1>6. Good(sr[N], N)
  <2> HIDE DEF N, Good
  <2> QED BY <1>1, <1>5 DEF G
<1> QED BY <1>2, <1>6 DEF Proper

LEMMA TrieLabelled ==
    ASSUME NEW t, NEW ps, NEW n \in Nat, TrieOf(t, ps, n),
           \A i \in 1..n : ps[i] \in Seq(Seg) /\ Proper(ps[i])
    PROVE  Labelled(t)
<1>1. TrieNodes(t, ps, n) /\ TrieRoutes(t, ps, n) /\ TrieLabels(t, ps, n)
  BY DEF TrieOf
<1>2. \A m \in DOMAIN t : t[m].route \in Nat
  BY <1>1 DEF TrieRoutes
<1>3. ASSUME NEW x \in DOMAIN t, NEW e \in Seg, e.kind # "lit", Append(x, e) \in DOMAIN t
      PROVE  t[Append(x, e)].label \in STRING
  <2> DEFINE m == Append(x, e)
  <2>0. x \in Seq(Seg)
    <3>1. CASE x = <<>>
      BY <3>1
    <3>2. CASE x # <<>>
      <4>1. PICK i \in 1..n : \E k \in 0..Len(ps[i]) : x = Node(ps[i], k)
        BY <1>1, <3>2 DEF TrieNodes
      <4> QED BY <4>1, NodeFacts
    <3> QED BY <3>1, <3>2
  <2>1. m \in Seq(Seg) /\ Len(m) = Len(x) + 1 /\ m[Len(m)] = e /\ Len(m) # 0 /\ m # <<>>
    <3>1. m \in Seq(Seg) /\ Len(m) = Len(x) + 1
      BY <2>0
    <3>2. Len(x) \in Nat
      BY <2>0, SeqIn, SeqFacts
    <3>3. m[Len(x) + 1] = e
      BY <2>0, SeqIn, AppendSeq
    <3> HIDE DEF m
    <3> QED BY <3>1, <3>2, <3>3, EmptyIsSeq
  <2> HIDE DEF m
  <2>2. PICK i \in 1..n : \E k \in 0..Len(ps[i]) : m = Node(ps[i], k)
    BY <1>1, <1>3, <2>1 DEF TrieNodes, m
  <2> DEFINE p == ps[i]
  <2>3. PICK k \in 0..Len(p) : m = Node(p, k)
    BY <2>2
  <2>4. p \in Seq(Seg) /\ Proper(p)
    OBVIOUS
  <2>5. Len(p) \in Nat /\ \A j \in 1..Len(p) : p[j] \in Seg
    BY <2>4, SeqIn, SeqFacts
  <2> HIDE DEF p
  <2>6. Len(m) = k /\ \A j \in 1..k : m[j] = Edge(p[j])
    BY <2>3, <2>4, NodeFacts
  <2>7. k \in 1..Len(p) /\ k \in 1..k
    BY <2>1, <2>5, <2>6
  <2>8. Edge(p[k]) = e
    BY <2>1, <2>6, <2>7
  <2>9. p[k] \in Seg /\ p[k].kind = e.kind
    BY <2>5, <2>7, <2>8, EdgeFacts
  <2>10. p[k].text # "" /\ p[k].text \in Text
    BY <1>3, <2>4, <2>7, <2>9 DEF Proper, Seg
  <2>11. t[m].label = p[k].text
    BY <1>1, <2>3, <2>7 DEF TrieLabels, p
  <2> QED BY <2>10, <2>11 DEF Text, m
<1>4. ParamEdge \in Seg /\ ParamEdge.kind # "lit" /\ AllEdge \in Seg /\ AllEdge.kind # "lit"
  BY DEF ParamEdge, AllEdge, Seg, Text
<1> QED BY <1>2, <1>3, <1>4 DEF Labelled

-----------------------------------------------------------------------------
(* The invariant: every manifest on disk is what the compiler writes for its *)
(* content, the published state is what was loaded from such manifests, a    *)
(* reply is what that state serves.                                          *)
WrittenFor(s, f, c) ==
    /\ Compiled(c, ClaimsOf(s, f.content)) /\ f.fault \in Faults
    /\ s # Studio => f.content \in Contents[s]
    /\ f.file = Write(c, f.fault)
Built(s, f) == f = Absent \/ \E c : WrittenFor(s, f, c)
AllBuilt(d) == DOMAIN d = 1..Studio /\ \A s \in 1..Studio : Built(s, d[s])
SiteIInv ==
    /\ AllBuilt(files)
    /\ st # Absent => AllBuilt(st.from) /\ st = loadState(st.from)
    /\ reply # Absent => st # Absent /\ reply.req \in Requests /\ reply.out = serve(st, reply.req)

LEMMA SitesKnown == Studio \in Nat /\ Len(SiteHosts) \in Nat /\ Len(SiteHosts) # 0
                    /\ DOMAIN SiteHosts = 1..Len(SiteHosts) /\ Studio = Len(SiteHosts) + 1
                    /\ IsSeq(SiteHosts)
<1>1. IsSeq(SiteHosts) /\ SiteHosts # <<>>
  BY SiteConstants, SeqIn
<1>2. Len(SiteHosts) \in Nat /\ DOMAIN SiteHosts = 1..Len(SiteHosts)
  BY <1>1, SeqFacts
<1>3. Len(SiteHosts) # 0
  BY <1>1, EmptyIsSeq, SeqEq, 1..0 = {}
<1> QED BY <1>1, <1>2, <1>3 DEF Studio

LEMMA InstalledBuilt ==
    ASSUME AllBuilt(files), NEW s \in 1..Studio, NEW content, NEW c, NEW fault \in Faults,
           Compiled(c, ClaimsOf(s, content)), s # Studio => content \in Contents[s],
           Installed(s, content, c, fault)
    PROVE  AllBuilt(files')
<1> DEFINE w == Write(c, fault)
           k == "file"
           f == [kind |-> k, file |-> w, content |-> content, fault |-> fault]
<1>1. files' = [files EXCEPT ![s] = f]
  BY DEF Installed
<1> HIDE DEF w, k
<1>2. f.file = w /\ f.content = content /\ f.fault = fault
  OBVIOUS
<1> HIDE DEF f
<1>3. WrittenFor(s, f, c)
  BY <1>2 DEF WrittenFor, w
<1>4. DOMAIN files' = 1..Studio /\ files'[s] = f /\ \A x \in 1..Studio : x # s => files'[x] = files[x]
  BY <1>1 DEF AllBuilt
<1> QED BY <1>3, <1>4 DEF AllBuilt, Built

LEMMA BuildKeeps ==
    ASSUME AllBuilt(files), NEW s \in DOMAIN SiteHosts, Build(s)
    PROVE  AllBuilt(files')
<1>1. s \in 1..Studio /\ s # Studio
  BY SitesKnown
<1>2. PICK content \in Contents[s], fault \in Faults :
         \E order \in SetToSeqs(content) :
            LET out == Compile(order, Routes)
            IN  IF out.ok THEN Installed(s, content, out.c, fault) ELSE UNCHANGED files
  BY DEF Build
<1>3. PICK order \in SetToSeqs(content) :
            LET out == Compile(order, Routes)
            IN  IF out.ok THEN Installed(s, content, out.c, fault) ELSE UNCHANGED files
  BY <1>2
<1>4. IsFiniteSet(content) /\ \A r \in content : IsResult(r)
  BY SiteConstants
<1>5. IsSeq(order) /\ ToSet(order) = content
  BY <1>4, Orders
<1> DEFINE out == Compile(order, Routes)
<1>6. CASE ~out.ok
  BY <1>3, <1>6
<1>7. CASE out.ok
  <2>1. Compiled(out.c, {r \in ToSet(order) : r.kind # "meta"} \cup {ActionClaim(r) : r \in ToSet(Routes)})
    BY <1>4, <1>5, <1>7, CompileCompiles
  <2>2. Compiled(out.c, ClaimsOf(s, content))
    BY <1>1, <1>5, <2>1 DEF ClaimsOf
  <2>3. Installed(s, content, out.c, fault)
    BY <1>3, <1>7
  <2> HIDE DEF out
  <2> QED BY <1>1, <2>2, <2>3, InstalledBuilt
<1> QED BY <1>6, <1>7

LEMMA StudioKeeps ==
    ASSUME AllBuilt(files), buildStudioManifest
    PROVE  AllBuilt(files')
<1> DEFINE c == AddActionRoutes(AddStaticRoute(NewV2Compiler, <<>>, StudioBody, HTML), StudioRoutes)
<1>1. PICK fault \in Faults : Installed(Studio, {}, c, fault)
  BY DEF buildStudioManifest
<1>2. Compiled(c, ClaimsOf(Studio, {}))
  BY StudioCompiles
<1>3. Studio \in 1..Studio
  BY SitesKnown
<1> HIDE DEF c
<1> QED BY <1>1, <1>2, <1>3, InstalledBuilt

LEMMA StateFrom ==
    ASSUME NEW d, loadState(d) # Absent
    PROVE  loadState(d).from = d
<1> DEFINE loaded == [s \in DOMAIN d |-> IF d[s] = Absent THEN [ok |-> FALSE] ELSE Load(d[s].file)]
           n == IF loaded[Studio].ok THEN Studio ELSE Studio - 1
           a == appState(d, n, remapAll(loaded, n))
<1>1. loadState(d) = IF \A s \in DOMAIN SiteHosts : loaded[s].ok THEN resolve(a) ELSE Absent
  BY DEF loadState, withLoaded
<1> HIDE DEF loaded, n
<1>2. a.from = d
  BY DEF appState
<1> HIDE DEF a
<1> QED BY <1>1, <1>2 DEF resolve

LEMMA SiteStarts == SiteInit => SiteIInv
<1> SUFFICES ASSUME SiteInit PROVE SiteIInv
  OBVIOUS
<1>1. AllBuilt(files)
  BY DEF SiteInit, AllBuilt, Built
<1> QED BY <1>1 DEF SiteInit, SiteIInv

LEMMA SiteSteps == SiteIInv /\ [SiteNext]_siteVars => SiteIInv'
<1> SUFFICES ASSUME SiteIInv, [SiteNext]_siteVars PROVE SiteIInv'
  OBVIOUS
<1>1. ASSUME NEW s \in DOMAIN SiteHosts, Build(s) PROVE SiteIInv'
  <2>1. AllBuilt(files')
    BY <1>1, BuildKeeps DEF SiteIInv
  <2>2. st' = st /\ reply' = reply /\ reply = Absent
    BY <1>1 DEF Build
  <2> QED BY <2>1, <2>2 DEF SiteIInv
<1>2. CASE buildStudioManifest
  <2>1. AllBuilt(files')
    BY <1>2, StudioKeeps DEF SiteIInv
  <2>2. st' = st /\ reply' = reply /\ reply = Absent
    BY <1>2 DEF buildStudioManifest
  <2> QED BY <2>1, <2>2 DEF SiteIInv
<1>3. CASE Reload
  <2>1. st' = loadState(files) /\ st' # Absent /\ files' = files /\ reply' = reply /\ reply = Absent
    BY <1>3 DEF Reload
  <2>2. st'.from = files
    BY <2>1, StateFrom
  <2> QED BY <2>1, <2>2 DEF SiteIInv
<1>4. CASE Serve
  <2>1. st # Absent /\ files' = files /\ st' = st
    BY <1>4 DEF Serve
  <2>2. PICK rq \in Requests : reply' = [kind |-> "reply", req |-> rq, out |-> serve(st, rq)]
    BY <1>4 DEF Serve
  <2> DEFINE o == serve(st, rq)
  <2> HIDE DEF o
  <2>3. reply'.req = rq /\ reply'.out = o
    BY <2>2 DEF o
  <2> QED BY <2>1, <2>3 DEF SiteIInv, o
<1>5. CASE UNCHANGED siteVars
  BY <1>5 DEF siteVars, SiteIInv
<1> QED BY <1>1, <1>2, <1>3, <1>4, <1>5 DEF SiteNext

(* Every manifest on disk is one that BuildContext.build or                 *)
(* buildStudioManifest writes for its content, whatever the disk did to it;  *)
(* the published state is what loadState made of such manifests; and a reply *)
(* is what serve makes of that state.                                        *)
THEOREM SiteHolds == SiteSpec => []SiteIInv
<1>1. SiteInit => SiteIInv
  BY SiteStarts
<1>2. SiteIInv /\ [SiteNext]_siteVars => SiteIInv'
  BY SiteSteps
<1> QED BY <1>1, <1>2, PTL DEF SiteSpec

-----------------------------------------------------------------------------
(* What a written manifest holds of its claims.                              *)
UrlAt(f, i) == PathOf(f.file, f.file.table[i])
TableOf(s, f, c) ==
    /\ IsSeq(f.file.table)
    /\ \A i \in 1..Len(f.file.table) :
          /\ UrlAt(f, i) \in Seq(Seg)
          /\ \E x \in ClaimsOf(s, f.content) : Describes(c, f.file.table[i], x) /\ UrlAt(f, i) = x.url
    /\ \A x \in ClaimsOf(s, f.content) : \E i \in 1..Len(f.file.table) : UrlAt(f, i) = x.url
    /\ \A i, j \in 1..Len(f.file.table) : UrlAt(f, i) = UrlAt(f, j) => i = j

LEMMA HashedUrl ==
    ASSUME NEW u \in DOMAIN Hash
    PROVE  u \in Seq(Seg) /\ Hash[u] \in Nat /\ \A w \in DOMAIN Hash : Hash[u] = Hash[w] => u = w
<1>1. u \in Seq([kind : {"lit", "param", "all"}, text : STRING])
  BY HashInjective
<1>2. IsSeq(u) /\ \A i \in 1..Len(u) : u[i] \in [kind : {"lit", "param", "all"}, text : STRING]
  BY <1>1, SeqIn
<1>3. \A x \in [kind : {"lit", "param", "all"}, text : STRING] : x \in Seg
  BY DEF Seg, Text
<1>4. u \in Seq(Seg)
  BY <1>2, <1>3, InSeq
<1> QED BY <1>4, HashInjective

LEMMA ClaimsAreClaims ==
    ASSUME NEW s \in 1..Studio, NEW content, s # Studio => content \in Contents[s],
           NEW x \in ClaimsOf(s, content)
    PROVE  /\ x.url \in DOMAIN Hash
           /\ \/ x.kind # "action" /\ x.kind # "meta"
              \/ \E r \in ToSet(Routes) \cup ToSet(StudioRoutes) : IsRoute(r) /\ x = ActionClaim(r)
<1>1. CASE s # Studio /\ x \in {r \in content : r.kind # "meta"}
  <2>1. s \in DOMAIN SiteHosts
    BY <1>1, SitesKnown
  <2>2. IsResult(x)
    BY <1>1, <2>1, SiteConstants
  <2> QED BY <1>1, <2>2 DEF IsResult
<1>2. CASE x \in {ActionClaim(r) : r \in ToSet(Routes) \cup ToSet(StudioRoutes)}
  <2>1. PICK r \in ToSet(Routes) \cup ToSet(StudioRoutes) : x = ActionClaim(r)
    BY <1>2
  <2>2. IsRoute(r)
    BY SiteConstants, StudioConstants
  <2>3. x.url = r.url
    BY <2>1 DEF ActionClaim
  <2> QED BY <2>1, <2>2, <2>3 DEF IsRoute
<1>3. CASE x = StudioPage
  BY <1>3, StudioConstants DEF StudioPage
<1>4. s = Studio => x = StudioPage \/ x \in {ActionClaim(r) : r \in ToSet(StudioRoutes)}
  BY DEF ClaimsOf
<1>5. s # Studio => x \in {r \in content : r.kind # "meta"} \/ x \in {ActionClaim(r) : r \in ToSet(Routes)}
  BY DEF ClaimsOf
<1> QED BY <1>1, <1>2, <1>3, <1>4, <1>5

Sections(w, c, fault) ==
    /\ w.table = Sorted(c.nodes) /\ w.paths = c.paths /\ w.holeBlobs = c.holeBlobs
    /\ w.mwBlobs = c.mwBlobs /\ w.mimes = c.mimes
    /\ w.payloads = IF fault = "short" THEN SubSeq(c.payloads, 1, Len(c.payloads) \div 2) ELSE c.payloads
    /\ w.trailer <=> fault # "lost"

LEMMA WrittenSections ==
    ASSUME NEW s, NEW f, NEW c, WrittenFor(s, f, c)
    PROVE  Sections(f.file, c, f.fault)
<1>1. \A fault : Sections(Write(c, fault), c, fault)
  BY DEF Write, Sections
<1> QED BY <1>1 DEF WrittenFor

LEMMA TableHolds ==
    ASSUME NEW s \in 1..Studio, NEW f, NEW c, WrittenFor(s, f, c)
    PROVE  TableOf(s, f, c)
<1> DEFINE X == ClaimsOf(s, f.content)
           table == f.file.table
           nodes == c.nodes
           N == Len(table)
<1>1. Compiled(c, X) /\ \A x \in X : x.url \in DOMAIN Hash
  BY ClaimsAreClaims DEF WrittenFor
<1>2. table = Sorted(nodes) /\ f.file.paths = c.paths
  <2>1. Sections(f.file, c, f.fault)
    BY WrittenSections
  <2> QED BY <2>1 DEF Sections
<1> HIDE DEF X
<1>3. Distinct(nodes) /\ IsSeq(nodes) /\ (\A i \in 1..Len(nodes) : \E x \in X : Describes(c, nodes[i], x))
      /\ \A x \in X : \E i \in 1..Len(nodes) : nodes[i].hash = Hash[x.url]
  BY <1>1 DEF Compiled, Distinct, Hashes
<1> HIDE DEF nodes, table
<1>4. Distinct(table) /\ IsSeq(table) /\ ToSet(table) = ToSet(nodes)
  BY <1>2, <1>3, SortedTable DEF Distinct
<1>5. \A e : (\E i \in 1..Len(nodes) : nodes[i] = e) <=> \E i \in 1..N : table[i] = e
  <2>1. \A e : e \in ToSet(nodes) <=> \E i \in 1..Len(nodes) : nodes[i] = e
    BY <1>3, InToSet
  <2>2. \A e : e \in ToSet(table) <=> \E i \in 1..N : table[i] = e
    BY <1>4, InToSet
  <2> QED BY <1>4, <2>1, <2>2
<1>6. \A i \in 1..N : \E x \in X : Describes(c, table[i], x)
  BY <1>3, <1>5
<1>7. \A x \in X : \E i \in 1..N : table[i].hash = Hash[x.url]
  <2> SUFFICES ASSUME NEW x \in X PROVE \E i \in 1..N : table[i].hash = Hash[x.url]
    OBVIOUS
  <2>1. PICK j \in 1..Len(nodes) : nodes[j].hash = Hash[x.url]
    BY <1>3
  <2>2. PICK i \in 1..N : table[i] = nodes[j]
    BY <1>5
  <2> QED BY <2>1, <2>2
<1>8. ASSUME NEW e, NEW x, Describes(c, e, x) PROVE PathOf(f.file, e) = x.url /\ e.hash = Hash[x.url]
  <2>1. e.hash = Hash[x.url] /\ e.pathLen = Len(x.url) /\ Held(c.paths, e.pathOff, x.url)
    BY <1>8 DEF Describes, HeaderOK
  <2> QED BY <1>2, <2>1 DEF PathOf, Held
<1>9. \A i \in 1..N : UrlAt(f, i) = PathOf(f.file, table[i])
  BY DEF UrlAt, table
<1>10. \A i \in 1..N : \E x \in X : Describes(c, table[i], x) /\ UrlAt(f, i) = x.url /\ table[i].hash = Hash[x.url]
  BY <1>6, <1>8, <1>9
<1>11. \A i \in 1..N : UrlAt(f, i) \in DOMAIN Hash /\ UrlAt(f, i) \in Seq(Seg) /\ table[i].hash = Hash[UrlAt(f, i)]
  BY <1>1, <1>10, HashedUrl
<1>12. ASSUME NEW x \in X PROVE \E i \in 1..N : UrlAt(f, i) = x.url
  <2>1. PICK i \in 1..N : table[i].hash = Hash[x.url]
    BY <1>7
  <2>2. Hash[UrlAt(f, i)] = Hash[x.url] /\ x.url \in DOMAIN Hash
    BY <1>1, <1>11, <2>1
  <2> QED BY <1>11, <2>2, HashedUrl
<1>13. \A i, j \in 1..N : UrlAt(f, i) = UrlAt(f, j) => i = j
  BY <1>4, <1>11 DEF Distinct
<1> QED BY <1>4, <1>10, <1>11, <1>12, <1>13 DEF TableOf, X, table

(* What Load makes of it.                                                    *)
LEMMA LoadIs ==
    ASSUME NEW file
    PROVE  LET m == Load(file)
           IN  /\ m.ok <=> file.trailer /\ LoadTrie(file).ok
               /\ m.trie = LoadTrie(file).nodes
               /\ m.table = file.table /\ m.payloads = file.payloads /\ m.holeBlobs = file.holeBlobs
               /\ m.mwBlobs = file.mwBlobs /\ m.mimes = file.mimes
  BY DEF Load

Urls(f) == [i \in 1..Len(f.file.table) |-> Segments(UrlAt(f, i))]

LEMMA LoadedTrie ==
    ASSUME NEW s \in 1..Studio, NEW f, NEW c, WrittenFor(s, f, c)
    PROVE  LET N == Len(f.file.table)
               m == Load(f.file)
           IN  /\ IsSeq(f.file.table) /\ Patterns(f.file) = Urls(f)
               /\ m.ok <=> f.fault # "lost" /\ Enters(f.file, N)
               /\ m.ok => TrieOf(m.trie, Urls(f), N)
<1> DEFINE N == Len(f.file.table)
           m == Load(f.file)
           file == f.file
<1>1. TableOf(s, f, c)
  BY TableHolds
<1>2. IsSeq(file.table) /\ \A i \in 1..N : PathOf(file, file.table[i]) \in Seq(Seg)
  BY <1>1 DEF TableOf, UrlAt
<1>3. IF Enters(file, N) THEN LoadTrie(file).ok /\ TrieOf(LoadTrie(file).nodes, Patterns(file), N)
      ELSE ~LoadTrie(file).ok
  BY <1>2, LoadsTrie
<1>4. file.trailer <=> f.fault # "lost"
  BY WrittenSections DEF Sections
<1>5. (m.ok <=> file.trailer /\ LoadTrie(file).ok) /\ m.trie = LoadTrie(file).nodes
  BY LoadIs
<1>6. Patterns(file) = Urls(f)
  BY DEF Patterns, Urls, UrlAt
<1> HIDE DEF m, file, N
<1> QED BY <1>2, <1>3, <1>4, <1>5, <1>6 DEF m, file, N

-----------------------------------------------------------------------------
(* Manifests remapped into one registry.                                     *)
LEMMA EntryRemapped ==
    ASSUME NEW all, NEW mimes, NEW e, IsEntry(e)
    PROVE  LET f == remapEntry(all, mimes, e)
           IN  /\ f.action = e.action /\ f.methods = e.methods /\ f.hole = e.hole
               /\ f.mwOff = e.mwOff /\ f.mwCount = e.mwCount
               /\ \A enc \in Encodings : f.variants[enc] = moved(all, mimes, e.variants[enc])
<1> DEFINE v == [enc \in Encodings |-> moved(all, mimes, e.variants[enc])]
           f == [e EXCEPT !.variants = v]
<1>1. remapEntry(all, mimes, e) = f
  BY DEF remapEntry
<1>2. \A enc \in Encodings : v[enc] = moved(all, mimes, e.variants[enc])
  OBVIOUS
<1> HIDE DEF v
<1>3. /\ f.action = e.action /\ f.methods = e.methods /\ f.hole = e.hole
      /\ f.mwOff = e.mwOff /\ f.mwCount = e.mwCount /\ f.variants = v
  BY DEF IsEntry
<1> HIDE DEF f
<1> QED BY <1>1, <1>2, <1>3

LEMMA HeadsAreSeq ==
    ASSUME NEW keys, IsSeq(keys)
    PROVE  /\ IsSeq(MimeHeads(keys)) /\ Len(MimeHeads(keys)) = Len(keys)
           /\ \A i \in 1..Len(keys) : MimeHeads(keys)[i] = MimeHead(keys[i])
<1>1. Len(keys) \in Nat /\ DOMAIN keys = 1..Len(keys)
  BY SeqFacts
<1> DEFINE n == Len(keys)
           h == MimeHeads(keys)
<1>2. h = [i \in 1..n |-> MimeHead(keys[i])]
  BY <1>1 DEF MimeHeads
<1> HIDE DEF n, h
<1>3. DOMAIN h = 1..n /\ h = [i \in 1..n |-> h[i]] /\ \A i \in 1..n : h[i] = MimeHead(keys[i])
  BY <1>2
<1>4. n \in Nat
  BY <1>1 DEF n
<1> QED BY <1>3, <1>4, SeqIs DEF h, n

RemappedTo(m, l, all) ==
    /\ m.trie = l.trie /\ m.payloads = l.payloads /\ m.holeBlobs = l.holeBlobs /\ m.mwBlobs = l.mwBlobs
    /\ m.table = [i \in DOMAIN l.table |-> remapEntry(all, l.mimes, l.table[i])]

LEMMA RemapIs ==
    ASSUME NEW reg, NEW file, IsSeq(reg), IsSeq(file.mimes)
    PROVE  LET l == Load(file)
               all == internAll(reg, MimeHeads(file.mimes))
               o == remap(reg, l)
           IN  /\ o.reg = all /\ RemappedTo(o.m, l, all)
               /\ Begins(reg, all) /\ ToSet(MimeHeads(file.mimes)) \subseteq ToSet(all)
<1> DEFINE l == Load(file)
           all == internAll(reg, MimeHeads(file.mimes))
           o == remap(reg, l)
           t == [i \in DOMAIN l.table |-> remapEntry(all, l.mimes, l.table[i])]
           n == [l EXCEPT !.table = t]
<1>1. l.mimes = file.mimes
  BY LoadIs
<1>2. o = [reg |-> internAll(reg, MimeHeads(l.mimes)),
           m |-> [l EXCEPT !.table = [i \in DOMAIN l.table |->
                                         remapEntry(internAll(reg, MimeHeads(l.mimes)), l.mimes, l.table[i])]]]
  BY DEF remap
<1>3. o = [reg |-> all, m |-> n]
  BY <1>1, <1>2
<1>4. n.trie = l.trie /\ n.payloads = l.payloads /\ n.holeBlobs = l.holeBlobs /\ n.mwBlobs = l.mwBlobs /\ n.table = t
  <2> HIDE DEF t
  <2> QED BY DEF Load
<1> HIDE DEF n
<1>5. o.reg = all /\ o.m = n
  BY <1>3
<1>6. Begins(reg, all) /\ ToSet(MimeHeads(file.mimes)) \subseteq ToSet(all)
  BY HeadsAreSeq, InternedAll
<1> QED BY <1>4, <1>5, <1>6 DEF RemappedTo

RemappedAll(d, r, k) ==
    /\ IsSeq(r[k].reg) /\ IsSeq(r[k].ms) /\ Len(r[k].ms) = k /\ Begins(DefaultRegistry, r[k].reg)
    /\ \A s \in 1..k : \E all : /\ IsSeq(all) /\ Begins(all, r[k].reg)
                                /\ ToSet(MimeHeads(d[s].file.mimes)) \subseteq ToSet(all)
                                /\ RemappedTo(r[k].ms[s], Load(d[s].file), all)

LEMMA RemapsAll ==
    ASSUME NEW loaded, NEW d, NEW n \in Nat, NEW r, RemapRun(loaded, n, r),
           \A s \in 1..n : loaded[s] = Load(d[s].file) /\ IsSeq(d[s].file.mimes)
    PROVE  RemappedAll(d, r, n)
<1> DEFINE G == {k \in Nat : k <= n => RemappedAll(d, r, k)}
<1>1. 0 \in G
  <2>1. r[0] = [reg |-> DefaultRegistry, ms |-> <<>>]
    BY DEF RemapRun
  <2>2. r[0].reg = DefaultRegistry /\ r[0].ms = <<>>
    BY <2>1
  <2>3. IsSeq(DefaultRegistry)
    <3>1. \A x, y, z : IsSeq(<<x, y, z>>)
      <4> TAKE x, y, z
      <4>1. <<x, y, z>> \in Seq({x, y, z})
        OBVIOUS
      <4> QED BY <4>1, SeqIn
    <3> QED BY <3>1 DEF DefaultRegistry
  <2>4. 1..0 = {}
    OBVIOUS
  <2> QED BY <2>2, <2>3, <2>4, EmptyIsSeq, BeginsSame DEF RemappedAll
<1>2. ASSUME NEW k \in Nat, k \in G PROVE k + 1 \in G
  <2> SUFFICES ASSUME k + 1 <= n PROVE RemappedAll(d, r, k + 1)
    OBVIOUS
  <2>1. k + 1 \in 1..n /\ (k + 1) - 1 = k /\ RemappedAll(d, r, k)
    BY <1>2
  <2> DEFINE a == r[k]
             b == r[k + 1]
             file == d[k + 1].file
             l == Load(file)
             o == remap(a.reg, l)
             all == internAll(a.reg, MimeHeads(file.mimes))
  <2>2. b = remapNext(a, loaded, k + 1) /\ loaded[k + 1] = l /\ IsSeq(file.mimes)
    BY <2>1 DEF RemapRun
  <2>3. b = [reg |-> o.reg, ms |-> Append(a.ms, o.m)]
    BY <2>2 DEF remapNext
  <2>4. b.reg = o.reg /\ b.ms = Append(a.ms, o.m)
    BY <2>3
  <2>5. IsSeq(a.reg) /\ IsSeq(a.ms) /\ Len(a.ms) = k /\ Begins(DefaultRegistry, a.reg)
    BY <2>1 DEF RemappedAll
  <2>6. o.reg = all /\ RemappedTo(o.m, l, all) /\ Begins(a.reg, all) /\ ToSet(MimeHeads(file.mimes)) \subseteq ToSet(all)
    BY <2>2, <2>5, RemapIs
  <2> HIDE DEF o, all, l, a, b
  <2>7. IsSeq(all) /\ Begins(all, b.reg) /\ b.reg = all
    BY <2>4, <2>6, BeginsSame DEF Begins
  <2>8. IsSeq(b.ms) /\ Len(b.ms) = k + 1 /\ (\A s \in 1..k : b.ms[s] = a.ms[s]) /\ b.ms[k + 1] = o.m
    BY <2>4, <2>5, AppendSeq
  <2>9. Begins(DefaultRegistry, b.reg)
    BY <2>5, <2>6, <2>7, BeginsTrans
  <2>10. ASSUME NEW s \in 1..(k + 1)
         PROVE  \E x : /\ IsSeq(x) /\ Begins(x, b.reg) /\ ToSet(MimeHeads(d[s].file.mimes)) \subseteq ToSet(x)
                       /\ RemappedTo(b.ms[s], Load(d[s].file), x)
    <3>1. CASE s = k + 1
      BY <2>6, <2>7, <2>8, <3>1 DEF l
    <3>2. CASE s \in 1..k
      <4>1. PICK x : /\ IsSeq(x) /\ Begins(x, a.reg) /\ ToSet(MimeHeads(d[s].file.mimes)) \subseteq ToSet(x)
                     /\ RemappedTo(a.ms[s], Load(d[s].file), x)
        BY <2>1, <3>2 DEF RemappedAll, a
      <4>2. Begins(x, b.reg)
        BY <2>6, <2>7, <4>1, BeginsTrans
      <4> QED BY <2>8, <3>2, <4>1, <4>2
    <3> QED BY <3>1, <3>2
  <2> QED BY <2>7, <2>8, <2>9, <2>10 DEF RemappedAll, b
<1> HIDE DEF G
<1>3. n \in G
  BY <1>1, <1>2, Induction
<1> QED BY <1>3 DEF G

-----------------------------------------------------------------------------
(* The published state.                                                      *)
LEMMA FileHeadsSeq ==
    ASSUME NEW m, IsSeq(m.table)
    PROVE  IsSeq(fileHeads(m)) /\ IsSeq(allowHeads(m))
<1> DEFINE N == Len(m.table)
           mime(i) == m.holeBlobs[m.table[i].hole + 1].mime
           part(i) == IF m.table[i].action # "file" THEN <<>> ELSE <<FileHead(200, mime(i)), FileHead(206, mime(i))>>
           parts == [i \in 1..N |-> part(i)]
           allow(i) == [status |-> 405, allow |-> m.table[i].methods]
           allows == [i \in 1..N |-> allow(i)]
<1>1. N \in Nat /\ DOMAIN m.table = 1..N
  BY SeqFacts
<1>2. fileHeads(m) = FlattenSeq(parts) /\ allowHeads(m) = allows
  BY <1>1 DEF fileHeads, allowHeads
<1>3. \A x, y : IsSeq(<<x, y>>)
  <2> TAKE x, y
  <2>1. <<x, y>> \in Seq({x, y})
    OBVIOUS
  <2> QED BY <2>1, SeqIn
<1>4. \A i \in 1..N : IsSeq(part(i))
  BY <1>3, EmptyIsSeq
<1> HIDE DEF part, allow, N
<1>5. DOMAIN parts = 1..N /\ parts = [i \in 1..N |-> parts[i]] /\ \A i \in 1..N : parts[i] = part(i)
  OBVIOUS
<1>6. DOMAIN allows = 1..N /\ allows = [i \in 1..N |-> allows[i]]
  OBVIOUS
<1> HIDE DEF parts, allows
<1>7. IsSeq(allows)
  BY <1>1, <1>6, SeqIs
<1>8. IsSeq(parts) /\ Len(parts) = N
  BY <1>1, <1>5, SeqIs
<1>9. IsSeq(FlattenSeq(parts))
  BY <1>4, <1>5, <1>8, Flattened
<1> QED BY <1>2, <1>7, <1>9

LEMMA RegistryGrows ==
    ASSUME NEW reg, NEW ms, IsSeq(reg), IsSeq(ms), \A s \in 1..Len(ms) : IsSeq(ms[s].table)
    PROVE  Begins(reg, appRegistry(reg, ms)) /\ ToSet(BaseHeads) \subseteq ToSet(appRegistry(reg, ms))
<1> DEFINE N == Len(ms)
           as == [s \in 1..N |-> allowHeads(ms[s])]
           fs == [s \in 1..N |-> fileHeads(ms[s])]
           a == internAll(reg, BaseHeads)
           b == internAll(a, FlattenSeq(as))
           c == internAll(b, FlattenSeq(fs))
<1>1. N \in Nat /\ DOMAIN ms = 1..N
  BY SeqFacts
<1>2. appRegistry(reg, ms) = c
  BY <1>1 DEF appRegistry
<1>3. \A s \in 1..N : IsSeq(as[s]) /\ IsSeq(fs[s])
  BY FileHeadsSeq
<1> HIDE DEF N
<1>4. DOMAIN as = 1..N /\ as = [i \in 1..N |-> as[i]] /\ DOMAIN fs = 1..N /\ fs = [i \in 1..N |-> fs[i]]
  OBVIOUS
<1> HIDE DEF as, fs
<1>5. IsSeq(as) /\ Len(as) = N /\ IsSeq(fs) /\ Len(fs) = N
  BY <1>1, <1>4, SeqIs
<1>6. IsSeq(FlattenSeq(as)) /\ IsSeq(FlattenSeq(fs))
  BY <1>3, <1>5, Flattened
<1>7. IsSeq(BaseHeads)
  <2> DEFINE keys == << <<"json", "identity">>, <<HTML, "identity">>, <<"text", "identity">>,
                        <<HTML, "gzip">>, <<HTML, "br">> >>
  <2>1. \A v, w, x, y, z : IsSeq(<<v, w, x, y, z>>)
    <3> TAKE v, w, x, y, z
    <3>1. <<v, w, x, y, z>> \in Seq({v, w, x, y, z})
      OBVIOUS
    <3> QED BY <3>1, SeqIn
  <2>2. IsSeq(keys)
    BY <2>1
  <2>3. BaseHeads = MimeHeads(keys)
    BY DEF BaseHeads
  <2> HIDE DEF keys
  <2> QED BY <2>2, <2>3, HeadsAreSeq
<1>8. Begins(reg, a) /\ ToSet(BaseHeads) \subseteq ToSet(a) /\ IsSeq(a)
  BY <1>7, InternedAll DEF Begins
<1> HIDE DEF a
<1>9. Begins(a, b) /\ IsSeq(b)
  BY <1>6, <1>8, InternedAll DEF Begins
<1> HIDE DEF b
<1>10. Begins(b, c)
  BY <1>6, <1>9, InternedAll
<1> HIDE DEF c
<1>11. Begins(a, c) /\ Begins(reg, c)
  BY <1>8, <1>9, <1>10, BeginsTrans
<1> QED BY <1>2, <1>8, <1>11, BeginsToSet

Whole(d, s) == d[s] # Absent /\ Load(d[s].file).ok
Sites(d) == IF Whole(d, Studio) THEN Studio ELSE Studio - 1
SiteOf(d, state, s) ==
    /\ state.chains[s] = mwChain(state.ms[s])
    /\ \E all : /\ IsSeq(all) /\ Begins(all, state.reg)
                /\ ToSet(MimeHeads(d[s].file.mimes)) \subseteq ToSet(all)
                /\ RemappedTo(state.ms[s], Load(d[s].file), all)
StateOf(d, state) ==
    /\ \A s \in 1..Sites(d) : Whole(d, s) /\ SiteOf(d, state, s)
    /\ Begins(DefaultRegistry, state.reg) /\ ToSet(BaseHeads) \subseteq ToSet(state.reg)
    /\ state.main = mainSite(SiteHosts) /\ state.hosts = sitesByHost(Sites(d))

LEMMA StateHolds ==
    ASSUME NEW d, AllBuilt(d), loadState(d) # Absent
    PROVE  StateOf(d, loadState(d))
<1> DEFINE loaded == [s \in DOMAIN d |-> IF d[s] = Absent THEN [ok |-> FALSE] ELSE Load(d[s].file)]
           n == IF loaded[Studio].ok THEN Studio ELSE Studio - 1
           maps == remapAll(loaded, n)
           a == appState(d, n, maps)
           state == loadState(d)
<1>1. DOMAIN d = 1..Studio /\ Studio \in Nat /\ Studio # 0 /\ Studio \in 1..Studio /\ DOMAIN SiteHosts = 1..(Studio - 1)
  BY SitesKnown DEF AllBuilt
<1>2. \A s \in 1..Studio : loaded[s].ok <=> Whole(d, s)
  <2>1. [ok |-> FALSE].ok = FALSE
    OBVIOUS
  <2> QED BY <1>1, <2>1 DEF Whole
<1>3. state = IF \A s \in DOMAIN SiteHosts : loaded[s].ok THEN resolve(a) ELSE Absent
  BY DEF loadState, withLoaded
<1>4. (\A s \in DOMAIN SiteHosts : loaded[s].ok) /\ state = a
  BY <1>3 DEF resolve
<1>5. n = Sites(d)
  BY <1>1, <1>2 DEF Sites
<1>6. n \in Nat /\ \A s \in 1..n : s \in 1..Studio /\ (s = Studio => Whole(d, Studio)) /\ (s # Studio => s \in 1..(Studio - 1))
  <2>1. Sites(d) \in Nat /\ \A s \in 1..Sites(d) : s \in 1..Studio /\ (s = Studio => Whole(d, Studio)) /\ (s # Studio => s \in 1..(Studio - 1))
    BY <1>1 DEF Sites
  <2> HIDE DEF n
  <2> QED BY <1>5, <2>1
<1>7. \A s \in 1..n : Whole(d, s)
  <2> HIDE DEF n, loaded
  <2> QED BY <1>1, <1>2, <1>4, <1>6
<1>8. \A s \in 1..n : loaded[s] = Load(d[s].file)
  <2> HIDE DEF n
  <2> QED BY <1>1, <1>6, <1>7 DEF Whole
<1>9. \A s \in 1..n : IsSeq(d[s].file.mimes) /\ IsSeq(d[s].file.table)
  <2> HIDE DEF n
  <2> SUFFICES ASSUME NEW s \in 1..n PROVE IsSeq(d[s].file.mimes) /\ IsSeq(d[s].file.table)
    OBVIOUS
  <2>1. s \in 1..Studio
    BY <1>6
  <2>2. PICK c : WrittenFor(s, d[s], c)
    BY <1>7, <2>1 DEF AllBuilt, Built, Whole
  <2>3. Sections(d[s].file, c, d[s].fault)
    BY <2>2, WrittenSections
  <2>4. TableOf(s, d[s], c)
    BY <2>1, <2>2, TableHolds
  <2> QED BY <2>2, <2>3, <2>4 DEF WrittenFor, Compiled, IsCompiler, Sections, TableOf
<1> HIDE DEF n, loaded
<1>10. PICK r : RemapRun(loaded, n, r) /\ maps = r[n]
  BY <1>6, RemapRuns
<1>11. RemappedAll(d, r, n)
  BY <1>6, <1>8, <1>9, <1>10, RemapsAll
<1> HIDE DEF maps
<1>12. /\ a.ms = maps.ms /\ a.reg = appRegistry(maps.reg, maps.ms)
       /\ a.main = mainSite(SiteHosts) /\ a.hosts = sitesByHost(n)
       /\ a.chains = [s \in 1..n |-> mwChain(maps.ms[s])]
  BY DEF appState
<1> HIDE DEF a
<1>13. IsSeq(maps.reg) /\ IsSeq(maps.ms) /\ Len(maps.ms) = n /\ Begins(DefaultRegistry, maps.reg)
  BY <1>10, <1>11 DEF RemappedAll
<1>14. ASSUME NEW s \in 1..n
       PROVE  \E all : /\ IsSeq(all) /\ Begins(all, maps.reg)
                       /\ ToSet(MimeHeads(d[s].file.mimes)) \subseteq ToSet(all)
                       /\ RemappedTo(maps.ms[s], Load(d[s].file), all)
  BY <1>10, <1>11 DEF RemappedAll
<1>15. ASSUME NEW s \in 1..n PROVE IsSeq(maps.ms[s].table)
  <2> DEFINE t == maps.ms[s].table
             l == d[s].file.table
             k == Len(l)
  <2>1. PICK all : RemappedTo(maps.ms[s], Load(d[s].file), all)
    BY <1>14
  <2>2. Load(d[s].file).table = l /\ IsSeq(l)
    BY <1>9, LoadIs
  <2>3. k \in Nat /\ DOMAIN l = 1..k
    BY <2>2, SeqFacts
  <2>4. t = [i \in 1..k |-> remapEntry(all, Load(d[s].file).mimes, l[i])]
    BY <2>1, <2>2, <2>3 DEF RemappedTo
  <2> HIDE DEF t, k, l
  <2>5. DOMAIN t = 1..k /\ t = [i \in 1..k |-> t[i]]
    BY <2>4
  <2>6. IsSeq(t)
    BY <2>3, <2>5, SeqIs
  <2> QED BY <2>6 DEF t
<1> DEFINE reg == appRegistry(maps.reg, maps.ms)
<1>16. Begins(maps.reg, reg) /\ ToSet(BaseHeads) \subseteq ToSet(reg)
  BY <1>13, <1>15, RegistryGrows
<1> HIDE DEF reg, state
<1>17. Begins(DefaultRegistry, reg)
  BY <1>13, <1>16, BeginsTrans
<1>18. ASSUME NEW s \in 1..n PROVE SiteOf(d, state, s)
  <2>1. PICK all : /\ IsSeq(all) /\ Begins(all, maps.reg)
                   /\ ToSet(MimeHeads(d[s].file.mimes)) \subseteq ToSet(all)
                   /\ RemappedTo(maps.ms[s], Load(d[s].file), all)
    BY <1>14
  <2>2. Begins(all, reg)
    BY <1>16, <2>1, BeginsTrans
  <2> QED BY <1>4, <1>12, <2>1, <2>2 DEF SiteOf, reg
<1>19. StateOf(d, state)
  BY <1>4, <1>5, <1>7, <1>12, <1>16, <1>17, <1>18 DEF StateOf, reg
<1> QED BY <1>19 DEF state

-----------------------------------------------------------------------------
(* The site a host is served from.                                           *)
Named(h) == {s \in DOMAIN SiteHosts : h \in SiteHosts[s]}

LEMMA MaxIs ==
    ASSUME NEW n \in Nat, NEW U \in SUBSET (1..n), NEW x \in U, \A y \in U : x >= y
    PROVE  Max(U) = x
<1> DEFINE m == Max(U)
<1>1. m \in U /\ \A y \in U : m >= y
  BY MaxIn
<1> HIDE DEF m
<1>2. m >= x /\ x >= m /\ x \in Nat /\ m \in Nat
  BY <1>1
<1> QED BY <1>2 DEF m

LEMMA MainIs == mainSite(SiteHosts) = Max(Named("*") \cup {1}) /\ mainSite(SiteHosts) \in DOMAIN SiteHosts
<1> DEFINE hosts == SiteHosts
           N == Len(hosts)
           star == "*"
           U(n) == {s \in 1..n : star \in hosts[s]} \cup {1}
<1>1. hosts \in Seq(ToSet(hosts)) /\ N \in Nat /\ N # 0 /\ DOMAIN hosts = 1..N
  BY SitesKnown DEF IsSeq
<1>2. PICK r : MainRun(hosts, r) /\ mainSite(hosts) = r[N]
  BY <1>1, MainRuns
<1> HIDE DEF hosts, N
<1> DEFINE G == {n \in Nat : n <= N /\ n # 0 => r[n] \in U(n) /\ \A y \in U(n) : r[n] >= y}
<1>3. 0 \in G
  OBVIOUS
<1>4. ASSUME NEW n \in Nat, n \in G PROVE n + 1 \in G
  <2> SUFFICES ASSUME n + 1 <= N PROVE r[n + 1] \in U(n + 1) /\ \A y \in U(n + 1) : r[n + 1] >= y
    OBVIOUS
  <2>1. r[n + 1] = nextMain(r[n], hosts, n + 1) /\ r[0] = 0
    <3>1. n + 1 \in 1..N /\ (n + 1) - 1 = n
      BY <1>1
    <3>2. MainRun(hosts, r) /\ N = Len(hosts)
      BY <1>2 DEF N, hosts
    <3> QED BY <3>1, <3>2 DEF MainRun
  <2>2. CASE n = 0
    <3>1. r[n + 1] = 1
      BY <2>1, <2>2 DEF nextMain
    <3>2. U(n + 1) = {1}
      BY <2>2
    <3> QED BY <3>1, <3>2
  <2>3. CASE n # 0
    <3>1. r[n] \in U(n) /\ \A y \in U(n) : r[n] >= y
      BY <1>1, <1>4, <2>3
    <3>2. r[n] \in 1..n
      BY <2>3, <3>1
    <3>3. CASE star \in hosts[n + 1]
      <4>1. r[n + 1] = n + 1
        BY <2>1, <3>3 DEF nextMain
      <4> QED BY <3>3, <4>1
    <3>4. CASE star \notin hosts[n + 1]
      <4>1. r[n + 1] = r[n]
        BY <2>1, <3>2, <3>4 DEF nextMain
      <4>2. U(n + 1) = U(n)
        BY <3>4
      <4> QED BY <3>1, <4>1, <4>2
    <3> QED BY <3>3, <3>4
  <2> QED BY <2>2, <2>3
<1> HIDE DEF G
<1>5. N \in G
  BY <1>1, <1>3, <1>4, Induction
<1>6. r[N] \in U(N) /\ \A y \in U(N) : r[N] >= y
  BY <1>1, <1>5 DEF G
<1>7. U(N) \in SUBSET (1..N)
  BY <1>1
<1>8. Max(U(N)) = r[N]
  BY <1>1, <1>6, <1>7, MaxIs
<1>9. U(N) = Named("*") \cup {1}
  BY <1>1 DEF Named, hosts
<1> QED BY <1>1, <1>2, <1>6, <1>7, <1>8, <1>9 DEF hosts

(* The site of a host, where site n is the last that is loaded.              *)
SiteOfHost(host, n) ==
    IF host = StudioHost /\ n = Studio THEN Studio
    ELSE IF Named(host) # {} THEN Max(Named(host)) ELSE Max(Named("*") \cup {1})
HostSite(state, host) == IF host \in DOMAIN state.hosts THEN state.hosts[host] ELSE state.main

LEMMA NamedIn ==
    ASSUME NEW h
    PROVE  Named(h) # {} => Max(Named(h)) \in Named(h) /\ \A y \in Named(h) : Max(Named(h)) >= y
<1>1. Named(h) \in SUBSET (1..Len(SiteHosts)) /\ Len(SiteHosts) \in Nat
  BY SitesKnown DEF Named
<1> QED BY <1>1, MaxIn

LEMMA HostIs ==
    ASSUME NEW state, NEW n \in {Studio, Studio - 1}, NEW host,
           state.main = mainSite(SiteHosts), state.hosts = sitesByHost(n)
    PROVE  HostSite(state, host) = SiteOfHost(host, n) /\ HostSite(state, host) \in 1..n
<1> DEFINE star == "*"
           named == (UNION {SiteHosts[s] : s \in DOMAIN SiteHosts}) \ {star}
           D == named \cup (IF n = Studio THEN {StudioHost} ELSE {})
           at(h) == IF h = StudioHost /\ n = Studio THEN Studio ELSE Max(Named(h))
<1>1. state.hosts = [h \in D |-> at(h)]
  BY DEF sitesByHost, Named
<1>2. DOMAIN SiteHosts = 1..(Studio - 1) /\ Studio \in Nat /\ Studio # 0 /\ Studio \in 1..Studio
      /\ Len(SiteHosts) = Studio - 1 /\ Len(SiteHosts) \in Nat
  <2> DEFINE k == Len(SiteHosts)
  <2>1. k \in Nat /\ DOMAIN SiteHosts = 1..k /\ Studio = k + 1
    BY SitesKnown
  <2> HIDE DEF k
  <2>2. k = Studio - 1 /\ Studio \in Nat /\ Studio # 0 /\ Studio \in 1..Studio
    BY <2>1
  <2> QED BY <2>1, <2>2 DEF k
<1>3. host \in named <=> host # star /\ Named(host) # {}
  BY DEF Named
<1>4. (Studio - 1) \in 1..(Studio - 1)
  <2> DEFINE k == Len(SiteHosts)
  <2>1. k \in Nat /\ k # 0 /\ Studio - 1 = k
    BY <1>2, SitesKnown
  <2> HIDE DEF k
  <2>2. k \in 1..k
    BY <2>1
  <2> QED BY <2>1, <2>2
<1>5. 1..(Studio - 1) \subseteq 1..n /\ (n = Studio => Studio \in 1..n)
  BY <1>2
<1>6. StudioHost # star
  BY DEF StudioHost
<1> HIDE DEF star, named
<1>7. CASE host \in D
  <2>1. HostSite(state, host) = at(host)
    BY <1>1, <1>7 DEF HostSite
  <2>2. CASE host = StudioHost /\ n = Studio
    BY <1>5, <2>1, <2>2 DEF SiteOfHost
  <2>3. CASE ~(host = StudioHost /\ n = Studio)
    <3>1. host \in named
      BY <1>7, <2>3
    <3>2. Named(host) # {}
      BY <1>3, <3>1
    <3>3. Max(Named(host)) \in 1..(Studio - 1)
      BY <1>2, <3>2, NamedIn DEF Named
    <3> QED BY <1>5, <2>1, <2>3, <3>2, <3>3 DEF SiteOfHost
  <2> QED BY <2>2, <2>3
<1>8. CASE host \notin D
  <2>1. HostSite(state, host) = mainSite(SiteHosts)
    BY <1>1, <1>8 DEF HostSite
  <2>2. HostSite(state, host) = Max(Named("*") \cup {1}) /\ HostSite(state, host) \in DOMAIN SiteHosts
    BY <2>1, MainIs
  <2>3. ~(host = StudioHost /\ n = Studio)
    BY <1>8
  <2>4. CASE Named(host) = {}
    BY <1>2, <1>5, <2>2, <2>3, <2>4 DEF SiteOfHost
  <2>5. CASE Named(host) # {}
    <3>1. host = "*"
      BY <1>3, <1>8, <2>5 DEF star
    <3> DEFINE M == Named(host)
               x == Max(M)
    <3>2. x \in M /\ \A y \in M : x >= y
      BY <2>5, NamedIn
    <3>3. M \in SUBSET (1..(Studio - 1))
      BY <1>2 DEF Named
    <3> HIDE DEF M, x
    <3>4. M \cup {1} \in SUBSET (1..(Studio - 1)) /\ x \in M \cup {1} /\ \A y \in M \cup {1} : x >= y
      BY <1>2, <1>4, <3>2, <3>3
    <3>5. Max(M \cup {1}) = x
      BY <1>2, <3>4, MaxIs
    <3> QED BY <1>2, <1>5, <2>2, <2>3, <2>5, <3>1, <3>5 DEF SiteOfHost, M, x
  <2> QED BY <2>4, <2>5
<1> QED BY <1>7, <1>8

-----------------------------------------------------------------------------
(* A site as it is served: its manifest, written for its claims, is in the   *)
(* trie and remapped into a beginning of the registry.                       *)
Serving(d, state, s, c, all) ==
    /\ s \in 1..Studio /\ WrittenFor(s, d[s], c) /\ TableOf(s, d[s], c) /\ d[s].fault # "lost"
    /\ IsSeq(all) /\ Begins(all, state.reg) /\ ToSet(MimeHeads(d[s].file.mimes)) \subseteq ToSet(all)
    /\ RemappedTo(state.ms[s], Load(d[s].file), all)
    /\ TrieOf(state.ms[s].trie, Urls(d[s]), Len(d[s].file.table))
    /\ Labelled(state.ms[s].trie)
    /\ \A i \in 1..Len(d[s].file.table) : Urls(d[s])[i] \in Seq(Seg) /\ Proper(Urls(d[s])[i])
    /\ state.chains[s] = mwChain(state.ms[s])

LEMMA SiteServing ==
    ASSUME NEW d, AllBuilt(d), NEW state, StateOf(d, state), NEW s \in 1..Sites(d)
    PROVE  \E c, all : Serving(d, state, s, c, all)
<1> DEFINE f == d[s]
           N == Len(f.file.table)
           m == Load(f.file)
<1>1. s \in 1..Studio /\ Whole(d, s) /\ SiteOf(d, state, s)
  BY SitesKnown DEF StateOf, Sites
<1>2. PICK c : WrittenFor(s, f, c)
  BY <1>1 DEF AllBuilt, Built, Whole
<1>3. TableOf(s, f, c)
  BY <1>1, <1>2, TableHolds
<1>4. m.ok
  BY <1>1 DEF Whole
<1>5. IsSeq(f.file.table) /\ Patterns(f.file) = Urls(f) /\ f.fault # "lost" /\ Enters(f.file, N) /\ TrieOf(m.trie, Urls(f), N)
  BY <1>1, <1>2, <1>4, LoadedTrie
<1>6. PICK all : /\ IsSeq(all) /\ Begins(all, state.reg)
                 /\ ToSet(MimeHeads(f.file.mimes)) \subseteq ToSet(all)
                 /\ RemappedTo(state.ms[s], m, all)
  BY <1>1 DEF SiteOf
<1>7. state.ms[s].trie = m.trie
  BY <1>6 DEF RemappedTo
<1>8. N \in Nat
  BY <1>5, SeqFacts
<1>9. ASSUME NEW i \in 1..N PROVE Urls(f)[i] \in Seq(Seg) /\ Proper(Urls(f)[i])
  <2>1. UrlAt(f, i) \in Seq(Seg) /\ Urls(f)[i] = Segments(UrlAt(f, i))
    BY <1>3 DEF TableOf, Urls
  <2>2. Routable(UrlAt(f, i))
    BY <1>5 DEF Enters, UrlAt
  <2> QED BY <2>1, <2>2, RoutableProper, SegmentsFacts
<1> HIDE DEF m, N, f
<1>10. Labelled(m.trie)
  BY <1>5, <1>8, <1>9, TrieLabelled
<1>11. state.chains[s] = mwChain(state.ms[s])
  BY <1>1 DEF SiteOf
<1>12. Serving(d, state, s, c, all)
  BY <1>1, <1>2, <1>3, <1>5, <1>6, <1>7, <1>9, <1>10, <1>11 DEF Serving, m, N, f
<1> QED BY <1>12

EntryFor(d, state, s, c, all, i, x) ==
    /\ x \in ClaimsOf(s, d[s].content)
    /\ Describes(c, d[s].file.table[i], x) /\ UrlAt(d[s], i) = x.url
    /\ state.ms[s].table[i].action = ActionOf(x)
    /\ state.ms[s].table[i].methods = MethodsOf(x)
    /\ state.ms[s].table[i].hole = d[s].file.table[i].hole
    /\ state.chains[s][i] = MwOf(x)
    /\ \A enc \in Encodings : state.ms[s].table[i].variants[enc] =
          moved(all, d[s].file.mimes, d[s].file.table[i].variants[enc])

LEMMA ChainIs ==
    ASSUME NEW c, NEW e, NEW x, MwOK(c, e, x), IsSeq(c.mwBlobs), NEW m, m.mwBlobs = c.mwBlobs,
           NEW o, o.mwOff = e.mwOff, o.mwCount = e.mwCount
    PROVE  (IF o.mwCount = 0 THEN <<>> ELSE MiddlewareNamesAt(m, o.mwOff, o.mwCount)) = MwOf(x)
<1> DEFINE off == o.mwOff
           n == o.mwCount
           w == MwOf(x)
           b == c.mwBlobs
<1>1. off \in Nat /\ IsSeq(w) /\ n = Len(w) /\ off + n <= Len(b) /\ SubSeq(b, off + 1, off + n) = w
      /\ n \in Nat /\ Len(b) \in Nat
  BY SeqFacts DEF MwOK, Held
<1> HIDE DEF w, off, b, n
<1>2. CASE n = 0
  <2>1. w = <<>>
    BY <1>1, <1>2, EmptyIsSeq, SeqEq, 1..0 = {}
  <2> QED BY <1>2, <2>1 DEF n, w
<1>3. CASE n # 0
  <2>1. ~(off + n > Len(b))
    BY <1>1
  <2>2. MiddlewareNamesAt(m, off, n) = IF off + n > Len(b) THEN <<>> ELSE SubSeq(b, off + 1, off + n)
    BY DEF MiddlewareNamesAt, b
  <2> QED BY <1>1, <1>3, <2>1, <2>2 DEF n, off, w
<1> QED BY <1>2, <1>3

LEMMA EntryServing ==
    ASSUME NEW d, NEW state, NEW s, NEW c, NEW all, Serving(d, state, s, c, all),
           NEW i \in 1..Len(d[s].file.table)
    PROVE  \E x : EntryFor(d, state, s, c, all, i, x)
<1> DEFINE f == d[s]
           file == f.file
           m == state.ms[s]
           e == file.table[i]
           o == m.table[i]
           N == Len(file.table)
           l == Load(file)
<1>1. TableOf(s, f, c) /\ WrittenFor(s, f, c) /\ RemappedTo(m, l, all) /\ state.chains[s] = mwChain(m)
  BY DEF Serving
<1>2. PICK x \in ClaimsOf(s, f.content) : Describes(c, e, x) /\ UrlAt(f, i) = x.url
  BY <1>1 DEF TableOf
<1>3. IsSeq(file.table) /\ DOMAIN file.table = 1..N
  BY <1>1, SeqFacts DEF TableOf
<1>4. l.table = file.table /\ l.mimes = file.mimes /\ l.mwBlobs = file.mwBlobs
  BY LoadIs
<1>5. m.table = [j \in 1..N |-> remapEntry(all, file.mimes, file.table[j])] /\ m.mwBlobs = file.mwBlobs
  BY <1>1, <1>3, <1>4 DEF RemappedTo
<1>6. o = remapEntry(all, file.mimes, e) /\ DOMAIN m.table = 1..N
  BY <1>5
<1>7. IsEntry(e)
  BY <1>2 DEF Describes, HeaderOK
<1> HIDE DEF e, m, l, N
<1>8. /\ o.action = e.action /\ o.methods = e.methods /\ o.hole = e.hole
      /\ o.mwOff = e.mwOff /\ o.mwCount = e.mwCount
      /\ \A enc \in Encodings : o.variants[enc] = moved(all, file.mimes, e.variants[enc])
  BY <1>6, <1>7, EntryRemapped
<1>9. e.action = ActionOf(x) /\ e.methods = MethodsOf(x) /\ MwOK(c, e, x)
  BY <1>2 DEF Describes, HeaderOK
<1>10. file.mwBlobs = c.mwBlobs /\ IsSeq(c.mwBlobs)
  <2>1. Sections(file, c, f.fault)
    BY <1>1, WrittenSections
  <2> QED BY <1>1, <2>1 DEF Sections, WrittenFor, Compiled, IsCompiler
<1>11. mwChain(m)[i] = IF o.mwCount = 0 THEN <<>> ELSE MiddlewareNamesAt(m, o.mwOff, o.mwCount)
  BY <1>6 DEF mwChain, N
<1> HIDE DEF o
<1>12. state.chains[s][i] = MwOf(x)
  BY <1>1, <1>5, <1>8, <1>9, <1>10, <1>11, ChainIs
<1>13. EntryFor(d, state, s, c, all, i, x)
  BY <1>2, <1>8, <1>9, <1>12 DEF EntryFor, o, m, e
<1> QED BY <1>13

-----------------------------------------------------------------------------
(* serve, branch by branch.                                                  *)
IsReply(o, kind, head, body, ran, params) ==
    o.kind = kind /\ o.head = head /\ o.body = body /\ o.ran = ran /\ o.params = params
Passed(rq, e, chain, hit) == Found(hit) /\ rq.method \in e.methods /\ ToSet(chain) \cap rq.deny = {}
Picked(e, accept) == IF e.hole # 0 THEN e.variants["identity"] ELSE pickVariant(e, accept)
RenderedPage(state, m, e, accept) ==
    composeHoleBodyCached(state, m, m.holeBlobs[e.hole + 1], Picked(e, accept), accept)
Refuses(state, rq, e, chain, hit, o) ==
    /\ ~Found(hit) => o = Status(state, "notFound", HeadID404)
    /\ Found(hit) /\ rq.method \notin e.methods =>
          o = Reply("notAllowed", [status |-> 405, allow |-> e.methods], <<>>, <<>>, <<>>)
    /\ Found(hit) /\ rq.method \in e.methods /\ ToSet(chain) \cap rq.deny # {} =>
          o = Reply("refused", NoHead, <<>>, RunChain(chain, rq.deny), <<>>)
Replies(state, rq, m, e, chain, hit, o) ==
    Passed(rq, e, chain, hit) =>
        LET ran == RunChain(chain, rq.deny)
            v == Picked(e, rq.accept)
            page == RenderedPage(state, m, e, rq.accept)
        IN  /\ e.action = "file" =>
                  o = Reply("file", NoHead, <<m.holeBlobs[e.hole + 1].src>>, ran, hit.params)
            /\ e.action = "static" /\ v.off + v.len > Len(Mapped(m)) => o = Status(state, "panic", HeadID500)
            /\ e.action = "static" /\ ~(v.off + v.len > Len(Mapped(m))) /\ e.hole # 0 =>
                  o = Reply("hole", page.head, page.body, ran, hit.params)
            /\ e.action = "static" /\ ~(v.off + v.len > Len(Mapped(m))) /\ e.hole = 0 =>
                  o = Reply("body", HeadAt(state.reg, v.head), Slice(m, v), ran, hit.params)
            /\ e.action \in Handlers => o = Reply("action", NoHead, <<e.action>>, ran, hit.params)
            /\ e.action \notin Handlers \cup {"static", "file"} => o = Status(state, "error", HeadID500)

LEMMA ServeIs ==
    ASSUME NEW state, NEW rq
    PROVE  LET s == HostSite(state, rq.host)
               m == state.ms[s]
               hit == Match(m.trie, rq.path)
               e == m.table[hit.route]
               chain == state.chains[s][hit.route]
               o == serve(state, rq)
           IN  Refuses(state, rq, e, chain, hit, o) /\ Replies(state, rq, m, e, chain, hit, o)
<1> DEFINE s == HostSite(state, rq.host)
           m == state.ms[s]
           hit == Match(m.trie, rq.path)
           e == m.table[hit.route]
           chain == state.chains[s][hit.route]
           o == serve(state, rq)
           ran == RunChain(chain, rq.deny)
           blob == m.holeBlobs[e.hole + 1]
           v == Picked(e, rq.accept)
           page == RenderedPage(state, m, e, rq.accept)
           fits == ~(v.off + v.len > Len(Mapped(m)))
           a == Status(state, "notFound", HeadID404)
           b == Reply("notAllowed", [status |-> 405, allow |-> e.methods], <<>>, <<>>, <<>>)
           r == Reply("refused", NoHead, <<>>, ran, <<>>)
           f == Reply("file", NoHead, <<blob.src>>, ran, hit.params)
           p == Status(state, "panic", HeadID500)
           h == Reply("hole", page.head, page.body, ran, hit.params)
           y == Reply("body", HeadAt(state.reg, v.head), Slice(m, v), ran, hit.params)
           x == Reply("action", NoHead, <<e.action>>, ran, hit.params)
           z == Status(state, "error", HeadID500)
<1>1. o = IF ~Found(hit) THEN a
          ELSE IF rq.method \notin e.methods THEN b
          ELSE IF ToSet(chain) \cap rq.deny # {} THEN r
          ELSE CASE e.action = "file" -> f
                 [] e.action = "static" -> IF ~fits THEN p ELSE IF e.hole # 0 THEN h ELSE y
                 [] e.action \in Handlers -> x
                 [] OTHER -> z
  BY DEF serve, HostSite, Picked, RenderedPage
<1> DEFINE act == e.action
           found == Found(hit)
           hole == e.hole
           fine == fits
           allowed == rq.method \in e.methods
           clash == ToSet(chain) \cap rq.deny
<1>2. "static" \notin Handlers /\ "file" \notin Handlers
  BY SiteConstants
<1>3. (Refuses(state, rq, e, chain, hit, o) <=>
          /\ ~found => o = a
          /\ found /\ ~allowed => o = b
          /\ found /\ allowed /\ clash # {} => o = r)
  BY DEF Refuses
<1>4. (Replies(state, rq, m, e, chain, hit, o) <=>
          (found /\ allowed /\ clash = {} =>
             /\ act = "file" => o = f
             /\ act = "static" /\ ~fine => o = p
             /\ act = "static" /\ fine /\ hole # 0 => o = h
             /\ act = "static" /\ fine /\ hole = 0 => o = y
             /\ act \in Handlers => o = x
             /\ act \notin Handlers \cup {"static", "file"} => o = z))
  BY DEF Replies, Passed
<1>5. o = IF ~found THEN a ELSE IF ~allowed THEN b ELSE IF clash # {} THEN r
          ELSE CASE act = "file" -> f
                 [] act = "static" -> IF ~fine THEN p ELSE IF hole # 0 THEN h ELSE y
                 [] act \in Handlers -> x
                 [] OTHER -> z
  BY <1>1
<1> HIDE DEF a, b, r, f, p, h, y, x, z, o, act, found, hole, fine, allowed, clash
<1>6. /\ ~found => o = a
      /\ found /\ ~allowed => o = b
      /\ found /\ allowed /\ clash # {} => o = r
  BY <1>5
<1>7. ASSUME found, allowed, clash = {}
      PROVE  /\ act = "file" => o = f
             /\ act = "static" /\ ~fine => o = p
             /\ act = "static" /\ fine /\ hole # 0 => o = h
             /\ act = "static" /\ fine /\ hole = 0 => o = y
             /\ act \in Handlers => o = x
             /\ act \notin Handlers \cup {"static", "file"} => o = z
  BY <1>2, <1>5, <1>7
<1>8. Refuses(state, rq, e, chain, hit, o)
  BY <1>3, <1>6
<1>9. Replies(state, rq, m, e, chain, hit, o)
  BY <1>4, <1>7
<1> QED BY <1>8, <1>9 DEF o

LEMMA ReplyFields ==
    ASSUME NEW kind, NEW head, NEW body, NEW ran, NEW params
    PROVE  IsReply(Reply(kind, head, body, ran, params), kind, head, body, ran, params)
  BY DEF IsReply, Reply
LEMMA StatusFields ==
    ASSUME NEW state, NEW kind, NEW id
    PROVE  IsReply(Status(state, kind, id), kind, HeadAt(state.reg, id), <<>>, <<>>, <<>>)
  BY ReplyFields DEF Status

LEMMA HitIs ==
    ASSUME NEW d, NEW state, NEW s, NEW c, NEW all, Serving(d, state, s, c, all),
           NEW pieces \in Seq(STRING)
    PROVE  LET t == state.ms[s].trie
               hit == Match(t, pieces)
           IN  Sound(t, hit, <<>>) /\ (Found(hit) => hit.route \in 1..Len(d[s].file.table))
<1> DEFINE t == state.ms[s].trie
           hit == Match(t, pieces)
           N == Len(d[s].file.table)
<1>1. TrieOf(t, Urls(d[s]), N) /\ Labelled(t) /\ TableOf(s, d[s], c)
  BY DEF Serving
<1>2. N \in Nat
  BY <1>1, SeqFacts DEF TableOf
<1>3. IsTree(t) /\ TrieRoutes(t, Urls(d[s]), N)
  BY <1>1 DEF TrieOf
<1>4. Sound(t, hit, <<>>)
  BY <1>1, <1>3, MatchSound
<1> HIDE DEF hit, t, N
<1>5. ASSUME Found(hit) PROVE hit.route \in 1..N
  <2>1. hit.route # 0
    BY <1>5 DEF Found
  <2>2. PICK m \in DOMAIN t : hit.route = t[m].route
    BY <1>4, <2>1 DEF Sound
  <2>3. hit.route \in 0..N
    BY <1>3, <2>2 DEF TrieRoutes
  <2> QED BY <1>2, <2>1, <2>3
<1> QED BY <1>4, <1>5 DEF hit, t, N

LEMMA ChainRuns ==
    ASSUME NEW chain, NEW deny, ToSet(chain) \cap deny = {}
    PROVE  RunChain(chain, deny) = chain
<1>1. \A i \in DOMAIN chain : chain[i] \in ToSet(chain)
  BY DEF ToSet
<1>2. {i \in DOMAIN chain : chain[i] \in deny} = {}
  BY <1>1
<1> QED BY <1>2 DEF RunChain

(* A request of the published state, its site and what the site was built    *)
(* from.                                                                     *)
LEMMA RequestServed ==
    ASSUME SiteIInv, reply # Absent
    PROVE  LET rq == reply.req
               d == st.from
               s == HostSite(st, rq.host)
           IN  /\ rq \in Requests /\ rq.path \in Seq(STRING) /\ rq.path # <<>>
               /\ AllBuilt(d) /\ StateOf(d, st) /\ reply.out = serve(st, rq)
               /\ s = SiteOfHost(rq.host, Sites(d)) /\ s \in 1..Sites(d)
               /\ \E c, all : Serving(d, st, s, c, all)
<1> DEFINE rq == reply.req
           d == st.from
           s == HostSite(st, rq.host)
<1>1. st # Absent /\ AllBuilt(d) /\ st = loadState(d) /\ rq \in Requests /\ reply.out = serve(st, rq)
  BY DEF SiteIInv
<1>2. StateOf(d, st)
  BY <1>1, StateHolds
<1>3. rq.path \in Seq(STRING) /\ rq.path # <<>>
  BY <1>1, SiteConstants
<1>4. st.main = mainSite(SiteHosts) /\ st.hosts = sitesByHost(Sites(d)) /\ Sites(d) \in {Studio, Studio - 1}
  BY <1>2 DEF StateOf, Sites
<1>5. s = SiteOfHost(rq.host, Sites(d)) /\ s \in 1..Sites(d)
  BY <1>4, HostIs
<1>6. \E c, all : Serving(d, st, s, c, all)
  BY <1>1, <1>2, <1>5, SiteServing
<1> QED BY <1>1, <1>2, <1>3, <1>5, <1>6

LEMMA SiteGuards == SiteIInv => GuardedActions
<1> SUFFICES ASSUME SiteIInv, reply # Absent, reply.out.kind = "action"
             PROVE  \E r \in ToSet(Routes) \cup ToSet(StudioRoutes) :
                       /\ <<r.action>> = reply.out.body
                       /\ reply.out.ran = r.mw
                       /\ ToSet(r.mw) \cap reply.req.deny = {}
  BY DEF GuardedActions
<1> DEFINE rq == reply.req
           d == st.from
           s == HostSite(st, rq.host)
           m == st.ms[s]
           hit == Match(m.trie, rq.path)
           e == m.table[hit.route]
           chain == st.chains[s][hit.route]
           o == serve(st, rq)
           N == Len(d[s].file.table)
<1>1. rq.path \in Seq(STRING) /\ reply.out = o /\ \E c, all : Serving(d, st, s, c, all)
  BY RequestServed
<1>2. Refuses(st, rq, e, chain, hit, o) /\ Replies(st, rq, m, e, chain, hit, o)
  BY ServeIs
<1>3. o.kind = "action"
  BY <1>1
<1>4. PICK c, all : Serving(d, st, s, c, all)
  BY <1>1
<1>5. Found(hit) => hit.route \in 1..N
  BY <1>1, <1>4, HitIs
<1> HIDE DEF rq, m, hit, e, chain, o, N, d, s
<1>6. Passed(rq, e, chain, hit)
  <2>1. Status(st, "notFound", HeadID404).kind = "notFound"
        /\ Reply("notAllowed", [status |-> 405, allow |-> e.methods], <<>>, <<>>, <<>>).kind = "notAllowed"
        /\ Reply("refused", NoHead, <<>>, RunChain(chain, rq.deny), <<>>).kind = "refused"
    BY StatusFields, ReplyFields DEF IsReply
  <2> QED BY <1>2, <1>3, <2>1 DEF Refuses, Passed
<1>7. e.action \in Handlers /\ o.body = <<e.action>> /\ o.ran = RunChain(chain, rq.deny)
  <2> DEFINE ran == RunChain(chain, rq.deny)
             v == Picked(e, rq.accept)
             page == RenderedPage(st, m, e, rq.accept)
  <2>1. /\ Reply("file", NoHead, <<m.holeBlobs[e.hole + 1].src>>, ran, hit.params).kind = "file"
        /\ Status(st, "panic", HeadID500).kind = "panic" /\ Status(st, "error", HeadID500).kind = "error"
        /\ Reply("hole", page.head, page.body, ran, hit.params).kind = "hole"
        /\ Reply("body", HeadAt(st.reg, v.head), Slice(m, v), ran, hit.params).kind = "body"
        /\ Reply("action", NoHead, <<e.action>>, ran, hit.params).body = <<e.action>>
        /\ Reply("action", NoHead, <<e.action>>, ran, hit.params).ran = ran
    BY StatusFields, ReplyFields DEF IsReply
  <2>2. e.action \in Handlers
    BY <1>2, <1>3, <1>6, <2>1 DEF Replies
  <2>3. o = Reply("action", NoHead, <<e.action>>, ran, hit.params)
    BY <1>2, <1>6, <2>2 DEF Replies
  <2> QED BY <2>1, <2>2, <2>3
<1>8. hit.route \in 1..N
  BY <1>5, <1>6 DEF Passed
<1>9. PICK x : EntryFor(d, st, s, c, all, hit.route, x)
  BY <1>4, <1>8, EntryServing DEF N
<1>10. e.action = ActionOf(x) /\ chain = MwOf(x) /\ x \in ClaimsOf(s, d[s].content)
  BY <1>9 DEF EntryFor, e, m, chain
<1>11. s \in 1..Studio /\ (s # Studio => d[s].content \in Contents[s])
  BY <1>4 DEF Serving, WrittenFor
<1>12. x.kind = "action"
  BY <1>7, <1>10, SiteConstants DEF ActionOf
<1>13. PICK r \in ToSet(Routes) \cup ToSet(StudioRoutes) : x = ActionClaim(r)
  BY <1>10, <1>11, <1>12, ClaimsAreClaims
<1>14. e.action = r.action /\ chain = r.mw
  <2>1. x.action = r.action /\ x.mw = r.mw
    BY <1>13 DEF ActionClaim
  <2> QED BY <1>10, <1>12, <2>1 DEF ActionOf, MwOf
<1>15. ToSet(chain) \cap rq.deny = {} /\ RunChain(chain, rq.deny) = chain
  BY <1>6, ChainRuns DEF Passed
<1> QED BY <1>1, <1>7, <1>14, <1>15 DEF rq

(* serve runs an action's handler only behind every middleware its route      *)
(* declares, in their order, and only when none refused: the offsets that    *)
(* AddActionRoute wrote lead to the names of that route and of no other.     *)
THEOREM ActionsGuarded == SiteSpec => []GuardedActions
<1>1. SiteIInv => GuardedActions
  BY SiteGuards
<1> QED BY <1>1, SiteHolds, PTL

-----------------------------------------------------------------------------
(* What keeps a manifest from loading.                                       *)
LEMMA ClashIff ==
    ASSUME NEW p \in Seq(Seg), NEW q \in Seq(Seg), p # q
    PROVE  (Agree(p, q) <=> ~Clash(p, q)) /\ (Clash(p, q) <=> Clash(q, p))
<1>1. Len(p) \in Nat /\ Len(q) \in Nat /\ DOMAIN p = 1..Len(p) /\ DOMAIN q = 1..Len(q)
      /\ (\A i \in 1..Len(p) : p[i] \in Seg) /\ (\A i \in 1..Len(q) : q[i] \in Seg)
  OBVIOUS
<1>2. Clash(p, q) <=> \/ Shape(p) = Shape(q)
                      \/ \E n \in (1..Len(p)) \cap (1..Len(q)) : Node(p, n) = Node(q, n) /\ p[n] # q[n]
  BY <1>1 DEF Clash, Node
<1>3. ASSUME NEW n \in (1..Len(p)) \cap (1..Len(q)), Node(p, n) = Node(q, n)
      PROVE  p[n] = q[n] <=> p[n].text = q[n].text
  <2>1. n \in 1..n /\ n \in 0..Len(p) /\ n \in 0..Len(q)
    BY <1>1
  <2>2. Node(p, n)[n] = Edge(p[n]) /\ Node(q, n)[n] = Edge(q[n])
    BY <2>1, NodeFacts
  <2>3. Edge(p[n]) = Edge(q[n]) /\ p[n] \in Seg /\ q[n] \in Seg
    BY <1>1, <1>3, <2>2
  <2> QED BY <2>3, EdgeEqual
<1>4. Agree(p, q) <=> /\ Shape(p) # Shape(q)
                      /\ \A n \in (1..Len(p)) \cap (1..Len(q)) : Node(p, n) = Node(q, n) => p[n].text = q[n].text
  <2>1. \A k \in 1..Len(p) : k <= Len(q) <=> k \in 1..Len(q)
    BY <1>1
  <2> QED BY <2>1 DEF Agree
<1>5. Clash(q, p) <=> \/ Shape(p) = Shape(q)
                      \/ \E n \in (1..Len(p)) \cap (1..Len(q)) : Node(p, n) = Node(q, n) /\ p[n] # q[n]
  BY <1>1 DEF Clash, Node
<1>6. Agree(p, q) <=> ~Clash(p, q)
  BY <1>2, <1>3, <1>4
<1> QED BY <1>2, <1>5, <1>6

LEMMA NoClashWithSelf == ASSUME NEW p PROVE ~Clash(p, p)
  BY DEF Clash

CountAlike(N, a, b) ==
    Cardinality({a[i] : i \in 1..N}) = Cardinality({b[i] : i \in 1..N})
       <=> \A i, j \in 1..N : b[i] = b[j] => i = j

LEMMA CountsPatterns ==
    ASSUME NEW N \in Nat, NEW a, NEW b, DOMAIN a = 1..N, DOMAIN b = 1..N,
           \A i, j \in 1..N : a[i] = a[j] => i = j
    PROVE  CountAlike(N, a, b)
<1> DEFINE A == {a[i] : i \in 1..N}
           B == {b[i] : i \in 1..N}
           f == [i \in 1..N |-> a[i]]
           g == [i \in 1..N |-> b[i]]
<1>1. IsFiniteSet(1..N)
  BY FS_Interval
<1>2. f \in Surjection(1..N, A) /\ f \in Injection(1..N, A) /\ g \in Surjection(1..N, B)
  BY DEF Surjection, Injection, IsInjective
<1>3. g \in Injection(1..N, B) <=> \A i, j \in 1..N : b[i] = b[j] => i = j
  BY DEF Injection, IsInjective
<1> HIDE DEF f, g, A, B
<1>4. Cardinality(A) = Cardinality(1..N)
  BY <1>1, <1>2, FS_Surjection
<1>5. Cardinality(B) = Cardinality(1..N) <=> g \in Injection(1..N, B)
  BY <1>1, <1>2, FS_Surjection
<1>6. Cardinality(A) = Cardinality(B) <=> \A i, j \in 1..N : b[i] = b[j] => i = j
  BY <1>3, <1>4, <1>5
<1> QED BY <1>6 DEF A, B, CountAlike

LEMMA SeparateIff ==
    ASSUME NEW N \in Nat, NEW ps, \A i \in 1..N : ps[i] \in Seq(Seg)
    PROVE  Separate(ps, N) <=> /\ \A i, j \in 1..N : ps[i] = ps[j] => i = j
                               /\ \A i, j \in 1..N : ~Clash(ps[i], ps[j])
<1>1. ASSUME Separate(ps, N), NEW i \in 1..N, NEW j \in 1..N, ps[i] = ps[j], i # j PROVE FALSE
  <2>1. \A k \in 1..N : \A l \in 1..(k - 1) : ps[l] # ps[k]
    BY <1>1 DEF Separate, Agree
  <2>2. i \in 1..(j - 1) \/ j \in 1..(i - 1)
    BY <1>1
  <2> QED BY <1>1, <2>1, <2>2
<1>2. ASSUME Separate(ps, N), NEW i \in 1..N, NEW j \in 1..N PROVE ~Clash(ps[i], ps[j])
  <2>1. CASE i = j
    BY <2>1, NoClashWithSelf
  <2>2. CASE i # j
    <3>1. ps[i] # ps[j]
      BY <1>1, <1>2, <2>2
    <3>2. i \in 1..(j - 1) \/ j \in 1..(i - 1)
      BY <2>2
    <3>3. Agree(ps[i], ps[j]) \/ Agree(ps[j], ps[i])
      BY <1>2, <3>2 DEF Separate
    <3> QED BY <3>1, <3>3, ClashIff
  <2> QED BY <2>1, <2>2
<1>3. ASSUME \A i, j \in 1..N : ps[i] = ps[j] => i = j, \A i, j \in 1..N : ~Clash(ps[i], ps[j])
      PROVE  Separate(ps, N)
  <2> SUFFICES ASSUME NEW i \in 1..N, NEW j \in 1..(i - 1) PROVE Agree(ps[j], ps[i])
    BY DEF Separate
  <2>1. j \in 1..N /\ j # i
    OBVIOUS
  <2> QED BY <1>3, <2>1, ClashIff
<1> QED BY <1>1, <1>2, <1>3

LEMMA LoadsUnless ==
    ASSUME NEW d, NEW s \in 1..Studio, NEW c, WrittenFor(s, d[s], c)
    PROVE  LET pats == {Segments(x.url) : x \in Claims(s, d)}
               urls == {x.url : x \in Claims(s, d)}
           IN  Load(d[s].file).ok <=>
                  /\ d[s].fault # "lost"
                  /\ Cardinality(urls) = Cardinality(pats)
                  /\ \A u \in urls : Routable(u)
                  /\ \A p, q \in pats : ~Clash(p, q)
<1> DEFINE X == Claims(s, d)
           pats == {Segments(x.url) : x \in X}
           urls == {x.url : x \in X}
           f == d[s]
           N == Len(f.file.table)
           a == [i \in 1..N |-> UrlAt(f, i)]
           b == [i \in 1..N |-> Segments(UrlAt(f, i))]
<1>1. X = ClaimsOf(s, f.content)
  BY ClaimsAre
<1>2. TableOf(s, f, c)
  BY TableHolds
<1>3. N \in Nat /\ b = Urls(f) /\ Patterns(f.file) = Urls(f)
      /\ (Load(f.file).ok <=> f.fault # "lost" /\ Enters(f.file, N))
  <2>1. N \in Nat
    BY <1>2, SeqFacts DEF TableOf
  <2> QED BY <2>1, LoadedTrie DEF Urls
<1>4. Enters(f.file, N) <=> (\A i \in 1..N : Routable(a[i])) /\ Separate(b, N)
  BY <1>3 DEF Enters, UrlAt
<1>5. \A i \in 1..N : a[i] \in Seq(Seg) /\ b[i] = Segments(a[i]) /\ a[i] \in urls
  BY <1>1, <1>2 DEF TableOf
<1>6. \A i \in 1..N : b[i] \in Seq(Seg)
  BY <1>5, SegmentsFacts
<1>7. \A i, j \in 1..N : a[i] = a[j] => i = j
  BY <1>2 DEF TableOf
<1>8. \A x \in X : \E i \in 1..N : a[i] = x.url
  BY <1>1, <1>2 DEF TableOf
<1>9. DOMAIN a = 1..N /\ DOMAIN b = 1..N
  OBVIOUS
<1> HIDE DEF a, b, N, X
<1>10. urls = {a[i] : i \in 1..N}
  BY <1>5, <1>8
<1>11. pats = {b[i] : i \in 1..N}
  <2>1. \A x \in X : \E i \in 1..N : b[i] = Segments(x.url)
    BY <1>5, <1>8
  <2>2. \A i \in 1..N : \E x \in X : b[i] = Segments(x.url)
    BY <1>5
  <2> QED BY <2>1, <2>2
<1>12. Cardinality(urls) = Cardinality(pats) <=> \A i, j \in 1..N : b[i] = b[j] => i = j
  <2>1. Cardinality({a[i] : i \in 1..N}) = Cardinality({b[i] : i \in 1..N})
              <=> \A i, j \in 1..N : b[i] = b[j] => i = j
    <3>1. CountAlike(N, a, b)
      BY <1>3, <1>7, <1>9, CountsPatterns
    <3> QED BY <3>1 DEF CountAlike
  <2> HIDE DEF urls, pats
  <2> QED BY <1>10, <1>11, <2>1
<1>13. Separate(b, N) <=> /\ \A i, j \in 1..N : b[i] = b[j] => i = j
                          /\ \A i, j \in 1..N : ~Clash(b[i], b[j])
  BY <1>3, <1>6, SeparateIff
<1>14. (\A u \in urls : Routable(u)) <=> \A i \in 1..N : Routable(a[i])
  BY <1>10
<1>15. (\A p, q \in pats : ~Clash(p, q)) <=> \A i, j \in 1..N : ~Clash(b[i], b[j])
  BY <1>11
<1> HIDE DEF urls, pats, f
<1>16. Load(f.file).ok <=> /\ f.fault # "lost"
                           /\ Cardinality(urls) = Cardinality(pats)
                           /\ \A u \in urls : Routable(u)
                           /\ \A p, q \in pats : ~Clash(p, q)
  BY <1>3, <1>4, <1>12, <1>13, <1>14, <1>15
<1> QED BY <1>16 DEF f, urls, pats, X

LEMMA SiteLoads == SiteIInv => LoadFailsOnlyForCause
<1> SUFFICES ASSUME SiteIInv, NEW s \in 1..Studio, files[s] # Absent
             PROVE  LET pats == {Segments(x.url) : x \in Claims(s, files)}
                        urls == {x.url : x \in Claims(s, files)}
                    IN  Load(files[s].file).ok <=>
                            /\ files[s].fault # "lost"
                            /\ Cardinality(urls) = Cardinality(pats)
                            /\ \A u \in urls : Routable(u)
                            /\ \A p, q \in pats : ~Clash(p, q)
  BY DEF LoadFailsOnlyForCause
<1>1. PICK c : WrittenFor(s, files[s], c)
  BY DEF SiteIInv, AllBuilt, Built
<1> QED BY <1>1, LoadsUnless

(* router.Load refuses a manifest written to its end for one reason only: two *)
(* of its patterns cannot be told apart, or one cannot be routed.  It never  *)
(* loads one that has such a pair.                                           *)
THEOREM LoadFailsForCause == SiteSpec => []LoadFailsOnlyForCause
<1>1. SiteIInv => LoadFailsOnlyForCause
  BY SiteLoads
<1> QED BY <1>1, SiteHolds, PTL

-----------------------------------------------------------------------------
(* The patterns under a node that fit a path from there on, and their order. *)
FitsFrom(p, segs, k) ==
    /\ IF HasAll(p) THEN Len(segs) >= Len(p) - 1 ELSE Len(segs) = Len(p)
    /\ \A i \in (k + 1)..Len(p) : p[i].kind = "lit" => i \in 1..Len(segs) /\ segs[i] = p[i].text
Under(ps, N, segs, m) ==
    {i \in 1..N : Len(m) <= Len(ps[i]) /\ Node(ps[i], Len(m)) = m /\ FitsFrom(ps[i], segs, Len(m))}

LEMMA SegmentAt ==
    ASSUME NEW p \in Seq(Seg), NEW i \in 1..Len(p)
    PROVE  p[i] \in Seg /\ p[i].kind \in {"lit", "param", "all"} /\ p[i].text \in Text
           /\ Rank(p, i) = IF p[i].kind = "lit" THEN 1 ELSE IF p[i].kind = "param" THEN 2 ELSE 3
<1>1. p[i] \in Seg
  OBVIOUS
<1>2. p[i].kind \in {"lit", "param", "all"} /\ p[i].text \in Text
  BY <1>1 DEF Seg
<1>3. Len(p) \in Nat /\ ~(i > Len(p))
  OBVIOUS
<1> DEFINE k == p[i].kind
<1>4. Rank(p, i) = CASE k = "lit" -> 1 [] k = "param" -> 2 [] OTHER -> 3
  BY <1>3 DEF Rank
<1> HIDE DEF k
<1>5. Rank(p, i) = IF k = "lit" THEN 1 ELSE IF k = "param" THEN 2 ELSE 3
  BY <1>4
<1> QED BY <1>1, <1>2, <1>5 DEF k

LEMMA RankEnd ==
    ASSUME NEW p \in Seq(Seg)
    PROVE  Rank(p, Len(p) + 1) = 0
<1>1. Len(p) \in Nat
  OBVIOUS
<1> QED BY <1>1 DEF Rank

LEMMA HasAllIs ==
    ASSUME NEW p \in Seq(Seg)
    PROVE  HasAll(p) <=> Len(p) # 0 /\ p[Len(p)].kind = "all"
<1>1. p # <<>> <=> Len(p) # 0
  OBVIOUS
<1> QED BY <1>1 DEF HasAll, Last

LEMMA FitsAll ==
    ASSUME NEW p \in Seq(Seg), NEW segs \in Seq(STRING)
    PROVE  Fits(p, segs) <=> FitsFrom(p, segs, 0)
<1>1. DOMAIN p = (0 + 1)..Len(p) /\ DOMAIN segs = 1..Len(segs)
  OBVIOUS
<1> QED BY <1>1 DEF Fits, FitsFrom

(* Patterns under one node have the same ranks down to it; the first rank    *)
(* that is lower decides.                                                    *)
LEMMA SameRanks ==
    ASSUME NEW p \in Seq(Seg), NEW q \in Seq(Seg), NEW k \in Nat, k <= Len(p), k <= Len(q),
           Node(p, k) = Node(q, k)
    PROVE  \A i \in 1..k : Rank(p, i) = Rank(q, i)
<1> SUFFICES ASSUME NEW i \in 1..k PROVE Rank(p, i) = Rank(q, i)
  OBVIOUS
<1>1. k \in 0..Len(p) /\ k \in 0..Len(q) /\ i \in 1..Len(p) /\ i \in 1..Len(q)
  OBVIOUS
<1>2. Node(p, k)[i] = Edge(p[i]) /\ Node(q, k)[i] = Edge(q[i])
  BY <1>1, NodeFacts
<1>3. Edge(p[i]) = Edge(q[i]) /\ p[i] \in Seg /\ q[i] \in Seg
  BY <1>1, <1>2, SegmentAt
<1>4. p[i].kind = q[i].kind
  BY <1>3, EdgeEqual
<1> QED BY <1>1, <1>4, SegmentAt

LEMMA NotBefore ==
    ASSUME NEW p \in Seq(Seg), NEW q \in Seq(Seg), NEW k \in Nat,
           \A i \in 1..k : Rank(p, i) = Rank(q, i), NEW x \in Nat, NEW y \in Nat,
           Rank(p, k + 1) = x, Rank(q, k + 1) = y, x < y
    PROVE  ~Before(q, p)
<1> SUFFICES ASSUME NEW n \in 1..(Len(q) + 1), Rank(q, n) < Rank(p, n),
                    \A j \in 1..(n - 1) : Rank(q, j) = Rank(p, j)
             PROVE  FALSE
  BY DEF Before
<1>0. n \in Nat /\ n # 0
  OBVIOUS
<1>1. CASE n <= k
  <2>1. n \in 1..k
    BY <1>0, <1>1
  <2>2. Rank(p, n) = Rank(q, n)
    BY <2>1
  <2>3. n \in 1..Len(q) \/ n = Len(q) + 1
    OBVIOUS
  <2>4. Rank(q, n) \in Nat
    BY <2>3, SegmentAt, RankEnd
  <2> QED BY <2>2, <2>4
<1>2. CASE n = k + 1
  BY <1>2
<1>3. CASE n > k + 1
  <2>1. k + 1 \in 1..(n - 1)
    BY <1>0, <1>3
  <2> QED BY <2>1
<1> QED BY <1>0, <1>1, <1>2, <1>3

LEMMA NotBeforeEnd ==
    ASSUME NEW p \in Seq(Seg), NEW q \in Seq(Seg), \A i \in 1..Len(p) : Rank(p, i) = Rank(q, i)
    PROVE  ~Before(q, p)
<1> SUFFICES ASSUME NEW n \in 1..(Len(q) + 1), Rank(q, n) < Rank(p, n),
                    \A j \in 1..(n - 1) : Rank(q, j) = Rank(p, j)
             PROVE  FALSE
  BY DEF Before
<1>0. n \in Nat /\ n # 0 /\ Len(p) \in Nat /\ Len(q) \in Nat /\ n <= Len(q) + 1
  OBVIOUS
<1>1. Rank(q, n) \in Nat
  <2>1. n \in 1..Len(q) \/ n = Len(q) + 1
    OBVIOUS
  <2> QED BY <2>1, SegmentAt, RankEnd
<1>2. n > Len(p) => Rank(p, n) = 0
  BY DEF Rank
<1>3. n <= Len(p) => Rank(p, n) = Rank(q, n)
  BY <1>0
<1> QED BY <1>0, <1>1, <1>2, <1>3

-----------------------------------------------------------------------------
(* The patterns under a node, by their next segment.                         *)
Routed(t, ps, N) ==
    N \in Nat /\ TrieOf(t, ps, N) /\ \A i \in 1..N : ps[i] \in Seq(Seg) /\ Proper(ps[i])
Open(m) == \A j \in 1..Len(m) : m[j].kind # "all"
OpenNode(t, m) == m \in DOMAIN t /\ m \in Seq(Seg) /\ Open(m)

ChildOf(p, m, e) == Node(p, Len(m) + 1) = Append(m, e) <=> Node(p, Len(m)) = m /\ Edge(p[Len(m) + 1]) = e

LEMMA ChildNode ==
    ASSUME NEW p \in Seq(Seg), NEW m \in Seq(Seg), Len(m) + 1 <= Len(p), NEW e
    PROVE  ChildOf(p, m, e)
<1> DEFINE k == Len(m)
           n == Node(p, k)
           g == Edge(p[k + 1])
<1>1. k \in Nat /\ k \in 0..Len(p)
  OBVIOUS
<1>2. n \in Seq(Seg) /\ Len(n) = k
  BY <1>1, NodeFacts
<1>3. Node(p, k + 1) = Append(n, g)
  BY <1>1, NodeNext
<1> HIDE DEF n, g
<1>4. Append(n, g) = Append(m, e) <=> n = m /\ g = e
  <2>1. ASSUME Append(n, g) = Append(m, e) PROVE n = m /\ g = e
    <3>1. Append(n, g)[k + 1] = g /\ Append(m, e)[k + 1] = e
      BY <1>2
    <3>2. \A i \in 1..k : Append(n, g)[i] = n[i] /\ Append(m, e)[i] = m[i]
      BY <1>2
    <3>3. \A i \in 1..Len(n) : n[i] = m[i]
      BY <1>2, <2>1, <3>2
    <3>4. n = m
      BY <1>2, <3>3, SameNode
    <3> QED BY <2>1, <3>1, <3>4
  <2> QED BY <2>1
<1> QED BY <1>3, <1>4 DEF n, g, ChildOf

LEMMA AllIsLast ==
    ASSUME NEW p \in Seq(Seg), Proper(p), NEW m \in Seq(Seg), Open(m), Len(m) <= Len(p), Node(p, Len(m)) = m
    PROVE  /\ \A i \in 1..Len(m) : p[i].kind # "all"
           /\ HasAll(p) => Len(p) >= Len(m) + 1
           /\ HasAll(p) <=> Len(p) # 0 /\ p[Len(p)].kind = "all"
<1> DEFINE k == Len(m)
<1>1. k \in 0..Len(p) /\ Len(p) \in Nat
  OBVIOUS
<1>2. ASSUME NEW i \in 1..k PROVE p[i].kind # "all"
  <2>1. m[i] = Edge(p[i]) /\ i \in 1..Len(p)
    BY <1>1, NodeFacts
  <2>2. Edge(p[i]).kind = p[i].kind
    BY <2>1, SegmentAt, EdgeFacts
  <2> QED BY <2>1, <2>2 DEF Open
<1>3. HasAll(p) <=> Len(p) # 0 /\ p[Len(p)].kind = "all"
  BY HasAllIs
<1> HIDE DEF k
<1>4. HasAll(p) => Len(p) >= k + 1
  <2> SUFFICES ASSUME HasAll(p), ~(Len(p) >= k + 1) PROVE FALSE
    OBVIOUS
  <2>1. Len(p) \in 1..k
    BY <1>1, <1>3
  <2> QED BY <1>2, <1>3, <2>1
<1> QED BY <1>2, <1>3, <1>4 DEF k

LEMMA LitSegment ==
    ASSUME NEW e \in Seg, e.kind = "lit"
    PROVE  e = Lit(e.text) /\ Edge(e) = Lit(e.text)
<1>1. e = [kind |-> "lit", text |-> e.text]
  BY DEF Seg
<1> QED BY <1>1, EdgeFacts DEF Lit

Ends(t, ps, segs, m, j) ==
    Len(ps[j]) = Len(m) /\ Len(segs) = Len(m) /\ t[m].route = j
Takes(t, ps, segs, m, j) ==
    LET c == Append(m, AllEdge)
    IN  /\ Len(ps[j]) = Len(m) + 1 /\ ps[j][Len(m) + 1].kind = "all"
        /\ c \in DOMAIN t /\ t[c].route = j /\ t[c].label = ps[j][Len(m) + 1].text
Spells(t, ps, N, segs, m, j) ==
    LET c == Append(m, Lit(segs[Len(m) + 1]))
    IN  /\ Len(m) + 1 <= Len(ps[j]) /\ Len(m) + 1 <= Len(segs) /\ ps[j][Len(m) + 1].kind = "lit"
        /\ c \in DOMAIN t /\ j \in Under(ps, N, segs, c)
Captured(t, ps, N, segs, m, j) ==
    LET c == Append(m, ParamEdge)
    IN  /\ Len(m) + 1 <= Len(ps[j]) /\ Len(m) + 1 <= Len(segs) /\ ps[j][Len(m) + 1].kind = "param"
        /\ c \in DOMAIN t /\ t[c].label = ps[j][Len(m) + 1].text /\ j \in Under(ps, N, segs, c)

LEMMA Groups ==
    ASSUME NEW t, NEW ps, NEW N, Routed(t, ps, N), NEW segs \in Seq(STRING), NEW m, OpenNode(t, m),
           Len(m) <= Len(segs), NEW j \in Under(ps, N, segs, m)
    PROVE  \/ Ends(t, ps, segs, m, j) \/ Takes(t, ps, segs, m, j)
           \/ Spells(t, ps, N, segs, m, j) \/ Captured(t, ps, N, segs, m, j)
<1> DEFINE p == ps[j]
           k == Len(m)
           L == Len(segs)
           e == p[k + 1]
<1>1. j \in 1..N /\ k <= Len(p) /\ Node(p, k) = m /\ FitsFrom(p, segs, k)
  BY DEF Under
<1>2. p \in Seq(Seg) /\ Proper(p) /\ m \in Seq(Seg) /\ Open(m)
  BY <1>1 DEF Routed, OpenNode
<1>3. Len(p) \in Nat /\ k \in Nat /\ L \in Nat /\ k <= L /\ N \in Nat
  BY <1>2 DEF Routed
<1>4. (HasAll(p) => Len(p) >= k + 1) /\ (HasAll(p) <=> Len(p) # 0 /\ p[Len(p)].kind = "all")
  BY <1>1, <1>2, AllIsLast
<1>5. (IF HasAll(p) THEN L >= Len(p) - 1 ELSE L = Len(p))
      /\ \A i \in (k + 1)..Len(p) : p[i].kind = "lit" => i \in 1..L /\ segs[i] = p[i].text
  BY <1>1 DEF FitsFrom
<1>6. TrieNodes(t, ps, N) /\ TrieLabels(t, ps, N) /\ TrieLeaves(t, ps, N)
  BY DEF Routed, TrieOf
<1>7. ASSUME NEW n \in 0..Len(p) PROVE Node(p, n) \in DOMAIN t
  BY <1>1, <1>6, <1>7 DEF TrieNodes
<1>8. t[Shape(p)].route = j
  BY <1>1, <1>6 DEF TrieLeaves
<1>9. CASE Len(p) = k
  <2>1. ~HasAll(p) /\ L = k
    BY <1>3, <1>4, <1>5, <1>9
  <2>2. Shape(p) = m
    BY <1>1, <1>2, <1>9, NodeLeaf
  <2> QED BY <1>8, <1>9, <2>1, <2>2 DEF Ends
<1>10. CASE Len(p) # k
  <2>1. k + 1 <= Len(p) /\ k + 1 \in 1..Len(p) /\ k + 1 \in 0..Len(p) /\ k + 1 \in (k + 1)..Len(p)
    BY <1>1, <1>3, <1>10
  <2>2. e \in Seg /\ e.kind \in {"lit", "param", "all"}
    BY <1>2, <2>1, SegmentAt
  <2>3. ASSUME NEW c, c = Append(m, Edge(e)) PROVE Node(p, k + 1) = c /\ c \in DOMAIN t /\ t[c].label = e.text
    <3>1. Node(p, k + 1) = c
      <4> DEFINE g == Edge(e)
      <4>1. Edge(p[Len(m) + 1]) = g /\ Len(m) + 1 <= Len(p) /\ Node(p, Len(m)) = m
        BY <1>1, <2>1
      <4> HIDE DEF g, p
      <4>2. ChildOf(p, m, g)
        BY <1>2, <4>1, ChildNode
      <4>3. Node(p, Len(m) + 1) = Append(m, g)
        BY <4>1, <4>2 DEF ChildOf
      <4> QED BY <2>3, <4>3 DEF g
    <3>2. c \in DOMAIN t
      BY <1>7, <2>1, <3>1
    <3>3. t[Node(p, k + 1)].label = e.text
      BY <1>1, <1>6, <2>1 DEF TrieLabels
    <3> QED BY <3>1, <3>2, <3>3
  <2>4. CASE e.kind = "all"
    <3> DEFINE c == Append(m, AllEdge)
    <3>1. k + 1 = Len(p)
      BY <1>2, <2>1, <2>4 DEF Proper
    <3>2. Edge(e) = AllEdge
      BY <2>2, <2>4, EdgeFacts
    <3>3. Node(p, k + 1) = c /\ c \in DOMAIN t /\ t[c].label = e.text
      BY <2>3, <3>2
    <3>4. c = Shape(p)
      BY <1>2, <3>1, <3>3, NodeLeaf
    <3> HIDE DEF c
    <3>5. Takes(t, ps, segs, m, j)
      BY <1>8, <2>4, <3>1, <3>3, <3>4 DEF Takes, c
    <3> QED BY <3>5
  <2>5. CASE e.kind # "all"
    <3> DEFINE c == Append(m, Edge(e))
    <3>1. Node(p, k + 1) = c /\ c \in DOMAIN t /\ t[c].label = e.text
      BY <2>3
    <3>2. Len(c) = k + 1
      BY <1>2
    <3> HIDE DEF c
    <3>3. FitsFrom(p, segs, k + 1)
      <4>1. \A i \in ((k + 1) + 1)..Len(p) : i \in (k + 1)..Len(p)
        BY <1>3
      <4> QED BY <1>5, <4>1 DEF FitsFrom
    <3>4. j \in Under(ps, N, segs, c)
      BY <1>1, <2>1, <3>1, <3>2, <3>3 DEF Under
    <3>5. k + 1 <= L
      <4>1. CASE HasAll(p)
        <5>1. Len(p) # k + 1
          BY <1>4, <2>5, <4>1
        <5> QED BY <1>3, <1>5, <2>1, <4>1, <5>1
      <4>2. CASE ~HasAll(p)
        BY <1>3, <1>5, <2>1, <4>2
      <4> QED BY <4>1, <4>2
    <3>6. CASE e.kind = "lit"
      <4>1. segs[k + 1] = e.text
        BY <1>5, <2>1, <3>6
      <4>2. c = Append(m, Lit(segs[k + 1]))
        BY <2>2, <3>6, <4>1, LitSegment DEF c
      <4> QED BY <2>1, <3>1, <3>4, <3>5, <3>6, <4>2 DEF Spells
    <3>7. CASE e.kind = "param"
      <4>1. c = Append(m, ParamEdge)
        BY <2>2, <3>7, EdgeFacts DEF c
      <4> QED BY <2>1, <3>1, <3>4, <3>5, <3>7, <4>1 DEF Captured
    <3> QED BY <2>2, <2>5, <3>6, <3>7
  <2> QED BY <2>4, <2>5
<1> QED BY <1>9, <1>10

LeafIs(t, ps, N, c, j) ==
    /\ j \in 1..N /\ ps[j] \in Seq(Seg) /\ Proper(ps[j]) /\ Len(ps[j]) \in Nat
    /\ Len(c) = Len(ps[j]) /\ Node(ps[j], Len(ps[j])) = c
    /\ \A i \in 1..Len(ps[j]) : t[Node(ps[j], i)].label = ps[j][i].text

LEMMA FromLeaf ==
    ASSUME NEW t, NEW ps, NEW N, Routed(t, ps, N), NEW c \in DOMAIN t, t[c].route # 0
    PROVE  LeafIs(t, ps, N, c, t[c].route)
<1> DEFINE j == t[c].route
           p == ps[j]
<1>1. N \in Nat /\ TrieRoutes(t, ps, N) /\ TrieLabels(t, ps, N) /\ \A i \in 1..N : ps[i] \in Seq(Seg) /\ Proper(ps[i])
  BY DEF Routed, TrieOf
<1>2. j \in 0..N /\ Shape(p) = c
  BY <1>1 DEF TrieRoutes
<1>3. j \in 1..N
  BY <1>1, <1>2
<1>4. p \in Seq(Seg) /\ Proper(p) /\ \A i \in 1..Len(p) : t[Node(p, i)].label = p[i].text
  BY <1>1, <1>3 DEF TrieLabels
<1>5. Len(p) \in Nat
  BY <1>4
<1>6. Len(c) = Len(p) /\ Node(p, Len(p)) = c
  BY <1>2, <1>4, ShapeFacts, NodeLeaf
<1> HIDE DEF j
<1> QED BY <1>3, <1>4, <1>5, <1>6 DEF j, LeafIs

LEMMA FromEnd ==
    ASSUME NEW t, NEW ps, NEW N, Routed(t, ps, N), NEW segs \in Seq(STRING), NEW m, OpenNode(t, m),
           Len(m) = Len(segs), t[m].route # 0
    PROVE  t[m].route \in Under(ps, N, segs, m) /\ Ends(t, ps, segs, m, t[m].route)
<1> DEFINE j == t[m].route
           p == ps[j]
           k == Len(m)
<1>1. j \in 1..N /\ p \in Seq(Seg) /\ Proper(p) /\ Len(p) \in Nat /\ k = Len(p) /\ Node(p, Len(p)) = m
  BY FromLeaf DEF OpenNode, LeafIs
<1>2. m \in Seq(Seg) /\ Open(m)
  BY DEF OpenNode
<1> HIDE DEF j, p
<1>3. HasAll(p) => Len(p) >= k + 1
  BY <1>1, <1>2, AllIsLast
<1>4. ~HasAll(p)
  BY <1>1, <1>3
<1>5. (k + 1)..Len(p) = {}
  BY <1>1
<1>6. FitsFrom(p, segs, k)
  BY <1>1, <1>4, <1>5 DEF FitsFrom
<1> QED BY <1>1, <1>6 DEF Under, Ends, j, p

LEMMA FromTake ==
    ASSUME NEW t, NEW ps, NEW N, Routed(t, ps, N), NEW segs \in Seq(STRING), NEW m, OpenNode(t, m),
           Len(m) <= Len(segs), Append(m, AllEdge) \in DOMAIN t, t[Append(m, AllEdge)].route # 0
    PROVE  t[Append(m, AllEdge)].route \in Under(ps, N, segs, m)
           /\ Takes(t, ps, segs, m, t[Append(m, AllEdge)].route)
<1> DEFINE c == Append(m, AllEdge)
           j == t[c].route
           p == ps[j]
           k == Len(m)
<1>1. /\ j \in 1..N /\ p \in Seq(Seg) /\ Proper(p) /\ Len(p) \in Nat /\ Len(c) = Len(p) /\ Node(p, Len(p)) = c
      /\ \A i \in 1..Len(p) : t[Node(p, i)].label = p[i].text
  <2>1. LeafIs(t, ps, N, c, j)
    BY FromLeaf
  <2> QED BY <2>1 DEF LeafIs
<1>2. m \in Seq(Seg) /\ Open(m) /\ k \in Nat /\ Len(c) = k + 1 /\ Len(segs) \in Nat
  BY DEF OpenNode
<1>3. Len(p) = k + 1 /\ k <= Len(p)
  BY <1>1, <1>2
<1>4. Node(p, k + 1) = Append(m, AllEdge)
  BY <1>1, <1>3
<1> HIDE DEF j, p
<1>5. Node(p, k) = m /\ Edge(p[k + 1]) = AllEdge
  <2>1. ChildOf(p, m, AllEdge)
    BY <1>1, <1>2, <1>3, ChildNode
  <2> QED BY <1>4, <2>1 DEF ChildOf
<1>6. p[k + 1].kind = "all"
  <2>1. p[k + 1] \in Seg
    BY <1>1, <1>2, <1>3, SegmentAt
  <2>2. AllEdge.kind = "all"
    BY DEF AllEdge
  <2> QED BY <1>5, <2>1, <2>2, EdgeFacts
<1>7. HasAll(p)
  BY <1>1, <1>2, <1>3, <1>6, HasAllIs
<1>8. FitsFrom(p, segs, k)
  <2>1. \A i \in (k + 1)..Len(p) : i = k + 1
    BY <1>2, <1>3
  <2>2. Len(segs) >= Len(p) - 1
    BY <1>2, <1>3
  <2> QED BY <1>6, <1>7, <2>1, <2>2 DEF FitsFrom
<1>9. t[c].label = p[k + 1].text
  <2>1. k + 1 \in 1..Len(p) /\ Node(p, k + 1) = c
    BY <1>1, <1>2, <1>3
  <2>2. t[Node(p, k + 1)].label = p[k + 1].text
    BY <1>1, <2>1
  <2> QED BY <2>1, <2>2
<1>10. j \in Under(ps, N, segs, m)
  BY <1>1, <1>3, <1>5, <1>8 DEF Under, p
<1>11. Takes(t, ps, segs, m, j)
  BY <1>3, <1>6, <1>9 DEF Takes, p, j
<1> QED BY <1>10, <1>11 DEF j

LEMMA FromChild ==
    ASSUME NEW ps, NEW N, \A i \in 1..N : ps[i] \in Seq(Seg), NEW segs \in Seq(STRING),
           NEW m \in Seq(Seg), NEW e \in Seg, Len(m) + 1 <= Len(segs),
           e.kind = "lit" => e.text = segs[Len(m) + 1],
           NEW j \in Under(ps, N, segs, Append(m, e))
    PROVE  j \in Under(ps, N, segs, m) /\ Len(m) + 1 <= Len(ps[j]) /\ Edge(ps[j][Len(m) + 1]) = e
<1> DEFINE c == Append(m, e)
           p == ps[j]
           k == Len(m)
<1>1. k \in Nat /\ Len(c) = k + 1 /\ Len(segs) \in Nat
  OBVIOUS
<1>2. j \in 1..N /\ Len(c) <= Len(p) /\ Node(p, Len(c)) = c /\ FitsFrom(p, segs, Len(c))
  BY DEF Under
<1>3. p \in Seq(Seg) /\ Len(p) \in Nat /\ Node(p, k + 1) = Append(m, e) /\ FitsFrom(p, segs, k + 1)
      /\ k + 1 <= Len(p) /\ k <= Len(p)
  BY <1>1, <1>2
<1> HIDE DEF p
<1>4. Node(p, k) = m /\ Edge(p[k + 1]) = e
  <2>1. ChildOf(p, m, e)
    BY <1>3, ChildNode
  <2> QED BY <1>3, <2>1 DEF ChildOf
<1>5. FitsFrom(p, segs, k)
  <2>1. p[k + 1] \in Seg
    BY <1>1, <1>3, SegmentAt
  <2>2. p[k + 1].kind = "lit" => k + 1 \in 1..Len(segs) /\ segs[k + 1] = p[k + 1].text
    <3> SUFFICES ASSUME p[k + 1].kind = "lit" PROVE k + 1 \in 1..Len(segs) /\ segs[k + 1] = p[k + 1].text
      OBVIOUS
    <3>1. e = p[k + 1]
      BY <1>4, <2>1, EdgeFacts
    <3> QED BY <1>1, <3>1
  <2>3. \A i \in (k + 1)..Len(p) : i = k + 1 \/ i \in ((k + 1) + 1)..Len(p)
    BY <1>1, <1>3
  <2> QED BY <1>3, <2>2, <2>3 DEF FitsFrom
<1> QED BY <1>2, <1>3, <1>4, <1>5 DEF Under, p

LEMMA OpenChild ==
    ASSUME NEW t, NEW m, OpenNode(t, m), NEW e \in Seg, e.kind # "all", Append(m, e) \in DOMAIN t
    PROVE  OpenNode(t, Append(m, e)) /\ Len(Append(m, e)) = Len(m) + 1
<1> DEFINE c == Append(m, e)
<1>1. m \in Seq(Seg) /\ Open(m)
  BY DEF OpenNode
<1>2. c \in Seq(Seg) /\ Len(c) = Len(m) + 1 /\ c[Len(m) + 1] = e /\ \A i \in 1..Len(m) : c[i] = m[i]
  BY <1>1
<1>3. \A i \in 1..(Len(m) + 1) : i \in 1..Len(m) \/ i = Len(m) + 1
  BY <1>1
<1> HIDE DEF c
<1>4. Open(c)
  BY <1>1, <1>2, <1>3 DEF Open
<1> QED BY <1>2, <1>4 DEF OpenNode, c

LEMMA EdgesAreSegments ==
    /\ \A s \in STRING : Lit(s) \in Seg /\ Lit(s).kind = "lit" /\ Lit(s).text = s
    /\ ParamEdge \in Seg /\ ParamEdge.kind = "param"
  BY DEF Lit, ParamEdge, Seg, Text

-----------------------------------------------------------------------------
(* What walk finds at a node: the first pattern under it, and its captures.  *)
Finds(t, ps, N, segs, m, cap, r) ==
    /\ r.route = 0 => Under(ps, N, segs, m) = {}
    /\ r.route # 0 =>
          /\ r.route \in Under(ps, N, segs, m)
          /\ \A j \in Under(ps, N, segs, m) : ~Before(ps[j], ps[r.route])
          /\ \A cr : CapturesRun(ps[r.route], segs, cr) /\ cr[Len(m)] = cap =>
                        r.params = cr[Len(ps[r.route])]

LEMMA UnderIs ==
    ASSUME NEW t, NEW ps, NEW N, Routed(t, ps, N), NEW segs, NEW m, OpenNode(t, m), NEW j \in Under(ps, N, segs, m)
    PROVE  j \in 1..N /\ N \in Nat /\ j # 0 /\ ps[j] \in Seq(Seg) /\ Proper(ps[j]) /\ Len(ps[j]) \in Nat /\ Len(m) \in Nat
           /\ Len(m) <= Len(ps[j]) /\ Node(ps[j], Len(m)) = m
<1>1. j \in 1..N /\ Len(m) <= Len(ps[j]) /\ Node(ps[j], Len(m)) = m
  BY DEF Under
<1>2. m \in Seq(Seg) /\ ps[j] \in Seq(Seg) /\ Proper(ps[j]) /\ N \in Nat
  BY <1>1 DEF Routed, OpenNode
<1> QED BY <1>1, <1>2

LEMMA LowerWins ==
    ASSUME NEW t, NEW ps, NEW N, Routed(t, ps, N), NEW segs, NEW m, OpenNode(t, m),
           NEW i \in Under(ps, N, segs, m), NEW j \in Under(ps, N, segs, m), NEW x \in Nat, NEW y \in Nat,
           Rank(ps[i], Len(m) + 1) = x, Rank(ps[j], Len(m) + 1) = y, x < y
    PROVE  ~Before(ps[j], ps[i])
<1> DEFINE p == ps[i]
           q == ps[j]
           k == Len(m)
<1>1. p \in Seq(Seg) /\ q \in Seq(Seg) /\ k \in Nat /\ k <= Len(p) /\ k <= Len(q) /\ Node(p, k) = Node(q, k)
  BY UnderIs
<1>2. Rank(p, k + 1) = x /\ Rank(q, k + 1) = y
  OBVIOUS
<1> HIDE DEF p, q, k
<1>3. \A n \in 1..k : Rank(p, n) = Rank(q, n)
  BY <1>1, SameRanks
<1>4. ~Before(q, p)
  BY <1>1, <1>2, <1>3, NotBefore
<1> QED BY <1>4 DEF p, q

LEMMA EndWins ==
    ASSUME NEW t, NEW ps, NEW N, Routed(t, ps, N), NEW segs, NEW m, OpenNode(t, m),
           NEW i \in Under(ps, N, segs, m), NEW j \in Under(ps, N, segs, m), Len(ps[i]) = Len(m)
    PROVE  ~Before(ps[j], ps[i])
<1> DEFINE p == ps[i]
           q == ps[j]
           k == Len(m)
<1>1. p \in Seq(Seg) /\ q \in Seq(Seg) /\ k \in Nat /\ k <= Len(p) /\ k <= Len(q) /\ Node(p, k) = Node(q, k) /\ Len(p) = k
  BY UnderIs
<1> HIDE DEF p, q, k
<1>2. \A n \in 1..Len(p) : Rank(p, n) = Rank(q, n)
  BY <1>1, SameRanks
<1>3. ~Before(q, p)
  BY <1>1, <1>2, NotBeforeEnd
<1> QED BY <1>3 DEF p, q

LEMMA NextRank ==
    ASSUME NEW t, NEW ps, NEW N, Routed(t, ps, N), NEW segs, NEW m, OpenNode(t, m),
           NEW j \in Under(ps, N, segs, m), Len(m) + 1 <= Len(ps[j])
    PROVE  LET e == ps[j][Len(m) + 1]
           IN  /\ Rank(ps[j], Len(m) + 1) = IF e.kind = "lit" THEN 1 ELSE IF e.kind = "param" THEN 2 ELSE 3
               /\ e \in Seg
<1>1. ps[j] \in Seq(Seg) /\ Len(m) \in Nat /\ Len(m) + 1 \in 1..Len(ps[j])
  BY UnderIs
<1> QED BY <1>1, SegmentAt

LEMMA FindsEnd ==
    ASSUME NEW t, NEW ps, NEW N, Routed(t, ps, N), NEW segs \in Seq(STRING), NEW m, OpenNode(t, m),
           Len(m) = Len(segs), t[m].route # 0, NEW cap
    PROVE  Finds(t, ps, N, segs, m, cap, Result(t[m].route, cap))
<1> DEFINE j == t[m].route
           r == Result(j, cap)
<1>1. j \in Under(ps, N, segs, m) /\ Len(ps[j]) = Len(m)
  BY FromEnd DEF Ends
<1>2. r.route = j /\ r.params = cap
  BY ResultFields
<1> HIDE DEF r, j
<1>3. \A i \in Under(ps, N, segs, m) : ~Before(ps[i], ps[j])
  BY <1>1, EndWins
<1>4. j # 0
  BY DEF j
<1>5. Finds(t, ps, N, segs, m, cap, r)
  BY <1>1, <1>2, <1>3, <1>4 DEF Finds
<1> QED BY <1>5 DEF r, j

LEMMA FindsLit ==
    ASSUME NEW t, NEW ps, NEW N, Routed(t, ps, N), NEW segs \in Seq(STRING), NEW m, OpenNode(t, m),
           Len(m) + 1 <= Len(segs), NEW cap, NEW r, r.route # 0,
           Append(m, Lit(segs[Len(m) + 1])) \in DOMAIN t,
           Finds(t, ps, N, segs, Append(m, Lit(segs[Len(m) + 1])), cap, r)
    PROVE  Finds(t, ps, N, segs, m, cap, r)
<1> DEFINE k == Len(m)
           s == segs[k + 1]
           e == Lit(s)
           c == Append(m, e)
           i == r.route
<1>1. m \in Seq(Seg) /\ k \in Nat /\ s \in STRING /\ \A n \in 1..N : ps[n] \in Seq(Seg)
  BY DEF OpenNode, Routed
<1>2. e \in Seg /\ e.kind = "lit" /\ e.text = s
  BY <1>1, EdgesAreSegments
<1>3. Len(c) = k + 1
  BY <1>1
<1>4. /\ i \in Under(ps, N, segs, c) /\ \A j \in Under(ps, N, segs, c) : ~Before(ps[j], ps[i])
      /\ \A cr : CapturesRun(ps[i], segs, cr) /\ cr[k + 1] = cap => r.params = cr[Len(ps[i])]
  BY <1>3 DEF Finds
<1> HIDE DEF e, s, i
<1>5. s = segs[Len(m) + 1] /\ Len(m) + 1 <= Len(segs)
  BY DEF s
<1>6. i \in Under(ps, N, segs, m) /\ k + 1 <= Len(ps[i]) /\ Edge(ps[i][k + 1]) = e
  BY <1>1, <1>2, <1>4, <1>5, FromChild
<1>7. ps[i][k + 1].kind = "lit" /\ Rank(ps[i], k + 1) = 1
  <2>1. ps[i][k + 1] \in Seg
    BY <1>6, NextRank
  <2>2. ps[i][k + 1].kind = "lit"
    BY <1>2, <1>6, <2>1, EdgeFacts
  <2> QED BY <1>6, <2>2, NextRank
<1>8. ASSUME NEW j \in Under(ps, N, segs, m) PROVE ~Before(ps[j], ps[i])
  <2>1. Len(m) <= Len(segs) /\ Len(segs) # k
    BY <1>1, <1>5
  <2>2. CASE Ends(t, ps, segs, m, j)
    BY <2>1, <2>2 DEF Ends
  <2>3. CASE Takes(t, ps, segs, m, j)
    <3>1. k + 1 <= Len(ps[j]) /\ ps[j][k + 1].kind = "all"
      BY <1>1, <2>3 DEF Takes
    <3>2. Rank(ps[j], k + 1) = 3
      BY <3>1, NextRank
    <3> QED BY <1>6, <1>7, <3>2, LowerWins
  <2>4. CASE Captured(t, ps, N, segs, m, j)
    <3>1. k + 1 <= Len(ps[j]) /\ ps[j][k + 1].kind = "param"
      BY <2>4 DEF Captured
    <3>2. Rank(ps[j], k + 1) = 2
      BY <3>1, NextRank
    <3> QED BY <1>6, <1>7, <3>2, LowerWins
  <2>5. CASE Spells(t, ps, N, segs, m, j)
    BY <1>4, <2>5 DEF Spells, e, s
  <2> QED BY <2>1, <2>2, <2>3, <2>4, <2>5, Groups
<1>9. ASSUME NEW cr, CapturesRun(ps[i], segs, cr), cr[k] = cap PROVE r.params = cr[Len(ps[i])]
  <2>1. k + 1 \in 1..Len(ps[i]) /\ (k + 1) - 1 = k
    <3>1. ps[i] \in Seq(Seg) /\ Len(ps[i]) \in Nat
      BY <1>6, UnderIs
    <3> QED BY <1>1, <1>6, <3>1
  <2>2. cr[k + 1] = AddCapture(cr[k], ps[i], k + 1, segs)
    BY <1>9, <2>1 DEF CapturesRun
  <2>3. cr[k + 1] = cap
    BY <1>7, <1>9, <2>2 DEF AddCapture
  <2> QED BY <1>4, <1>9, <2>3
<1> QED BY <1>6, <1>8, <1>9 DEF Finds, i

LEMMA FindsParam ==
    ASSUME NEW t, NEW ps, NEW N, Routed(t, ps, N), NEW segs \in Seq(STRING), NEW m, OpenNode(t, m),
           Len(m) + 1 <= Len(segs), NEW cap, NEW r, r.route # 0,
           Append(m, ParamEdge) \in DOMAIN t,
           Append(m, Lit(segs[Len(m) + 1])) \in DOMAIN t => Under(ps, N, segs, Append(m, Lit(segs[Len(m) + 1]))) = {},
           Finds(t, ps, N, segs, Append(m, ParamEdge),
                 Append(cap, <<t[Append(m, ParamEdge)].label, <<segs[Len(m) + 1]>>>>), r)
    PROVE  Finds(t, ps, N, segs, m, cap, r)
<1> DEFINE k == Len(m)
           s == segs[k + 1]
           e == ParamEdge
           c == Append(m, e)
           i == r.route
           step == Append(cap, <<t[c].label, <<s>>>>)
<1>1. m \in Seq(Seg) /\ k \in Nat /\ \A n \in 1..N : ps[n] \in Seq(Seg)
  BY DEF OpenNode, Routed
<1>2. e \in Seg /\ e.kind = "param"
  BY EdgesAreSegments
<1>3. Len(c) = k + 1
  BY <1>1
<1>4. /\ i \in Under(ps, N, segs, c) /\ \A j \in Under(ps, N, segs, c) : ~Before(ps[j], ps[i])
      /\ \A cr : CapturesRun(ps[i], segs, cr) /\ cr[k + 1] = step => r.params = cr[Len(ps[i])]
  BY <1>3 DEF Finds
<1> HIDE DEF e, i, s, step
<1>5. Len(m) + 1 <= Len(segs) /\ (e.kind = "lit" => e.text = segs[Len(m) + 1])
  BY <1>2
<1>6. i \in Under(ps, N, segs, m) /\ k + 1 <= Len(ps[i]) /\ Edge(ps[i][k + 1]) = e
  BY <1>1, <1>2, <1>4, <1>5, FromChild
<1>7. ps[i][k + 1].kind = "param" /\ Rank(ps[i], k + 1) = 2
  <2>1. ps[i][k + 1] \in Seg
    BY <1>6, NextRank
  <2>2. ps[i][k + 1].kind = "param"
    BY <1>2, <1>6, <2>1, EdgeFacts
  <2> QED BY <1>6, <2>2, NextRank
<1>8. ASSUME NEW j \in Under(ps, N, segs, m) PROVE ~Before(ps[j], ps[i])
  <2>1. Len(m) <= Len(segs) /\ Len(segs) # k
    BY <1>1
  <2>2. CASE Ends(t, ps, segs, m, j)
    BY <2>1, <2>2 DEF Ends
  <2>3. CASE Takes(t, ps, segs, m, j)
    <3>1. k + 1 <= Len(ps[j]) /\ ps[j][k + 1].kind = "all"
      BY <1>1, <2>3 DEF Takes
    <3>2. Rank(ps[j], k + 1) = 3
      BY <3>1, NextRank
    <3> QED BY <1>6, <1>7, <3>2, LowerWins
  <2>4. CASE Captured(t, ps, N, segs, m, j)
    BY <1>4, <2>4 DEF Captured, e
  <2>5. CASE Spells(t, ps, N, segs, m, j)
    BY <2>5 DEF Spells
  <2> QED BY <2>1, <2>2, <2>3, <2>4, <2>5, Groups
<1>9. ASSUME NEW cr, CapturesRun(ps[i], segs, cr), cr[k] = cap PROVE r.params = cr[Len(ps[i])]
  <2>0. i \in 1..N /\ ps[i] \in Seq(Seg) /\ Len(ps[i]) \in Nat
    BY <1>6, UnderIs
  <2>1. k + 1 \in 1..Len(ps[i]) /\ (k + 1) - 1 = k
    BY <1>1, <1>6, <2>0
  <2>2. cr[k + 1] = AddCapture(cr[k], ps[i], k + 1, segs)
    BY <1>9, <2>1 DEF CapturesRun
  <2>3. Node(ps[i], k + 1) = c
    BY <1>3, <1>4 DEF Under
  <2>4. t[c].label = ps[i][k + 1].text
    <3>1. t[Node(ps[i], k + 1)].label = ps[i][k + 1].text
      BY <2>0, <2>1 DEF Routed, TrieOf, TrieLabels
    <3> QED BY <2>3, <3>1
  <2>5. Capture(ps[i], k + 1, segs) = <<t[c].label, <<s>>>>
    BY <1>7, <2>4 DEF Capture, s
  <2>6. cr[k + 1] = step
    BY <1>7, <1>9, <2>2, <2>5 DEF AddCapture, step
  <2> QED BY <1>4, <1>9, <2>6
<1> QED BY <1>6, <1>8, <1>9 DEF Finds, i

LEMMA FindsTake ==
    ASSUME NEW t, NEW ps, NEW N, Routed(t, ps, N), Labelled(t), NEW segs \in Seq(STRING), NEW m, OpenNode(t, m),
           NEW left \in 0..Len(segs), Len(m) = Len(segs) - left, NEW cap,
           left = 0 => t[m].route = 0,
           left # 0 /\ Append(m, Lit(segs[Len(m) + 1])) \in DOMAIN t =>
              Under(ps, N, segs, Append(m, Lit(segs[Len(m) + 1]))) = {},
           left # 0 /\ Append(m, ParamEdge) \in DOMAIN t => Under(ps, N, segs, Append(m, ParamEdge)) = {}
    PROVE  Finds(t, ps, N, segs, m, cap, take(t, m, Rest(segs, left), cap))
<1> DEFINE k == Len(m)
           c == Append(m, AllEdge)
           i == t[c].route
           rest == Rest(segs, left)
           r == take(t, m, rest, cap)
           y == Result(i, Append(cap, <<t[c].label, rest>>))
<1>1. m \in Seq(Seg) /\ k \in Nat /\ Len(segs) \in Nat /\ k <= Len(segs) /\ (k + 1 <= Len(segs) => left # 0)
      /\ (k = Len(segs) => left = 0)
  BY DEF OpenNode
<1>2. rest = SubSeq(segs, k + 1, Len(segs))
  <2>1. Len(segs) - left + 1 = k + 1
    OBVIOUS
  <2> QED BY <2>1 DEF Rest
<1>3. ASSUME NEW j \in Under(ps, N, segs, m) PROVE Takes(t, ps, segs, m, j) /\ c \in DOMAIN t /\ j = i /\ i # 0
  <2>0. j # 0
    BY UnderIs
  <2>1. ~Ends(t, ps, segs, m, j)
    BY <1>1, <2>0 DEF Ends
  <2>2. ~Spells(t, ps, N, segs, m, j)
    BY <1>1 DEF Spells
  <2>3. ~Captured(t, ps, N, segs, m, j)
    BY <1>1 DEF Captured
  <2>4. Takes(t, ps, segs, m, j)
    BY <1>1, <2>1, <2>2, <2>3, Groups
  <2> QED BY <2>0, <2>4 DEF Takes
<1>4. r = IF c \in DOMAIN t /\ t[c].route > 0 THEN y ELSE Result(0, cap)
  BY DEF take
<1>5. c \in DOMAIN t => i \in Nat
  BY DEF Labelled
<1>6. y.route = i /\ y.params = Append(cap, <<t[c].label, rest>>) /\ Result(0, cap).route = 0
  BY ResultFields
<1> HIDE DEF r, y, rest
<1>7. CASE c \in DOMAIN t /\ i # 0
  <2>1. r = y
    BY <1>4, <1>5, <1>7
  <2>2. i \in Under(ps, N, segs, m) /\ Takes(t, ps, segs, m, i)
    BY <1>1, <1>7, FromTake
  <2> HIDE DEF i
  <2>3. ASSUME NEW j \in Under(ps, N, segs, m) PROVE ~Before(ps[j], ps[i])
    <3>1. j = i /\ ps[i] \in Seq(Seg)
      BY <1>3, <2>2, UnderIs
    <3> QED BY <3>1, NotBeforeEnd
  <2>4. ASSUME NEW cr, CapturesRun(ps[i], segs, cr), cr[k] = cap PROVE r.params = cr[Len(ps[i])]
    <3>1. Len(ps[i]) = k + 1 /\ ps[i][k + 1].kind = "all" /\ t[c].label = ps[i][k + 1].text
      BY <2>2 DEF Takes
    <3>2. k + 1 \in 1..Len(ps[i]) /\ (k + 1) - 1 = k
      BY <1>1, <3>1
    <3>3. cr[k + 1] = AddCapture(cr[k], ps[i], k + 1, segs)
      BY <2>4, <3>2 DEF CapturesRun
    <3>4. Capture(ps[i], k + 1, segs) = <<t[c].label, rest>>
      BY <1>2, <3>1 DEF Capture
    <3>5. cr[k + 1] = Append(cap, <<t[c].label, rest>>)
      BY <2>4, <3>1, <3>3, <3>4 DEF AddCapture
    <3> QED BY <1>6, <2>1, <3>1, <3>5
  <2> QED BY <1>6, <1>7, <2>1, <2>2, <2>3, <2>4 DEF Finds, r, rest
<1>8. CASE ~(c \in DOMAIN t /\ i # 0)
  <2>1. r.route = 0
    BY <1>4, <1>5, <1>6, <1>8
  <2>2. Under(ps, N, segs, m) = {}
    BY <1>3, <1>8
  <2> QED BY <2>1, <2>2 DEF Finds, r, rest
<1> QED BY <1>7, <1>8

AllFind(t, ps, N, segs, k, walk) ==
    \A m \in DOMAIN t : \A cap \in Params :
        OpenNode(t, m) /\ Len(m) = k => Finds(t, ps, N, segs, m, cap, walk[m][cap])

LEMMA ChosenFinds ==
    ASSUME NEW t, NEW ps, NEW N, Routed(t, ps, N), Labelled(t), NEW segs \in Seq(STRING),
           NEW left \in 0..Len(segs), NEW m, OpenNode(t, m), Len(m) = Len(segs) - left, NEW cap \in Params,
           NEW deeper, left # 0 => AllFind(t, ps, N, segs, Len(m) + 1, deeper)
    PROVE  Finds(t, ps, N, segs, m, cap, Chosen(t, deeper, m, Rest(segs, left), cap))
<1> DEFINE k == Len(m)
           rest == Rest(segs, left)
           s == Head(rest)
           l == Append(m, Lit(s))
           p == Append(m, ParamEdge)
           step == Step(t, m, rest, cap)
           r == Chosen(t, deeper, m, rest, cap)
           x == Result(t[m].route, cap)
           y == take(t, m, rest, cap)
<1>1. rest \in Seq(STRING) /\ Len(rest) = left /\ (rest = <<>> <=> left = 0)
      /\ \A n \in 1..left : rest[n] = segs[Len(segs) - left + n]
  BY RestTyped
<1>2. m \in Seq(Seg) /\ m \in DOMAIN t /\ k \in Nat /\ Len(segs) \in Nat
      /\ (left # 0 => k + 1 <= Len(segs)) /\ (left = 0 => k = Len(segs))
  BY DEF OpenNode
<1>3. left # 0 => s = segs[k + 1] /\ s \in STRING
  <2> SUFFICES ASSUME left # 0 PROVE s = segs[k + 1] /\ s \in STRING
    OBVIOUS
  <2>1. 1 \in 1..left /\ Len(segs) - left + 1 = k + 1
    OBVIOUS
  <2>2. s = rest[1] /\ s \in STRING
    BY <1>1
  <2> QED BY <1>1, <2>1, <2>2
<1>4. r = IF left = 0 /\ t[m].route > 0 THEN x
          ELSE IF left # 0 /\ l \in DOMAIN t /\ Found(deeper[l][cap]) THEN deeper[l][cap]
          ELSE IF left # 0 /\ p \in DOMAIN t /\ Found(deeper[p][step]) THEN deeper[p][step]
          ELSE y
  BY <1>1 DEF Chosen
<1>5. t[m].route \in Nat
  BY <1>2 DEF Labelled
<1>6. left # 0 /\ l \in DOMAIN t => Finds(t, ps, N, segs, l, cap, deeper[l][cap])
  <2> SUFFICES ASSUME left # 0, l \in DOMAIN t PROVE Finds(t, ps, N, segs, l, cap, deeper[l][cap])
    OBVIOUS
  <2>1. Lit(s) \in Seg /\ Lit(s).kind = "lit"
    BY <1>3, EdgesAreSegments
  <2>2. OpenNode(t, l) /\ Len(l) = k + 1
    BY <2>1, OpenChild
  <2> HIDE DEF l
  <2> QED BY <2>2 DEF AllFind
<1>7. left # 0 /\ p \in DOMAIN t =>
         /\ step = Append(cap, <<t[p].label, <<s>>>>)
         /\ Finds(t, ps, N, segs, p, step, deeper[p][step])
  <2> SUFFICES ASSUME left # 0, p \in DOMAIN t
               PROVE  /\ step = Append(cap, <<t[p].label, <<s>>>>)
                      /\ Finds(t, ps, N, segs, p, step, deeper[p][step])
    OBVIOUS
  <2>1. ParamEdge \in Seg /\ ParamEdge.kind = "param"
    BY EdgesAreSegments
  <2>2. OpenNode(t, p) /\ Len(p) = k + 1
    BY <2>1, OpenChild
  <2>3. step \in Params
    BY <1>1, <1>2, StepTyped
  <2>4. step = Append(cap, <<t[p].label, <<s>>>>)
    BY DEF Step
  <2> HIDE DEF p, step
  <2> QED BY <2>2, <2>3, <2>4 DEF AllFind
<1>8. left # 0 => l = Append(m, Lit(segs[k + 1]))
  BY <1>3
<1> HIDE DEF r, x, y, step, l, s, rest
<1>9. CASE left = 0 /\ t[m].route > 0
  <2>1. r = x /\ t[m].route # 0 /\ Len(m) = Len(segs)
    BY <1>2, <1>4, <1>9
  <2>2. Finds(t, ps, N, segs, m, cap, x)
    BY <2>1, FindsEnd DEF x
  <2> QED BY <2>1, <2>2 DEF r, rest
<1>10. CASE left # 0 /\ l \in DOMAIN t /\ Found(deeper[l][cap])
  <2>1. r = deeper[l][cap] /\ r.route # 0
    BY <1>4, <1>10 DEF Found
  <2>2. Finds(t, ps, N, segs, Append(m, Lit(segs[Len(m) + 1])), cap, r)
        /\ Append(m, Lit(segs[Len(m) + 1])) \in DOMAIN t
    BY <1>6, <1>8, <1>10, <2>1
  <2>3. Finds(t, ps, N, segs, m, cap, r)
    BY <1>2, <1>10, <2>1, <2>2, FindsLit
  <2> QED BY <2>3 DEF r, rest
<1>11. left # 0 /\ l \in DOMAIN t /\ ~Found(deeper[l][cap]) => Under(ps, N, segs, l) = {}
  BY <1>6 DEF Finds, Found
<1>12. CASE /\ ~(left # 0 /\ l \in DOMAIN t /\ Found(deeper[l][cap]))
            /\ left # 0 /\ p \in DOMAIN t /\ Found(deeper[p][step])
  <2>1. r = deeper[p][step] /\ r.route # 0
    BY <1>4, <1>12 DEF Found
  <2>2. Append(m, Lit(segs[Len(m) + 1])) \in DOMAIN t => Under(ps, N, segs, Append(m, Lit(segs[Len(m) + 1]))) = {}
    BY <1>8, <1>11, <1>12
  <2>3. Finds(t, ps, N, segs, Append(m, ParamEdge),
              Append(cap, <<t[Append(m, ParamEdge)].label, <<segs[Len(m) + 1]>>>>), r)
    BY <1>3, <1>7, <1>12, <2>1
  <2>4. Finds(t, ps, N, segs, m, cap, r)
    BY <1>2, <1>12, <2>1, <2>2, <2>3, FindsParam
  <2> QED BY <2>4 DEF r, rest
<1>13. CASE /\ ~(left = 0 /\ t[m].route > 0)
            /\ ~(left # 0 /\ l \in DOMAIN t /\ Found(deeper[l][cap]))
            /\ ~(left # 0 /\ p \in DOMAIN t /\ Found(deeper[p][step]))
  <2>1. r = y
    BY <1>4, <1>13
  <2>2. left = 0 => t[m].route = 0
    BY <1>5, <1>13
  <2>3. left # 0 /\ Append(m, Lit(segs[Len(m) + 1])) \in DOMAIN t =>
           Under(ps, N, segs, Append(m, Lit(segs[Len(m) + 1]))) = {}
    BY <1>8, <1>11, <1>13
  <2>4. left # 0 /\ Append(m, ParamEdge) \in DOMAIN t => Under(ps, N, segs, Append(m, ParamEdge)) = {}
    BY <1>7, <1>13 DEF Finds, Found
  <2>5. Finds(t, ps, N, segs, m, cap, take(t, m, Rest(segs, left), cap))
    BY <2>2, <2>3, <2>4, FindsTake
  <2> QED BY <2>1, <2>5 DEF r, y, rest
<1> QED BY <1>9, <1>10, <1>12, <1>13

LEMMA WalkFinds ==
    ASSUME NEW t, NEW ps, NEW N, Routed(t, ps, N), Labelled(t), NEW segs \in Seq(STRING),
           NEW h, WalkTable(t, segs, Len(segs), h)
    PROVE  \A left \in 0..Len(segs) : AllFind(t, ps, N, segs, Len(segs) - left, h[left])
<1> DEFINE L == Len(segs)
           G == {n \in Nat : n <= L => AllFind(t, ps, N, segs, L - n, h[n])}
<1>0. L \in Nat
  OBVIOUS
<1>1. \A left \in 0..L : \A n \in DOMAIN t : \A cap \in Params :
          h[left][n][cap] = Chosen(t, h[left - 1], n, Rest(segs, left), cap)
  BY WalkSound
<1>2. ASSUME NEW n \in 0..L, n # 0 => AllFind(t, ps, N, segs, L - (n - 1), h[n - 1])
      PROVE  AllFind(t, ps, N, segs, L - n, h[n])
  <2> SUFFICES ASSUME NEW m \in DOMAIN t, NEW cap \in Params, OpenNode(t, m), Len(m) = L - n
               PROVE  Finds(t, ps, N, segs, m, cap, h[n][m][cap])
    BY DEF AllFind
  <2>1. h[n][m][cap] = Chosen(t, h[n - 1], m, Rest(segs, n), cap)
    BY <1>1
  <2>2. L - (n - 1) = Len(m) + 1
    BY <1>0
  <2>3. Finds(t, ps, N, segs, m, cap, Chosen(t, h[n - 1], m, Rest(segs, n), cap))
    BY <1>2, <2>2, ChosenFinds
  <2> QED BY <2>1, <2>3
<1>3. 0 \in G
  <2>1. 0 \in 0..L
    BY <1>0
  <2> QED BY <1>2, <2>1
<1>4. ASSUME NEW n \in Nat, n \in G PROVE n + 1 \in G
  <2> SUFFICES ASSUME n + 1 <= L PROVE AllFind(t, ps, N, segs, L - (n + 1), h[n + 1])
    OBVIOUS
  <2>1. n + 1 \in 0..L /\ (n + 1) - 1 = n /\ AllFind(t, ps, N, segs, L - n, h[n])
    BY <1>0, <1>4
  <2>2. AllFind(t, ps, N, segs, L - ((n + 1) - 1), h[(n + 1) - 1])
    BY <2>1
  <2> HIDE DEF L
  <2> QED BY <1>2, <2>1, <2>2
<1> HIDE DEF G
<1>5. \A n \in 0..L : n \in G
  BY <1>0, <1>3, <1>4, Induction
<1> QED BY <1>0, <1>5 DEF G

LEMMA MatchFinds ==
    ASSUME NEW t, NEW ps, NEW N, Routed(t, ps, N), Labelled(t), NEW pieces \in Seq(STRING)
    PROVE  Finds(t, ps, N, splitPath(pieces), <<>>, <<>>, Match(t, pieces))
<1> DEFINE segs == splitPath(pieces)
           L == Len(segs)
<1>1. segs \in Seq(STRING)
  BY SplitTyped
<1>2. IsSeq(segs) /\ L \in Nat
  BY <1>1, SeqIn, SeqFacts
<1>3. PICK h : WalkTable(t, segs, L, h) /\ Match(t, pieces) = h[L][<<>>][<<>>]
  BY <1>2, MatchRuns
<1> HIDE DEF segs
<1>4. AllFind(t, ps, N, segs, L - L, h[L])
  <2>1. L \in 0..L
    BY <1>2
  <2> QED BY <1>1, <1>3, <2>1, WalkFinds
<1>5. <<>> \in DOMAIN t /\ OpenNode(t, <<>>) /\ Len(<<>>) = L - L /\ <<>> \in Params
  <2>1. <<>> \in DOMAIN t
    BY DEF Routed, TrieOf, IsTree
  <2>2. L - L = 0
    BY <1>2
  <2> QED BY <2>1, <2>2 DEF OpenNode, Open, Params
<1>6. Finds(t, ps, N, segs, <<>>, <<>>, h[L][<<>>][<<>>])
  BY <1>4, <1>5 DEF AllFind
<1> QED BY <1>3, <1>6 DEF segs

(* In any trie that Insert built of N patterns, walk finds a route if and     *)
(* only if a pattern fits the path; then it is the first of those that fit,  *)
(* a literal before a parameter before a catch-all from the left, and the    *)
(* captures are that pattern's, whatever branches were tried and left.       *)
THEOREM MatchIsBest ==
    ASSUME NEW t, NEW ps, NEW N, Routed(t, ps, N), Labelled(t), NEW pieces \in Seq(STRING)
    PROVE  LET segs == splitPath(pieces)
               r == Match(t, pieces)
           IN  /\ r.route = 0 => \A i \in 1..N : ~Fits(ps[i], segs)
               /\ r.route # 0 =>
                     /\ r.route \in 1..N /\ Fits(ps[r.route], segs)
                     /\ \A j \in 1..N : Fits(ps[j], segs) => ~Before(ps[j], ps[r.route])
                     /\ r.params = Captures(ps[r.route], segs)
<1> DEFINE segs == splitPath(pieces)
           r == Match(t, pieces)
           i == r.route
           U == Under(ps, N, segs, <<>>)
<1>1. segs \in Seq(STRING)
  BY SplitTyped
<1>2. Finds(t, ps, N, segs, <<>>, <<>>, r)
  BY MatchFinds
<1> HIDE DEF segs, r
<1>3. \A j : j \in U <=> j \in 1..N /\ Fits(ps[j], segs)
  <2>1. ASSUME NEW j \in 1..N PROVE FitsFrom(ps[j], segs, 0) <=> Fits(ps[j], segs)
    BY <1>1, FitsAll DEF Routed
  <2>2. ASSUME NEW j \in 1..N PROVE 0 <= Len(ps[j]) /\ Node(ps[j], 0) = <<>>
    <3>1. ps[j] \in Seq(Seg)
      BY DEF Routed
    <3> QED BY <3>1, NodeRoot
  <2>3. Len(<<>>) = 0
    OBVIOUS
  <2> QED BY <2>1, <2>2, <2>3 DEF Under
<1>4. i = 0 => U = {}
  BY <1>2 DEF Finds
<1>5. ASSUME i # 0 PROVE i \in U /\ (\A j \in U : ~Before(ps[j], ps[i])) /\ r.params = Captures(ps[i], segs)
  <2>1. i \in U /\ (\A j \in U : ~Before(ps[j], ps[i]))
        /\ \A cr : CapturesRun(ps[i], segs, cr) /\ cr[0] = <<>> => r.params = cr[Len(ps[i])]
    <3>1. Len(<<>>) = 0
      OBVIOUS
    <3> QED BY <1>2, <1>5, <3>1 DEF Finds
  <2>2. ps[i] \in Seq(Seg)
    BY <1>3, <2>1 DEF Routed
  <2>3. IsSeq(ps[i]) /\ Len(ps[i]) \in Nat
    BY <2>2, SeqIn
  <2>4. PICK cr : CapturesRun(ps[i], segs, cr) /\ Captures(ps[i], segs) = cr[Len(ps[i])]
    BY <2>3, CapturesRuns DEF IsSeq
  <2>5. cr[0] = <<>>
    BY <2>4 DEF CapturesRun
  <2> QED BY <2>1, <2>4, <2>5
<1> HIDE DEF U
<1> QED BY <1>3, <1>4, <1>5 DEF segs, r

-----------------------------------------------------------------------------
(* The claims by their kind; the studio always loads; whose site a host gets.*)
ClaimKind(x) ==
    \/ x.kind \in {"static", "file"} /\ IsSeq(x.body)
    \/ x.kind = "hole" /\ IsSeq(x.body) /\ x.body # <<>> /\ x.mime = HTML
    \/ x.kind = "action" /\ x.action \notin {"static", "file"}

LEMMA ClaimKinds ==
    ASSUME NEW s \in 1..Studio, NEW content, s # Studio => content \in Contents[s],
           NEW x \in ClaimsOf(s, content)
    PROVE  ClaimKind(x)
<1>1. CASE s # Studio /\ x \in {r \in content : r.kind # "meta"}
  <2>1. s \in DOMAIN SiteHosts
    BY <1>1, SitesKnown
  <2>2. IsResult(x)
    BY <1>1, <2>1, SiteConstants
  <2> QED BY <1>1, <2>2 DEF IsResult, ClaimKind, IsSeq
<1>2. CASE x \in {ActionClaim(r) : r \in ToSet(Routes) \cup ToSet(StudioRoutes)}
  <2>1. PICK r \in ToSet(Routes) \cup ToSet(StudioRoutes) : x = ActionClaim(r)
    BY <1>2
  <2>2. IsRoute(r)
    BY SiteConstants, StudioConstants
  <2>3. x.kind = "action" /\ x.action = r.action
    BY <2>1 DEF ActionClaim
  <2> QED BY <2>2, <2>3 DEF IsRoute, ClaimKind
<1>3. CASE x = StudioPage
  <2>1. x.kind = "static" /\ x.body = StudioBody
    BY <1>3 DEF StudioPage
  <2>2. IsSeq(x.body)
    BY <2>1, StudioConstants DEF IsSeq
  <2> QED BY <2>1, <2>2 DEF ClaimKind
<1>4. s = Studio => x = StudioPage \/ x \in {ActionClaim(r) : r \in ToSet(StudioRoutes)}
  BY DEF ClaimsOf
<1>5. s # Studio => x \in {r \in content : r.kind # "meta"} \/ x \in {ActionClaim(r) : r \in ToSet(Routes)}
  BY DEF ClaimsOf
<1> QED BY <1>1, <1>2, <1>3, <1>4, <1>5

(* A pattern of nothing but text is its own segments and its own shape.      *)
TextAt(u, i) == u[i].kind = "lit" /\ u[i].text # ""
AllText(u) == u \in Seq(Seg) /\ \A i \in 1..Len(u) : TextAt(u, i)

LEMMA TextSegments ==
    ASSUME NEW u, AllText(u)
    PROVE  Segments(u) = u /\ Routable(u)
<1>0. \A i \in 1..Len(u) : TextAt(u, i)
  BY DEF AllText
<1>1. u \in Seq(Seg) /\ Len(u) \in Nat /\ DOMAIN u = 1..Len(u)
  <2>1. u \in Seq(Seg)
    BY DEF AllText
  <2> QED BY <2>1
<1>2. PICK r : SegmentsRun(u, r) /\ Segments(u) = r[Len(u)]
  BY <1>1, SegmentsFacts
<1> DEFINE N == Len(u)
           G == {n \in Nat : n <= N => r[n] = SubSeq(u, 1, n)}
<1>3. 0 \in G
  <2>1. r[0] = <<>>
    BY <1>2 DEF SegmentsRun
  <2>2. SubSeq(u, 1, 0) = <<>>
    BY <1>1
  <2> QED BY <2>1, <2>2
<1>4. ASSUME NEW n \in Nat, n \in G PROVE n + 1 \in G
  <2> SUFFICES ASSUME n + 1 <= N PROVE r[n + 1] = SubSeq(u, 1, n + 1)
    OBVIOUS
  <2>1. n + 1 \in 1..N /\ (n + 1) - 1 = n /\ r[n] = SubSeq(u, 1, n)
    BY <1>1, <1>4
  <2>2. r[n + 1] = AddSegment(r[n], u[n + 1])
    BY <1>2, <2>1 DEF SegmentsRun
  <2>3. u[n + 1] # Lit("")
    <3>1. Lit("").text = ""
      BY DEF Lit
    <3>2. u[n + 1].text # ""
      BY <1>0, <2>1 DEF TextAt
    <3> QED BY <3>1, <3>2
  <2>4. r[n + 1] = Append(SubSeq(u, 1, n), u[n + 1])
    BY <2>1, <2>2, <2>3 DEF AddSegment
  <2>5. SubSeq(u, 1, n + 1) = Append(SubSeq(u, 1, n), u[n + 1])
    BY <1>1, <2>1
  <2> QED BY <2>4, <2>5
<1> HIDE DEF G
<1>5. N \in G
  BY <1>1, <1>3, <1>4, Induction
<1>6. r[N] = SubSeq(u, 1, N)
  BY <1>1, <1>5 DEF G
<1>7. SubSeq(u, 1, N) = u
  BY <1>1
<1>8. Routable(u)
  BY <1>0, <1>1 DEF Routable, TextAt
<1> QED BY <1>2, <1>6, <1>7, <1>8

LEMMA TextsDoNotClash ==
    ASSUME NEW p, NEW q, AllText(p), AllText(q)
    PROVE  ~Clash(p, q)
<1>1. p \in Seq(Seg) /\ q \in Seq(Seg) /\ Len(p) \in Nat /\ Len(q) \in Nat
  <2>1. p \in Seq(Seg) /\ q \in Seq(Seg)
    BY DEF AllText
  <2> QED BY <2>1
<1>2. (\A i \in 1..Len(p) : p[i] \in Seg /\ p[i].kind = "lit" /\ Edge(p[i]) = p[i])
      /\ \A i \in 1..Len(q) : q[i] \in Seg /\ q[i].kind = "lit" /\ Edge(q[i]) = q[i]
  <2>1. ASSUME NEW u, AllText(u), NEW i \in 1..Len(u)
        PROVE  u[i] \in Seg /\ u[i].kind = "lit" /\ Edge(u[i]) = u[i]
    <3>1. u \in Seq(Seg) /\ TextAt(u, i)
      BY <2>1 DEF AllText
    <3> QED BY <3>1, SegmentAt, EdgeFacts DEF TextAt
  <2> QED BY <2>1
<1> SUFFICES ASSUME p # q PROVE Agree(p, q)
  BY <1>1, ClashIff, NoClashWithSelf
<1>3. Shape(p) = p /\ Shape(q) = q
  <2>1. ASSUME NEW u, u \in Seq(Seg), \A i \in 1..Len(u) : Edge(u[i]) = u[i] PROVE Shape(u) = u
    <3>1. Shape(u) \in Seq(Seg) /\ Len(Shape(u)) = Len(u) /\ \A i \in 1..Len(u) : Shape(u)[i] = Edge(u[i])
      BY <2>1, ShapeFacts
    <3>2. \A i \in 1..Len(Shape(u)) : Shape(u)[i] = u[i]
      BY <2>1, <3>1
    <3> QED BY <2>1, <3>1, <3>2, SameNode
  <2> QED BY <1>1, <1>2, <2>1
<1>4. ASSUME NEW k \in 1..Len(p), k <= Len(q), Node(p, k) = Node(q, k) PROVE p[k].text = q[k].text
  <2>1. k \in 0..Len(p) /\ k \in 0..Len(q) /\ k \in 1..k /\ k \in 1..Len(q)
    BY <1>1, <1>4
  <2>2. Node(p, k)[k] = Edge(p[k]) /\ Node(q, k)[k] = Edge(q[k])
    BY <1>1, <2>1, NodeFacts
  <2> QED BY <1>2, <1>4, <2>1, <2>2
<1> QED BY <1>3, <1>4 DEF Agree

LEMMA StudioLoads ==
    ASSUME NEW d, NEW c, WrittenFor(Studio, d[Studio], c)
    PROVE  Load(d[Studio].file).ok <=> d[Studio].fault # "lost"
<1> DEFINE X == Claims(Studio, d)
           pats == {Segments(x.url) : x \in X}
           urls == {x.url : x \in X}
<1>1. \A x \in X : AllText(x.url)
  <2> SUFFICES ASSUME NEW x \in X PROVE AllText(x.url)
    OBVIOUS
  <2>1. X = ClaimsOf(Studio, d[Studio].content)
    BY ClaimsAre
  <2>2. x = StudioPage \/ x \in {ActionClaim(r) : r \in ToSet(StudioRoutes)}
    BY <2>1 DEF ClaimsOf
  <2>3. CASE x = StudioPage
    <3>1. x.url = <<>>
      BY <2>3 DEF StudioPage
    <3> QED BY <3>1 DEF AllText
  <2>4. CASE x \in {ActionClaim(r) : r \in ToSet(StudioRoutes)}
    <3>1. PICK r \in ToSet(StudioRoutes) : x = ActionClaim(r)
      BY <2>4
    <3>2. x.url = r.url
      BY <3>1 DEF ActionClaim
    <3>3. r.url \in DOMAIN Hash
      BY StudioConstants DEF IsRoute
    <3>4. r.url \in Seq(Seg)
      BY <3>3, HashedUrl
    <3>5. DOMAIN r.url = 1..Len(r.url)
      BY <3>4
    <3>6. \A i \in DOMAIN r.url : TextAt(r.url, i)
      BY StudioConstants DEF TextAt
    <3> QED BY <3>2, <3>4, <3>5, <3>6 DEF AllText
  <2> QED BY <2>2, <2>3, <2>4
<1>2. Studio \in 1..Studio
  BY SitesKnown
<1>3. Load(d[Studio].file).ok <=> /\ d[Studio].fault # "lost"
                                  /\ Cardinality(urls) = Cardinality(pats)
                                  /\ \A u \in urls : Routable(u)
                                  /\ \A p, q \in pats : ~Clash(p, q)
  BY <1>2, LoadsUnless
<1> HIDE DEF X
<1>4. \A x \in X : Segments(x.url) = x.url /\ Routable(x.url)
  BY <1>1, TextSegments
<1>5. pats = urls
  BY <1>4
<1>6. \A p, q \in pats : ~Clash(p, q)
  <2>1. \A p \in urls : AllText(p)
    BY <1>1
  <2> QED BY <1>5, <2>1, TextsDoNotClash
<1>7. \A u \in urls : Routable(u)
  BY <1>4
<1> HIDE DEF pats, urls
<1> QED BY <1>3, <1>5, <1>6, <1>7

LEMMA HostGetsSite ==
    ASSUME SiteIInv, reply # Absent
    PROVE  HostSite(st, reply.req.host) = SiteFor(reply.req.host)
<1> DEFINE h == reply.req.host
           d == st.from
           f == d[Studio]
<1>1. AllBuilt(d) /\ HostSite(st, h) = SiteOfHost(h, Sites(d))
  BY RequestServed
<1>2. Studio \in 1..Studio /\ Studio # Studio - 1
  <2>1. Studio \in Nat /\ Studio # 0
    BY SitesKnown
  <2> QED BY <2>1
<1>3. f # Absent => (Load(f.file).ok <=> f.fault # "lost")
  <2> SUFFICES ASSUME f # Absent PROVE Load(f.file).ok <=> f.fault # "lost"
    OBVIOUS
  <2>1. PICK c : WrittenFor(Studio, f, c)
    BY <1>1, <1>2 DEF AllBuilt, Built
  <2> QED BY <2>1, StudioLoads
<1>4. Sites(d) = Studio <=> f # Absent /\ f.fault # "lost"
  BY <1>2, <1>3 DEF Sites, Whole
<1>5. SiteFor(h) = IF h = StudioHost /\ f # Absent /\ f.fault # "lost" THEN Studio
                   ELSE IF Named(h) # {} THEN Max(Named(h)) ELSE Max(Named("*") \cup {1})
  BY DEF SiteFor, Named
<1>6. SiteOfHost(h, Sites(d)) = IF h = StudioHost /\ Sites(d) = Studio THEN Studio
                   ELSE IF Named(h) # {} THEN Max(Named(h)) ELSE Max(Named("*") \cup {1})
  BY DEF SiteOfHost
<1> QED BY <1>1, <1>4, <1>5, <1>6

-----------------------------------------------------------------------------
(* The head and the bytes of a variant.                                      *)
LEMMA HeadIs ==
    ASSUME NEW all, NEW reg, NEW head \in ToSet(all), IsSeq(all), Begins(all, reg)
    PROVE  HeadAt(reg, IndexOf(all, head) - 1) = head
<1> DEFINE i == IndexOf(all, head)
<1>1. i \in 1..Len(all) /\ all[i] = head /\ Len(all) \in Nat
  BY IndexOfIn, SeqFacts
<1> HIDE DEF i
<1>2. reg[i] = head /\ i <= Len(reg) /\ Len(reg) \in Nat
  BY <1>1, SeqFacts DEF Begins
<1>3. i - 1 < Len(reg) /\ (i - 1) + 1 = i
  BY <1>1, <1>2
<1>4. HeadAt(reg, i - 1) = reg[(i - 1) + 1]
  BY <1>3 DEF HeadAt
<1> QED BY <1>2, <1>3, <1>4 DEF i

LEMMA ErrorHead ==
    ASSUME NEW reg, Begins(DefaultRegistry, reg)
    PROVE  HeadAt(reg, HeadID500) = StatusHead(500)
<1> DEFINE a == NoHead
           b == StatusHead(404)
           c == StatusHead(500)
<1>1. DefaultRegistry = <<a, b, c>>
  BY DEF DefaultRegistry
<1> HIDE DEF a, b, c
<1>2. Len(DefaultRegistry) = 3 /\ DefaultRegistry[3] = c
  BY <1>1
<1>3. Len(reg) \in Nat /\ 3 <= Len(reg) /\ reg[3] = c
  BY <1>2, SeqFacts DEF Begins
<1>4. HeadAt(reg, HeadID500) = reg[3]
  BY <1>3 DEF HeadAt, HeadID500
<1> QED BY <1>3, <1>4 DEF c

LEMMA MovedIs ==
    ASSUME NEW all, NEW mimes, NEW v, v = [head |-> v.head, off |-> v.off, len |-> v.len], v.len \in Nat
    PROVE  LET o == moved(all, mimes, v)
           IN  /\ o.off = v.off /\ o.len = v.len
               /\ v.len > 0 => o.head = MimeID(all, mimes[v.head + 1])
<1> DEFINE h == MimeID(all, mimes[v.head + 1])
           w == [v EXCEPT !.head = h]
           o == moved(all, mimes, v)
<1>1. o = IF v.len > 0 THEN w ELSE v
  BY DEF moved
<1> HIDE DEF h, o
<1>2. w.head = h /\ w.off = v.off /\ w.len = v.len
  OBVIOUS
<1> HIDE DEF w
<1>3. o.off = v.off /\ o.len = v.len /\ (v.len > 0 => o.head = h)
  BY <1>1, <1>2
<1> QED BY <1>3 DEF o, h

VariantIs(d, state, s, i, x, enc) ==
    LET v == state.ms[s].table[i].variants[enc]
    IN  /\ v.len = Len(Bytes(x, enc))
        /\ v.len > 0 => HeadAt(state.reg, v.head) = MimeHead(<<x.mime, enc>>)

LEMMA VariantHolds ==
    ASSUME NEW d, NEW state, NEW s, NEW c, NEW all, Serving(d, state, s, c, all),
           NEW i, NEW x, EntryFor(d, state, s, c, all, i, x), NEW enc \in Encodings
    PROVE  /\ VariantIs(d, state, s, i, x, enc)
           /\ state.ms[s].table[i].variants[enc].off = d[s].file.table[i].variants[enc].off
<1> DEFINE v == d[s].file.table[i].variants[enc]
           o == state.ms[s].table[i].variants[enc]
           mimes == d[s].file.mimes
           b == Bytes(x, enc)
           key == <<x.mime, enc>>
<1>1. o = moved(all, mimes, v)
  BY DEF EntryFor
<1>2. PutAt(c, v, key, b)
  BY DEF EntryFor, Describes, VariantOK
<1>3. mimes = c.mimes /\ IsSeq(c.mimes)
  <2>1. WrittenFor(s, d[s], c)
    BY DEF Serving
  <2>2. Sections(d[s].file, c, d[s].fault)
    BY <2>1, WrittenSections
  <2> QED BY <2>1, <2>2 DEF Sections, WrittenFor, Compiled, IsCompiler
<1>4. IsSeq(all) /\ Begins(all, state.reg) /\ ToSet(MimeHeads(mimes)) \subseteq ToSet(all)
  BY DEF Serving
<1> HIDE DEF v, o, mimes, b, key
<1>5. v = [head |-> v.head, off |-> v.off, len |-> v.len] /\ v.len = Len(b) /\ IsSeq(b)
      /\ (v.len > 0 => v.head + 1 \in 1..Len(c.mimes) /\ c.mimes[v.head + 1] = key)
  BY <1>2 DEF PutAt, Held
<1>6. v.len \in Nat
  BY <1>5, SeqFacts
<1>7. o.off = v.off /\ o.len = v.len /\ (v.len > 0 => o.head = MimeID(all, mimes[v.head + 1]))
  BY <1>1, <1>5, <1>6, MovedIs
<1>8. ASSUME v.len > 0 PROVE HeadAt(state.reg, o.head) = MimeHead(key)
  <2> DEFINE n == v.head + 1
             H == MimeHead(key)
             heads == MimeHeads(mimes)
  <2>1. n \in 1..Len(mimes) /\ mimes[n] = key
    BY <1>3, <1>5, <1>8
  <2>2. IsSeq(heads) /\ Len(heads) = Len(mimes) /\ heads[n] = H
    BY <1>3, <2>1, HeadsAreSeq
  <2> HIDE DEF n, H, heads
  <2>3. H \in ToSet(heads)
    BY <2>1, <2>2, InToSet
  <2>4. H \in ToSet(all)
    BY <1>4, <2>3 DEF heads
  <2>5. o.head = IndexOf(all, H) - 1
    BY <1>7, <1>8, <2>1 DEF MimeID, H, n
  <2>6. HeadAt(state.reg, IndexOf(all, H) - 1) = H
    BY <1>4, <2>4, HeadIs
  <2> QED BY <2>5, <2>6 DEF H
<1>9. VariantIs(d, state, s, i, x, enc)
  BY <1>5, <1>7, <1>8 DEF VariantIs, o, b, key
<1> QED BY <1>7, <1>9 DEF o, v

Sliced(o, w, fault) ==
    /\ IsSeq(o) /\ IsSeq(w) /\ Len(o) = Len(w)
    /\ \A i \in 1..Len(w) : o[i] = w[i] \/ (fault = "short" /\ o[i] = Foreign)

LEMMA SliceWhole ==
    ASSUME NEW p, IsSeq(p), NEW off, NEW b, Held(p, off, b), NEW fault
    PROVE  LET m == Append(p, Foreign)
           IN  ~(off + Len(b) > Len(m)) /\ Sliced(SubSeq(m, off + 1, off + Len(b)), b, fault)
<1> DEFINE m == Append(p, Foreign)
           o == SubSeq(m, off + 1, off + Len(b))
<1>1. Held(m, off, b)
  BY BeginsAppend, HeldGrows
<1>2. IsSeq(m) /\ Len(m) \in Nat
  BY AppendSeq, SeqFacts
<1> HIDE DEF m
<1>3. off \in Nat /\ IsSeq(b) /\ Len(b) \in Nat /\ off + Len(b) <= Len(m) /\ o = b
  BY <1>1, SeqFacts DEF Held
<1> HIDE DEF o
<1>4. Sliced(o, b, fault) /\ ~(off + Len(b) > Len(m))
  BY <1>2, <1>3 DEF Sliced
<1> QED BY <1>4 DEF o, m

LEMMA SliceShort ==
    ASSUME NEW p, IsSeq(p), NEW off, NEW b, Held(p, off, b), NEW n \in Nat, n <= Len(p),
           ~(off + Len(b) > Len(Append(SubSeq(p, 1, n), Foreign)))
    PROVE  Sliced(SubSeq(Append(SubSeq(p, 1, n), Foreign), off + 1, off + Len(b)), b, "short")
<1> DEFINE q == SubSeq(p, 1, n)
           m == Append(q, Foreign)
           k == Len(b)
           o == SubSeq(m, off + 1, off + k)
<1>1. off \in Nat /\ IsSeq(b) /\ k \in Nat /\ Len(p) \in Nat /\ off + k <= Len(p) /\ SubSeq(p, off + 1, off + k) = b
  BY SeqFacts DEF Held
<1>2. IsSeq(q) /\ Len(q) = n /\ \A j \in 1..n : q[j] = p[j]
  <2>1. IsSeq(q) /\ Len(q) = IF 1 <= n THEN n - 1 + 1 ELSE 0
    BY PartSeq
  <2>2. \A j \in 1..(n - 1 + 1) : q[j] = p[1 + j - 1]
    BY PartSeq
  <2>3. n - 1 + 1 = n /\ \A j \in 1..n : 1 + j - 1 = j
    OBVIOUS
  <2> HIDE DEF q
  <2>4. \A j \in 1..n : q[j] = p[j]
    BY <2>2, <2>3
  <2>5. Len(q) = n
    BY <2>1
  <2> QED BY <2>1, <2>4, <2>5
<1> HIDE DEF q
<1>3. IsSeq(m) /\ Len(m) = n + 1 /\ (\A j \in 1..n : m[j] = q[j]) /\ m[n + 1] = Foreign
  BY <1>2, AppendSeq
<1> HIDE DEF m
<1>4. off + k <= n + 1
  <2>1. ~(off + k > Len(m))
    BY DEF m, q
  <2> QED BY <1>1, <1>3, <2>1
<1>5. IsSeq(o) /\ Len(o) = k /\ \A j \in 1..k : o[j] = m[off + j]
  <2> DEFINE x == off + 1  y == off + k
  <2>1. x \in Int /\ y \in Int /\ y - x + 1 = k /\ (x <= y \/ k = 0) /\ \A j \in 1..k : x + j - 1 = off + j
    BY <1>1
  <2> HIDE DEF x, y
  <2>2. IsSeq(SubSeq(m, x, y)) /\ Len(SubSeq(m, x, y)) = (IF x <= y THEN y - x + 1 ELSE 0)
        /\ \A j \in 1..(y - x + 1) : SubSeq(m, x, y)[j] = m[x + j - 1]
    BY <2>1, PartSeq
  <2>3. Len(SubSeq(m, x, y)) = k
    BY <1>1, <2>1, <2>2 DEF x, y
  <2>4. \A j \in 1..k : SubSeq(m, x, y)[j] = m[off + j]
    BY <2>1, <2>2
  <2> QED BY <2>2, <2>3, <2>4 DEF x, y
<1>6. \A j \in 1..k : b[j] = p[off + j]
  <2> DEFINE x == off + 1  y == off + k
  <2>1. x \in Int /\ y \in Int /\ y - x + 1 = k /\ \A j \in 1..k : x + j - 1 = off + j
    BY <1>1
  <2> HIDE DEF x, y
  <2>2. \A j \in 1..(y - x + 1) : SubSeq(p, x, y)[j] = p[x + j - 1]
    BY <2>1, PartSeq
  <2>3. \A j \in 1..k : SubSeq(p, x, y)[j] = p[off + j]
    BY <2>1, <2>2
  <2> QED BY <1>1, <2>3 DEF x, y
<1> HIDE DEF o
<1>7. \A j \in 1..k : o[j] = b[j] \/ o[j] = Foreign
  <2> SUFFICES ASSUME NEW j \in 1..k PROVE o[j] = b[j] \/ o[j] = Foreign
    OBVIOUS
  <2>1. off + j \in 1..n \/ off + j = n + 1
    BY <1>1, <1>4
  <2> QED BY <1>2, <1>3, <1>5, <1>6, <2>1
<1>8. Sliced(o, b, "short")
  BY <1>1, <1>5, <1>7 DEF Sliced
<1> QED BY <1>8 DEF o, m, q

SliceIs(d, m, s, v, b) ==
    /\ v.off + v.len > Len(Mapped(m)) => d[s].fault = "short"
    /\ ~(v.off + v.len > Len(Mapped(m))) => Sliced(Slice(m, v), b, d[s].fault)

LEMMA SliceHolds ==
    ASSUME NEW d, NEW state, NEW s, NEW c, NEW all, Serving(d, state, s, c, all),
           NEW i, NEW x, EntryFor(d, state, s, c, all, i, x), NEW enc \in Encodings
    PROVE  SliceIs(d, state.ms[s], s, state.ms[s].table[i].variants[enc], Bytes(x, enc))
<1> DEFINE m == state.ms[s]
           v == m.table[i].variants[enc]
           b == Bytes(x, enc)
           p == c.payloads
           n == Len(p) \div 2
           fault == d[s].fault
           len == Len(b)
           off == v.off
<1>1. v.len = len
  <2>1. VariantIs(d, state, s, i, x, enc)
    BY VariantHolds
  <2> QED BY <2>1 DEF VariantIs
<1>2. Held(p, off, b)
  <2>1. off = d[s].file.table[i].variants[enc].off
    BY VariantHolds
  <2>2. PutAt(c, d[s].file.table[i].variants[enc], <<x.mime, enc>>, b)
    BY DEF EntryFor, Describes, VariantOK
  <2> QED BY <2>1, <2>2 DEF PutAt
<1>3. IsSeq(p) /\ m.payloads = IF fault = "short" THEN SubSeq(p, 1, n) ELSE p
  <2>1. WrittenFor(s, d[s], c) /\ RemappedTo(m, Load(d[s].file), all)
    BY DEF Serving
  <2>2. Sections(d[s].file, c, fault)
    BY <2>1, WrittenSections
  <2>3. Load(d[s].file).payloads = d[s].file.payloads
    BY LoadIs
  <2> QED BY <2>1, <2>2, <2>3 DEF Sections, WrittenFor, Compiled, IsCompiler, RemappedTo
<1>4. n \in Nat /\ n <= Len(p)
  <2>1. Len(p) \in Nat
    BY <1>3, SeqFacts
  <2>2. \A k \in Nat : k \div 2 \in Nat /\ k \div 2 <= k
    OBVIOUS
  <2> QED BY <2>1, <2>2
<1>5. Mapped(m) = Append(m.payloads, Foreign) /\ Slice(m, v) = SubSeq(Mapped(m), off + 1, off + len)
  BY <1>1 DEF Mapped, Slice
<1> HIDE DEF m, v, b, p, n, fault
<1>6. CASE fault = "short"
  <2>1. ~(off + len > Len(Mapped(m))) => Sliced(Slice(m, v), b, "short")
    BY <1>2, <1>3, <1>4, <1>5, <1>6, SliceShort
  <2>2. SliceIs(d, m, s, v, b)
    BY <1>1, <1>6, <2>1 DEF SliceIs, fault
  <2> QED BY <2>2 DEF m, v, b
<1>7. CASE fault # "short"
  <2>1. ~(off + len > Len(Mapped(m))) /\ Sliced(Slice(m, v), b, fault)
    BY <1>2, <1>3, <1>5, <1>7, SliceWhole
  <2>2. SliceIs(d, m, s, v, b)
    BY <1>1, <2>1 DEF SliceIs, fault
  <2> QED BY <2>2 DEF m, v, b
<1> QED BY <1>6, <1>7

-----------------------------------------------------------------------------
(* Wanted, branch by branch, and a reply that agrees with it.                *)
EncOf(x, accept) ==
    IF (x.kind = "static" /\ x.mime \notin Compressible) \/ (x.kind = "hole" /\ ~x.tables) THEN "identity"
    ELSE IF "br" \in accept THEN "br" ELSE IF "gzip" \in accept THEN "gzip" ELSE "identity"
BodyOf(x, enc) == IF enc = "identity" THEN x.body ELSE Compressed(x.body, enc)
Wants(x, rq, segs, w) ==
    /\ rq.method \notin MethodsOf(x) =>
          w = Reply("notAllowed", [status |-> 405, allow |-> MethodsOf(x)], <<>>, <<>>, <<>>)
    /\ rq.method \in MethodsOf(x) /\ ToSet(MwOf(x)) \cap rq.deny # {} =>
          w = Reply("refused", NoHead, <<>>, RunChain(MwOf(x), rq.deny), <<>>)
    /\ rq.method \in MethodsOf(x) /\ ToSet(MwOf(x)) \cap rq.deny = {} =>
          LET enc == EncOf(x, rq.accept)
              params == Captures(Segments(x.url), segs)
          IN  /\ x.kind = "static" =>
                    w = Reply("body", MimeHead(<<x.mime, enc>>), BodyOf(x, enc), <<>>, params)
              /\ x.kind = "hole" =>
                    w = Reply("hole", MimeHead(<<x.mime, enc>>), Rendered(enc, x.src, x.body), <<>>, params)
              /\ x.kind = "file" => w = Reply("file", NoHead, <<x.src>>, <<>>, params)
              /\ x.kind = "action" /\ x.action \in Handlers =>
                    w = Reply("action", NoHead, <<x.action>>, MwOf(x), params)
              /\ x.kind = "action" /\ x.action \notin Handlers =>
                    w = Reply("error", StatusHead(500), <<>>, <<>>, <<>>)

LEMMA WantedIs ==
    ASSUME NEW x, NEW rq, NEW segs
    PROVE  Wants(x, rq, segs, Wanted(x, rq, segs))
<1> DEFINE w == Wanted(x, rq, segs)
           enc == EncOf(x, rq.accept)
           params == Captures(Segments(x.url), segs)
           a == Reply("notAllowed", [status |-> 405, allow |-> MethodsOf(x)], <<>>, <<>>, <<>>)
           r == Reply("refused", NoHead, <<>>, RunChain(MwOf(x), rq.deny), <<>>)
           b == Reply("body", MimeHead(<<x.mime, enc>>), BodyOf(x, enc), <<>>, params)
           h == Reply("hole", MimeHead(<<x.mime, enc>>), Rendered(enc, x.src, x.body), <<>>, params)
           f == Reply("file", NoHead, <<x.src>>, <<>>, params)
           y == Reply("action", NoHead, <<x.action>>, MwOf(x), params)
           z == Reply("error", StatusHead(500), <<>>, <<>>, <<>>)
           allowed == rq.method \in MethodsOf(x)
           clash == ToSet(MwOf(x)) \cap rq.deny
           kind == x.kind
           known == x.action \in Handlers
<1>1. w = IF ~allowed THEN a ELSE IF clash # {} THEN r
          ELSE CASE kind = "static" -> b [] kind = "hole" -> h [] kind = "file" -> f
                 [] kind = "action" /\ known -> y [] OTHER -> z
  BY DEF Wanted, MethodsOf, MwOf, EncOf, BodyOf
<1>2. Wants(x, rq, segs, w) <=>
          /\ ~allowed => w = a
          /\ allowed /\ clash # {} => w = r
          /\ allowed /\ clash = {} =>
                /\ kind = "static" => w = b
                /\ kind = "hole" => w = h
                /\ kind = "file" => w = f
                /\ kind = "action" /\ known => w = y
                /\ kind = "action" /\ ~known => w = z
  BY DEF Wants
<1> HIDE DEF w, a, r, b, h, f, y, z, allowed, clash, kind, known
<1>3. /\ ~allowed => w = a
      /\ allowed /\ clash # {} => w = r
  BY <1>1
<1>4. ASSUME allowed, clash = {}
      PROVE  /\ kind = "static" => w = b
             /\ kind = "hole" => w = h
             /\ kind = "file" => w = f
             /\ kind = "action" /\ known => w = y
             /\ kind = "action" /\ ~known => w = z
  BY <1>1, <1>4
<1>5. Wants(x, rq, segs, w)
  BY <1>2, <1>3, <1>4
<1> QED BY <1>5 DEF w

Agrees(o, w, fault) ==
    /\ o = [w EXCEPT !.body = o.body]
    /\ Len(o.body) = Len(w.body)
    /\ \A i \in DOMAIN w.body : o.body[i] = w.body[i] \/ (fault = "short" /\ o.body[i] = Foreign)
Answered(x, w, o, fault) ==
    IF x.kind = "static" /\ x.body = <<>> THEN o.body = <<>> ELSE Agrees(o, w, fault)

LEMMA SlicedAgrees ==
    ASSUME NEW kind, NEW head, NEW a, NEW b, NEW ran, NEW params, NEW fault, Sliced(a, b, fault)
    PROVE  Agrees(Reply(kind, head, a, ran, params), Reply(kind, head, b, ran, params), fault)
<1> DEFINE o == Reply(kind, head, a, ran, params)
           w == Reply(kind, head, b, ran, params)
<1>1. o.body = a /\ w.body = b
  BY DEF Reply
<1>2. [w EXCEPT !.body = a] = o
  BY DEF Reply
<1>3. DOMAIN b = 1..Len(b) /\ Len(a) = Len(b)
      /\ \A i \in 1..Len(b) : a[i] = b[i] \/ (fault = "short" /\ a[i] = Foreign)
  BY SeqFacts DEF Sliced
<1> HIDE DEF o, w
<1>4. Agrees(o, w, fault)
  BY <1>1, <1>2, <1>3 DEF Agrees
<1> QED BY <1>4 DEF o, w

LEMMA SlicedSame == ASSUME NEW b, IsSeq(b), NEW fault PROVE Sliced(b, b, fault)
  BY DEF Sliced

LEMMA SameAgrees ==
    ASSUME NEW kind, NEW head, NEW b, IsSeq(b), NEW ran, NEW params, NEW fault
    PROVE  Agrees(Reply(kind, head, b, ran, params), Reply(kind, head, b, ran, params), fault)
  BY SlicedSame, SlicedAgrees

LEMMA SlicedConcat ==
    ASSUME NEW a, NEW b, NEW p, IsSeq(p), NEW fault, Sliced(a, b, fault)
    PROVE  Sliced(p \o a, p \o b, fault)
<1> DEFINE m == Len(p)
           n == Len(b)
           u == p \o a
           w == p \o b
<1>1. IsSeq(a) /\ IsSeq(b) /\ Len(a) = n /\ m \in Nat /\ n \in Nat
      /\ \A i \in 1..n : a[i] = b[i] \/ (fault = "short" /\ a[i] = Foreign)
  BY SeqFacts DEF Sliced
<1>2. IsSeq(u) /\ IsSeq(w) /\ Len(u) = m + n /\ Len(w) = m + n
      /\ (\A i \in 1..m : u[i] = p[i] /\ w[i] = p[i])
      /\ \A i \in 1..n : u[m + i] = a[i] /\ w[m + i] = b[i]
  BY <1>1, ConcatSeq
<1> HIDE DEF m, n, u, w
<1>3. \A i \in 1..(m + n) : u[i] = w[i] \/ (fault = "short" /\ u[i] = Foreign)
  <2> SUFFICES ASSUME NEW i \in 1..(m + n) PROVE u[i] = w[i] \/ (fault = "short" /\ u[i] = Foreign)
    OBVIOUS
  <2>1. CASE i \in 1..m
    BY <1>2, <2>1
  <2>2. CASE i \notin 1..m
    <3>1. i - m \in 1..n /\ m + (i - m) = i
      BY <1>1, <2>2
    <3> QED BY <1>1, <1>2, <3>1
  <2> QED BY <2>1, <2>2
<1>4. Sliced(u, w, fault)
  BY <1>2, <1>3 DEF Sliced
<1> QED BY <1>4 DEF u, w

-----------------------------------------------------------------------------
(* What the entry of a claim answers a request that passes.                  *)
PickEnc(e, accept) ==
    IF "br" \in accept /\ e.variants["br"].len > 0 THEN "br"
    ELSE IF "gzip" \in accept /\ e.variants["gzip"].len > 0 THEN "gzip" ELSE "identity"

LEMMA PickIs ==
    ASSUME NEW e, NEW accept
    PROVE  pickVariant(e, accept) = e.variants[PickEnc(e, accept)] /\ PickEnc(e, accept) \in Encodings
<1> DEFINE b == "br" \in accept /\ e.variants["br"].len > 0
           g == "gzip" \in accept /\ e.variants["gzip"].len > 0
           k == PickEnc(e, accept)
           u == CHOOSE enc \in Encodings : IF b THEN enc = "br" ELSE IF g THEN enc = "gzip" ELSE enc = "identity"
<1>1. pickVariant(e, accept) = e.variants[u]
  BY DEF pickVariant
<1>2. k = IF b THEN "br" ELSE IF g THEN "gzip" ELSE "identity"
  BY DEF PickEnc
<1> HIDE DEF b, g, k
<1>3. k \in Encodings /\ IF b THEN k = "br" ELSE IF g THEN k = "gzip" ELSE k = "identity"
  BY <1>2 DEF Encodings
<1>4. u \in Encodings /\ IF b THEN u = "br" ELSE IF g THEN u = "gzip" ELSE u = "identity"
  BY <1>3
<1> HIDE DEF u
<1>5. u = k
  BY <1>2, <1>4
<1> QED BY <1>1, <1>3, <1>5 DEF k

LEMMA EmptySliced ==
    ASSUME NEW a, NEW b, b = <<>>, NEW fault, Sliced(a, b, fault)
    PROVE  a = <<>>
<1>1. IsSeq(a) /\ Len(a) = 0
  BY DEF Sliced
<1> QED BY <1>1, EmptyIsSeq, SeqEq, 1..0 = {}

LEMMA NotEmptyLen == ASSUME NEW b, IsSeq(b), b # <<>> PROVE Len(b) > 0
<1>1. Len(b) # 0
  BY EmptyIsSeq, SeqEq, 1..0 = {}
<1> QED BY <1>1, SeqFacts

LEMMA PickedFor ==
    ASSUME NEW d, NEW state, NEW s, NEW c, NEW all, Serving(d, state, s, c, all),
           NEW i, NEW x, EntryFor(d, state, s, c, all, i, x), x.kind = "static", IsSeq(x.body),
           x.body # <<>>, NEW accept
    PROVE  LET enc == PickEnc(state.ms[s].table[i], accept)
           IN  enc = EncOf(x, accept) /\ Bytes(x, enc) = BodyOf(x, enc) /\ Len(Bytes(x, enc)) > 0
<1> DEFINE e == state.ms[s].table[i]
           enc == PickEnc(e, accept)
           fits == x.mime \in Compressible
           body == x.body
<1>1. \A k \in Encodings : e.variants[k].len = Len(Bytes(x, k))
  <2> SUFFICES ASSUME NEW k \in Encodings PROVE e.variants[k].len = Len(Bytes(x, k))
    OBVIOUS
  <2>1. VariantIs(d, state, s, i, x, k)
    BY VariantHolds
  <2> QED BY <2>1 DEF VariantIs
<1>2. Len(body) > 0
  BY NotEmptyLen
<1>3. \A k : Len(Compressed(body, k)) = 1
  <2>1. \A k : Compressed(body, k) = <<[Head(body) EXCEPT !.enc = k]>>
    BY DEF Compressed
  <2>2. \A y : Len(<<y>>) = 1
    OBVIOUS
  <2> QED BY <2>1, <2>2
<1>4. /\ Bytes(x, "identity") = body
      /\ \A k \in {"br", "gzip"} : Bytes(x, k) = IF fits THEN Compressed(body, k) ELSE <<>>
  BY DEF Bytes
<1>5. Len(<<>>) = 0
  OBVIOUS
<1>6. \A k \in {"br", "gzip"} : e.variants[k].len > 0 <=> fits
  <2> SUFFICES ASSUME NEW k \in {"br", "gzip"} PROVE e.variants[k].len > 0 <=> fits
    OBVIOUS
  <2>1. e.variants[k].len = Len(Bytes(x, k))
    BY <1>1 DEF Encodings
  <2>2. CASE fits
    <3>1. e.variants[k].len = 1
      BY <1>3, <1>4, <2>1, <2>2
    <3> QED BY <2>2, <3>1
  <2>3. CASE ~fits
    <3>1. e.variants[k].len = 0
      BY <1>4, <1>5, <2>1, <2>3
    <3> QED BY <2>3, <3>1
  <2> QED BY <2>2, <2>3
<1>7. enc = IF "br" \in accept /\ fits THEN "br" ELSE IF "gzip" \in accept /\ fits THEN "gzip" ELSE "identity"
  BY <1>6 DEF PickEnc
<1>8. EncOf(x, accept) = IF ~fits THEN "identity" ELSE IF "br" \in accept THEN "br"
                         ELSE IF "gzip" \in accept THEN "gzip" ELSE "identity"
  BY DEF EncOf
<1> HIDE DEF e, enc, fits, body
<1>9. enc = EncOf(x, accept) /\ (enc # "identity" => fits /\ enc \in {"br", "gzip"})
  BY <1>7, <1>8
<1>10. Bytes(x, enc) = BodyOf(x, enc) /\ Len(Bytes(x, enc)) > 0
  <2>1. CASE enc = "identity"
    BY <1>2, <1>4, <2>1 DEF BodyOf, body
  <2>2. CASE enc # "identity"
    <3>1. Bytes(x, enc) = Compressed(body, enc)
      BY <1>4, <1>9, <2>2
    <3>2. Len(Bytes(x, enc)) = 1
      BY <1>3, <3>1
    <3> QED BY <2>2, <3>1, <3>2 DEF BodyOf, body
  <2> QED BY <2>1, <2>2
<1> QED BY <1>9, <1>10 DEF enc, e

(* The bytes and the head of a page, cut out of the payloads.                *)
PageIs(d, state, s, x, v, accept) ==
    LET m == state.ms[s]
        fault == d[s].fault
        enc == EncOf(x, accept)
    IN  /\ v.off + v.len > Len(Mapped(m)) => fault = "short"
        /\ ~(v.off + v.len > Len(Mapped(m))) /\ x.body = <<>> => Slice(m, v) = <<>>
        /\ ~(v.off + v.len > Len(Mapped(m))) /\ x.body # <<>> =>
              HeadAt(state.reg, v.head) = MimeHead(<<x.mime, enc>>) /\ Sliced(Slice(m, v), BodyOf(x, enc), fault)

LEMMA StaticPage ==
    ASSUME NEW d, NEW state, NEW s, NEW c, NEW all, Serving(d, state, s, c, all),
           NEW i, NEW x, EntryFor(d, state, s, c, all, i, x), x.kind = "static", IsSeq(x.body), NEW accept
    PROVE  /\ state.ms[s].table[i].hole = 0
           /\ PageIs(d, state, s, x, Picked(state.ms[s].table[i], accept), accept)
<1> DEFINE m == state.ms[s]
           e == m.table[i]
           enc == PickEnc(e, accept)
           v == e.variants[enc]
           fault == d[s].fault
           far == v.off + v.len > Len(Mapped(m))
<1>1. e.hole = 0
  <2>1. HoleOK(c, d[s].file.table[i], x) /\ e.hole = d[s].file.table[i].hole
    BY DEF EntryFor, Describes
  <2> QED BY <2>1 DEF HoleOK
<1>2. enc \in Encodings /\ Picked(e, accept) = v
  BY <1>1, PickIs DEF Picked
<1>3. SliceIs(d, m, s, v, Bytes(x, enc)) /\ VariantIs(d, state, s, i, x, enc)
  BY <1>2, SliceHolds, VariantHolds
<1>4. /\ far => fault = "short"
      /\ ~far => Sliced(Slice(m, v), Bytes(x, enc), fault)
  BY <1>3 DEF SliceIs
<1>5. v.len = Len(Bytes(x, enc)) /\ (v.len > 0 => HeadAt(state.reg, v.head) = MimeHead(<<x.mime, enc>>))
  BY <1>3 DEF VariantIs
<1>6. CASE x.body = <<>>
  <2>1. Bytes(x, enc) = <<>>
    BY <1>2, <1>6 DEF Bytes
  <2>2. ~far => Slice(m, v) = <<>>
    BY <1>4, <2>1, EmptySliced
  <2>3. PageIs(d, state, s, x, v, accept)
    BY <1>4, <1>6, <2>2 DEF PageIs
  <2> QED BY <1>1, <1>2, <2>3
<1>7. CASE x.body # <<>>
  <2>1. enc = EncOf(x, accept) /\ Bytes(x, enc) = BodyOf(x, enc) /\ Len(Bytes(x, enc)) > 0
    BY <1>7, PickedFor
  <2> HIDE DEF enc, v
  <2>2. HeadAt(state.reg, v.head) = MimeHead(<<x.mime, enc>>)
    BY <1>5, <2>1
  <2>3. PageIs(d, state, s, x, v, accept)
    BY <1>4, <1>7, <2>1, <2>2 DEF PageIs
  <2> QED BY <1>1, <1>2, <2>3 DEF v
<1> QED BY <1>6, <1>7

LEMMA BlobIs ==
    ASSUME NEW d, NEW state, NEW s, NEW c, NEW all, Serving(d, state, s, c, all),
           NEW i, NEW x, EntryFor(d, state, s, c, all, i, x), x.kind \in {"hole", "file"}
    PROVE  LET m == state.ms[s]
               e == m.table[i]
           IN  e.hole # 0 /\ m.holeBlobs[e.hole + 1] = BlobOf(x)
<1> DEFINE m == state.ms[s]
           e == m.table[i]
           f == d[s].file.table[i]
<1>1. HoleOK(c, f, x) /\ e.hole = f.hole
  BY DEF EntryFor, Describes
<1>2. f.hole # 0 /\ c.holeBlobs[f.hole + 1] = BlobOf(x)
  BY <1>1 DEF HoleOK
<1>3. m.holeBlobs = c.holeBlobs
  <2>1. WrittenFor(s, d[s], c) /\ RemappedTo(m, Load(d[s].file), all)
    BY DEF Serving
  <2>2. Sections(d[s].file, c, d[s].fault)
    BY <2>1, WrittenSections
  <2>3. Load(d[s].file).holeBlobs = d[s].file.holeBlobs
    BY LoadIs
  <2> QED BY <2>1, <2>2, <2>3 DEF Sections, RemappedTo
<1> QED BY <1>1, <1>2, <1>3

LEMMA HtmlHead ==
    ASSUME NEW d, NEW state, StateOf(d, state), NEW enc \in {"gzip", "br"}
    PROVE  HeadAt(state.reg, MimeID(state.reg, <<HTML, enc>>)) = MimeHead(<<HTML, enc>>)
<1> DEFINE H == MimeHead(<<HTML, enc>>)
           reg == state.reg
           a == <<"json", "identity">>
           b == <<HTML, "identity">>
           t == <<"text", "identity">>
           g == <<HTML, "gzip">>
           r == <<HTML, "br">>
           keys == <<a, b, t, g, r>>
<1>1. IsSeq(reg) /\ ToSet(BaseHeads) \subseteq ToSet(reg)
  BY DEF StateOf, Begins
<1>2. H \in ToSet(BaseHeads)
  <2>1. BaseHeads = MimeHeads(keys)
    BY DEF BaseHeads
  <2> HIDE DEF a, b, t, g, r
  <2>2. Len(keys) = 5 /\ IsSeq(keys) /\ keys[4] = g /\ keys[5] = r
    BY DEF IsSeq, ToSet
  <2> HIDE DEF keys
  <2>3. IsSeq(BaseHeads) /\ Len(BaseHeads) = 5 /\ BaseHeads[4] = MimeHead(g) /\ BaseHeads[5] = MimeHead(r)
    BY <2>1, <2>2, HeadsAreSeq
  <2>4. MimeHead(g) \in ToSet(BaseHeads) /\ MimeHead(r) \in ToSet(BaseHeads)
    BY <2>3, InToSet
  <2> QED BY <2>4 DEF g, r
<1> HIDE DEF H, reg
<1>3. H \in ToSet(reg)
  BY <1>1, <1>2
<1>4. HeadAt(reg, IndexOf(reg, H) - 1) = H
  BY <1>1, <1>3, HeadIs, BeginsSame
<1> QED BY <1>4 DEF H, reg, MimeID

(* A page with holes: its blob says whether it is kept in all encodings.     *)
HoleIs(d, state, s, i, x, accept) ==
    LET m == state.ms[s]
        e == m.table[i]
        v == Picked(e, accept)
        page == RenderedPage(state, m, e, accept)
        enc == EncOf(x, accept)
        fault == d[s].fault
    IN  /\ v.off + v.len > Len(Mapped(m)) => fault = "short"
        /\ ~(v.off + v.len > Len(Mapped(m))) =>
              page.head = MimeHead(<<x.mime, enc>>) /\ Sliced(page.body, Rendered(enc, x.src, x.body), fault)

LEMMA HolePage ==
    ASSUME NEW d, NEW state, StateOf(d, state), NEW s, NEW c, NEW all, Serving(d, state, s, c, all),
           NEW i, NEW x, EntryFor(d, state, s, c, all, i, x), x.kind = "hole",
           IsSeq(x.body), x.body # <<>>, x.mime = HTML, NEW accept
    PROVE  HoleIs(d, state, s, i, x, accept)
<1> DEFINE m == state.ms[s]
           e == m.table[i]
           v == e.variants["identity"]
           page == RenderedPage(state, m, e, accept)
           enc == EncOf(x, accept)
           fault == d[s].fault
           blob == m.holeBlobs[e.hole + 1]
           far == v.off + v.len > Len(Mapped(m))
           tables == x.tables
<1>1. e.hole # 0 /\ blob = BlobOf(x)
  BY BlobIs
<1>2. Picked(e, accept) = v
  BY <1>1 DEF Picked
<1>3. blob.src = x.src /\ blob.tables = tables
  BY <1>1 DEF BlobOf
<1>4. Bytes(x, "identity") = x.body
  BY DEF Bytes
<1>5. SliceIs(d, m, s, v, x.body) /\ VariantIs(d, state, s, i, x, "identity")
  BY <1>4, SliceHolds, VariantHolds DEF Encodings
<1>6. v.len > 0 /\ HeadAt(state.reg, v.head) = MimeHead(<<x.mime, "identity">>)
  BY <1>4, <1>5, NotEmptyLen DEF VariantIs
<1> HIDE DEF blob
<1>7. enc = IF ~tables THEN "identity" ELSE IF "br" \in accept THEN "br"
            ELSE IF "gzip" \in accept THEN "gzip" ELSE "identity"
  BY DEF EncOf
<1>8. page = [head |-> HeadAt(state.reg, IF enc = "identity" THEN v.head ELSE MimeID(state.reg, <<HTML, enc>>)),
              body |-> Rendered(enc, x.src, Slice(m, v))]
  <2>1. page = composeHoleBodyCached(state, m, blob, v, accept)
    BY <1>2 DEF RenderedPage, blob
  <2>2. enc = IF ~blob.tables THEN "identity" ELSE IF "br" \in accept THEN "br"
              ELSE IF "gzip" \in accept THEN "gzip" ELSE "identity"
    BY <1>3, <1>7
  <2> HIDE DEF page, enc, m, v
  <2> QED BY <1>3, <2>1, <2>2 DEF composeHoleBodyCached
<1> HIDE DEF page, enc, v, m
<1>9. page.head = MimeHead(<<x.mime, enc>>)
  <2>1. page.head = HeadAt(state.reg, IF enc = "identity" THEN v.head ELSE MimeID(state.reg, <<HTML, enc>>))
    BY <1>8
  <2>2. CASE enc = "identity"
    BY <1>6, <2>1, <2>2
  <2>3. CASE enc # "identity"
    <3>1. enc \in {"gzip", "br"}
      BY <1>7, <2>3
    <3> QED BY <2>1, <2>3, <3>1, HtmlHead
  <2> QED BY <2>2, <2>3
<1>10. page.body = Rendered(enc, x.src, Slice(m, v))
  BY <1>8
<1>11. ASSUME ~far PROVE Sliced(page.body, Rendered(enc, x.src, x.body), fault)
  <2>1. Sliced(Slice(m, v), x.body, fault)
    BY <1>5, <1>11 DEF SliceIs
  <2>2. IsSeq(<<enc, x.src>>)
    BY DEF IsSeq, ToSet
  <2> QED BY <1>10, <2>1, <2>2, SlicedConcat DEF Rendered
<1>12. far => fault = "short"
  BY <1>5 DEF SliceIs
<1> HIDE DEF far, fault
<1>13. (HoleIs(d, state, s, i, x, accept) <=>
          /\ far => fault = "short"
          /\ ~far => page.head = MimeHead(<<x.mime, enc>>) /\ Sliced(page.body, Rendered(enc, x.src, x.body), fault))
  BY <1>2 DEF HoleIs, far, fault, page, enc, m
<1> QED BY <1>9, <1>11, <1>12, <1>13

LEMMA EmptyAnswered ==
    ASSUME NEW x, NEW kind, NEW head, NEW ran, NEW params, NEW fault, NEW o, NEW w,
           o = Reply(kind, head, <<>>, ran, params), w = o
    PROVE  Answered(x, w, o, fault)
<1>1. o.body = <<>>
  BY DEF Reply
<1>2. Agrees(o, w, fault)
  BY EmptyIsSeq, SameAgrees
<1> QED BY <1>1, <1>2 DEF Answered

LEMMA OneCell == ASSUME NEW a PROVE IsSeq(<<a>>)
  BY DEF IsSeq, ToSet

(* The reply of an entry is the one its claim asks for.                      *)
LEMMA ClaimAnswered ==
    ASSUME NEW d, NEW state, StateOf(d, state), NEW s, NEW c, NEW all, Serving(d, state, s, c, all),
           NEW i, NEW x, EntryFor(d, state, s, c, all, i, x), ClaimKind(x), NEW rq, NEW segs,
           NEW hit, Found(hit), hit.params = Captures(Segments(x.url), segs), NEW o,
           Refuses(state, rq, state.ms[s].table[i], state.chains[s][i], hit, o),
           Replies(state, rq, state.ms[s], state.ms[s].table[i], state.chains[s][i], hit, o)
    PROVE  \/ Answered(x, Wanted(x, rq, segs), o, d[s].fault)
           \/ d[s].fault = "short" /\ o.kind = "panic"
<1> DEFINE m == state.ms[s]
           e == m.table[i]
           chain == state.chains[s][i]
           fault == d[s].fault
           w == Wanted(x, rq, segs)
           ran == RunChain(chain, rq.deny)
           params == hit.params
           accept == rq.accept
           enc == EncOf(x, accept)
           v == Picked(e, accept)
           page == RenderedPage(state, m, e, accept)
           far == v.off + v.len > Len(Mapped(m))
           passed == rq.method \in MethodsOf(x) /\ ToSet(MwOf(x)) \cap rq.deny = {}
<1>1. e.action = ActionOf(x) /\ e.methods = MethodsOf(x) /\ chain = MwOf(x)
  BY DEF EntryFor
<1>2. Wants(x, rq, segs, w)
  BY WantedIs
<1> HIDE DEF w
<1>3. CASE rq.method \notin MethodsOf(x)
  <2>1. o = Reply("notAllowed", [status |-> 405, allow |-> MethodsOf(x)], <<>>, <<>>, <<>>)
    BY <1>1, <1>3 DEF Refuses
  <2>2. w = o
    BY <1>2, <1>3, <2>1 DEF Wants
  <2>3. Answered(x, w, o, fault)
    BY <2>1, <2>2, EmptyAnswered
  <2> QED BY <2>3 DEF w
<1>4. CASE rq.method \in MethodsOf(x) /\ ToSet(MwOf(x)) \cap rq.deny # {}
  <2>1. o = Reply("refused", NoHead, <<>>, RunChain(MwOf(x), rq.deny), <<>>)
    BY <1>1, <1>4 DEF Refuses
  <2>2. w = o
    BY <1>2, <1>4, <2>1 DEF Wants
  <2>3. Answered(x, w, o, fault)
    BY <2>1, <2>2, EmptyAnswered
  <2> QED BY <2>3 DEF w
<1>5. ASSUME passed
      PROVE  /\ e.action = "file" => o = Reply("file", NoHead, <<m.holeBlobs[e.hole + 1].src>>, ran, params)
             /\ e.action = "static" /\ far => o = Status(state, "panic", HeadID500)
             /\ e.action = "static" /\ ~far /\ e.hole # 0 => o = Reply("hole", page.head, page.body, ran, params)
             /\ e.action = "static" /\ ~far /\ e.hole = 0 =>
                   o = Reply("body", HeadAt(state.reg, v.head), Slice(m, v), ran, params)
             /\ e.action \in Handlers => o = Reply("action", NoHead, <<e.action>>, ran, params)
             /\ e.action \notin Handlers \cup {"static", "file"} => o = Status(state, "error", HeadID500)
  <2>1. Passed(rq, e, chain, hit)
    BY <1>1, <1>5 DEF Passed
  <2> QED BY <2>1 DEF Replies
<1>6. ASSUME passed
      PROVE  /\ x.kind = "static" => w = Reply("body", MimeHead(<<x.mime, enc>>), BodyOf(x, enc), <<>>, params)
             /\ x.kind = "hole" => w = Reply("hole", MimeHead(<<x.mime, enc>>), Rendered(enc, x.src, x.body), <<>>, params)
             /\ x.kind = "file" => w = Reply("file", NoHead, <<x.src>>, <<>>, params)
             /\ x.kind = "action" /\ x.action \in Handlers => w = Reply("action", NoHead, <<x.action>>, MwOf(x), params)
             /\ x.kind = "action" /\ x.action \notin Handlers => w = Reply("error", StatusHead(500), <<>>, <<>>, <<>>)
  BY <1>2, <1>6 DEF Wants
<1>7. passed => ran = MwOf(x)
  BY <1>1, ChainRuns
<1>8. x.kind # "action" => MwOf(x) = <<>>
  BY DEF MwOf
<1>9. Status(state, "panic", HeadID500).kind = "panic"
  BY StatusFields DEF IsReply
<1>10. CASE passed /\ x.kind = "static"
  <2>1. e.action = "static" /\ ran = <<>>
    BY <1>1, <1>7, <1>8, <1>10 DEF ActionOf
  <2>2. e.hole = 0 /\ PageIs(d, state, s, x, v, accept)
    BY <1>10, StaticPage DEF ClaimKind
  <2>3. /\ far => fault = "short"
        /\ ~far /\ x.body = <<>> => Slice(m, v) = <<>>
        /\ ~far /\ x.body # <<>> => HeadAt(state.reg, v.head) = MimeHead(<<x.mime, enc>>)
                                    /\ Sliced(Slice(m, v), BodyOf(x, enc), fault)
    BY <2>2 DEF PageIs
  <2>4. far => fault = "short" /\ o.kind = "panic"
    BY <1>5, <1>9, <1>10, <2>1, <2>3
  <2>5. ~far => o = Reply("body", HeadAt(state.reg, v.head), Slice(m, v), <<>>, params)
    BY <1>5, <1>10, <2>1, <2>2
  <2>6. w = Reply("body", MimeHead(<<x.mime, enc>>), BodyOf(x, enc), <<>>, params)
    BY <1>6, <1>10
  <2> HIDE DEF far, enc, v, m, fault, params
  <2>7. CASE ~far /\ x.body = <<>>
    <3>1. o.body = <<>>
      BY <2>3, <2>5, <2>7, ReplyFields DEF IsReply
    <3>2. Answered(x, w, o, fault)
      BY <1>10, <2>7, <3>1 DEF Answered
    <3> QED BY <3>2 DEF w, fault
  <2>8. CASE ~far /\ x.body # <<>>
    <3>1. Agrees(o, w, fault)
      BY <2>3, <2>5, <2>6, <2>8, SlicedAgrees
    <3>2. Answered(x, w, o, fault)
      BY <2>8, <3>1 DEF Answered
    <3> QED BY <3>2 DEF w, fault
  <2> QED BY <2>4, <2>7, <2>8 DEF fault
<1>11. CASE passed /\ x.kind = "hole"
  <2>1. e.action = "static" /\ ran = <<>>
    BY <1>1, <1>7, <1>8, <1>11 DEF ActionOf
  <2>2. e.hole # 0
    BY <1>11, BlobIs
  <2>3. HoleIs(d, state, s, i, x, accept)
    BY <1>11, HolePage DEF ClaimKind
  <2>4. /\ far => fault = "short"
        /\ ~far => page.head = MimeHead(<<x.mime, enc>>) /\ Sliced(page.body, Rendered(enc, x.src, x.body), fault)
    BY <2>3 DEF HoleIs
  <2>5. far => fault = "short" /\ o.kind = "panic"
    BY <1>5, <1>9, <1>11, <2>1, <2>4
  <2>6. ~far => o = Reply("hole", page.head, page.body, <<>>, params)
    BY <1>5, <1>11, <2>1, <2>2
  <2>7. w = Reply("hole", MimeHead(<<x.mime, enc>>), Rendered(enc, x.src, x.body), <<>>, params)
    BY <1>6, <1>11
  <2> HIDE DEF far, enc, page, fault, params
  <2>8. ~far => Agrees(o, w, fault)
    BY <2>4, <2>6, <2>7, SlicedAgrees
  <2>9. ~far => Answered(x, w, o, fault)
    BY <1>11, <2>8 DEF Answered
  <2> QED BY <2>5, <2>9 DEF w, fault
<1>12. CASE passed /\ x.kind = "file"
  <2>1. e.action = "file" /\ ran = <<>>
    BY <1>1, <1>7, <1>8, <1>12 DEF ActionOf
  <2>2. m.holeBlobs[e.hole + 1].src = x.src
    <3>1. m.holeBlobs[e.hole + 1] = BlobOf(x)
      BY <1>12, BlobIs
    <3> QED BY <1>12, <3>1 DEF BlobOf
  <2>3. o = Reply("file", NoHead, <<x.src>>, <<>>, params)
    BY <1>5, <1>12, <2>1, <2>2
  <2>4. w = o
    BY <1>6, <1>12, <2>3
  <2>5. Agrees(o, w, fault)
    BY <2>3, <2>4, OneCell, SameAgrees
  <2>6. Answered(x, w, o, fault)
    BY <1>12, <2>5 DEF Answered
  <2> QED BY <2>6 DEF w
<1>13. CASE passed /\ x.kind = "action"
  <2>1. e.action = x.action /\ x.action \notin {"static", "file"}
    BY <1>1, <1>13 DEF ActionOf, ClaimKind
  <2>2. CASE x.action \in Handlers
    <3>1. o = Reply("action", NoHead, <<x.action>>, MwOf(x), params)
      BY <1>5, <1>7, <1>13, <2>1, <2>2
    <3>2. w = o
      BY <1>6, <1>13, <2>2, <3>1
    <3>3. Agrees(o, w, fault)
      BY <3>1, <3>2, OneCell, SameAgrees
    <3>4. Answered(x, w, o, fault)
      BY <1>13, <3>3 DEF Answered
    <3> QED BY <3>4 DEF w
  <2>3. CASE x.action \notin Handlers
    <3>1. HeadAt(state.reg, HeadID500) = StatusHead(500)
      BY ErrorHead DEF StateOf
    <3>2. o = Status(state, "error", HeadID500)
      BY <1>5, <1>13, <2>1, <2>3
    <3>3. o = Reply("error", StatusHead(500), <<>>, <<>>, <<>>)
      BY <3>1, <3>2 DEF Status
    <3>4. w = o
      BY <1>6, <1>13, <2>3, <3>3
    <3>5. Answered(x, w, o, fault)
      BY <3>3, <3>4, EmptyAnswered
    <3> QED BY <3>5 DEF w
  <2> QED BY <2>2, <2>3
<1> QED BY <1>3, <1>4, <1>10, <1>11, <1>12, <1>13 DEF ClaimKind

(* The entry that Match finds is that of a best fitting claim.               *)
BestFor(d, s, segs, x) ==
    /\ x \in Claims(s, d) /\ Fits(Segments(x.url), segs)
    /\ \A y \in Claims(s, d) : Fits(Segments(y.url), segs) => ~Before(Segments(y.url), Segments(x.url))

LEMMA HitIsBest ==
    ASSUME NEW d, NEW state, NEW s, NEW c, NEW all, Serving(d, state, s, c, all), NEW pieces \in Seq(STRING)
    PROVE  LET hit == Match(state.ms[s].trie, pieces)
               segs == splitPath(pieces)
           IN  /\ ~Found(hit) => \A x \in Claims(s, d) : ~Fits(Segments(x.url), segs)
               /\ Found(hit) => \E x : /\ EntryFor(d, state, s, c, all, hit.route, x) /\ BestFor(d, s, segs, x)
                                       /\ hit.params = Captures(Segments(x.url), segs)
<1> DEFINE t == state.ms[s].trie
           hit == Match(t, pieces)
           segs == splitPath(pieces)
           ps == Urls(d[s])
           N == Len(d[s].file.table)
           X == Claims(s, d)
           i == hit.route
<1>1. TableOf(s, d[s], c) /\ Routed(t, ps, N) /\ Labelled(t)
  <2>1. /\ TableOf(s, d[s], c) /\ TrieOf(t, ps, N) /\ Labelled(t)
        /\ \A j \in 1..N : ps[j] \in Seq(Seg) /\ Proper(ps[j])
    BY DEF Serving
  <2>2. N \in Nat
    BY <2>1, SeqFacts DEF TableOf
  <2> QED BY <2>1, <2>2 DEF Routed
<1>2. X = ClaimsOf(s, d[s].content)
  BY ClaimsAre
<1>3. \A x \in X : \E j \in 1..N : ps[j] = Segments(x.url)
  BY <1>1, <1>2 DEF TableOf, Urls
<1>4. /\ i = 0 => \A j \in 1..N : ~Fits(ps[j], segs)
      /\ i # 0 => /\ i \in 1..N /\ Fits(ps[i], segs)
                  /\ \A j \in 1..N : Fits(ps[j], segs) => ~Before(ps[j], ps[i])
                  /\ hit.params = Captures(ps[i], segs)
  BY <1>1, MatchIsBest
<1>5. Found(hit) <=> i # 0
  BY DEF Found
<1> HIDE DEF hit, segs, t, X
<1>6. ASSUME ~Found(hit) PROVE \A x \in X : ~Fits(Segments(x.url), segs)
  BY <1>3, <1>4, <1>5, <1>6
<1>7. ASSUME Found(hit)
      PROVE  \E x : /\ EntryFor(d, state, s, c, all, i, x) /\ BestFor(d, s, segs, x)
                    /\ hit.params = Captures(Segments(x.url), segs)
  <2>1. i \in 1..N
    BY <1>4, <1>5, <1>7
  <2>2. PICK x : EntryFor(d, state, s, c, all, i, x)
    BY <2>1, EntryServing DEF N
  <2>3. x \in X /\ UrlAt(d[s], i) = x.url
    BY <1>2, <2>2 DEF EntryFor
  <2>4. ps[i] = Segments(x.url)
    BY <2>1, <2>3 DEF Urls
  <2>5. BestFor(d, s, segs, x)
    <3>1. Fits(Segments(x.url), segs)
      BY <1>4, <1>5, <1>7, <2>4
    <3>2. ASSUME NEW y \in X, Fits(Segments(y.url), segs) PROVE ~Before(Segments(y.url), Segments(x.url))
      <4>1. PICK j \in 1..N : ps[j] = Segments(y.url)
        BY <1>3
      <4> QED BY <1>4, <1>5, <1>7, <2>4, <3>2, <4>1
    <3> QED BY <2>3, <3>1, <3>2 DEF BestFor, X
  <2> QED BY <1>4, <1>5, <1>7, <2>2, <2>4, <2>5
<1> QED BY <1>6, <1>7 DEF hit, segs, t, X

LEMMA SiteServes == SiteIInv => ServedAsBuilt
<1> SUFFICES ASSUME SiteIInv, reply # Absent PROVE ServedAsBuilt
  BY DEF ServedAsBuilt
<1> DEFINE rq == reply.req
           d == st.from
           s == SiteFor(rq.host)
           m == st.ms[s]
           hit == Match(m.trie, rq.path)
           e == m.table[hit.route]
           chain == st.chains[s][hit.route]
           o == reply.out
           segs == splitPath(rq.path)
           fault == d[s].fault
           fit == {x \in Claims(s, d) : Fits(Segments(x.url), segs)}
           best == {x \in fit : \A y \in fit : ~Before(Segments(y.url), Segments(x.url))}
<1>1. s = HostSite(st, rq.host)
  BY HostGetsSite
<1>2. rq.path \in Seq(STRING) /\ StateOf(d, st) /\ o = serve(st, rq) /\ \E c, all : Serving(d, st, s, c, all)
  BY <1>1, RequestServed
<1>3. PICK c, all : Serving(d, st, s, c, all)
  BY <1>2
<1>4. Refuses(st, rq, e, chain, hit, o) /\ Replies(st, rq, m, e, chain, hit, o)
  BY <1>1, <1>2, ServeIs
<1>5. /\ ~Found(hit) => \A x \in Claims(s, d) : ~Fits(Segments(x.url), segs)
      /\ Found(hit) => \E x : /\ EntryFor(d, st, s, c, all, hit.route, x) /\ BestFor(d, s, segs, x)
                              /\ hit.params = Captures(Segments(x.url), segs)
  BY <1>2, <1>3, HitIsBest
<1>6. \A x : BestFor(d, s, segs, x) => x \in best
  BY DEF BestFor
<1>7. ServedAsBuilt <=>
        IF fit = {} THEN o.kind = "notFound"
        ELSE (\E x \in best : Answered(x, Wanted(x, rq, segs), o, fault)) \/ (fault = "short" /\ o.kind = "panic")
  BY DEF ServedAsBuilt, Answered, Agrees
<1> HIDE DEF s, hit, e, chain, o, segs, d, rq
<1>8. CASE ~Found(hit)
  <2>1. fit = {}
    BY <1>5, <1>8
  <2>2. o.kind = "notFound"
    <3>1. o = Status(st, "notFound", HeadID404)
      BY <1>4, <1>8 DEF Refuses
    <3> QED BY <3>1, StatusFields DEF IsReply
  <2> QED BY <1>7, <2>1, <2>2
<1>9. CASE Found(hit)
  <2>1. PICK x : /\ EntryFor(d, st, s, c, all, hit.route, x) /\ BestFor(d, s, segs, x)
                 /\ hit.params = Captures(Segments(x.url), segs)
    BY <1>5, <1>9
  <2>2. ClaimKind(x)
    <3>1. s \in 1..Studio /\ (s # Studio => d[s].content \in Contents[s])
      BY <1>3 DEF Serving, WrittenFor
    <3>2. x \in ClaimsOf(s, d[s].content)
      BY <2>1 DEF EntryFor
    <3> QED BY <3>1, <3>2, ClaimKinds
  <2>3. Answered(x, Wanted(x, rq, segs), o, fault) \/ (fault = "short" /\ o.kind = "panic")
    BY <1>2, <1>3, <1>4, <1>9, <2>1, <2>2, ClaimAnswered DEF m, e, chain
  <2>4. x \in best
    BY <1>6, <2>1
  <2>5. fit # {}
    BY <2>4
  <2> HIDE DEF fit, best, fault
  <2> QED BY <1>7, <2>3, <2>4, <2>5
<1> QED BY <1>8, <1>9

(* A reply is what the best fitting page or action of the host's site asks   *)
(* for: its bytes and head under the encoding the client accepts, its        *)
(* middlewares, its captures; a manifest whose payloads were cut short is    *)
(* the only way to a 500 or to bytes of another section.                     *)
THEOREM SiteServedAsBuilt == SiteSpec => []ServedAsBuilt
<1>1. SiteIInv => ServedAsBuilt
  BY SiteServes
<1> QED BY <1>1, SiteHolds, PTL
=============================================================================
