---------------------------- MODULE TaggedStore ----------------------------
(***************************************************************************)
(* What a table-aware cache promises its callers, whatever it does about   *)
(* recency, budgets and bypass: it may forget anything and may refuse to   *)
(* store, but a hit is the value most recently accepted under that very    *)
(* name, and nothing tagged with a table survives its invalidation.        *)
(***************************************************************************)
CONSTANTS Name, Value, Table, TagsOf, Miss

VARIABLES store,   \* name -> value, what could still be answered
          last     \* the last call and its answer

storeVars == <<store, last>>

(* Every function a forgetful cache may keep of f. *)
Shrinks(f) == {[n \in D |-> f[n]] : D \in SUBSET DOMAIN f}

With(n, v) == [m \in DOMAIN store \cup {n} |-> IF m = n THEN v ELSE store[m]]

StoreInit == store = [n \in {} |-> n] /\ last = [op |-> "none"]

StoreGet(n) ==
    /\ \/ last' = [op |-> "get", name |-> n, answer |-> Miss]
       \/ n \in DOMAIN store /\ last' = [op |-> "get", name |-> n, answer |-> store[n]]
    /\ UNCHANGED store

StorePut(n, v) ==
    /\ store' = store \/ store' \in Shrinks(With(n, v))
    /\ last' = [op |-> "put", name |-> n, value |-> v]

StoreInvalidate(t) ==
    /\ store' \in Shrinks(store)
    /\ \A n \in DOMAIN store' : t \notin TagsOf[n]
    /\ last' = [op |-> "invalidate", table |-> t]

StoreFlush ==
    /\ store' = [n \in {} |-> n]
    /\ last' = [op |-> "flush"]

StoreNext ==
    \/ \E n \in Name : StoreGet(n)
    \/ \E n \in Name, v \in Value : StorePut(n, v)
    \/ \E t \in Table : StoreInvalidate(t)
    \/ StoreFlush

StoreSpec == StoreInit /\ [][StoreNext]_storeVars
=============================================================================
