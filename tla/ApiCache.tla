------------------------------ MODULE ApiCache ------------------------------
(***************************************************************************)
(* One custom resource as a controller-runtime controller sees it.  Every  *)
(* write goes to the API server (store) and creates a new resourceVersion; *)
(* every read (client.Get on the manager's client) is served by the        *)
(* informer's cache (cached), which receives the versions in order and     *)
(* some time later (stream holds those still in flight).                   *)
(*                                                                         *)
(* A resourceVersion is only ever compared for equality with that of the   *)
(* copy being written, so versions are not numbered: a reader is told      *)
(* whether what it read is the newest version, and loses that knowledge    *)
(* as soon as anyone else writes.                                          *)
(***************************************************************************)
EXTENDS Naturals, Sequences

CONSTANT MaxLag   \* bound: most versions the cache may be behind the server

ASSUME MaxLagAssumption == MaxLag \in Nat \ {0}

VARIABLES
    store,    \* the object held by the API server
    cached,   \* the object held by the informer's cache
    stream    \* watch events not yet delivered to the cache, oldest first

apiVars == <<store, cached, stream>>

\* The cache holds the newest version.
CacheCurrent == stream = <<>>

\* The API server accepts a new version and emits its watch event.  When the
\* cache is as far behind as MaxLag allows, the oldest event arrives first.
Write(o) ==
    /\ store' = o
    /\ IF Len(stream) < MaxLag
       THEN stream' = Append(stream, o) /\ cached' = cached
       ELSE stream' = Append(Tail(stream), o) /\ cached' = Head(stream)

\* The informer applies the oldest undelivered watch event.
Deliver ==
    /\ stream # <<>>
    /\ cached' = Head(stream)
    /\ stream' = Tail(stream)
    /\ store' = store

\* A restarted manager lists the object afresh.
Relist ==
    /\ cached' = store
    /\ stream' = <<>>
    /\ store' = store

CacheCoherent ==
    /\ stream = <<>> => cached = store
    /\ stream # <<>> => stream[Len(stream)] = store
=============================================================================
