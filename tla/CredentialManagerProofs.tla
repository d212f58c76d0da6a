---------------------- MODULE CredentialManagerProofs ----------------------
(***************************************************************************)
(* Proofs about CredentialManager, for every duration, grace, interval and *)
(* call time that satisfy CredentialConstantsAssumption, every lag of the  *)
(* informer and any number of faults.                                      *)
(***************************************************************************)
EXTENDS CredentialManager, TLAPS

\* A session with an expiry is a session.
TrackedInv == \A t \in Thread : run[t].tracked => run[t].left # None

\* An idle thread holds nothing; only the worker uses what it got.
IdleInv ==
    /\ \A t \in Thread : run[t].pc = "idle" => run[t] = Idle /\ busy[t] = 0
    /\ run["loop"].pc # "use"

TypeInv == TypeOK /\ TrackedInv /\ IdleInv

-----------------------------------------------------------------------------
(* Without the mode that finding creds_expired is about.                   *)

\* What a thread has in hand outlives its call: it was worth a grace period when
\* the call began.
HandInv ==
    \A t \in Thread :
        run[t].pc \in {"assume", "persist", "put", "use"}
            => run[t].left = None \/ run[t].left + busy[t] >= Grace

\* A session is only asked for to assume a role with it, and only sessions with an
\* expiry, or credentials that have none, are put into the cache.
KindInv ==
    /\ \A t \in Thread :
         /\ run[t].pc \in {"session", "assume"} => run[t].role
         /\ run[t].pc = "persist" => run[t].tracked
         /\ run[t].pc = "put" => run[t].tracked \/ run[t].left = None
    /\ cache # None => cache.tracked \/ cache.left = None

\* A thread that cannot fail any more is about to replace the cached session.
Renewing == \E t \in Thread : run[t].pc \in {"assume", "persist", "put"}

\* Nobody replaces a tracked session, and no call has failed.
Waiting == faults = 0 /\ cache # None /\ cache.tracked /\ ~Renewing

\* How much of its life the cached session has left at least, at each point of the
\* loop's round; who has used the one-time code has renewed the session since.
FreshInv ==
    Waiting =>
        /\ run["loop"].pc = "idle" => cache.left + MaxCall + due >= Grace
        /\ run["loop"].pc \in {"fetch", "session"}
             => cache.left + MaxCall + Interval + busy["loop"] >= Grace
        /\ codeUsed => cache.left + MaxCall >= Grace

SessionInv == HandInv /\ KindInv /\ FreshInv
-----------------------------------------------------------------------------
(* The secret, time and the threads.                                       *)

ApiType == store \in Secret /\ cached \in Secret /\ stream \in Seq(Secret)

RunType == [pc: {"idle", "fetch", "session", "assume", "persist", "put", "use"},
            role: BOOLEAN, left: Life, tracked: BOOLEAN]

CacheType == {None, [left |-> None, tracked |-> FALSE]} \cup [left: 0..Duration, tracked: BOOLEAN]

\* The constants as numbers.
LEMMA Numbers ==
    /\ Duration \in Nat /\ Grace \in Nat /\ Interval \in Nat /\ MaxCall \in Nat
    /\ MaxFaults \in Nat /\ Interval > 0
    /\ Interval + MaxCall + MaxCall < Grace /\ Grace < Duration
    /\ None \notin Nat /\ 0 \in Life /\ None \in Life /\ Duration \in Life
BY CredentialConstantsAssumption DEF Life

\* An idle thread has no session.
LEMMA IdleFacts == Idle \in RunType /\ Idle.pc = "idle" /\ Idle.left = None /\ ~Idle.tracked
BY Numbers DEF Idle, RunType

\* There is a mode for the secret that does not exist.
LEMMA NoSecretType == NoSecret \in Secret
<1>1. (CHOOSE m \in Modes : TRUE) \in Modes
  BY CredentialConstantsAssumption
<1> QED
  BY <1>1, Numbers DEF NoSecret, Secret

\* Writes, deliveries and restarts keep the secret's copies well-formed (ApiCache).
LEMMA WriteTypes ==
    ASSUME ApiType, NEW o \in Secret, Write(o)
    PROVE  ApiType'
<1>1. CASE Len(stream) < MaxLag
  BY <1>1 DEF Write, ApiType
<1>2. CASE ~(Len(stream) < MaxLag)
  <2>1. stream # <<>>
    BY <1>2, MaxLagAssumption DEF ApiType
  <2>2. Head(stream) \in Secret /\ Tail(stream) \in Seq(Secret)
    BY <2>1 DEF ApiType
  <2> QED
    BY <1>2, <2>2 DEF Write, ApiType
<1> QED
  BY <1>1, <1>2

LEMMA CacheTypes ==
    ASSUME ApiType, Deliver \/ Relist
    PROVE  ApiType'
<1>1. CASE Deliver
  <2>1. Head(stream) \in Secret /\ Tail(stream) \in Seq(Secret)
    BY <1>1 DEF Deliver, ApiType
  <2> QED
    BY <1>1, <2>1 DEF Deliver, ApiType
<1>2. CASE Relist
  BY <1>2 DEF Relist, ApiType
<1> QED
  BY <1>1, <1>2

\* A unit of time takes one unit off what is left, down to nothing.
LEMMA OlderFacts ==
    ASSUME NEW life \in Life
    PROVE  /\ Older(life) \in Life
           /\ Older(life) = None <=> life = None
           /\ life \in 1..Duration => Older(life) = life - 1
           /\ life = 0 => Older(life) = 0
           /\ life \in 0..Duration => Older(life) \in 0..Duration
BY Numbers DEF Older, Life

LEMMA OlderSecretType ==
    ASSUME NEW s \in Secret
    PROVE  OlderSecret(s) \in Secret
BY OlderFacts DEF OlderSecret, Secret

\* A fault is within the budget, and the last run without a failure is over.
LEMMA FaultFacts ==
    ASSUME TypeInv, NoFault \/ Fault
    PROVE  /\ faults' \in 0..MaxFaults
           /\ faults' = 0 => NoFault /\ faults = 0
           /\ Fault => faults' # 0
BY Numbers DEF TypeInv, TypeOK, NoFault, Fault

\* What one thread does leaves the other's run and its time alone.
LEMMA BecomeFacts ==
    ASSUME TypeInv, NEW t \in Thread, NEW r \in RunType, Become(t, r)
    PROVE  /\ run' \in [Thread -> RunType] /\ busy' \in [Thread -> 0..MaxCall]
           /\ run'[t] = r
           /\ busy'[t] = IF r = Idle THEN 0 ELSE busy[t]
           /\ \A u \in Thread \ {t} : run'[u] = run[u] /\ busy'[u] = busy[u]
<1>1. run \in [Thread -> RunType] /\ busy \in [Thread -> 0..MaxCall]
  BY DEF TypeInv, TypeOK, RunType
<1> QED
  BY <1>1, Numbers DEF Become
-----------------------------------------------------------------------------
(* Types.                                                                  *)

\* What thread t may become.
Well(t, r) ==
    /\ r \in RunType
    /\ r.tracked => r.left # None
    /\ r.pc = "idle" => r = Idle
    /\ t = "loop" => r.pc # "use"

LEMMA ThreadTypes ==
    ASSUME TypeInv, NEW t \in Thread, NEW r, Well(t, r), Become(t, r),
           ApiType', cache' \in CacheType, due' \in 0..Interval, codeUsed' \in BOOLEAN,
           faults' \in 0..MaxFaults
    PROVE  TypeInv'
<1>1. /\ run' \in [Thread -> RunType] /\ busy' \in [Thread -> 0..MaxCall]
      /\ run'[t] = r
      /\ busy'[t] = IF r = Idle THEN 0 ELSE busy[t]
      /\ \A u \in Thread \ {t} : run'[u] = run[u] /\ busy'[u] = busy[u]
  BY BecomeFacts DEF Well
<1>2. TypeOK'
  BY <1>1 DEF TypeOK, ApiType, CacheType, RunType
<1>3. TrackedInv'
  BY <1>1 DEF TypeInv, TrackedInv, Well
<1>4. IdleInv'
  BY <1>1 DEF TypeInv, IdleInv, Well, Thread
<1> QED
  BY <1>2, <1>3, <1>4 DEF TypeInv

LEMMA TypeFacts ==
    ASSUME TypeInv
    PROVE  /\ ApiType /\ cache \in CacheType /\ due \in 0..Interval /\ codeUsed \in BOOLEAN
           /\ faults \in 0..MaxFaults
           /\ run \in [Thread -> RunType] /\ busy \in [Thread -> 0..MaxCall]
           /\ \A t \in Thread : run[t].tracked => run[t].left # None
           /\ \A t \in Thread : run[t].pc = "idle" => run[t] = Idle /\ busy[t] = 0
           /\ run["loop"].pc # "use"
           /\ "worker" \in Thread /\ "loop" \in Thread
BY DEF TypeInv, TypeOK, TrackedInv, IdleInv, ApiType, CacheType, RunType, Thread

LEMMA ApiKept ==
    ASSUME ApiType, UNCHANGED apiVars
    PROVE  ApiType'
BY DEF ApiType, apiVars

LEMMA InitTypes ==
    ASSUME Init
    PROVE  TypeInv
<1>1. TypeOK
  <2>1. store \in Secret /\ cached \in Secret /\ stream \in Seq(Secret)
    BY NoSecretType DEF Init
  <2>2. run \in [Thread -> RunType] /\ busy \in [Thread -> 0..MaxCall]
    BY IdleFacts, Numbers DEF Init
  <2>3. due \in 0..Interval /\ faults \in 0..MaxFaults
    BY Numbers DEF Init
  <2>5. codeUsed \in BOOLEAN
    BY DEF Init
  <2>4. cache \in CacheType
    BY DEF Init, CacheType
  <2> QED
    BY <2>1, <2>2, <2>3, <2>4, <2>5 DEF TypeOK, RunType, CacheType
<1>2. TrackedInv /\ IdleInv
  BY IdleFacts DEF Init, TrackedInv, IdleInv, Thread
<1> QED
  BY <1>1, <1>2 DEF TypeInv

LEMMA GetTypes ==
    ASSUME TypeInv, Get
    PROVE  TypeInv'
<1>1. /\ UNCHANGED <<apiVars, cache, due, codeUsed, faults>> /\ ApiType'
  BY TypeFacts, ApiKept DEF Get
<1>2. PICK r : Become("worker", r) /\ (\/ cache # None /\ r = Using(cache.left)
                                       \/ r = [Idle EXCEPT !.pc = "fetch"])
  BY DEF Get
<1>3. Well("worker", r)
  <2>1. cache # None => cache.left \in Life
    BY TypeFacts, Numbers DEF CacheType, Life
  <2> QED
    BY <1>2, <2>1, IdleFacts DEF Well, Using, Idle, RunType
<1> QED
  BY <1>1, <1>2, <1>3, TypeFacts, ThreadTypes

LEMMA UseTypes ==
    ASSUME TypeInv, Use
    PROVE  TypeInv'
<1>1. /\ UNCHANGED <<apiVars, due, codeUsed>> /\ Become("worker", Idle)
      /\ NoFault \/ Fault
      /\ cache' \in {cache, None}
  BY DEF Use
<1>2. Well("worker", Idle)
  BY IdleFacts DEF Well
<1>3. cache' \in CacheType /\ ApiType' /\ faults' \in 0..MaxFaults
  BY <1>1, TypeFacts, ApiKept, FaultFacts DEF CacheType
<1> QED
  BY <1>1, <1>2, <1>3, TypeFacts, ThreadTypes

LEMMA ScanTypes ==
    ASSUME TypeInv, Scan
    PROVE  TypeInv'
<1>1. /\ UNCHANGED <<apiVars, cache, codeUsed, faults>> /\ due' = 0
  BY DEF Scan
<1>2. PICK r \in {Idle, [Idle EXCEPT !.pc = "fetch"]} : Become("loop", r)
  BY DEF Scan
<1>3. Well("loop", r)
  BY <1>2, IdleFacts DEF Well, Idle, RunType
<1>4. due' \in 0..Interval /\ ApiType'
  BY <1>1, TypeFacts, ApiKept, Numbers
<1> QED
  BY <1>1, <1>2, <1>3, <1>4, TypeFacts, ThreadTypes

\* What the secret read can lead to: nothing, a persisted session of the role, a
\* base session with or without a role, or the request for one.
FetchResult(t, r) ==
    \/ r = Idle
    \/ /\ r.pc = "put" /\ r.role /\ r.tracked /\ Persisted(r.left) /\ r.left \in Life
       /\ r \in RunType
    \/ /\ r.pc \in {"assume", "put"} /\ r.pc = AfterBase(r.role) /\ ~r.tracked
       /\ r.left \in Life /\ (r.left = None \/ Persisted(r.left))
       /\ (r.left # None => \E secret \in Secret : HasMFA(secret) /\ r.role = HasRole(secret))
       /\ r \in RunType
    \/ /\ r.pc = "session" /\ r.left = None /\ ~r.tracked /\ r \in RunType
       /\ \E secret \in Secret : HasMFA(secret) /\ r.role = HasRole(secret)

LEMMA FetchFacts ==
    ASSUME TypeInv, NEW t \in Thread, Fetch(t)
    PROVE  /\ UNCHANGED <<apiVars, due, codeUsed>> /\ run[t].pc = "fetch"
           /\ NoFault \/ Fault
           /\ cache' = cache \/ (t = "loop" /\ cache' = None)
           /\ \E r : /\ Become(t, r) /\ FetchResult(t, r)
                     /\ r = Idle => t = "worker" \/ Fault \/ cache' = None
                     /\ r # Idle => cache' = cache
<1>1. cached \in Secret
  BY DEF TypeInv, TypeOK
<1>2. cached.role \in Life /\ cached.mfa \in Life /\ HasRole(cached) \in BOOLEAN
  BY <1>1 DEF Secret, HasRole
<1> DEFINE role == HasRole(cached)
           new(pc_, left, tracked) ==
             [pc |-> pc_, role |-> role, left |-> left, tracked |-> tracked]
<1>3. \/ ~cached.exists /\ SecretGone(t) /\ Become(t, Idle) /\ NoFault
      \/ /\ cached.exists /\ UNCHANGED cache /\ NoFault
         /\ \/ role /\ Persisted(cached.role) /\ Become(t, new("put", cached.role, TRUE))
            \/ Become(t, new(AfterBase(role), None, FALSE))
            \/ HasMFA(cached) /\ Persisted(cached.mfa)
                 /\ Become(t, new(AfterBase(role), cached.mfa, FALSE))
            \/ HasMFA(cached) /\ Become(t, new("session", None, FALSE))
      \/ Fault /\ Become(t, Idle) /\ UNCHANGED cache
  BY DEF Fetch
<1>4. /\ UNCHANGED <<apiVars, due, codeUsed>> /\ run[t].pc = "fetch"
      /\ NoFault \/ Fault
      /\ cache' = cache \/ (t = "loop" /\ cache' = None)
  BY <1>3 DEF Fetch, SecretGone
<1>5. CASE ~cached.exists /\ SecretGone(t) /\ Become(t, Idle) /\ NoFault
  BY <1>4, <1>5 DEF SecretGone, FetchResult, Thread
<1>6. CASE Fault /\ Become(t, Idle) /\ UNCHANGED cache
  BY <1>4, <1>6 DEF FetchResult
<1>7. ASSUME cache' = cache, NEW r, Become(t, r), r.pc # "idle", FetchResult(t, r)
      PROVE  \E q : /\ Become(t, q) /\ FetchResult(t, q)
                    /\ q = Idle => t = "worker" \/ Fault \/ cache' = None
                    /\ q # Idle => cache' = cache
  BY <1>7, IdleFacts
<1>8. AfterBase(role) \in {"assume", "put"}
  BY DEF AfterBase
<1>9. CASE cache' = cache /\ role /\ Persisted(cached.role) /\ Become(t, new("put", cached.role, TRUE))
  <2>1. FetchResult(t, new("put", cached.role, TRUE))
    BY <1>2, <1>9 DEF FetchResult, RunType
  <2> QED
    BY <1>4, <1>7, <1>9, <2>1
<1>10. CASE cache' = cache /\ Become(t, new(AfterBase(role), None, FALSE))
  <2>1. FetchResult(t, new(AfterBase(role), None, FALSE))
    BY <1>2, <1>8, Numbers DEF FetchResult, RunType
  <2> QED
    BY <1>4, <1>7, <1>8, <1>10, <2>1
<1>11. CASE /\ cache' = cache /\ HasMFA(cached) /\ Persisted(cached.mfa)
            /\ Become(t, new(AfterBase(role), cached.mfa, FALSE))
  <2>1. FetchResult(t, new(AfterBase(role), cached.mfa, FALSE))
    BY <1>1, <1>2, <1>8, <1>11 DEF FetchResult, RunType
  <2> QED
    BY <1>4, <1>7, <1>8, <1>11, <2>1
<1>12. CASE cache' = cache /\ HasMFA(cached) /\ Become(t, new("session", None, FALSE))
  <2>1. FetchResult(t, new("session", None, FALSE))
    BY <1>1, <1>2, <1>12, Numbers DEF FetchResult, RunType
  <2> QED
    BY <1>4, <1>7, <1>12, <2>1
<1> QED
  BY <1>3, <1>5, <1>6, <1>9, <1>10, <1>11, <1>12

LEMMA FetchTypes ==
    ASSUME TypeInv, NEW t \in Thread, Fetch(t)
    PROVE  TypeInv'
<1>1. /\ UNCHANGED <<apiVars, due, codeUsed>>
      /\ NoFault \/ Fault
      /\ cache' = cache \/ cache' = None
  BY FetchFacts
<1>2. PICK r : Become(t, r) /\ FetchResult(t, r)
  BY FetchFacts
<1>3. Well(t, r)
  BY <1>2, IdleFacts DEF Well, FetchResult, Persisted
<1>4. cache' \in CacheType /\ ApiType' /\ faults' \in 0..MaxFaults
  BY <1>1, TypeFacts, ApiKept, FaultFacts DEF CacheType
<1> QED
  BY <1>1, <1>2, <1>3, <1>4, TypeFacts, ThreadTypes

LEMMA GetSessionTokenTypes ==
    ASSUME TypeInv, NEW t \in Thread, GetSessionToken(t)
    PROVE  TypeInv'
<1>1. /\ UNCHANGED <<apiVars, cache, due>> /\ codeUsed' \in BOOLEAN
      /\ NoFault \/ Fault
  BY TypeFacts DEF GetSessionToken
<1>2. PICK r : /\ Become(t, r)
               /\ r \in {Idle, [run[t] EXCEPT !.pc = IF run[t].role THEN "assume" ELSE "persist",
                                              !.left = Duration, !.tracked = TRUE]}
  BY DEF GetSessionToken
<1>3. Well(t, r)
  <2>1. run[t] \in RunType
    BY TypeFacts
  <2> QED
    BY <1>2, <2>1, IdleFacts, Numbers DEF Well, RunType
<1>4. ApiType' /\ faults' \in 0..MaxFaults
  BY <1>1, TypeFacts, ApiKept, FaultFacts
<1> QED
  BY <1>1, <1>2, <1>3, <1>4, TypeFacts, ThreadTypes

LEMMA AssumeRoleTypes ==
    ASSUME TypeInv, NEW t \in Thread, AssumeRole(t)
    PROVE  TypeInv'
<1>1. UNCHANGED <<apiVars, cache, due, codeUsed>> /\ (NoFault \/ Fault)
  BY DEF AssumeRole
<1>2. PICK r : /\ Become(t, r)
               /\ r \in {Idle, [run[t] EXCEPT !.pc = "persist", !.left = Duration,
                                              !.tracked = TRUE]}
  BY DEF AssumeRole
<1>3. Well(t, r)
  <2>1. run[t] \in RunType
    BY TypeFacts
  <2> QED
    BY <1>2, <2>1, IdleFacts, Numbers DEF Well, RunType
<1>4. ApiType' /\ faults' \in 0..MaxFaults
  BY <1>1, TypeFacts, ApiKept, FaultFacts
<1> QED
  BY <1>1, <1>2, <1>3, <1>4, TypeFacts, ThreadTypes

LEMMA PatchSecretTypes ==
    ASSUME TypeInv, NEW t \in Thread, PatchSecret(t)
    PROVE  TypeInv'
<1>1. /\ UNCHANGED <<cache, due, codeUsed>> /\ (NoFault \/ Fault)
      /\ Become(t, [run[t] EXCEPT !.pc = "put"])
  BY DEF PatchSecret
<1>2. run[t] \in RunType /\ run[t].left \in Life /\ (run[t].tracked => run[t].left # None)
  BY TypeFacts DEF RunType
<1>3. Well(t, [run[t] EXCEPT !.pc = "put"])
  BY <1>2 DEF Well, RunType
<1>4. ApiType'
  <2>1. [store EXCEPT !.role = run[t].left] \in Secret /\ [store EXCEPT !.mfa = run[t].left] \in Secret
    BY <1>2, TypeFacts DEF ApiType, Secret
  <2>2. \/ Write([store EXCEPT !.role = run[t].left])
        \/ Write([store EXCEPT !.mfa = run[t].left])
        \/ UNCHANGED apiVars
    BY DEF PatchSecret
  <2> QED
    BY <2>1, <2>2, TypeFacts, WriteTypes, ApiKept
<1> QED
  BY <1>1, <1>3, <1>4, TypeFacts, FaultFacts, ThreadTypes

LEMMA PutTypes ==
    ASSUME TypeInv, NEW t \in Thread, Put(t)
    PROVE  TypeInv'
<1>1. UNCHANGED <<apiVars, due, codeUsed, faults>> /\ cache' = Entry(run[t])
  BY DEF Put
<1>2. PICK r : /\ Become(t, r)
               /\ (t = "worker" /\ r = Using(run[t].left)) \/ r = Idle
  BY DEF Put
<1>3. /\ run[t] \in RunType /\ run[t].left \in Life /\ run[t].tracked \in BOOLEAN
      /\ (run[t].tracked => run[t].left # None)
  BY TypeFacts DEF RunType
<1>4. Well(t, r)
  BY <1>2, <1>3, IdleFacts DEF Well, Using, Idle, RunType
<1>5. cache' \in CacheType
  BY <1>1, <1>3 DEF Entry, CacheType, Life
<1> QED
  BY <1>1, <1>2, <1>4, <1>5, TypeFacts, ApiKept, ThreadTypes

\* The user and the informer change the secret's copies alone.
LEMMA OutsideTypes ==
    ASSUME TypeInv, UserCreates \/ UserDeletes \/ CacheDelivers
    PROVE  TypeInv' /\ UNCHANGED <<cache, run, busy, due, codeUsed, faults>>
<1>1. UNCHANGED <<cache, run, busy, due, codeUsed, faults>>
  BY DEF UserCreates, UserDeletes, CacheDelivers
<1>2. ApiType'
  <2>1. ASSUME NEW m \in Modes PROVE [NoSecret EXCEPT !.exists = TRUE, !.mode = m] \in Secret
    BY NoSecretType DEF Secret
  <2>2. CASE UserCreates
    BY <2>1, <2>2, TypeFacts, WriteTypes DEF UserCreates
  <2>3. CASE UserDeletes
    BY <2>3, NoSecretType, TypeFacts, WriteTypes DEF UserDeletes
  <2>4. CASE CacheDelivers
    BY <2>4, TypeFacts, CacheTypes DEF CacheDelivers
  <2> QED
    BY <2>2, <2>3, <2>4
<1> QED
  BY <1>1, <1>2 DEF TypeInv, TypeOK, TrackedInv, IdleInv, ApiType

LEMMA RestartTypes ==
    ASSUME TypeInv, Restart
    PROVE  /\ TypeInv' /\ cache' = None
           /\ \A t \in Thread : run'[t] = Idle
<1>1. /\ cache' = None /\ due' = 0 /\ UNCHANGED <<codeUsed, faults>>
      /\ run' = [t \in Thread |-> Idle] /\ busy' = [t \in Thread |-> 0]
  BY DEF Restart
<1>2. ApiType'
  BY TypeFacts, CacheTypes DEF Restart
<1>3. run' \in [Thread -> RunType] /\ busy' \in [Thread -> 0..MaxCall]
  BY <1>1, IdleFacts, Numbers
<1>4. cache' \in CacheType /\ due' \in 0..Interval
  BY <1>1, Numbers DEF CacheType
<1>5. TypeOK'
  BY <1>1, <1>2, <1>3, <1>4, TypeFacts DEF TypeOK, ApiType, RunType, CacheType
<1>6. TrackedInv' /\ IdleInv'
  BY <1>1, IdleFacts DEF TrackedInv, IdleInv, Thread
<1> QED
  BY <1>1, <1>5, <1>6 DEF TypeInv

LEMMA TickFacts ==
    ASSUME TypeInv, Tick
    PROVE  /\ \A t \in Thread :
                /\ run'[t] \in RunType
                /\ run'[t].pc = run[t].pc /\ run'[t].role = run[t].role
                /\ run'[t].tracked = run[t].tracked
                /\ run'[t].left = Older(run[t].left) /\ run[t].left \in Life
                /\ run[t] = Idle => run'[t] = Idle
                /\ busy'[t] = IF run[t] = Idle THEN 0 ELSE busy[t] + 1
                /\ run[t] # Idle => busy[t] < MaxCall
           /\ run["loop"] = Idle => due < Interval
           /\ due' = IF due < Interval THEN due + 1 ELSE due
           /\ codeUsed' = FALSE /\ faults' = faults
           /\ cache = None => cache' = None
           /\ cache # None => /\ cache.left \in Life /\ cache'.tracked = cache.tracked
                              /\ cache'.left = Older(cache.left) /\ cache' \in CacheType
<1>1. /\ run["loop"] = Idle => due < Interval
      /\ \A t \in Thread : run[t] # Idle => busy[t] < MaxCall
      /\ due' = IF due < Interval THEN due + 1 ELSE due
      /\ busy' = [t \in Thread |-> IF run[t] = Idle THEN 0 ELSE busy[t] + 1]
      /\ codeUsed' = FALSE /\ faults' = faults
      /\ cache' = IF cache = None THEN None ELSE [cache EXCEPT !.left = Older(@)]
      /\ run' = [t \in Thread |-> [run[t] EXCEPT !.left = Older(@)]]
  BY DEF Tick
<1>2. ASSUME NEW t \in Thread
      PROVE  /\ run'[t] = [run[t] EXCEPT !.left = Older(run[t].left)]
             /\ run[t] \in RunType /\ run[t].left \in Life
  BY <1>1, TypeFacts DEF RunType
<1>3. ASSUME NEW t \in Thread
      PROVE  /\ run'[t] \in RunType
             /\ run'[t].pc = run[t].pc /\ run'[t].role = run[t].role
             /\ run'[t].tracked = run[t].tracked
             /\ run'[t].left = Older(run[t].left)
  <2>1. Older(run[t].left) \in Life
    BY <1>2, OlderFacts
  <2> QED
    BY <1>2, <2>1 DEF RunType
<1>4. ASSUME NEW t \in Thread, run[t] = Idle PROVE run'[t] = Idle
  <2>1. Older(None) = None
    BY DEF Older
  <2> QED
    BY <1>2, <1>4, <2>1 DEF Idle
<1>5. ASSUME cache # None
      PROVE  /\ cache.left \in Life /\ cache'.tracked = cache.tracked
             /\ cache'.left = Older(cache.left) /\ cache' \in CacheType
  <2>1. \/ cache = [left |-> None, tracked |-> FALSE]
        \/ cache \in [left: 0..Duration, tracked: BOOLEAN]
    BY <1>5, TypeFacts DEF CacheType
  <2>2. cache' = [cache EXCEPT !.left = Older(cache.left)]
    BY <1>1, <1>5
  <2>3. CASE cache = [left |-> None, tracked |-> FALSE]
    <3>1. Older(None) = None
      BY DEF Older
    <3>2. cache' = [left |-> None, tracked |-> FALSE]
      BY <2>2, <2>3, <3>1
    <3> QED
      BY <2>3, <3>1, <3>2, Numbers DEF CacheType
  <2>4. CASE cache \in [left: 0..Duration, tracked: BOOLEAN]
    <3>1. cache.left \in 0..Duration /\ cache.left \in Life
      BY <2>4 DEF Life
    <3>2. Older(cache.left) \in 0..Duration
      BY <3>1, OlderFacts
    <3> QED
      BY <2>2, <2>4, <3>1, <3>2 DEF CacheType
  <2> QED
    BY <2>1, <2>3, <2>4
<1> QED
  BY <1>1, <1>2, <1>3, <1>4, <1>5

LEMMA TickTypes ==
    ASSUME TypeInv, Tick
    PROVE  TypeInv'
<1>1. ApiType'
  <2>1. /\ store' = OlderSecret(store) /\ cached' = OlderSecret(cached)
        /\ stream' = [i \in DOMAIN stream |-> OlderSecret(stream[i])]
    BY DEF Tick
  <2>2. store' \in Secret /\ cached' \in Secret
    BY <2>1, TypeFacts, OlderSecretType DEF ApiType
  <2>3. stream' \in Seq(Secret)
    <3>1. stream \in Seq(Secret) /\ Len(stream) \in Nat /\ DOMAIN stream = 1..Len(stream)
      BY TypeFacts DEF ApiType
    <3>2. \A i \in 1..Len(stream) : OlderSecret(stream[i]) \in Secret
      BY <3>1, OlderSecretType
    <3>3. stream' = [i \in 1..Len(stream) |-> OlderSecret(stream[i])]
      BY <2>1, <3>1
    <3>4. stream' \in [1..Len(stream) -> Secret]
      BY <3>2, <3>3
    <3> QED
      BY <3>1, <3>4
  <2> QED
    BY <2>2, <2>3 DEF ApiType
<1>2. run' \in [Thread -> RunType] /\ busy' \in [Thread -> 0..MaxCall]
  <2>1. /\ run' = [t \in Thread |-> [run[t] EXCEPT !.left = Older(@)]]
        /\ busy' = [t \in Thread |-> IF run[t] = Idle THEN 0 ELSE busy[t] + 1]
    BY DEF Tick
  <2>2. \A t \in Thread : [run[t] EXCEPT !.left = Older(@)] \in RunType
    BY TypeFacts, OlderFacts DEF RunType
  <2>3. \A t \in Thread : (IF run[t] = Idle THEN 0 ELSE busy[t] + 1) \in 0..MaxCall
    BY TickFacts, TypeFacts, Numbers
  <2> QED
    BY <2>1, <2>2, <2>3
<1>3. cache' \in CacheType /\ due' \in 0..Interval /\ codeUsed' \in BOOLEAN /\ faults' \in 0..MaxFaults
  <2>1. cache' \in CacheType
    BY TickFacts DEF CacheType
  <2>2. due' \in 0..Interval
    BY TickFacts, TypeFacts, Numbers
  <2>3. codeUsed' \in BOOLEAN /\ faults' \in 0..MaxFaults
    BY TickFacts, TypeFacts
  <2> QED
    BY <2>1, <2>2, <2>3
<1>4. TypeOK'
  BY <1>1, <1>2, <1>3 DEF TypeOK, ApiType, RunType, CacheType
<1>5. TrackedInv'
  <2>1. ASSUME NEW t \in Thread, run'[t].tracked PROVE run'[t].left # None
    BY <2>1, TickFacts, TypeFacts, OlderFacts
  <2> QED
    BY <2>1 DEF TrackedInv
<1>6. IdleInv'
  BY TickFacts, TypeFacts DEF IdleInv
<1> QED
  BY <1>4, <1>5, <1>6 DEF TypeInv

LEMMA TypeStep ==
    ASSUME TypeInv, [Next]_vars
    PROVE  TypeInv'
<1>1. ASSUME NEW t \in Thread, Refresh(t) PROVE TypeInv'
  BY <1>1, FetchTypes, GetSessionTokenTypes, AssumeRoleTypes, PatchSecretTypes, PutTypes
  DEF Refresh
<1>2. CASE UNCHANGED vars
  BY <1>2 DEF vars, apiVars, TypeInv, TypeOK, TrackedInv, IdleInv
<1> QED
  BY <1>1, <1>2, GetTypes, UseTypes, ScanTypes, OutsideTypes, RestartTypes, TickTypes
  DEF Next

\* Sessions, the cache, the secret's copies and both threads are well-formed in
\* every state, with every kind of secret.
THEOREM TypeCorrect == Spec => []TypeOK
<1>1. Init => TypeInv
  BY InitTypes
<1>2. TypeInv /\ [Next]_vars => TypeInv'
  BY TypeStep
<1>3. TypeInv => TypeOK
  BY DEF TypeInv
<1> QED
  BY <1>1, <1>2, <1>3, PTL DEF Spec
-----------------------------------------------------------------------------
(* Sessions in hand and in the cache, without MFA alone.                   *)

\* What thread t may become without breaking HandInv and KindInv.
Hand(t, r) ==
    r.pc \in {"assume", "persist", "put", "use"} => r.left = None \/ r.left + busy[t] >= Grace

Kind(r) ==
    /\ r.pc \in {"session", "assume"} => r.role
    /\ r.pc = "persist" => r.tracked
    /\ r.pc = "put" => r.tracked \/ r.left = None

LEMMA ThreadSession ==
    ASSUME TypeInv, HandInv, KindInv, NEW t \in Thread, NEW r, Well(t, r), Become(t, r),
           Hand(t, r), Kind(r),
           cache' # None => cache'.tracked \/ cache'.left = None
    PROVE  HandInv' /\ KindInv'
<1>1. /\ run'[t] = r
      /\ busy'[t] = IF r = Idle THEN 0 ELSE busy[t]
      /\ \A u \in Thread \ {t} : run'[u] = run[u] /\ busy'[u] = busy[u]
  BY BecomeFacts DEF Well
<1>2. HandInv'
  <2>1. ASSUME NEW u \in Thread, run'[u].pc \in {"assume", "persist", "put", "use"}
        PROVE  run'[u].left = None \/ run'[u].left + busy'[u] >= Grace
    BY <1>1, <2>1, IdleFacts DEF HandInv, Hand
  <2> QED
    BY <2>1 DEF HandInv
<1>3. KindInv'
  <2>1. ASSUME NEW u \in Thread
        PROVE  /\ run'[u].pc \in {"session", "assume"} => run'[u].role
               /\ run'[u].pc = "persist" => run'[u].tracked
               /\ run'[u].pc = "put" => run'[u].tracked \/ run'[u].left = None
    BY <1>1 DEF KindInv, Kind
  <2> QED
    BY <2>1 DEF KindInv
<1> QED
  BY <1>2, <1>3

\* A session in hand is never down to nothing: calls are shorter than the grace period.
LEMMA HandIsValid ==
    ASSUME TypeInv, HandInv, NEW t \in Thread,
           run[t].pc \in {"assume", "persist", "put", "use"}
    PROVE  /\ run[t].left # 0
           /\ run[t].left # None => run[t].left \in Nat /\ run[t].left + MaxCall >= Grace
<1>1. run[t].left = None \/ run[t].left + busy[t] >= Grace
  BY DEF HandInv
<1>2. run[t].left \in Life /\ busy[t] \in 0..MaxCall
  BY TypeFacts DEF RunType
<1> QED
  BY <1>1, <1>2, Numbers DEF Life

\* Without that mode, whoever needs a session needs it for a role.
LEMMA MFAIsForRole ==
    ASSUME "mfa" \notin Modes, NEW secret \in Secret, HasMFA(secret)
    PROVE  HasRole(secret)
BY DEF Secret, HasMFA, HasRole

LEMMA SessionInit ==
    ASSUME Init
    PROVE  SessionInv
BY IdleFacts DEF Init, SessionInv, HandInv, KindInv, FreshInv, Waiting

\* The freshness of the cached session depends on these facts of the threads only.
LEMMA FreshKept ==
    ASSUME TypeInv, FreshInv,
           Waiting' => /\ faults = 0 /\ ~Renewing /\ cache' = cache /\ codeUsed' = codeUsed
                       /\ due' = due
                       /\ run'["loop"] = run["loop"] /\ busy'["loop"] = busy["loop"]
    PROVE  FreshInv'
BY DEF FreshInv, Waiting

LEMMA GetSession ==
    ASSUME TypeInv, SessionInv, Get
    PROVE  SessionInv'
<1>1. UNCHANGED <<apiVars, cache, due, codeUsed, faults>> /\ run["worker"] = Idle
  BY DEF Get
<1>2. PICK r : Become("worker", r) /\ (\/ cache # None /\ ~NeedsRefresh(cache) /\ r = Using(cache.left)
                                       \/ r = [Idle EXCEPT !.pc = "fetch"])
  BY DEF Get
<1>3. Well("worker", r)
  <2>1. cache # None => cache.left \in Life
    BY TypeFacts, Numbers DEF CacheType, Life
  <2> QED
    BY <1>2, <2>1, IdleFacts DEF Well, Using, Idle, RunType
<1>4. r.pc \in {"use", "fetch"} /\ (r.pc = "use" => cache # None /\ ~NeedsRefresh(cache) /\ r.left = cache.left)
  BY <1>2 DEF Using, Idle
<1>5. Hand("worker", r) /\ Kind(r)
  <2>1. ASSUME cache # None, ~NeedsRefresh(cache)
        PROVE  cache.left = None \/ cache.left + busy["worker"] >= Grace
    <3>1. cache.left = None \/ (cache.left \in 0..Duration /\ cache.left >= Grace)
      BY <2>1, TypeFacts, Numbers DEF NeedsRefresh, CacheType, SessionInv, KindInv
    <3>2. busy["worker"] \in 0..MaxCall
      BY TypeFacts
    <3> QED
      BY <3>1, <3>2, Numbers
  <2> QED
    BY <1>4, <2>1 DEF Hand, Kind
<1>6. HandInv' /\ KindInv'
  BY <1>1, <1>2, <1>3, <1>5, ThreadSession, TypeFacts DEF SessionInv, KindInv
<1>7. FreshInv'
  <2>1. run'["loop"] = run["loop"] /\ busy'["loop"] = busy["loop"]
    BY <1>2, <1>3, BecomeFacts, TypeFacts DEF Well, Thread
  <2>2. run["worker"].pc = "idle"
    BY <1>1, IdleFacts
  <2>3. ~Renewing' => ~Renewing
    BY <2>1, <2>2 DEF Renewing, Thread
  <2> QED
    BY <1>1, <2>1, <2>3, FreshKept DEF SessionInv, Waiting
<1> QED
  BY <1>6, <1>7 DEF SessionInv

LEMMA UseSession ==
    ASSUME TypeInv, SessionInv, Use
    PROVE  SessionInv'
<1>1. /\ UNCHANGED <<apiVars, due, codeUsed>> /\ Become("worker", Idle)
      /\ NoFault \/ Fault
      /\ cache' \in {cache, None}
      /\ run["worker"].pc = "use"
  BY DEF Use
<1>2. Well("worker", Idle) /\ Hand("worker", Idle) /\ Kind(Idle)
  BY IdleFacts DEF Well, Hand, Kind
<1>3. HandInv' /\ KindInv'
  BY <1>1, <1>2, ThreadSession, TypeFacts DEF SessionInv, KindInv
<1>4. FreshInv'
  <2>1. run'["loop"] = run["loop"] /\ busy'["loop"] = busy["loop"]
    BY <1>1, <1>2, BecomeFacts, TypeFacts DEF Well, Thread
  <2>2. ~Renewing' => ~Renewing
    BY <1>1, <2>1 DEF Renewing, Thread
  <2>3. faults' = 0 => faults = 0
    BY <1>1, FaultFacts
  <2> QED
    BY <1>1, <2>1, <2>2, <2>3, FreshKept DEF SessionInv, Waiting
<1> QED
  BY <1>3, <1>4 DEF SessionInv

\* The scan comes in time: what it leaves alone has the whole grace period left.
LEMMA ScanSession ==
    ASSUME TypeInv, SessionInv, Scan
    PROVE  SessionInv'
<1>1. /\ UNCHANGED <<apiVars, cache, codeUsed, faults>> /\ due' = 0
      /\ run["loop"] = Idle /\ due = Interval
  BY DEF Scan
<1>2. PICK r : /\ Become("loop", r)
               /\ \/ r = Idle /\ ~(cache # None /\ NeedsRefresh(cache))
                  \/ r = [Idle EXCEPT !.pc = "fetch"]
  BY DEF Scan
<1>3. Well("loop", r) /\ r.pc \in {"idle", "fetch"}
  BY <1>2, IdleFacts DEF Well, Idle, RunType
<1>4. HandInv' /\ KindInv'
  BY <1>1, <1>2, <1>3, ThreadSession, TypeFacts DEF SessionInv, KindInv, Hand, Kind
<1>5. FreshInv'
  <2>1. /\ run'["loop"] = r /\ busy'["loop"] = IF r = Idle THEN 0 ELSE busy["loop"]
        /\ run'["worker"] = run["worker"]
    BY <1>2, <1>3, BecomeFacts, TypeFacts DEF Well, Thread
  <2>2. busy["loop"] = 0 /\ run["loop"].pc = "idle"
    BY <1>1, TypeFacts, IdleFacts
  <2> SUFFICES ASSUME Waiting'
               PROVE  /\ r.pc = "idle" => cache.left + MaxCall + 0 >= Grace
                      /\ r.pc \in {"fetch", "session"}
                           => cache.left + MaxCall + Interval + busy'["loop"] >= Grace
                      /\ codeUsed => cache.left + MaxCall >= Grace
    BY <1>1, <2>1 DEF FreshInv
  <2>3. Waiting
    BY <1>1, <2>1, <2>2 DEF Waiting, Renewing, Thread
  <2>4. cache # None /\ cache.tracked /\ cache.left \in 0..Duration
    BY <2>3, TypeFacts DEF Waiting, CacheType
  <2>5. /\ cache.left + MaxCall + Interval >= Grace
        /\ codeUsed => cache.left + MaxCall >= Grace
    BY <1>1, <2>2, <2>3 DEF SessionInv, FreshInv
  <2>6. CASE r = Idle
    <3>1. cache.left >= Grace
      BY <1>2, <1>3, <2>4, <2>6, IdleFacts, Numbers DEF NeedsRefresh, Idle
    <3> QED
      BY <2>4, <2>5, <2>6, <3>1, IdleFacts, Numbers
  <2>7. CASE r # Idle
    <3>1. r.pc = "fetch" /\ busy'["loop"] = 0
      BY <1>2, <2>1, <2>2, <2>7 DEF Idle
    <3> QED
      BY <2>4, <2>5, <3>1, Numbers
  <2> QED
    BY <2>6, <2>7
<1> QED
  BY <1>4, <1>5 DEF SessionInv

LEMMA FetchSession ==
    ASSUME "mfa" \notin Modes, TypeInv, SessionInv, NEW t \in Thread, Fetch(t)
    PROVE  SessionInv'
<1>1. /\ UNCHANGED <<apiVars, due, codeUsed>> /\ run[t].pc = "fetch"
      /\ NoFault \/ Fault
      /\ cache' = cache \/ (t = "loop" /\ cache' = None)
  BY FetchFacts
<1>2. PICK r : /\ Become(t, r) /\ FetchResult(t, r)
               /\ r = Idle => t = "worker" \/ Fault \/ cache' = None
               /\ r # Idle => cache' = cache
  BY FetchFacts
<1>3. Well(t, r)
  BY <1>2, IdleFacts DEF Well, FetchResult, Persisted
<1>4. Hand(t, r)
  <2>1. r.pc # "persist" /\ r.pc # "use"
    BY <1>2, IdleFacts DEF FetchResult
  <2>2. ASSUME r.pc \in {"assume", "put"}, r.left # None
        PROVE  r.left \in 0..Duration /\ r.left >= Grace
    BY <1>2, <2>2, IdleFacts, Numbers DEF FetchResult, Persisted, Life
  <2>3. busy[t] \in 0..MaxCall
    BY TypeFacts
  <2>4. ASSUME r.pc \in {"assume", "put"}, r.left # None PROVE r.left + busy[t] >= Grace
    BY <2>2, <2>3, <2>4, Numbers
  <2> QED
    BY <2>1, <2>4 DEF Hand
<1>5. Kind(r)
  <2>1. CASE r = Idle
    BY <2>1, IdleFacts DEF Kind
  <2>2. ASSUME NEW secret \in Secret, HasMFA(secret), r.role = HasRole(secret) PROVE r.role
    BY <2>2, MFAIsForRole
  <2>3. r.pc \in {"session", "assume"} => r.role
    BY <1>2, <2>2, IdleFacts DEF FetchResult, AfterBase
  <2>4. r.pc = "put" => r.tracked \/ r.left = None
    BY <1>2, <2>2, IdleFacts DEF FetchResult, AfterBase
  <2>5. r.pc # "persist"
    BY <1>2, IdleFacts DEF FetchResult
  <2> QED
    BY <2>3, <2>4, <2>5 DEF Kind
<1>6. HandInv' /\ KindInv'
  BY <1>1, <1>2, <1>3, <1>4, <1>5, ThreadSession, TypeFacts DEF SessionInv, KindInv
<1>7. FreshInv'
  <2>1. /\ run'[t] = r /\ busy'[t] = IF r = Idle THEN 0 ELSE busy[t]
        /\ \A u \in Thread \ {t} : run'[u] = run[u] /\ busy'[u] = busy[u]
    BY <1>2, <1>3, BecomeFacts DEF Well
  <2> SUFFICES ASSUME Waiting'
               PROVE  FreshInv'
    BY DEF FreshInv
  <2>2. faults' = 0 /\ cache' # None /\ cache'.tracked /\ ~Renewing'
    BY DEF Waiting
  <2>3. faults = 0 /\ ~Fault /\ cache' = cache
    BY <1>1, <2>2, FaultFacts
  <2>4. r.pc \in {"idle", "session"}
    BY <1>2, <2>1, <2>2, IdleFacts DEF FetchResult, Renewing
  <2>5. Waiting
    BY <1>1, <2>1, <2>2, <2>3 DEF Waiting, Renewing
  <2>6. CASE t = "worker"
    BY <1>1, <2>1, <2>3, <2>5, <2>6, FreshKept, TypeFacts DEF SessionInv, Waiting
  <2>7. CASE t = "loop"
    <3>1. r # Idle
      BY <1>2, <2>2, <2>3, <2>7
    <3>2. r.pc = "session" /\ busy'["loop"] = busy["loop"] /\ run'["loop"] = r
      BY <1>3, <2>1, <2>4, <2>7, <3>1 DEF Well
    <3> QED
      BY <1>1, <2>3, <2>5, <2>7, <3>2 DEF SessionInv, FreshInv
  <2> QED
    BY <2>6, <2>7 DEF Thread
<1> QED
  BY <1>6, <1>7 DEF SessionInv

\* A refused one-time code was used for a session that is fresh still.
LEMMA GetSessionTokenSession ==
    ASSUME TypeInv, SessionInv, NEW t \in Thread, GetSessionToken(t)
    PROVE  SessionInv'
<1> DEFINE new == [run[t] EXCEPT !.pc = IF run[t].role THEN "assume" ELSE "persist",
                                 !.left = Duration, !.tracked = TRUE]
<1>1. /\ UNCHANGED <<apiVars, cache, due>> /\ run[t].pc = "session" /\ (NoFault \/ Fault)
      /\ \/ Become(t, new)
         \/ Become(t, Idle) /\ codeUsed' = codeUsed /\ (codeUsed \/ Fault)
  BY DEF GetSessionToken
<1>2. run[t] \in RunType /\ run[t].role /\ busy[t] \in 0..MaxCall
  BY <1>1, TypeFacts DEF SessionInv, KindInv
<1>3. CASE Become(t, new)
  <2>1. new \in RunType /\ new.pc = "assume" /\ new.role /\ new.left = Duration
    BY <1>2, Numbers DEF RunType
  <2>2. Well(t, new) /\ Hand(t, new) /\ Kind(new)
    BY <1>2, <2>1, Numbers DEF Well, Hand, Kind
  <2>3. HandInv' /\ KindInv'
    BY <1>1, <1>3, <2>2, ThreadSession, TypeFacts DEF SessionInv, KindInv
  <2>4. run'[t] = new
    BY <1>3, <2>1, BecomeFacts
  <2>5. Renewing'
    BY <2>1, <2>4 DEF Renewing
  <2> QED
    BY <2>3, <2>5 DEF SessionInv, FreshInv, Waiting
<1>4. CASE Become(t, Idle) /\ codeUsed' = codeUsed /\ (codeUsed \/ Fault)
  <2>1. Well(t, Idle) /\ Hand(t, Idle) /\ Kind(Idle)
    BY IdleFacts DEF Well, Hand, Kind
  <2>2. HandInv' /\ KindInv'
    BY <1>1, <1>4, <2>1, ThreadSession, TypeFacts DEF SessionInv, KindInv
  <2>3. /\ run'[t] = Idle /\ busy'[t] = 0
        /\ \A u \in Thread \ {t} : run'[u] = run[u] /\ busy'[u] = busy[u]
    BY <1>4, BecomeFacts, IdleFacts
  <2>4. FreshInv'
    <3> SUFFICES ASSUME Waiting' PROVE FreshInv'
      BY DEF FreshInv
    <3>1. faults' = 0 /\ ~Renewing' /\ cache' # None /\ cache'.tracked
      BY DEF Waiting
    <3>2. faults = 0 /\ ~Fault
      BY <1>1, <3>1, FaultFacts
    <3>3. Waiting
      BY <1>1, <2>3, <3>1, <3>2 DEF Waiting, Renewing
    <3>4. cache.left \in 0..Duration /\ cache.left + MaxCall >= Grace /\ due \in 0..Interval
      BY <1>4, <3>2, <3>3, TypeFacts DEF SessionInv, FreshInv, Waiting, CacheType
    <3>5. CASE t = "worker"
      BY <1>1, <1>4, <2>3, <3>3, <3>5, FreshKept, TypeFacts DEF SessionInv, Waiting
    <3>6. CASE t = "loop"
      <4>1. cache.left + MaxCall + due >= Grace
        BY <3>4, Numbers
      <4>2. run'["loop"].pc = "idle"
        BY <2>3, <3>6, IdleFacts
      <4> QED
        BY <1>1, <3>4, <4>1, <4>2 DEF FreshInv
    <3> QED
      BY <3>5, <3>6 DEF Thread
  <2> QED
    BY <2>2, <2>4 DEF SessionInv
<1> QED
  BY <1>1, <1>3, <1>4

LEMMA AssumeRoleSession ==
    ASSUME TypeInv, SessionInv, NEW t \in Thread, AssumeRole(t)
    PROVE  SessionInv'
<1> DEFINE new == [run[t] EXCEPT !.pc = "persist", !.left = Duration, !.tracked = TRUE]
<1>1. /\ UNCHANGED <<apiVars, cache, due, codeUsed>> /\ run[t].pc = "assume"
      /\ Become(t, new) \/ (Become(t, Idle) /\ (run[t].left = 0 \/ Fault))
      /\ NoFault \/ Fault
  BY DEF AssumeRole
<1>2. run[t] \in RunType /\ busy[t] \in 0..MaxCall /\ run[t].left # 0
  BY <1>1, TypeFacts, HandIsValid DEF SessionInv
<1>3. CASE Become(t, new)
  <2>1. new \in RunType /\ new.pc = "persist" /\ new.tracked /\ new.left = Duration
    BY <1>2, Numbers DEF RunType
  <2>2. Well(t, new) /\ Hand(t, new) /\ Kind(new)
    BY <1>2, <2>1, Numbers DEF Well, Hand, Kind
  <2>3. HandInv' /\ KindInv'
    BY <1>1, <1>3, <2>2, ThreadSession, TypeFacts DEF SessionInv, KindInv
  <2>4. run'[t] = new
    BY <1>3, <2>1, BecomeFacts
  <2>5. Renewing'
    BY <2>1, <2>4 DEF Renewing
  <2> QED
    BY <2>3, <2>5 DEF SessionInv, FreshInv, Waiting
<1>4. CASE Become(t, Idle) /\ Fault
  <2>1. Well(t, Idle) /\ Hand(t, Idle) /\ Kind(Idle)
    BY IdleFacts DEF Well, Hand, Kind
  <2>2. HandInv' /\ KindInv'
    BY <1>1, <1>4, <2>1, ThreadSession, TypeFacts DEF SessionInv, KindInv
  <2>3. faults' # 0
    BY <1>4, FaultFacts
  <2> QED
    BY <2>2, <2>3 DEF SessionInv, FreshInv, Waiting
<1> QED
  BY <1>1, <1>2, <1>3, <1>4

LEMMA PatchSecretSession ==
    ASSUME TypeInv, SessionInv, NEW t \in Thread, PatchSecret(t)
    PROVE  SessionInv'
<1> DEFINE new == [run[t] EXCEPT !.pc = "put"]
<1>1. /\ UNCHANGED <<cache, due, codeUsed>> /\ run[t].pc = "persist"
      /\ Become(t, new)
  BY DEF PatchSecret
<1>2. run[t] \in RunType
  BY TypeFacts
<1>3. /\ new \in RunType /\ new.pc = "put" /\ new.tracked = run[t].tracked
      /\ new.left = run[t].left
  BY <1>2 DEF RunType
<1>4. Well(t, new) /\ Hand(t, new) /\ Kind(new)
  BY <1>1, <1>3, TypeFacts DEF Well, Hand, Kind, SessionInv, HandInv, KindInv
<1>5. HandInv' /\ KindInv'
  BY <1>1, <1>4, ThreadSession, TypeFacts DEF SessionInv, KindInv
<1>6. run'[t] = new
  BY <1>1, <1>3, BecomeFacts
<1>7. Renewing'
  BY <1>3, <1>6 DEF Renewing
<1> QED
  BY <1>5, <1>7 DEF SessionInv, FreshInv, Waiting

\* What is put into the cache is younger than one call.
LEMMA PutSession ==
    ASSUME TypeInv, SessionInv, NEW t \in Thread, Put(t)
    PROVE  SessionInv'
<1>1. /\ UNCHANGED <<apiVars, due, codeUsed, faults>> /\ run[t].pc = "put"
      /\ cache' = [left |-> run[t].left, tracked |-> run[t].tracked]
  BY DEF Put, Entry
<1>2. PICK r : /\ Become(t, r)
               /\ (t = "worker" /\ r = Using(run[t].left)) \/ r = Idle
  BY DEF Put
<1>3. /\ run[t] \in RunType /\ run[t].left \in Life
      /\ run[t].tracked => run[t].left # None
      /\ run[t].tracked \/ run[t].left = None
      /\ run[t].left = None \/ run[t].left + busy[t] >= Grace
  BY <1>1, TypeFacts DEF RunType, SessionInv, HandInv, KindInv
<1>4. Well(t, r)
  BY <1>2, <1>3, IdleFacts DEF Well, Using, Idle, RunType
<1>5. Hand(t, r) /\ Kind(r)
  BY <1>2, <1>3, IdleFacts DEF Hand, Kind, Using, Idle
<1>6. HandInv' /\ KindInv'
  BY <1>1, <1>2, <1>3, <1>4, <1>5, ThreadSession DEF SessionInv
<1>7. FreshInv'
  <2> SUFFICES ASSUME Waiting' PROVE FreshInv'
    BY DEF FreshInv
  <2>1. cache'.tracked /\ cache'.left = run[t].left
    BY <1>1 DEF Waiting
  <2>2. cache'.left \in Nat /\ cache'.left + MaxCall >= Grace
    BY <1>1, <1>3, <2>1, HandIsValid DEF SessionInv
  <2>3. TypeInv'
    BY PutTypes
  <2>4. due' \in 0..Interval /\ busy'["loop"] \in 0..MaxCall
    BY <2>3 DEF TypeInv, TypeOK, Thread
  <2>5. /\ cache'.left + MaxCall + due' >= Grace
        /\ cache'.left + MaxCall + Interval + busy'["loop"] >= Grace
    BY <2>2, <2>4, Numbers
  <2> QED
    BY <2>2, <2>5 DEF FreshInv
<1> QED
  BY <1>6, <1>7 DEF SessionInv

LEMMA OutsideSession ==
    ASSUME TypeInv, SessionInv, UserCreates \/ UserDeletes \/ CacheDelivers
    PROVE  SessionInv'
<1>1. UNCHANGED <<cache, run, busy, due, codeUsed, faults>>
  BY OutsideTypes
<1> QED
  BY <1>1 DEF SessionInv, HandInv, KindInv, FreshInv, Waiting, Renewing

LEMMA RestartSession ==
    ASSUME TypeInv, SessionInv, Restart
    PROVE  SessionInv'
<1>1. cache' = None /\ \A t \in Thread : run'[t] = Idle
  BY RestartTypes
<1> QED
  BY <1>1, IdleFacts DEF SessionInv, HandInv, KindInv, FreshInv, Waiting

\* Time takes no more off a session than it adds to the call, or to the round, that
\* the bound counts.
LEMMA TickSession ==
    ASSUME TypeInv, SessionInv, Tick
    PROVE  SessionInv'
<1>1. HandInv'
  <2>1. ASSUME NEW t \in Thread, run'[t].pc \in {"assume", "persist", "put", "use"},
               run'[t].left # None
        PROVE  run'[t].left + busy'[t] >= Grace
    <3>1. /\ run[t].pc = run'[t].pc /\ run'[t].left = Older(run[t].left)
          /\ run[t].left \in Life
      BY TickFacts
    <3>2. run[t].left # None /\ run[t].left + busy[t] >= Grace
      BY <2>1, <3>1, OlderFacts DEF SessionInv, HandInv
    <3>3. run[t] # Idle
      BY <2>1, <3>1, IdleFacts
    <3>4. busy'[t] = busy[t] + 1 /\ busy[t] < MaxCall /\ busy[t] \in 0..MaxCall
      BY <3>3, TickFacts, TypeFacts
    <3>5. run[t].left \in 1..Duration
      BY <3>1, <3>2, <3>4, Numbers DEF Life
    <3>6. run'[t].left = run[t].left - 1
      BY <3>1, <3>5, OlderFacts
    <3> QED
      BY <3>2, <3>4, <3>5, <3>6, Numbers
  <2> QED
    BY <2>1 DEF HandInv
<1>2. KindInv'
  <2>1. ASSUME NEW t \in Thread
        PROVE  /\ run'[t].pc \in {"session", "assume"} => run'[t].role
               /\ run'[t].pc = "persist" => run'[t].tracked
               /\ run'[t].pc = "put" => run'[t].tracked \/ run'[t].left = None
    BY TickFacts, OlderFacts DEF SessionInv, KindInv
  <2>2. ASSUME cache' # None PROVE cache'.tracked \/ cache'.left = None
    BY <2>2, TickFacts, OlderFacts DEF SessionInv, KindInv
  <2> QED
    BY <2>1, <2>2 DEF KindInv
<1>3. FreshInv'
  <2> SUFFICES ASSUME Waiting' PROVE FreshInv'
    BY DEF FreshInv
  <2>1. cache # None /\ cache.tracked /\ cache'.left = Older(cache.left) /\ codeUsed' = FALSE
    BY TickFacts DEF Waiting
  <2>2. Waiting
    BY <2>1, TickFacts DEF Waiting, Renewing
  <2>3. cache.left \in 0..Duration /\ busy["loop"] \in 0..MaxCall /\ due \in 0..Interval
    BY <2>1, TypeFacts DEF CacheType
  <2>4. CASE run["loop"].pc = "idle"
    <3>1. run["loop"] = Idle /\ due < Interval /\ due' = due + 1
      BY <2>4, TickFacts, TypeFacts
    <3>2. cache.left + MaxCall + due >= Grace
      BY <2>2, <2>4 DEF SessionInv, FreshInv
    <3>3. cache.left \in 1..Duration
      BY <2>3, <3>2, Numbers
    <3>4. cache'.left = cache.left - 1
      BY <2>1, <2>3, <3>3, OlderFacts DEF Life
    <3>5. cache'.left + MaxCall + due' >= Grace
      BY <2>3, <3>1, <3>2, <3>4, Numbers
    <3>6. run'["loop"].pc = "idle"
      BY <2>4, TickFacts, TypeFacts
    <3> QED
      BY <2>1, <3>5, <3>6 DEF FreshInv
  <2>5. CASE run["loop"].pc \in {"fetch", "session"}
    <3>1. run["loop"] # Idle
      BY <2>5, IdleFacts
    <3>2. busy["loop"] < MaxCall /\ busy'["loop"] = busy["loop"] + 1
      BY <3>1, TickFacts, TypeFacts
    <3>3. cache.left + MaxCall + Interval + busy["loop"] >= Grace
      BY <2>2, <2>5 DEF SessionInv, FreshInv
    <3>4. cache.left \in 1..Duration
      BY <2>3, <3>2, <3>3, Numbers
    <3>5. cache'.left = cache.left - 1
      BY <2>1, <2>3, <3>4, OlderFacts DEF Life
    <3>6. cache'.left + MaxCall + Interval + busy'["loop"] >= Grace
      BY <2>3, <3>2, <3>3, <3>5, Numbers
    <3>7. run'["loop"].pc \in {"fetch", "session"}
      BY <2>5, TickFacts, TypeFacts
    <3> QED
      BY <2>1, <3>6, <3>7 DEF FreshInv
  <2>6. run["loop"].pc \in {"idle", "fetch", "session"}
    BY <2>2, TypeFacts DEF Waiting, Renewing, RunType
  <2> QED
    BY <2>4, <2>5, <2>6
<1> QED
  BY <1>1, <1>2, <1>3 DEF SessionInv

LEMMA SessionStep ==
    ASSUME "mfa" \notin Modes, TypeInv, SessionInv, [Next]_vars
    PROVE  SessionInv'
<1>1. ASSUME NEW t \in Thread, Refresh(t) PROVE SessionInv'
  BY <1>1, FetchSession, GetSessionTokenSession, AssumeRoleSession, PatchSecretSession, PutSession
  DEF Refresh
<1>2. CASE UNCHANGED vars
  BY <1>2 DEF vars, SessionInv, HandInv, KindInv, FreshInv, Waiting, Renewing
<1> QED
  BY <1>1, <1>2, GetSession, UseSession, ScanSession, OutsideSession, RestartSession, TickSession
  DEF Next
-----------------------------------------------------------------------------
(* The theorems.                                                           *)

\* What Get returns has not expired while the reconcile uses it, for every secret
\* but one of MFA alone (Get, needsRefresh, CachedRoleSession).
THEOREM CredentialsInHandValid ==
    ASSUME "mfa" \notin Modes
    PROVE  Spec => []GivenCredentialsValid
<1>1. Init => TypeInv /\ SessionInv
  BY InitTypes, SessionInit
<1>2. (TypeInv /\ SessionInv) /\ [Next]_vars => (TypeInv /\ SessionInv)'
  BY TypeStep, SessionStep
<1>3. TypeInv /\ SessionInv => GivenCredentialsValid
  BY HandIsValid, TypeFacts DEF GivenCredentialsValid, SessionInv
<1> QED
  BY <1>1, <1>2, <1>3, PTL DEF Spec

\* The background loop renews every session in time, for every secret but one of MFA
\* alone: the interval, two calls and nothing else lie between a session's entry into
\* the grace period and its successor (Start, refreshExpiring).
THEOREM SessionsRenewedInTime ==
    ASSUME "mfa" \notin Modes
    PROVE  Spec => []CachedSessionFresh
<1>1. Init => TypeInv /\ SessionInv
  BY InitTypes, SessionInit
<1>2. (TypeInv /\ SessionInv) /\ [Next]_vars => (TypeInv /\ SessionInv)'
  BY TypeStep, SessionStep
<1>3. TypeInv /\ SessionInv => CachedSessionFresh
  <2> SUFFICES ASSUME TypeInv, SessionInv, faults = 0, cache # None, cache.left = 0, ~Renewing
               PROVE  FALSE
    BY DEF CachedSessionFresh, Renewing
  <2>1. cache.tracked
    BY Numbers DEF SessionInv, KindInv
  <2>2. Waiting
    BY <2>1 DEF Waiting
  <2>3. run["loop"].pc \in {"idle", "fetch", "session"}
    BY TypeFacts DEF Renewing, RunType
  <2>4. busy["loop"] \in 0..MaxCall /\ due \in 0..Interval
    BY TypeFacts
  <2>5. MaxCall + due >= Grace \/ MaxCall + Interval + busy["loop"] >= Grace
    BY <2>2, <2>3, <2>4, Numbers DEF SessionInv, FreshInv
  <2> QED
    BY <2>4, <2>5, Numbers
<1> QED
  BY <1>1, <1>2, <1>3, PTL DEF Spec
=============================================================================
