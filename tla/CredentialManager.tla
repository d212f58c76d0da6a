------------------------- MODULE CredentialManager -------------------------
(***************************************************************************)
(* The AWS credential cache: one credential secret (the resource of        *)
(* ApiCache), its entry in the cache, the reconcile worker that calls Get  *)
(* and the background loop that renews what is about to expire.            *)
(*                                                                         *)
(* Time: a session is represented by what is left of it, and Tick takes    *)
(* one unit off every copy of every session.                               *)
(***************************************************************************)
EXTENDS ApiCache

CONSTANTS
    Modes,       \* what secrets contain: "static", "role", "mfa", "mfaRole"
    Duration,    \* bound: life of a new session
    Grace,       \* mfaSessionGrace
    Interval,    \* CredentialManager.interval
    MaxCall,     \* bound: time one Get and the use of its result, or one refresh, takes
    None,        \* no session; for credentials in hand: they do not expire
    MaxFaults    \* bound: failed calls

ASSUME CredentialConstantsAssumption ==
    /\ Modes \subseteq {"static", "role", "mfa", "mfaRole"} /\ Modes # {}
    /\ {Duration, Grace, Interval, MaxCall, MaxFaults} \subseteq Nat
    /\ Interval > 0 /\ Interval + 2 * MaxCall < Grace /\ Grace < Duration
    /\ None \notin Nat

VARIABLES
    cache,       \* the entry m.cache[key], or None
    run,         \* per thread: the Get or refresh in progress
    busy,        \* per thread: how long it has been at it
    due,         \* time since the loop's last tick
    codeUsed,    \* the current TOTP code has been used
    faults       \* budget spent

vars == <<apiVars, cache, run, busy, due, codeUsed, faults>>

Thread == {"worker", "loop"}

Life == (0..Duration) \cup {None}

\* mfa and role: the sessions persisted in the secret.
Secret == [exists: BOOLEAN, mode: Modes, mfa: Life, role: Life]

NoSecret == [exists |-> FALSE, mode |-> CHOOSE m \in Modes : TRUE,
             mfa |-> None, role |-> None]

HasRole(secret) == secret.mode \in {"role", "mfaRole"}
HasMFA(secret)  == secret.mode \in {"mfa", "mfaRole"}

Idle == [pc |-> "idle", role |-> FALSE, left |-> None, tracked |-> FALSE]

Init ==
    /\ store = NoSecret /\ cached = NoSecret /\ stream = <<>>
    /\ cache = None
    /\ run = [t \in Thread |-> Idle] /\ busy = [t \in Thread |-> 0]
    /\ due = 0 /\ codeUsed = FALSE /\ faults = 0

NoFault == UNCHANGED faults
Fault   == faults < MaxFaults /\ faults' = faults + 1

Become(t, r) ==
    /\ run' = [run EXCEPT ![t] = r]
    /\ busy' = [busy EXCEPT ![t] = IF r = Idle THEN 0 ELSE @]

-----------------------------------------------------------------------------
(* Get, refreshExpiring and Evict.                                         *)

\* Mutant: the grace window is forgotten.
NeedsRefreshLate(entry) == entry.tracked /\ entry.left = 0

\* An entry without an expiry never needs it.
NeedsRefresh(entry) == entry.tracked /\ entry.left < Grace

\* What Get returns is used at once.
Using(left) == [Idle EXCEPT !.pc = "use", !.left = left]

Get ==
    /\ run["worker"] = Idle
    /\ IF cache # None /\ ~NeedsRefresh(cache)
       THEN Become("worker", Using(cache.left))
       ELSE Become("worker", [Idle EXCEPT !.pc = "fetch"])
    /\ UNCHANGED <<apiVars, cache, due, codeUsed, faults>>

\* The worker calls AWS.  A deletion that AWS refuses evicts the entry.
Use ==
    /\ run["worker"].pc = "use"
    /\ \/ run["worker"].left # 0 /\ NoFault /\ UNCHANGED cache
       \/ /\ IF run["worker"].left = 0 THEN NoFault ELSE Fault
          /\ cache' \in {cache, None}
    /\ Become("worker", Idle)
    /\ UNCHANGED <<apiVars, due, codeUsed>>

\* The loop's ticker fires: is the entry near its expiry?
Scan ==
    /\ run["loop"] = Idle /\ due = Interval
    /\ due' = 0
    /\ Become("loop", IF cache # None /\ NeedsRefresh(cache)
                      THEN [Idle EXCEPT !.pc = "fetch"] ELSE Idle)
    /\ UNCHANGED <<apiVars, cache, codeUsed, faults>>

-----------------------------------------------------------------------------
(* refresh, by either thread.                                              *)

\* Mutant: a persisted session is taken until it has expired.
PersistedUntilExpiry(session) == session # None /\ session > 0

\* IsExpired, CachedRoleSession: a persisted session is taken outside the window.
Persisted(session) == session # None /\ session >= Grace

\* Mutant: the error of the client is not unwrapped.
SecretGoneUnseen(t) == UNCHANGED cache

\* Only the loop evicts the entry of a secret that is gone; Get just fails.
SecretGone(t) == cache' = IF t = "loop" THEN None ELSE cache

AfterBase(role) == IF role THEN "assume" ELSE "put"

\* The secret is read, and what it has persisted is reused; a reused MFA session
\* comes back without its expiry.
Fetch(t) ==
    /\ run[t].pc = "fetch"
    /\ LET role == HasRole(cached)
           take(pc, left, tracked) ==
               Become(t, [pc |-> pc, role |-> role, left |-> left, tracked |-> tracked])
       IN \/ ~cached.exists /\ SecretGone(t) /\ Become(t, Idle) /\ NoFault
          \/ /\ cached.exists /\ UNCHANGED cache /\ NoFault
             /\ CASE role /\ Persisted(cached.role) -> take("put", cached.role, TRUE)
                  [] ~(role /\ Persisted(cached.role)) /\ ~HasMFA(cached)
                        -> take(AfterBase(role), None, FALSE)
                  [] ~(role /\ Persisted(cached.role)) /\ HasMFA(cached)
                        -> IF Persisted(cached.mfa)
                           THEN take(AfterBase(role), cached.mfa, FALSE)
                           ELSE take("session", None, FALSE)
          \/ Fault /\ Become(t, Idle) /\ UNCHANGED cache
    /\ UNCHANGED <<apiVars, due, codeUsed>>

\* sts:GetSessionToken, which takes each TOTP code once.
GetSessionToken(t) ==
    /\ run[t].pc = "session"
    /\ \/ /\ ~codeUsed /\ codeUsed' = TRUE /\ NoFault
          /\ Become(t, [run[t] EXCEPT !.pc = IF run[t].role THEN "assume" ELSE "persist",
                                      !.left = Duration, !.tracked = TRUE])
       \/ /\ IF codeUsed THEN NoFault ELSE Fault
          /\ Become(t, Idle) /\ UNCHANGED codeUsed
    /\ UNCHANGED <<apiVars, cache, due>>

\* sts:AssumeRole with the base credentials.
AssumeRole(t) ==
    /\ run[t].pc = "assume"
    /\ \/ /\ run[t].left # 0 /\ NoFault
          /\ Become(t, [run[t] EXCEPT !.pc = "persist", !.left = Duration, !.tracked = TRUE])
       \/ /\ IF run[t].left = 0 THEN NoFault ELSE Fault
          /\ Become(t, Idle)
    /\ UNCHANGED <<apiVars, cache, due, codeUsed>>

\* patchSecret, whose failure is logged only.
PatchSecret(t) ==
    /\ run[t].pc = "persist"
    /\ \/ /\ store.exists /\ NoFault
          /\ Write(IF run[t].role THEN [store EXCEPT !.role = run[t].left]
                   ELSE [store EXCEPT !.mfa = run[t].left])
       \/ /\ IF store.exists THEN Fault ELSE NoFault
          /\ UNCHANGED apiVars
    /\ Become(t, [run[t] EXCEPT !.pc = "put"])
    /\ UNCHANGED <<cache, due, codeUsed>>

\* Mutant: an expiry is recorded for every kind of credentials.
EntryTracked(r) == [left |-> r.left, tracked |-> TRUE]

Entry(r) == [left |-> r.left, tracked |-> r.tracked]

Put(t) ==
    /\ run[t].pc = "put"
    /\ cache' = Entry(run[t])
    /\ Become(t, IF t = "worker" THEN Using(run[t].left) ELSE Idle)
    /\ UNCHANGED <<apiVars, due, codeUsed, faults>>

-----------------------------------------------------------------------------
(* The user, the informer, time and a restart.                             *)

UserCreates ==
    /\ ~store.exists
    /\ \E m \in Modes : Write([NoSecret EXCEPT !.exists = TRUE, !.mode = m])
    /\ UNCHANGED <<cache, run, busy, due, codeUsed, faults>>

UserDeletes ==
    /\ store.exists
    /\ Write(NoSecret)
    /\ UNCHANGED <<cache, run, busy, due, codeUsed, faults>>

CacheDelivers ==
    /\ Deliver
    /\ UNCHANGED <<cache, run, busy, due, codeUsed, faults>>

\* The manager restarts: the cache and whatever was in progress are gone.
Restart ==
    /\ cache # None \/ \E t \in Thread : run[t] # Idle
    /\ Relist
    /\ cache' = None /\ due' = 0
    /\ run' = [t \in Thread |-> Idle] /\ busy' = [t \in Thread |-> 0]
    /\ UNCHANGED <<codeUsed, faults>>

Older(life) == IF life \in {None, 0} THEN life ELSE life - 1

OlderSecret(s) == [s EXCEPT !.mfa = Older(@), !.role = Older(@)]

\* A unit of time (at least the 30 s of a TOTP code) passes: the ticker does not
\* wait for an idle loop, and no thread takes longer than MaxCall.
Tick ==
    /\ run["loop"] = Idle => due < Interval
    /\ \A t \in Thread : run[t] # Idle => busy[t] < MaxCall
    /\ due' = IF due < Interval THEN due + 1 ELSE due
    /\ busy' = [t \in Thread |-> IF run[t] = Idle THEN 0 ELSE busy[t] + 1]
    /\ codeUsed' = FALSE
    /\ cache' = IF cache = None THEN None ELSE [cache EXCEPT !.left = Older(@)]
    /\ run' = [t \in Thread |-> [run[t] EXCEPT !.left = Older(@)]]
    /\ store' = OlderSecret(store) /\ cached' = OlderSecret(cached)
    /\ stream' = [i \in DOMAIN stream |-> OlderSecret(stream[i])]
    /\ UNCHANGED faults

Refresh(t) ==
    \/ Fetch(t) \/ GetSessionToken(t) \/ AssumeRole(t) \/ PatchSecret(t) \/ Put(t)

Next ==
    \/ Get \/ Use \/ Scan
    \/ \E t \in Thread : Refresh(t)
    \/ UserCreates \/ UserDeletes
    \/ CacheDelivers \/ Restart \/ Tick

Spec == Init /\ [][Next]_vars

\* Time passes, calls return, the ticker fires, the informer delivers.
Fairness ==
    /\ \A t \in Thread : WF_vars(Refresh(t))
    /\ WF_vars(Use) /\ WF_vars(Scan) /\ WF_vars(Tick) /\ WF_vars(CacheDelivers)

FairSpec == Spec /\ Fairness
-----------------------------------------------------------------------------
(* Properties.                                                             *)

\* Type invariant: credentials that do not expire have no recorded expiry.
TypeOK ==
    /\ store \in Secret /\ cached \in Secret /\ stream \in Seq(Secret)
    /\ cache \in {None, [left |-> None, tracked |-> FALSE]}
                    \cup [left: 0..Duration, tracked: BOOLEAN]
    /\ run \in [Thread -> [pc: {"idle", "fetch", "session", "assume", "persist", "put", "use"},
                           role: BOOLEAN, left: Life, tracked: BOOLEAN]]
    /\ busy \in [Thread -> 0..MaxCall] /\ due \in 0..Interval
    /\ codeUsed \in BOOLEAN /\ faults \in 0..MaxFaults

\* A reconcile is never given, and never left with, credentials that have expired,
\* whichever of the cache, the secret and STS they came from and however its refresh
\* interleaved with the loop's, with failures, restarts and a replaced secret.
GivenCredentialsValid == run["worker"].pc = "use" => run["worker"].left # 0

\* "the background goroutine ensures the cached session is always fresh even between
\* reconciles": as long as no call fails, no session expires in the cache, even if no
\* reconcile ever asks for it.  At worst its successor is on its way there, when both
\* threads needed the same one-time code and the loop's refresh was refused.
CachedSessionFresh ==
    faults = 0 /\ cache # None /\ cache.left = 0
        => \E t \in Thread : run[t].pc \in {"assume", "persist", "put"}

\* The loop gives up on a deleted secret ("evict the stale entry so we stop retrying
\* on every tick"): no session of it stays in the cache to be renewed in vain.
DeletedSecretForgotten ==
    <>[](~store.exists) => <>[](cache = None \/ ~cache.tracked)
=============================================================================
