---------------------------- MODULE AccountsGateway ----------------------------
(***************************************************************************)
(* What a host keeps of Silicon Accounts in memory: the signing keys it     *)
(* verifies tokens with, the answers of introspection it reuses, and the    *)
(* budget of lookups it allows itself.  The three share a clock and nothing *)
(* else; a behaviour exercises one of them.                                 *)
(*                                                                          *)
(* A call reads the state of Silicon Accounts at some moment between its    *)
(* start and its answer, which comes within Latency (the client's timeout)  *)
(* or is an error.  A request may be dropped wherever it awaits.            *)
(***************************************************************************)
EXTENDS Naturals, Sequences, FiniteSets, FiniteSetsExt

CONSTANTS
    Keys,         \* ids of signing keys, those of forged tokens included
    FirstKeys,    \* the ones published from the start
    Verifiers,    \* requests that verify a token
    MaxAge,       \* MAX_AGE
    Spacing,      \* UNKNOWN_KEY_REFETCH_INTERVAL
    Latency,
    AccessTokens, \* of one account
    Checkers,     \* requests that introspect
    AnswerTTL,    \* INTROSPECTION_TTL
    MemoCapacity, \* INTROSPECTION_CACHE_ENTRIES
    Allowance,    \* LOOKUPS_PER_MINUTE
    Minute,
    MaxClock      \* bound on time

ASSUME GatewayAssumption ==
    /\ FirstKeys \subseteq Keys
    /\ {MaxAge, Spacing, Latency, AnswerTTL, MemoCapacity, Allowance, Minute} \subseteq Nat \ {0}
    /\ Latency <= Spacing /\ Spacing <= MaxAge /\ MaxClock \in Nat

VARIABLES
    part,      \* which of the three a behaviour is about
    clockNow,
    published, \* Silicon Accounts: since when, and until when, it publishes a key
    keyCache,  \* JwksCache.current
    attempt,   \* JwksCache.refresh: when the last fetch began
    verifier,
    verdict,   \* history: the verdict of the last step
    rushed,    \* history: keys were fetched while others were being, or too soon
    faulted,   \* history: when a fetch last failed or was dropped, since one succeeded
    signedOut, \* Silicon Accounts: when the account's sign-ins ended
    memo,      \* AccountsGateway.introspections
    checker,
    said,      \* history: the answer given in the last step
    forgotten, \* history: whether answers were forgotten, and one was on its way then
    level,     \* TokenBucket, in parts of a lookup: a lookup takes Minute of them
    spent       \* history: lookups sent before each time

keyVars == <<published, keyCache, attempt, verifier, verdict, rushed, faulted>>
checkVars == <<signedOut, memo, checker, said, forgotten>>
budgetVars == <<level, spent>>
gatewayVars == <<part, clockNow, keyVars, checkVars, budgetVars>>

Ever == MaxClock + 1 \* a time that does not come
Within(t, span) == t # Ever /\ clockNow < t + span \* less than span ago

Asking(at, key, began) == [at |-> at, key |-> key, began |-> began]
Unasked == Asking("idle", "none", 0)
Checking(token, began, answer) ==
    [at |-> "calling", token |-> token, began |-> began, answer |-> answer]
Unchecked == [at |-> "idle", token |-> "none", began |-> 0, answer |-> "none"]
Verdict(key, outcome, cached) == [key |-> key, outcome |-> outcome, cached |-> cached]
Answer(answer, at) == [answer |-> answer, at |-> at]
NoAnswer == Answer("none", 0)

NoVerdict == Verdict("none", "none", FALSE)
Undecided == verdict' = NoVerdict
Silent == said' = "none"

GatewayInit ==
    /\ part \in {"keys", "checks", "budget"}
    /\ clockNow = 0
    /\ published = [k \in Keys |-> [from |-> IF k \in FirstKeys THEN 0 ELSE Ever, until |-> Ever]]
    /\ keyCache = [keys |-> {}, at |-> Ever]
    /\ attempt = Ever
    /\ verifier = [v \in Verifiers |-> Unasked]
    /\ verdict = NoVerdict
    /\ rushed = FALSE
    /\ faulted = Ever
    /\ signedOut = Ever
    /\ memo = [t \in AccessTokens |-> NoAnswer]
    /\ checker = [p \in Checkers |-> Unchecked]
    /\ said = "none"
    /\ forgotten = "no"
    /\ level = Allowance * Minute
    /\ spent = [t \in 0..Ever |-> 0]

Calling == {"fetching", "refetching"}

Refilled == Min({level + Allowance, Allowance * Minute})

\* Time passes, but no call lasts longer than Latency.
TimePasses ==
    /\ clockNow < MaxClock
    /\ \A v \in Verifiers : verifier[v].at \in Calling => clockNow < verifier[v].began + Latency
    /\ \A p \in Checkers : checker[p].at = "calling" => clockNow < checker[p].began + Latency
    /\ clockNow' = clockNow + 1
    /\ level' = Refilled
    /\ Undecided
    /\ Silent
    /\ UNCHANGED <<published, keyCache, attempt, verifier, rushed, faulted,
                   signedOut, memo, checker, forgotten, spent>>

-----------------------------------------------------------------------------
(* Signing keys. *)

PublishedAt(t) == {k \in Keys : published[k].from <= t /\ t < published[k].until}
Published == PublishedAt(clockNow)

\* A rotation: new keys come and the first ones go, in any order.
RotateKeys ==
    /\ \E k \in Keys :
        \/ /\ published[k].from = Ever
           /\ published' = [published EXCEPT ![k] = [from |-> clockNow, until |-> @.until]]
        \/ /\ k \in Published \cap FirstKeys
           /\ published' = [published EXCEPT ![k] = [from |-> @.from, until |-> clockNow]]
    /\ Undecided
    /\ UNCHANGED <<keyCache, attempt, verifier, rushed, faulted>>

Cached == keyCache.at # Ever
\* A faulty variant: cached keys are replaced only when a token names another one.
KeysCached == Cached

KeysFresh == Within(keyCache.at, MaxAge)
Throttled == Within(attempt, Spacing)
RefreshLocked == \E v \in Verifiers : verifier[v].at \in Calling

Decide(v, key, outcome) ==
    /\ verifier' = [verifier EXCEPT ![v] = Unasked]
    /\ verdict' = Verdict(key, outcome, key \in keyCache'.keys)

\* The first verification, with the keys that get returned: an unknown key asks again.
VerifyWith(v, key, keys) ==
    IF key \in keys THEN Decide(v, key, "accepted")
    ELSE /\ verifier' = [verifier EXCEPT ![v] = Asking("unknown key", key, 0)]
         /\ Undecided

\* Waits for no one while the cached keys are fresh.
VerifyToken(v, key) ==
    /\ verifier[v].at = "idle"
    /\ UNCHANGED <<published, keyCache, attempt, rushed, faulted>>
    /\ IF KeysFresh THEN VerifyWith(v, key, keyCache.keys)
       ELSE /\ verifier' = [verifier EXCEPT ![v] = Asking("stale keys", key, 0)]
            /\ Undecided

StartFetch(v, stage) ==
    /\ attempt' = clockNow
    /\ verifier' = [verifier EXCEPT ![v] = Asking(stage, @.key, clockNow)]
    /\ rushed' = (rushed \/ RefreshLocked \/ (Cached /\ Within(attempt, Spacing)))
    /\ Undecided
    /\ UNCHANGED <<published, keyCache, faulted>>

\* The lock of JwksCache.refresh is acquired: by then another may have refreshed.
MayServeCached == Cached /\ (KeysFresh \/ Throttled)

RefreshStale(v) ==
    /\ verifier[v].at = "stale keys" /\ ~RefreshLocked
    /\ IF MayServeCached
       THEN /\ UNCHANGED <<published, keyCache, attempt, rushed, faulted>>
            /\ VerifyWith(v, verifier[v].key, keyCache.keys)
       ELSE StartFetch(v, "fetching")

RefetchForUnknownKey(v) ==
    /\ verifier[v].at = "unknown key" /\ ~RefreshLocked
    /\ IF Throttled
       THEN /\ UNCHANGED <<published, keyCache, attempt, rushed, faulted>>
            /\ Decide(v, verifier[v].key, "refused")
       ELSE StartFetch(v, "refetching")

\* The answer has the keys that Silicon Accounts published at some time of the call.
StoreKeys(v) ==
    LET key == verifier[v].key IN
    /\ verifier[v].at \in Calling
    /\ \E t \in verifier[v].began..clockNow :
        keyCache' = [keys |-> PublishedAt(t), at |-> clockNow]
    /\ IF verifier[v].at = "fetching" THEN VerifyWith(v, key, keyCache'.keys)
       ELSE Decide(v, key, IF key \in keyCache'.keys THEN "accepted" ELSE "refused")
    /\ faulted' = Ever
    /\ UNCHANGED <<published, attempt, rushed>>

\* A stale set goes on serving; without one the request fails.
FetchFails(v) ==
    LET key == verifier[v].key IN
    /\ verifier[v].at \in Calling
    /\ faulted' = clockNow
    /\ UNCHANGED <<published, keyCache, attempt, rushed>>
    /\ IF verifier[v].at = "refetching" THEN Decide(v, key, "refused")
       ELSE IF Cached THEN VerifyWith(v, key, keyCache.keys)
       ELSE Decide(v, key, "unavailable")

\* The lock goes with a dropped request; the time of its attempt stays.
DropVerifier(v) ==
    /\ verifier[v].at # "idle"
    /\ faulted' = IF verifier[v].at \in Calling THEN clockNow ELSE faulted
    /\ verifier' = [verifier EXCEPT ![v] = Unasked]
    /\ Undecided
    /\ UNCHANGED <<published, keyCache, attempt, rushed>>

KeysNext ==
    \/ RotateKeys
    \/ \E v \in Verifiers :
        \/ \E k \in Keys : VerifyToken(v, k)
        \/ RefreshStale(v) \/ RefetchForUnknownKey(v)
        \/ StoreKeys(v) \/ FetchFails(v) \/ DropVerifier(v)

-----------------------------------------------------------------------------
(* Introspection. *)

EndSignIns ==
    /\ signedOut = Ever /\ signedOut' = clockNow
    /\ Silent
    /\ UNCHANGED <<memo, checker, forgotten>>

Live(t) == memo[t].answer # "none" /\ Within(memo[t].at, AnswerTTL)

Introspect(p, t) ==
    /\ checker[p].at = "idle"
    /\ IF Live(t) THEN said' = memo[t].answer /\ UNCHANGED checker
       ELSE /\ checker' = [checker EXCEPT ![p] = Checking(t, clockNow, "none")]
            /\ Silent
    /\ UNCHANGED <<signedOut, memo, forgotten>>

ServeCheck(p) ==
    /\ checker[p].at = "calling" /\ checker[p].answer = "none"
    /\ checker' = [checker EXCEPT ![p] =
                      Checking(@.token, @.began, IF signedOut = Ever THEN "active" ELSE "inactive")]
    /\ Silent
    /\ UNCHANGED <<signedOut, memo, forgotten>>

\* ExpiringMap::insert: at capacity it drops what has expired, then the oldest.
Spared ==
    LET held == {t \in AccessTokens : memo[t].answer # "none"}
        live == {t \in held : Live(t)} IN
    IF Cardinality(held) < MemoCapacity THEN {held}
    ELSE IF Cardinality(live) < MemoCapacity THEN {live}
    ELSE {live \ {t} : t \in {u \in live : \A o \in live : memo[u].at <= memo[o].at}}

KeepAnswer(p) ==
    LET t == checker[p].token IN
    /\ checker[p].at = "calling" /\ checker[p].answer # "none"
    /\ \E kept \in Spared :
        memo' = [u \in AccessTokens |->
                    IF u = t THEN Answer(checker[p].answer, clockNow)
                    ELSE IF u \in kept THEN memo[u] ELSE NoAnswer]
    /\ said' = checker[p].answer
    /\ checker' = [checker EXCEPT ![p] = Unchecked]
    /\ UNCHANGED <<signedOut, forgotten>>

CheckFails(p) ==
    /\ checker[p].at = "calling"
    /\ checker' = [checker EXCEPT ![p] = Unchecked]
    /\ Silent
    /\ UNCHANGED <<signedOut, memo, forgotten>>

\* The event of the end has reached this host, which need not be at once.
ForgetIntrospections ==
    /\ signedOut # Ever
    /\ memo' = [t \in AccessTokens |->
                  IF memo[t].answer = "active" THEN NoAnswer ELSE memo[t]]
    /\ forgotten' = IF \E p \in Checkers : checker[p].answer = "active" THEN "crossed"
                    ELSE IF forgotten = "no" THEN "yes" ELSE forgotten
    /\ Silent
    /\ UNCHANGED <<signedOut, checker>>

ChecksNext ==
    \/ EndSignIns \/ ForgetIntrospections
    \/ \E p \in Checkers :
        \/ \E t \in AccessTokens : Introspect(p, t)
        \/ ServeCheck(p) \/ KeepAnswer(p) \/ CheckFails(p)

-----------------------------------------------------------------------------
(* Lookups. *)

\* Refused lookups change nothing.
SpendLookup ==
    /\ level >= Minute
    /\ level' = level - Minute
    /\ spent' = [t \in 0..Ever |-> IF t > clockNow THEN spent[t] + 1 ELSE spent[t]]

GatewayNext ==
    /\ UNCHANGED part
    /\ \/ TimePasses
       \/ /\ UNCHANGED clockNow
          /\ \/ part = "keys" /\ KeysNext /\ UNCHANGED <<checkVars, budgetVars>>
             \/ part = "checks" /\ ChecksNext /\ UNCHANGED <<keyVars, budgetVars>>
             \/ part = "budget" /\ SpendLookup /\ UNCHANGED <<keyVars, checkVars>>

GatewaySpec == GatewayInit /\ [][GatewayNext]_gatewayVars

-----------------------------------------------------------------------------
\* The types.
GatewayTypeOK ==
    /\ clockNow \in 0..MaxClock
    /\ published \in [Keys -> [from : 0..Ever, until : 0..Ever]]
    /\ keyCache \in [keys : SUBSET Keys, at : 0..Ever]
    /\ {attempt, faulted, signedOut} \subseteq 0..Ever
    /\ \A v \in Verifiers :
        verifier[v].at \in {"idle", "stale keys", "unknown key"} \cup Calling
    /\ \A p \in Checkers : checker[p].at \in {"idle", "calling"}
    /\ level \in 0..(Allowance * Minute)

\* A fetch failed, or was dropped, less than Spacing ago: nobody asks again yet.
Hindered == faulted # Ever /\ clockNow <= faulted + Spacing

\* A withdrawn key verifies tokens for MAX_AGE after the call that still read it,
\* and longer only while the keys cannot be refreshed.
WithdrawnKeysExpire ==
    verdict.outcome = "accepted" =>
        LET k == verdict.key IN
        published[k].until # Ever =>
            clockNow < published[k].until + Latency + MaxAge \/ Hindered

\* A published key is unknown for Spacing at most, but for a request that read
\* the keys before another brought in the new ones, or while rushed fail.
PublishedKeysRefusedBriefly ==
    verdict.outcome = "refused" =>
        LET k == verdict.key IN
        k \in Published =>
            clockNow <= published[k].from + Spacing \/ verdict.cached \/ Hindered

\* However many requests find their key unknown or the keys stale, keys are
\* fetched once in Spacing, and by one request at a time.
FetchesSpaced == ~rushed

\* An answer that a token is active is given for AnswerTTL after the call that
\* found it so, and not after the account's answers have been forgotten, unless
\* it was on its way then.
RevocationSeen ==
    said = "active" =>
        /\ signedOut # Ever => clockNow < signedOut + Latency + AnswerTTL
        /\ forgotten # "yes"

\* In any minute, lookups stay below twice the allowance: a full bucket and what
\* is refilled meanwhile.
LookupsWithinTwice ==
    \A t, u \in 0..Ever :
        t < u /\ u <= t + Minute => spent[u] < spent[t] + 2 * Allowance

\* What this host believes of Silicon Accounts is never older than it says, and
\* what it asks is bounded: together, the promise of this component.
BeliefsAreBounded ==
    /\ WithdrawnKeysExpire /\ PublishedKeysRefusedBriefly /\ FetchesSpaced
    /\ RevocationSeen /\ LookupsWithinTwice
===============================================================================
