------------------------------- MODULE Notify -------------------------------
(***************************************************************************)
(* NotificationLimiter and the requests that go through it: POST           *)
(* /notifications/send and GET /notice, which take from the bucket of      *)
(* their token and from the global one, and internal senders, which take   *)
(* from the global one.                                                    *)
(*                                                                         *)
(* A minute is Minute ticks of the clock.  A bucket of capacity C gains C  *)
(* tokens a minute; counted in units of 1/Minute of a token, it holds at   *)
(* most C * Minute units, gains C a tick, and a request takes Minute.      *)
(* The buckets are in memory: this is the life of one process.             *)
(*                                                                         *)
(* A definition right before the one it alters is that definition with a   *)
(* plausible mistake in it and is not part of NotifyNext.                  *)
(***************************************************************************)
EXTENDS Integers, FiniteSetsExt

CONSTANTS
    Requester,  \* access tokens, one request of each at a time
    Everyone,   \* stands for all senders together; not a Requester
    PerToken,   \* the allowance of a token per minute
    Global,     \* the allowance of all together per minute
    Minute,     \* ticks in a minute
    Idle,       \* tokenBucketIdle in ticks
    MaxTick     \* bound on the clock

ASSUME NotifyConstants ==
    /\ Everyone \notin Requester
    /\ {PerToken, Global, Minute, MaxTick} \subseteq Nat \ {0}
    /\ Idle \in Nat /\ Idle >= Minute

Tick == 0..MaxTick
Bucket == [units : Nat, last : Tick]
NoBucket == [units |-> -1, last |-> 0]

VARIABLES
    tick,       \* the clock
    buckets,    \* the bucket of each sender, NoBucket if it has none
    global,     \* the global bucket
    limited,    \* the wait TryAcquire gave a request that is to be answered 429, 0 if none
    waited,     \* history: until when a sender was told to wait, -1 once something took from its buckets
    accepted    \* history: the tokens each sender, and all together, had taken by each tick

notifyVars == <<tick, buckets, global, limited, waited, accepted>>

NotifyTypeOK ==
    /\ tick \in Tick
    /\ buckets \in [Requester -> Bucket \cup {NoBucket}]
    /\ global \in Bucket
    /\ limited \in [Requester -> Nat]
    /\ waited \in [Requester -> Nat \cup {-1}]
    /\ accepted \in [Requester \cup {Everyone} -> [Tick -> Nat]]

NotifyInit ==
    /\ tick = 0
    /\ buckets = [t \in Requester |-> NoBucket]
    /\ global = [units |-> Global * Minute, last |-> 0]
    /\ limited = [t \in Requester |-> 0]
    /\ waited = [t \in Requester |-> -1]
    /\ accepted = [s \in Requester \cup {Everyone} |-> [t \in Tick |-> 0]]

-----------------------------------------------------------------------------
(* refill: what a bucket of capacity c holds now; a new one is full.       *)
refill(b, c) ==
    [units |-> IF b = NoBucket THEN c * Minute
               ELSE Min({b.units + (tick - b.last) * c, c * Minute}),
     last |-> tick]

HasToken(b) == b.units >= Minute
Take(b) == [b EXCEPT !.units = @ - Minute]

(* The ticks until the bucket has a token, rounded up and at least one.    *)
retryAfterSeconds(b, c) == Max({(Minute - b.units + c - 1) \div c, 1})

(* A token is taken from the bucket of each of senders, Everyone's being   *)
(* the global one, which breaks every promise made.                        *)
Accept(senders) ==
    /\ accepted' = [s \in Requester \cup {Everyone} |->
                       IF s \in senders THEN [accepted[s] EXCEPT ![tick] = @ + 1] ELSE accepted[s]]
    /\ waited' = [s \in Requester |-> -1]

(* TryAcquire, in the hook before the authorization.                       *)
TryAcquire(t) ==
    /\ limited[t] = 0
    /\ LET b == refill(buckets[t], PerToken)
           g == refill(global, Global)
       IN \/ /\ HasToken(b) /\ HasToken(g)
             /\ buckets' = [buckets EXCEPT ![t] = Take(b)]
             /\ global' = Take(g)
             /\ Accept({t, Everyone})
             /\ UNCHANGED limited
          \/ /\ ~HasToken(b)
             /\ buckets' = [buckets EXCEPT ![t] = b]
             /\ limited' = [limited EXCEPT ![t] = retryAfterSeconds(b, PerToken)]
             /\ UNCHANGED <<global, waited, accepted>>
          \/ /\ HasToken(b) /\ ~HasToken(g)
             /\ buckets' = [buckets EXCEPT ![t] = b]
             /\ global' = g
             /\ limited' = [limited EXCEPT ![t] = retryAfterSeconds(g, Global)]
             /\ UNCHANGED <<waited, accepted>>
    /\ UNCHANGED tick

(* RetryAfter: the longer of the two waits, 0 if both buckets have a token.*)
WaitOf(b, c) == IF b # NoBucket /\ ~HasToken(b) THEN retryAfterSeconds(b, c) ELSE 0
LongestWait(b, g) == Max({WaitOf(b, PerToken), WaitOf(g, Global)})

(* The hook answers 429 with the longer of what TryAcquire and RetryAfter  *)
(* say.                                                                    *)
RetryAfter(t) ==
    /\ limited[t] # 0
    /\ LET b == IF buckets[t] = NoBucket THEN NoBucket ELSE refill(buckets[t], PerToken)
           g == refill(global, Global)
       IN /\ buckets' = [buckets EXCEPT ![t] = b]
          /\ global' = g
          /\ waited' = [waited EXCEPT ![t] = tick + Max({limited[t], LongestWait(b, g)})]
    /\ limited' = [limited EXCEPT ![t] = 0]
    /\ UNCHANGED <<tick, accepted>>

(* Send takes from the global bucket, unless no provider is configured.    *)
TryAcquireGlobal ==
    /\ LET g == refill(global, Global)
       IN IF HasToken(g)
          THEN global' = Take(g) /\ Accept({Everyone})
          ELSE global' = g /\ UNCHANGED <<waited, accepted>>
    /\ UNCHANGED <<tick, buckets, limited>>

(* Every ten minutes idle buckets are dropped.                             *)
StaleAlways(b) == b # NoBucket
Stale(b) == b # NoBucket /\ b.last < tick - Idle
Cleanup ==
    /\ \E t \in Requester : Stale(buckets[t])
    /\ buckets' = [t \in Requester |-> IF Stale(buckets[t]) THEN NoBucket ELSE buckets[t]]
    /\ UNCHANGED <<tick, global, limited, waited, accepted>>

Ticks ==
    /\ tick < MaxTick
    /\ tick' = tick + 1
    /\ accepted' = [s \in Requester \cup {Everyone} |->
                       [accepted[s] EXCEPT ![tick + 1] = accepted[s][tick]]]
    /\ UNCHANGED <<buckets, global, limited, waited>>

NotifyNext ==
    \/ \E t \in Requester : TryAcquire(t) \/ RetryAfter(t)
    \/ TryAcquireGlobal \/ Cleanup \/ Ticks

NotifySpec == NotifyInit /\ [][NotifyNext]_notifyVars

-----------------------------------------------------------------------------
(* What s has taken since tick t, and what a bucket of capacity c allows   *)
(* for that time: its capacity, and what it gains.                         *)
Since(s, t) == accepted[s][tick] - IF t = 0 THEN 0 ELSE accepted[s][t - 1]
Allowance(c, t) == c + (c * (tick - t)) \div Minute

(* In whatever stretch of time, a token gets no more than its allowance    *)
(* and what its bucket gains meanwhile, and so do all together; dropping   *)
(* idle buckets gives nobody more.                                         *)
RateBound ==
    \A t \in 0..tick :
        /\ Since(Everyone, t) <= Allowance(Global, t)
        /\ \A s \in Requester : Since(s, t) <= Allowance(PerToken, t)

(* A sender that waits as it was told finds a token in both buckets,       *)
(* unless somebody else took one meanwhile.                                *)
RetryAfterSuffices ==
    \A s \in Requester : (waited[s] # -1 /\ waited[s] <= tick) =>
        /\ HasToken(refill(buckets[s], PerToken))
        /\ HasToken(refill(global, Global))

(* Both promises of the limiter: no more than the quota, and no less.      *)
QuotaKept == RateBound /\ RetryAfterSuffices
=============================================================================
