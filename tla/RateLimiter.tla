---------------------------- MODULE RateLimiter ----------------------------
(***************************************************************************)
(* The API rate limiter (app/core/rate_limit.py): fixed-window counters    *)
(* in a store shared by all workers.  A request reads its host's clock to  *)
(* choose the window and only then awaits the store, which creates,        *)
(* increments and expires counters by its own clock; the store may answer  *)
(* late, not at all, or execute a command its client has given up.         *)
(***************************************************************************)
EXTENDS Integers, FiniteSets

CONSTANTS
  Requests,      \* the requests in scope, each a call of dispatch()
  ApiKey(_),     \* the X-API-Key header of a request, or NoKey
  ClientIp(_),   \* its client address
  ValidKeys,     \* keys whose digest is in valid_key_identities
  NoKey,
  Limit, Window, \* parse_rate of rate_limit_default
  FailOpen,      \* rate_limit_fail_open
  MaxDelay,      \* bound: how long a request waits for the store
  MaxSkew,       \* bound: how far a host's clock runs ahead of the store's
  MaxTime        \* bound: the last instant

\* The counters live for two windows: one for the requests of the window
\* itself, one for skewed clocks and delayed commands.
ASSUME RateAssumption ==
  /\ IsFiniteSet(Requests) /\ NoKey \notin ValidKeys /\ FailOpen \in BOOLEAN
  /\ Limit \in Nat \ {0} /\ Window \in Nat \ {0}
  /\ MaxDelay \in Nat /\ MaxSkew \in Nat /\ MaxTime \in Nat
  /\ MaxDelay + MaxSkew <= Window

VARIABLES
  clock,   \* the store's clock
  pc,      \* "idle", "sent", "orphan" (sent, but its client gave up), "done"
  bucket,  \* the bucket each request hits
  due,     \* when each request gives up on the store
  counts, expiries,  \* the store: counters (0: none) and when they disappear
  reply    \* "none", "ok", "limited", "unmetered", "unavailable"

vars == <<clock, pc, bucket, due, counts, expiries, reply>>

Instants == 0..(MaxTime + MaxSkew)

\* Mutant: every key gets a quota of its own, valid or not.
IdentityFor_AnyKey(r) ==
  IF ApiKey(r) # NoKey THEN <<"key", ApiKey(r)>> ELSE <<"ip", ClientIp(r)>>

\* identity_for.
IdentityFor(r) ==
  IF ApiKey(r) \in ValidKeys THEN <<"key", ApiKey(r)>> ELSE <<"ip", ClientIp(r)>>

Identities == {IdentityFor(r) : r \in Requests}

\* A window is named by its first instant, window_index * window_seconds.
WindowStart(now) == now - (now % Window)

Buckets  == Identities \X Instants
NoBucket == <<>>

TypeOK ==
  /\ clock \in 0..MaxTime
  /\ pc \in [Requests -> {"idle", "sent", "orphan", "done"}]
  /\ bucket \in [Requests -> Buckets \cup {NoBucket}]
  /\ due \in [Requests -> 0..(MaxTime + MaxDelay)]
  /\ counts \in [Buckets -> Nat]
  /\ expiries \in [Buckets -> Nat]
  /\ reply \in [Requests -> {"none", "ok", "limited", "unmetered", "unavailable"}]

Init ==
  /\ clock = 0
  /\ pc = [r \in Requests |-> "idle"]
  /\ bucket = [r \in Requests |-> NoBucket]
  /\ due = [r \in Requests |-> 0]
  /\ counts = [b \in Buckets |-> 0]
  /\ expiries = [b \in Buckets |-> 0]
  /\ reply = [r \in Requests |-> "none"]

-----------------------------------------------------------------------------
\* hit(), up to the await: the window comes from the host's clock.
Hit(r) ==
  /\ pc[r] = "idle"
  /\ \E skew \in 0..MaxSkew :
       bucket' = [bucket EXCEPT ![r] = <<IdentityFor(r), WindowStart(clock + skew)>>]
  /\ pc' = [pc EXCEPT ![r] = "sent"]
  /\ due' = [due EXCEPT ![r] = clock + MaxDelay]
  /\ UNCHANGED <<clock, counts, expiries, reply>>

\* _REDIS_INCREMENT_SCRIPT: INCR, and EXPIRE on the first hit, in one step.
IncrementScript(b) ==
  /\ counts' = [counts EXCEPT ![b] = counts[b] + 1]
  /\ expiries' = IF counts[b] = 0 THEN [expiries EXCEPT ![b] = clock + 2 * Window] ELSE expiries

\* The request no longer waits for the store.
Finish(r, s) == pc' = [pc EXCEPT ![r] = s] /\ due' = [due EXCEPT ![r] = 0]

Reply(r, answer) == reply' = [reply EXCEPT ![r] = answer]

\* Mutant: the comparison is off by one.
Decision_AtLimit(count) == IF count < Limit THEN "ok" ELSE "limited"

\* RateLimitDecision.allowed.
Decision(count) == IF count <= Limit THEN "ok" ELSE "limited"

\* The store executes the script and its answer arrives in time.
Increment(r) ==
  /\ pc[r] = "sent"
  /\ IncrementScript(bucket[r])
  /\ Reply(r, Decision(counts[bucket[r]] + 1))
  /\ Finish(r, "done")
  /\ UNCHANGED <<clock, bucket>>

\* dispatch()'s answer to a store that cannot be reached.
Outage(r) == Reply(r, IF FailOpen THEN "unmetered" ELSE "unavailable")

\* The store fails or the wait times out; the command is lost, or the store
\* executes it afterwards for nobody.
StoreFails(r) ==
  /\ pc[r] = "sent"
  /\ Outage(r)
  /\ Finish(r, "orphan") \/ Finish(r, "done")
  /\ UNCHANGED <<clock, bucket, counts, expiries>>

LateIncrement(r) ==
  /\ pc[r] = "orphan"
  /\ IncrementScript(bucket[r])
  /\ Finish(r, "done")
  /\ UNCHANGED <<clock, bucket, reply>>

\* What is left of the store at an instant: expired counters are gone.
Alive(b, now) == counts[b] # 0 /\ now < expiries[b]

\* Time passes, but not past the moment a waiting request gives up.
Tick ==
  /\ clock < MaxTime
  /\ \A r \in Requests : pc[r] = "sent" => clock < due[r]
  /\ clock' = clock + 1
  /\ counts' = [b \in Buckets |-> IF Alive(b, clock + 1) THEN counts[b] ELSE 0]
  /\ expiries' = [b \in Buckets |-> IF Alive(b, clock + 1) THEN expiries[b] ELSE 0]
  /\ UNCHANGED <<pc, bucket, due, reply>>

Next ==
  \/ \E r \in Requests : Hit(r) \/ Increment(r) \/ StoreFails(r) \/ LateIncrement(r)
  \/ Tick

Spec == Init /\ [][Next]_vars

-----------------------------------------------------------------------------
(* Properties.                                                             *)

Window_(r) == bucket[r][2]

\* The requests with a valid key k, or without one from address a, that were
\* admitted under quota in the window that begins at w.
AdmittedByKey(k, w) ==
  {r \in Requests : reply[r] = "ok" /\ Window_(r) = w /\ ApiKey(r) = k}
AdmittedByIp(a, w) ==
  {r \in Requests : reply[r] = "ok" /\ Window_(r) = w /\ ApiKey(r) \notin ValidKeys /\ ClientIp(r) = a}

\* No window admits more than the limit, neither for a valid key nor for an
\* address without one, although hosts choose the window before they reach the
\* counter and counters expire by another clock (hit() and its doubled ttl).
QuotaPerWindow ==
  \A w \in Instants :
    /\ \A k \in ValidKeys : Cardinality(AdmittedByKey(k, w)) <= Limit
    /\ \A a \in {ClientIp(r) : r \in Requests} : Cardinality(AdmittedByIp(a, w)) <= Limit

\* A request is refused with 429 only when as many others as the limit allows
\* hit the same quota in the same window.
RefusedOnlyAtLimit ==
  \A r \in Requests : reply[r] = "limited" =>
    Cardinality({q \in Requests \ {r} : pc[q] # "idle" /\ bucket[q] = bucket[r]}) >= Limit
=============================================================================
