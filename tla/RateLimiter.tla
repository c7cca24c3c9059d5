------------------------------- MODULE RateLimiter -------------------------------
(***************************************************************************)
(* core/rate_limit.py: the hits of one key (a scope and a client address,  *)
(* or a tenant, a user and the report exports), which no other key shares. *)
(*                                                                         *)
(* In memory the limiter is asked and answers in one step of the event     *)
(* loop.  With Redis several processes read their clocks, hit the sorted   *)
(* set in one transaction and, if there are too many hits, take their own  *)
(* out again with a second command.  Clocks count seconds.                 *)
(***************************************************************************)
EXTENDS Integers, FiniteSets

CONSTANTS
  Processes, \* processes that share the Redis server
  Max,       \* max_requests
  Window,    \* window_seconds
  LastTick   \* bound: when the clock stops

ASSUME LimiterAssumption == Max \in Nat \ {0} /\ Window \in Nat \ {0} /\ LastTick \in Nat

VARIABLES
  backend,  \* rate_limit_backend
  clock,    \* the time
  hits,     \* the deque, or the members of the sorted set
  call,     \* what each process is doing, and the time it has read
  last,     \* when the limiter was last asked, by its clock and by the asker's
  admitted, \* history: the requests let through while exact
  exact     \* history: no restart, and no call that was late or tied with another

vars == <<backend, clock, hits, call, last, admitted, exact>>

Idle == [pc |-> "idle", now |-> 0]

-----------------------------------------------------------------------------
(* Operators *)

\* Mutant of Kept: a hit counts until after the window has passed.
KeptLonger(now) == {h \in hits : h.at >= now - Window}

\* What the cutoff leaves of the hits.
Kept(now) == {h \in hits : h.at > now - Window}

Stamped(others, now) == [at |-> now, number |-> Cardinality({o \in others : o.at = now})]

\* Mutant of Hit: a hit bears the time at which it expires.
HitAtExpiry(now) == [at |-> now + Window, number |-> 0]

\* The deque keeps hits at one time apart; a member of the sorted set is the time
\* itself, written out, so two hits at one time are one member.
Hit(now) == IF backend = "redis" THEN [at |-> now, number |-> 0] ELSE Stamped(hits, now)

Remember(now) ==
  admitted' = IF exact' THEN admitted \cup {Stamped(admitted, now)} ELSE admitted

\* Mutant of Admits: the new hit is not counted.
AdmitsOneMore(count) == count <= Max + 1

\* count is with the new hit
Admits(count) == count <= Max

-----------------------------------------------------------------------------
LimiterInit ==
  /\ backend \in {"memory", "redis"}
  /\ clock = 0
  /\ hits = {}
  /\ call = [p \in Processes |-> Idle]
  /\ last = [at |-> -1, now |-> -1]
  /\ admitted = {}
  /\ exact = TRUE

Tick ==
  /\ clock < LastTick
  /\ clock' = clock + 1
  /\ UNCHANGED <<backend, hits, call, last, admitted, exact>>

-----------------------------------------------------------------------------
(* In memory *)

\* MemoryRateLimitBackend.allow: a denied request leaves no hit.
Ask ==
  /\ backend = "memory"
  /\ last' = [at |-> clock, now |-> clock]
  /\ UNCHANGED <<backend, clock, call, exact>>
  /\ LET kept == Kept(clock)
     IN \/ /\ Admits(Cardinality(kept) + 1)
           /\ hits' = kept \cup {Hit(clock)}
           /\ Remember(clock)
        \/ /\ ~Admits(Cardinality(kept) + 1)
           /\ hits' = kept
           /\ UNCHANGED admitted

\* The process starts over (reset_limiter): what it had counted is lost.
Restart ==
  /\ backend = "memory"
  /\ hits # {}
  /\ hits' = {}
  /\ exact' = FALSE
  /\ UNCHANGED <<backend, clock, call, last, admitted>>

-----------------------------------------------------------------------------
(* With Redis *)

\* time.time()
ReadClock(p) ==
  /\ backend = "redis"
  /\ call[p].pc = "idle"
  /\ call' = [call EXCEPT ![p] = [pc |-> "read", now |-> clock]]
  /\ UNCHANGED <<backend, clock, hits, last, admitted, exact>>

\* The pipeline: one MULTI ... EXEC.  The count goes wrong when a call comes after
\* one with a later or the same reading of the clock, or more than a second late.
Pipeline(p) ==
  /\ call[p].pc = "read"
  /\ hits' = Kept(call[p].now) \cup {Hit(call[p].now)}
  /\ last' = [at |-> clock, now |-> call[p].now]
  /\ exact' = (exact /\ last.now < call[p].now /\ clock <= call[p].now + 1)
  /\ UNCHANGED <<backend, clock>>

Execute(p) ==
  /\ Pipeline(p)
  /\ IF Admits(Cardinality(hits'))
     THEN /\ Remember(call[p].now)
          /\ call' = [call EXCEPT ![p] = Idle]
     ELSE /\ call' = [call EXCEPT ![p].pc = "denied"]
          /\ UNCHANGED admitted

\* zrem
Withdraw(p) ==
  /\ call[p].pc = "denied"
  /\ hits' = hits \ {Hit(call[p].now)}
  /\ call' = [call EXCEPT ![p] = Idle]
  /\ UNCHANGED <<backend, clock, last, admitted, exact>>

\* The process or its connection dies: before the pipeline or after it, with the
\* hit counted and nobody let through, or before the denied hit is withdrawn.
Die(p) ==
  /\ call[p].pc # "idle"
  /\ \/ UNCHANGED <<backend, clock, hits, last, exact>>
     \/ Pipeline(p)
  /\ call' = [call EXCEPT ![p] = Idle]
  /\ UNCHANGED admitted

\* The key expires a second after the window of the last hit.
KeyExpires ==
  /\ backend = "redis"
  /\ hits # {}
  /\ clock > last.at + Window
  /\ hits' = {}
  /\ UNCHANGED <<backend, clock, call, last, admitted, exact>>

Next ==
  \/ Tick
  \/ Ask
  \/ Restart
  \/ KeyExpires
  \/ \E p \in Processes : ReadClock(p) \/ Execute(p) \/ Withdraw(p) \/ Die(p)

LimiterSpec == LimiterInit /\ [][Next]_vars

-----------------------------------------------------------------------------
(* Properties *)

\* Every variable has its type, and no time is later than the clock.
LimiterTypeOK ==
  /\ backend \in {"memory", "redis"}
  /\ clock \in Nat
  /\ hits \subseteq [at : 0..clock, number : Nat]
  /\ call \in [Processes -> [pc : {"idle", "read", "denied"}, now : 0..clock]]
  /\ last \in [at : -1..clock, now : -1..clock]
  /\ admitted \subseteq [at : 0..clock, number : Nat]
  /\ exact \in BOOLEAN

Denies ==
  \/ backend = "memory" /\ last' # last /\ admitted' = admitted
  \/ \E p \in Processes : call[p].pc = "read" /\ call'[p].pc = "denied"

\* The Retry-After header is true: who asks when nobody has asked for a whole window is
\* let through, however many denied hits were withdrawn late or never were, because
\* their process died.
QuietIsAdmitted == [][exact' /\ Denies => last'.now < last.now + Window]_vars

Promise == INSTANCE SlidingWindow WITH admitted <- admitted, exact <- exact

\* The limiter implements the sliding window, whichever way its steps interleave: no
\* window holds more than Max requests that were let through.
RefinesWindow == Promise!Spec
=============================================================================
