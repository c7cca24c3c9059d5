--------------------------- MODULE RateLimiterProofs ---------------------------
(***************************************************************************)
(* Theorems about RateLimiter: whatever the number of processes and the    *)
(* limits, and however their commands interleave, the limiter implements   *)
(* SlidingWindow, and it denies nobody after a quiet window.               *)
(***************************************************************************)
EXTENDS RateLimiter, FiniteSetTheorems, TLAPS

Finite == IsFiniteSet(hits) /\ IsFiniteSet(admitted)

\* No two requests let through are one element of admitted.
Numbered ==
  \A a \in admitted : a.number < Cardinality({o \in admitted : o.at = a.at})

\* With the memory backend no process is in the middle of a call, and what the deque
\* holds is the requests let through in the window before the last one.
Deque ==
  backend = "memory" =>
    /\ \A p \in Processes : call[p].pc = "idle"
    /\ last.now = last.at
    /\ \A a \in admitted : a.at <= last.now
    /\ exact => hits = {a \in admitted : a.at > last.now - Window}

\* With Redis the hits that still count are in the sorted set, and no denied hit that
\* is still to be withdrawn is one of them.
SortedSet ==
  backend = "redis" /\ exact =>
    /\ \A h \in hits : h.at <= last.now
    /\ \A a \in admitted :
         /\ a.number = 0
         /\ a.at <= last.now
         /\ a.at > last.now - Window /\ a.at > clock - 1 - Window => a \in hits
    /\ \A p \in Processes : call[p].pc = "denied" =>
         /\ call[p].now <= last.now
         /\ \A a \in admitted : a.at # call[p].now

\* The readings of the clock are in order.
Timely == last.now <= last.at

LimiterInv == LimiterTypeOK /\ Finite /\ Numbered /\ Deque /\ SortedSet /\ Timely

-----------------------------------------------------------------------------
LEMMA LimiterInvInit == LimiterInit => LimiterInv
BY FS_EmptySet, LimiterAssumption
   DEF LimiterInit, LimiterInv, LimiterTypeOK, Finite, Numbered, Deque, SortedSet, Timely, Idle

-----------------------------------------------------------------------------
(* Elements and windows *)

\* A request let through is a new element of admitted, and the numbers stay distinct.
LEMMA StampIsNew ==
  ASSUME LimiterTypeOK, Finite, Numbered, NEW now \in Nat, NEW new,
         new = Stamped(admitted, now)
  PROVE  /\ new.at = now /\ new.number \in Nat
         /\ new \notin admitted
         /\ IsFiniteSet(admitted \cup {new})
         /\ \A a \in admitted \cup {new} :
              a.number < Cardinality({o \in admitted \cup {new} : o.at = a.at})
<1> DEFINE Same(t) == {o \in admitted : o.at = t}
           After(t) == {o \in admitted \cup {new} : o.at = t}
<1>1. IsFiniteSet(Same(now)) /\ Cardinality(Same(now)) \in Nat
  BY FS_Subset, FS_CardinalityType DEF Finite
<1>2. new = [at |-> now, number |-> Cardinality(Same(now))]
  BY DEF Stamped
<1>3. new \notin admitted
  BY <1>1, <1>2 DEF Numbered
<1>4. Cardinality(After(now)) = Cardinality(Same(now)) + 1
  <2>1. After(now) = Same(now) \cup {new}
    BY <1>2
  <2> QED
    BY <2>1, <1>1, <1>3, FS_AddElement
<1>5. ASSUME NEW a \in admitted \cup {new}
      PROVE  a.number < Cardinality(After(a.at))
  <2>1. CASE a.at # now
    <3>1. After(a.at) = Same(a.at) /\ a \in admitted
      BY <2>1, <1>2
    <3> QED
      BY <3>1 DEF Numbered
  <2>2. CASE a.at = now
    <3>1. a.number <= Cardinality(Same(now)) /\ a.number \in Nat
      BY <2>2, <1>1, <1>2 DEF Numbered, LimiterTypeOK
    <3> QED
      BY <3>1, <2>2, <1>1, <1>4
  <2> QED
    BY <2>1, <2>2
<1>6. \A a \in admitted \cup {new} :
        a.number < Cardinality({o \in admitted \cup {new} : o.at = a.at})
  BY <1>5
<1>7. IsFiniteSet(admitted \cup {new})
  BY FS_AddElement DEF Finite
<1>8. new.at = now /\ new.number \in Nat
  BY <1>1, <1>2
<1> HIDE DEF Same, After
<1> QED
  BY <1>3, <1>6, <1>7, <1>8

\* With the memory backend, what Ask keeps is the window of the requests let through.
LEMMA KeptIsWindow ==
  ASSUME LimiterInv, backend = "memory", exact
  PROVE  /\ Kept(clock) = {a \in admitted : a.at > clock - Window}
         /\ Kept(clock) = Promise!Recent(clock)
         /\ Stamped(hits, clock) = Stamped(admitted, clock)
<1>1. clock \in Nat /\ last.now \in Int /\ last.now <= clock /\ Window \in Nat \ {0}
  BY LimiterAssumption DEF LimiterInv, LimiterTypeOK
<1>2. \A a \in admitted : a.at \in Nat /\ a.at <= clock
  BY DEF LimiterInv, LimiterTypeOK
<1>3. hits = {a \in admitted : a.at > last.now - Window}
  BY DEF LimiterInv, Deque
<1>4. {o \in hits : o.at = clock} = {o \in admitted : o.at = clock}
  BY <1>1, <1>2, <1>3
<1>5. Kept(clock) = {a \in admitted : a.at > clock - Window}
  BY <1>1, <1>2, <1>3 DEF Kept
<1> QED
  BY <1>1, <1>2, <1>4, <1>5 DEF Promise!Recent, Stamped

\* With Redis, the requests let through in the window before a timely call are all in
\* the sorted set, and the call's own hit is not one of them.
LEMMA WindowIsKept ==
  ASSUME LimiterInv, backend = "redis", exact, NEW now \in 0..clock,
         last.now < now, clock <= now + 1
  PROVE  /\ Promise!Recent(now) \subseteq Kept(now)
         /\ Hit(now) \notin Promise!Recent(now)
         /\ Stamped(admitted, now) = Hit(now)
<1>1. clock \in Nat /\ last.now \in Int /\ Window \in Nat \ {0} /\ now \in Nat
  BY LimiterAssumption DEF LimiterInv, LimiterTypeOK
<1>2. \A a \in admitted : a.at \in Nat /\ a.at <= last.now
  BY DEF LimiterInv, LimiterTypeOK, SortedSet
<1>3. ASSUME NEW a \in admitted, a.at > now - Window
      PROVE  a \in hits
  <2>1. a.at > last.now - Window /\ a.at > clock - 1 - Window
    BY <1>1, <1>2, <1>3
  <2> QED
    BY <2>1 DEF LimiterInv, SortedSet
<1>4. {o \in admitted : o.at = now} = {}
  BY <1>1, <1>2
<1>5. Stamped(admitted, now) = Hit(now)
  BY <1>4, FS_EmptySet DEF Stamped, Hit
<1>6. Hit(now) \notin Promise!Recent(now)
  BY <1>1, <1>2 DEF Hit, Promise!Recent
<1> QED
  BY <1>1, <1>3, <1>5, <1>6 DEF Promise!Recent, Kept

-----------------------------------------------------------------------------
(* Every action keeps the invariant *)

LEMMA TickKeeps == ASSUME LimiterInv, Tick PROVE LimiterInv'
<1> USE LimiterAssumption DEF Tick, LimiterInv
<1>1. clock \in Nat /\ clock' = clock + 1 /\ clock' \in Nat
  BY DEF LimiterTypeOK
<1>2. LimiterTypeOK'
  <2>1. 0..clock \subseteq 0..clock' /\ -1..clock \subseteq -1..clock'
    BY <1>1
  <2> QED
    BY <1>1, <2>1 DEF LimiterTypeOK
<1>3. Finite' /\ Numbered' /\ Deque' /\ Timely'
  BY DEF Finite, Numbered, Deque, Timely
<1>4. SortedSet'
  <2>1. \A a \in admitted : a.at > clock' - 1 - Window => a.at > clock - 1 - Window
    BY <1>1 DEF LimiterTypeOK
  <2> QED
    BY <2>1 DEF SortedSet
<1> QED
  BY <1>2, <1>3, <1>4

LEMMA RestartKeeps == ASSUME LimiterInv, Restart PROVE LimiterInv'
BY FS_EmptySet
   DEF Restart, LimiterInv, LimiterTypeOK, Finite, Numbered, Deque, SortedSet, Timely

\* Whoever is let through is new; a request that is denied leaves the window as it is.
LEMMA AskKeeps == ASSUME LimiterInv, Ask PROVE LimiterInv'
<1> USE DEF LimiterInv
<1> DEFINE new == Stamped(admitted, clock)
           hit == Stamped(hits, clock)
<1>1. /\ backend = "memory" /\ last' = [at |-> clock, now |-> clock]
      /\ UNCHANGED <<backend, clock, call, exact>>
      /\ clock \in Nat /\ clock' \in Nat
  BY DEF Ask, LimiterTypeOK
<1>2. Kept(clock) \subseteq hits /\ IsFiniteSet(Kept(clock))
  BY FS_Subset DEF Kept, Finite
<1>3. hit \in [at : 0..clock, number : Nat]
  <2>1. Cardinality({o \in hits : o.at = clock}) \in Nat
    BY FS_Subset, FS_CardinalityType DEF Finite
  <2> QED
    BY <1>1, <2>1 DEF Stamped
<1>4. \/ hits' = Kept(clock) \cup {hit} /\ Remember(clock)
      \/ hits' = Kept(clock) /\ admitted' = admitted
  BY <1>1 DEF Ask, Hit
<1>5. IsFiniteSet(hits') /\ hits' \subseteq [at : 0..clock', number : Nat]
  <2>1. IsFiniteSet(Kept(clock) \cup {hit})
    BY <1>2, FS_AddElement
  <2> QED
    BY <1>1, <1>2, <1>3, <1>4, <2>1 DEF LimiterTypeOK
<1>6. admitted' = admitted \/ admitted' = admitted \cup {new}
  BY <1>4 DEF Remember
<1>7. /\ admitted' \subseteq [at : 0..clock', number : Nat]
      /\ IsFiniteSet(admitted')
      /\ Numbered'
  <2>1. /\ new.at = clock /\ new.number \in Nat /\ new \notin admitted
        /\ IsFiniteSet(admitted \cup {new})
        /\ \A a \in admitted \cup {new} :
             a.number < Cardinality({o \in admitted \cup {new} : o.at = a.at})
    BY <1>1, StampIsNew
  <2>2. new \in [at : 0..clock, number : Nat]
    BY <1>1, <2>1 DEF Stamped
  <2>3. CASE admitted' = admitted
    BY <1>1, <2>3 DEF LimiterTypeOK, Finite, Numbered
  <2>4. CASE admitted' = admitted \cup {new}
    BY <1>1, <2>1, <2>2, <2>4 DEF LimiterTypeOK, Finite, Numbered
  <2> QED
    BY <1>6, <2>3, <2>4
<1>8. LimiterTypeOK'
  BY <1>1, <1>5, <1>7 DEF LimiterTypeOK
<1>9. Deque'
  <2> SUFFICES ASSUME exact'
               PROVE  hits' = {a \in admitted' : a.at > clock - Window}
    <3>1. \A a \in admitted' : a.at <= last'.now
      BY <1>1, <1>7
    <3> QED
      BY <1>1, <3>1 DEF Deque
  <2>1. Kept(clock) = {a \in admitted : a.at > clock - Window} /\ hit = new
    BY <1>1, KeptIsWindow
  <2>2. CASE hits' = Kept(clock) /\ admitted' = admitted
    BY <2>1, <2>2
  <2>3. CASE hits' = Kept(clock) \cup {hit} /\ Remember(clock)
    <3>1. admitted' = admitted \cup {new}
      BY <2>3 DEF Remember
    <3>2. new.at = clock /\ clock > clock - Window
      BY <1>1, LimiterAssumption DEF Stamped
    <3> QED
      BY <2>1, <2>3, <3>1, <3>2
  <2> QED
    BY <1>4, <2>2, <2>3
<1>10. SortedSet' /\ Timely'
  BY <1>1 DEF SortedSet, Timely
<1> QED
  BY <1>5, <1>7, <1>8, <1>9, <1>10 DEF Finite

LEMMA ReadClockKeeps ==
  ASSUME LimiterInv, NEW p \in Processes, ReadClock(p)
  PROVE  LimiterInv'
<1> USE DEF LimiterInv, ReadClock
<1>1. LimiterTypeOK'
  BY DEF LimiterTypeOK
<1>2. Finite' /\ Numbered' /\ Deque' /\ Timely'
  BY DEF Finite, Numbered, Deque, Timely
<1>3. \A q \in Processes : call'[q].pc = "denied" => call'[q] = call[q]
  BY DEF LimiterTypeOK
<1>4. SortedSet'
  BY <1>3 DEF SortedSet
<1> QED
  BY <1>1, <1>2, <1>4

LEMMA WithdrawKeeps ==
  ASSUME LimiterInv, NEW p \in Processes, Withdraw(p)
  PROVE  LimiterInv'
<1> USE DEF LimiterInv, Withdraw
<1>1. LimiterTypeOK' /\ backend = "redis"
  BY DEF LimiterTypeOK, Idle, Deque
<1>2. Finite'
  BY FS_Subset DEF Finite
<1>3. Numbered' /\ Deque' /\ Timely'
  BY <1>1 DEF Numbered, Deque, Timely
<1>4. ASSUME exact, NEW a \in admitted
      PROVE  a # Hit(call[p].now)
  BY <1>1, <1>4 DEF SortedSet, Hit
<1>5. \A q \in Processes : call'[q].pc = "denied" => call'[q] = call[q]
  BY DEF LimiterTypeOK, Idle
<1>6. SortedSet'
  BY <1>1, <1>4, <1>5 DEF SortedSet
<1> QED
  BY <1>1, <1>2, <1>3, <1>6

LEMMA KeyExpiresKeeps == ASSUME LimiterInv, KeyExpires PROVE LimiterInv'
<1> USE DEF LimiterInv, KeyExpires
<1>1. LimiterTypeOK'
  BY DEF LimiterTypeOK
<1>2. Finite' /\ Numbered' /\ Deque' /\ Timely'
  BY FS_EmptySet DEF Finite, Numbered, Deque, Timely
<1>3. ASSUME exact, NEW a \in admitted
      PROVE  ~(a.at > clock - 1 - Window)
  <2>1. a.at <= last.now /\ last.now <= last.at /\ clock > last.at + Window
    BY <1>3 DEF SortedSet, Timely
  <2>2. a.at \in Int /\ last.now \in Int /\ last.at \in Int /\ clock \in Int /\ Window \in Int
    BY LimiterAssumption DEF LimiterTypeOK
  <2> QED
    BY <2>1, <2>2
<1>4. SortedSet'
  BY <1>3 DEF SortedSet
<1> QED
  BY <1>1, <1>2, <1>4

\* The pipeline leaves the rows in order, whatever becomes of the request.
LEMMA PipelineHits ==
  ASSUME LimiterInv, NEW p \in Processes, Pipeline(p)
  PROVE  /\ backend = "redis" /\ call[p].now \in 0..clock
         /\ hits' = Kept(call[p].now) \cup {Hit(call[p].now)}
         /\ hits' \subseteq [at : 0..clock, number : Nat]
         /\ IsFiniteSet(hits')
         /\ IsFiniteSet(Kept(call[p].now))
         /\ Hit(call[p].now) = [at |-> call[p].now, number |-> 0]
<1> USE DEF LimiterInv, Pipeline
<1>1. backend = "redis" /\ call[p].now \in 0..clock
  BY DEF Deque, LimiterTypeOK
<1>2. Hit(call[p].now) = [at |-> call[p].now, number |-> 0]
  BY <1>1 DEF Hit
<1>3. Kept(call[p].now) \subseteq hits
  BY DEF Kept
<1>4. IsFiniteSet(Kept(call[p].now))
  BY <1>3, FS_Subset DEF Finite
<1>5. IsFiniteSet(hits')
  BY <1>4, FS_AddElement
<1> QED
  BY <1>1, <1>2, <1>3, <1>4, <1>5 DEF LimiterTypeOK

\* After a timely pipeline, what the sorted set lacks of the requests let through
\* before has left the window.
LEMMA PipelineWindow ==
  ASSUME LimiterInv, NEW p \in Processes, Pipeline(p), exact'
  PROVE  /\ exact
         /\ last.now < call[p].now /\ clock <= call[p].now + 1
         /\ last'.now = call[p].now
         /\ \A h \in hits' : h.at <= last'.now
         /\ \A a \in admitted :
              /\ a.number = 0
              /\ a.at < last'.now
              /\ a.at > last'.now - Window => a \in hits'
         /\ \A q \in Processes : call[q].pc = "denied" => call[q].now < last'.now
<1> USE DEF LimiterInv
<1>1. /\ backend = "redis" /\ call[p].now \in 0..clock
      /\ hits' = Kept(call[p].now) \cup {Hit(call[p].now)}
      /\ Hit(call[p].now) = [at |-> call[p].now, number |-> 0]
  BY PipelineHits
<1>2. exact /\ last.now < call[p].now /\ clock <= call[p].now + 1 /\ last'.now = call[p].now
  BY DEF Pipeline, LimiterTypeOK
<1>3. clock \in Nat /\ last.now \in Int /\ Window \in Nat \ {0} /\ call[p].now \in Nat
  BY <1>1, LimiterAssumption DEF LimiterTypeOK
<1>4. ASSUME NEW h \in hits' PROVE h.at <= last'.now
  <2>1. CASE h \in Kept(call[p].now)
    <3>1. h.at <= last.now /\ h.at \in Nat
      BY <1>1, <1>2, <2>1 DEF SortedSet, Kept, LimiterTypeOK
    <3> QED
      BY <1>2, <1>3, <3>1
  <2>2. CASE h = Hit(call[p].now)
    BY <1>1, <1>2, <1>3, <2>2
  <2> QED
    BY <1>1, <2>1, <2>2
<1>5. ASSUME NEW a \in admitted
      PROVE  /\ a.number = 0
             /\ a.at < last'.now
             /\ a.at > last'.now - Window => a \in hits'
  <2>1. a.number = 0 /\ a.at <= last.now /\ a.at \in Nat
    BY <1>1, <1>2 DEF SortedSet, LimiterTypeOK
  <2>2. ASSUME a.at > last'.now - Window PROVE a \in hits'
    <3>1. a \in Promise!Recent(call[p].now)
      BY <1>2, <1>3, <2>1, <2>2 DEF Promise!Recent
    <3> QED
      BY <1>1, <1>2, <3>1, WindowIsKept
  <2> QED
    BY <1>2, <1>3, <2>1, <2>2
<1>6. ASSUME NEW q \in Processes, call[q].pc = "denied"
      PROVE  call[q].now < last'.now
  <2>1. call[q].now <= last.now /\ call[q].now \in Nat
    BY <1>1, <1>2, <1>6 DEF SortedSet, LimiterTypeOK
  <2> QED
    BY <1>2, <1>3, <2>1
<1> QED
  BY <1>2, <1>4, <1>5, <1>6

\* A call that is let through, denied or cut short after its pipeline.
LEMMA PipelineKeeps ==
  ASSUME LimiterInv, NEW p \in Processes, Pipeline(p),
         \/ call' = [call EXCEPT ![p] = Idle] /\ (Remember(call[p].now) \/ admitted' = admitted)
         \/ call' = [call EXCEPT ![p].pc = "denied"] /\ admitted' = admitted
  PROVE  LimiterInv'
<1> USE DEF LimiterInv
<1> DEFINE now == call[p].now
           new == Stamped(admitted, now)
<1>1. /\ backend = "redis" /\ now \in 0..clock
      /\ hits' = Kept(now) \cup {Hit(now)}
      /\ hits' \subseteq [at : 0..clock, number : Nat]
      /\ IsFiniteSet(hits')
      /\ Hit(now) = [at |-> now, number |-> 0]
  BY PipelineHits
<1>2. /\ last' = [at |-> clock, now |-> now] /\ UNCHANGED <<backend, clock>>
      /\ clock \in Nat /\ now \in Nat /\ exact' \in BOOLEAN
  BY <1>1 DEF Pipeline, LimiterTypeOK
<1>3. \/ admitted' = admitted
      \/ admitted' = admitted \cup {new} /\ exact'
  BY DEF Remember
<1>4. /\ admitted' \subseteq [at : 0..clock, number : Nat]
      /\ IsFiniteSet(admitted')
      /\ Numbered'
  <2>1. /\ new.at = now /\ new.number \in Nat
        /\ IsFiniteSet(admitted \cup {new})
        /\ \A a \in admitted \cup {new} :
             a.number < Cardinality({o \in admitted \cup {new} : o.at = a.at})
    BY <1>2, StampIsNew
  <2>2. new \in [at : 0..clock, number : Nat]
    BY <1>1, <2>1 DEF Stamped
  <2>3. CASE admitted' = admitted
    BY <2>3 DEF LimiterTypeOK, Finite, Numbered
  <2>4. CASE admitted' = admitted \cup {new}
    BY <2>1, <2>2, <2>4 DEF LimiterTypeOK, Numbered
  <2> QED
    BY <1>3, <2>3, <2>4
<1>5. call' \in [Processes -> [pc : {"idle", "read", "denied"}, now : 0..clock]]
  BY <1>1, <1>2 DEF LimiterTypeOK, Idle
<1>6. LimiterTypeOK'
  BY <1>1, <1>2, <1>4, <1>5 DEF LimiterTypeOK
<1>7. Deque' /\ Timely'
  BY <1>1, <1>2 DEF Deque, Timely
<1>8. SortedSet'
  <2> SUFFICES ASSUME exact'
               PROVE  /\ \A h \in hits' : h.at <= last'.now
                      /\ \A a \in admitted' :
                           /\ a.number = 0
                           /\ a.at <= last'.now
                           /\ a.at > last'.now - Window => a \in hits'
                      /\ \A q \in Processes : call'[q].pc = "denied" =>
                           /\ call'[q].now <= last'.now
                           /\ \A a \in admitted' : a.at # call'[q].now
    BY DEF SortedSet
  <2>1. /\ exact
        /\ last.now < now /\ clock <= now + 1
        /\ last'.now = now
        /\ \A h \in hits' : h.at <= last'.now
        /\ \A a \in admitted :
             /\ a.number = 0
             /\ a.at < last'.now
             /\ a.at > last'.now - Window => a \in hits'
        /\ \A q \in Processes : call[q].pc = "denied" => call[q].now < last'.now
    BY PipelineWindow
  <2>2. new = Hit(now)
    BY <1>1, <2>1, WindowIsKept
  <2>3. \A a \in admitted' :
          /\ a.number = 0
          /\ a.at <= last'.now
          /\ a.at > last'.now - Window => a \in hits'
    BY <1>1, <1>2, <1>3, <2>1, <2>2 DEF LimiterTypeOK
  <2>4. ASSUME NEW q \in Processes, call'[q].pc = "denied"
        PROVE  /\ call'[q].now <= last'.now
               /\ \A a \in admitted' : a.at # call'[q].now
    <3>1. CASE q = p
      <4>1. call'[q].now = now /\ admitted' = admitted
        BY <2>4, <3>1 DEF Idle, LimiterTypeOK
      <4> QED
        BY <1>2, <2>1, <4>1 DEF LimiterTypeOK
    <3>2. CASE q # p
      <4>1. call'[q] = call[q] /\ call[q].now \in Nat /\ call[q].now < now
        BY <2>1, <2>4, <3>2 DEF LimiterTypeOK
      <4>2. \A a \in admitted : a.at # call[q].now
        BY <1>1, <2>1, <2>4, <4>1 DEF SortedSet
      <4> QED
        BY <1>1, <1>2, <1>3, <2>1, <2>2, <4>1, <4>2
    <3> QED
      BY <3>1, <3>2
  <2> QED
    BY <2>1, <2>3, <2>4
<1> QED
  BY <1>1, <1>4, <1>6, <1>7, <1>8 DEF Finite

LEMMA DieKeeps ==
  ASSUME LimiterInv, NEW p \in Processes, Die(p)
  PROVE  LimiterInv'
<1>1. CASE Pipeline(p)
  BY <1>1, PipelineKeeps DEF Die
<1>2. CASE UNCHANGED <<backend, clock, hits, last, exact>>
  <2> USE <1>2 DEF LimiterInv, Die
  <2>1. LimiterTypeOK'
    BY DEF LimiterTypeOK, Idle
  <2>2. Finite' /\ Numbered' /\ Timely'
    BY DEF Finite, Numbered, Timely
  <2>3. \A q \in Processes : call'[q] = call[q] \/ call'[q].pc = "idle"
    BY DEF LimiterTypeOK, Idle
  <2>4. Deque' /\ SortedSet'
    BY <2>3 DEF Deque, SortedSet
  <2> QED
    BY <2>1, <2>2, <2>4
<1> QED
  BY <1>1, <1>2 DEF Die

-----------------------------------------------------------------------------
\* The types of RateLimiter hold, and the invariant that ties what is counted to what
\* was let through: rate_limit.py never loses a hit that still counts.
THEOREM CountIsKept == LimiterSpec => []LimiterInv
<1>1. LimiterInv /\ [Next]_vars => LimiterInv'
  <2> SUFFICES ASSUME LimiterInv, [Next]_vars PROVE LimiterInv'
    OBVIOUS
  <2>1. CASE Tick
    BY <2>1, TickKeeps
  <2>2. CASE Ask
    BY <2>2, AskKeeps
  <2>3. CASE Restart
    BY <2>3, RestartKeeps
  <2>4. CASE KeyExpires
    BY <2>4, KeyExpiresKeeps
  <2>5. ASSUME NEW p \in Processes, ReadClock(p) PROVE LimiterInv'
    BY <2>5, ReadClockKeeps
  <2>6. ASSUME NEW p \in Processes, Execute(p) PROVE LimiterInv'
    BY <2>6, PipelineKeeps DEF Execute
  <2>7. ASSUME NEW p \in Processes, Withdraw(p) PROVE LimiterInv'
    BY <2>7, WithdrawKeeps
  <2>8. ASSUME NEW p \in Processes, Die(p) PROVE LimiterInv'
    BY <2>8, DieKeeps
  <2>9. CASE UNCHANGED vars
    BY <2>9 DEF vars, LimiterInv, LimiterTypeOK, Finite, Numbered, Deque, SortedSet, Timely
  <2> QED
    BY <2>1, <2>2, <2>3, <2>4, <2>5, <2>6, <2>7, <2>8, <2>9 DEF Next
<1> QED
  BY <1>1, LimiterInvInit, PTL DEF LimiterSpec

\* Every variable has its type, and no time is later than the clock.
THEOREM LimiterTypeCorrect == LimiterSpec => []LimiterTypeOK
<1>1. LimiterInv => LimiterTypeOK
  BY DEF LimiterInv
<1> QED
  BY <1>1, CountIsKept, PTL

-----------------------------------------------------------------------------
(* The limiter implements the sliding window *)

\* SlidingWindow counts with the same operator.
LEMMA SameCount == \A S : Promise!Cardinality(S) = Cardinality(S)
BY DEF Promise!Cardinality, Cardinality, Promise!IsFiniteSet, IsFiniteSet

LEMMA CountIsLarger ==
  ASSUME NEW S, NEW T, NEW x, IsFiniteSet(T), S \subseteq T, x \notin S, x \in T
  PROVE  /\ Cardinality(S) \in Nat /\ Cardinality(T) \in Nat
         /\ Cardinality(S) < Cardinality(T)
<1>1. /\ IsFiniteSet(S) /\ Cardinality(S) <= Cardinality(T)
      /\ Cardinality(S) # Cardinality(T)
  BY FS_Subset
<1>2. Cardinality(S) \in Nat /\ Cardinality(T) \in Nat
  BY <1>1, FS_CardinalityType
<1> QED
  BY <1>1, <1>2

\* In memory: the deque is the window, and there is room in it.
LEMMA AskAdmits ==
  ASSUME LimiterInv, Ask, exact', admitted' # admitted
  PROVE  Promise!Admit
<1> DEFINE new == Stamped(admitted, clock)
<1>1. backend = "memory" /\ exact /\ clock \in Nat
  BY DEF Ask, LimiterInv, LimiterTypeOK
<1>2. Admits(Cardinality(Kept(clock)) + 1) /\ admitted' = admitted \cup {new}
  BY DEF Ask, Remember
<1>3. Kept(clock) = Promise!Recent(clock) /\ IsFiniteSet(Kept(clock))
  BY <1>1, KeptIsWindow, FS_Subset DEF Kept, LimiterInv, Finite
<1>4. Cardinality(Promise!Recent(clock)) < Max
  <2>1. Cardinality(Kept(clock)) \in Nat /\ Max \in Nat
    BY <1>3, FS_CardinalityType, LimiterAssumption
  <2>2. Cardinality(Kept(clock)) + 1 <= Max
    BY <1>2 DEF Admits
  <2>3. Cardinality(Kept(clock)) < Max
    BY <2>1, <2>2
  <2> QED
    BY <2>3, <1>3
<1>5. new \in admitted' \ admitted /\ new.at = clock
  BY <1>2 DEF Stamped
<1>6. \A a \in admitted : a.at <= new.at
  BY <1>5 DEF LimiterInv, LimiterTypeOK
<1> QED
  BY <1>2, <1>4, <1>5, <1>6, SameCount DEF Promise!Admit

\* With Redis: the sorted set is the window, its own hit and maybe more.
LEMMA ExecuteAdmits ==
  ASSUME LimiterInv, NEW p \in Processes, Execute(p), exact', admitted' # admitted
  PROVE  Promise!Admit
<1> DEFINE now == call[p].now
           new == Stamped(admitted, now)
<1>1. Pipeline(p) /\ Admits(Cardinality(hits')) /\ admitted' = admitted \cup {new}
  BY DEF Execute, Remember
<1>2. /\ backend = "redis" /\ now \in 0..clock
      /\ hits' = Kept(now) \cup {Hit(now)} /\ IsFiniteSet(hits')
      /\ Hit(now) = [at |-> now, number |-> 0]
  BY <1>1, PipelineHits
<1>3. /\ exact /\ last.now < now /\ clock <= now + 1 /\ last'.now = now
      /\ \A a \in admitted : a.at < last'.now
  BY <1>1, PipelineWindow
<1>4. /\ Promise!Recent(now) \subseteq Kept(now)
      /\ Hit(now) \notin Promise!Recent(now)
      /\ new = Hit(now)
  BY <1>2, <1>3, WindowIsKept
<1>5. Cardinality(Promise!Recent(now)) < Max
  <2>1. Cardinality(Promise!Recent(now)) \in Nat /\ Cardinality(hits') \in Nat
        /\ Cardinality(Promise!Recent(now)) < Cardinality(hits')
    BY <1>2, <1>4, CountIsLarger
  <2>2. Cardinality(hits') <= Max
    BY <1>1 DEF Admits
  <2> QED
    BY <2>1, <2>2, LimiterAssumption
<1>6. new \in admitted' \ admitted /\ new.at = now
  BY <1>1, <1>2, <1>4
<1>7. \A a \in admitted : a.at <= new.at
  BY <1>2, <1>3, <1>6 DEF LimiterInv, LimiterTypeOK
<1> QED
  BY <1>1, <1>5, <1>6, <1>7, SameCount DEF Promise!Admit

\* Whichever backend is used, however many processes share it and whatever dies or
\* comes late, the limiter keeps the promise of SlidingWindow.
THEOREM WindowIsKeptTo == LimiterSpec => RefinesWindow
<1>1. LimiterInit => Promise!Init
  BY DEF LimiterInit, Promise!Init
<1>2. LimiterInv /\ [Next]_vars => [Promise!Next]_<<admitted, exact>>
  <2> SUFFICES ASSUME LimiterInv, [Next]_vars, exact'
               PROVE  exact /\ (admitted' = admitted \/ Promise!Admit)
    BY DEF Promise!Next
  <2>1. CASE Tick \/ Restart \/ KeyExpires
    BY <2>1 DEF Tick, Restart, KeyExpires
  <2>2. CASE Ask
    BY <2>2, AskAdmits DEF Ask
  <2>3. ASSUME NEW p \in Processes, ReadClock(p) \/ Withdraw(p) \/ Die(p)
        PROVE  exact /\ admitted' = admitted
    BY <2>3 DEF ReadClock, Withdraw, Die, Pipeline, LimiterInv, LimiterTypeOK
  <2>4. ASSUME NEW p \in Processes, Execute(p)
        PROVE  exact /\ (admitted' = admitted \/ Promise!Admit)
    <3>1. exact
      BY <2>4 DEF Execute, Pipeline, LimiterInv, LimiterTypeOK
    <3> QED
      BY <2>4, <3>1, ExecuteAdmits
  <2>5. CASE UNCHANGED vars
    BY <2>5 DEF vars
  <2> QED
    BY <2>1, <2>2, <2>3, <2>4, <2>5 DEF Next
<1> QED
  BY <1>1, <1>2, CountIsKept, PTL DEF LimiterSpec, RefinesWindow, Promise!Spec

-----------------------------------------------------------------------------
(* Nobody is denied after a quiet window *)

LEMMA AskDenies ==
  ASSUME LimiterInv, Ask, exact', last' # last, admitted' = admitted
  PROVE  last'.now < last.now + Window
<1>1. /\ backend = "memory" /\ exact /\ last'.now = clock
      /\ clock \in Nat /\ last.now \in Int /\ Window \in Nat
  BY LimiterAssumption DEF Ask, LimiterInv, LimiterTypeOK
<1>2. ~Admits(Cardinality(Kept(clock)) + 1)
  <2>1. Stamped(admitted, clock) \notin admitted
    BY <1>1, StampIsNew DEF LimiterInv
  <2> QED
    BY <1>1, <2>1 DEF Ask, Remember
<1>3. Kept(clock) # {}
  BY <1>2, FS_EmptySet, LimiterAssumption DEF Admits
<1>4. PICK h \in hits : h.at > clock - Window
  BY <1>3 DEF Kept
<1>5. h.at \in Nat /\ h.at <= last.now
  <2>1. h \in admitted
    BY <1>1, <1>4 DEF LimiterInv, Deque
  <2> QED
    BY <1>1, <2>1 DEF LimiterInv, LimiterTypeOK, Deque
<1> QED
  BY <1>1, <1>4, <1>5

LEMMA ExecuteDenies ==
  ASSUME LimiterInv, NEW p \in Processes, Execute(p), exact', call'[p].pc = "denied"
  PROVE  last'.now < last.now + Window
<1> DEFINE now == call[p].now
<1>1. Pipeline(p) /\ ~Admits(Cardinality(hits'))
  BY DEF Execute, Idle, LimiterInv, LimiterTypeOK
<1>2. /\ backend = "redis" /\ now \in 0..clock
      /\ hits' = Kept(now) \cup {Hit(now)}
  BY <1>1, PipelineHits
<1>3. exact /\ last'.now = now
  BY <1>1, PipelineWindow
<1>4. Kept(now) # {}
  <2>1. Cardinality({Hit(now)}) = 1
    BY FS_Singleton
  <2>2. hits' # {Hit(now)}
    BY <1>1, <2>1, LimiterAssumption DEF Admits
  <2> QED
    BY <1>2, <2>2
<1>5. PICK h \in hits : h.at > now - Window
  BY <1>4 DEF Kept
<1>6. h.at \in Nat /\ h.at <= last.now
  BY <1>2, <1>3 DEF LimiterInv, LimiterTypeOK, SortedSet
<1>7. now \in Nat /\ last.now \in Int /\ Window \in Nat
  BY <1>2, LimiterAssumption DEF LimiterInv, LimiterTypeOK
<1> QED
  BY <1>3, <1>5, <1>6, <1>7

\* The Retry-After header is true for every number of processes, of which any may die
\* before it has withdrawn its hit.
THEOREM QuietAlwaysAdmitted == LimiterSpec => QuietIsAdmitted
<1>1. LimiterInv /\ [Next]_vars => [exact' /\ Denies => last'.now < last.now + Window]_vars
  <2> SUFFICES ASSUME LimiterInv, Next, exact', Denies
               PROVE  last'.now < last.now + Window
    OBVIOUS
  <2>1. CASE backend = "memory" /\ last' # last /\ admitted' = admitted
    <3>1. \A q \in Processes : call[q].pc = "idle"
      BY <2>1 DEF LimiterInv, Deque
    <3>2. Ask
      BY <2>1, <3>1
         DEF Next, Tick, Restart, KeyExpires, ReadClock, Execute, Withdraw, Die, Pipeline
    <3> QED
      BY <2>1, <3>2, AskDenies
  <2>2. ASSUME NEW p \in Processes, call[p].pc = "read", call'[p].pc = "denied"
        PROVE  last'.now < last.now + Window
    <3>1. call \in [Processes -> [pc : {"idle", "read", "denied"}, now : 0..clock]]
      BY DEF LimiterInv, LimiterTypeOK
    <3>2. Execute(p)
      <4>1. ASSUME NEW q \in Processes, ReadClock(q) \/ Withdraw(q) \/ Die(q) PROVE FALSE
        <5>1. \/ call' = [call EXCEPT ![q] = [pc |-> "read", now |-> clock]]
              \/ call' = [call EXCEPT ![q] = [pc |-> "idle", now |-> 0]]
          BY <4>1 DEF ReadClock, Withdraw, Die, Idle
        <5>2. CASE q = p
          BY <2>2, <3>1, <5>1, <5>2
        <5>3. CASE q # p
          BY <2>2, <3>1, <5>1, <5>3
        <5> QED
          BY <5>2, <5>3
      <4>2. ASSUME NEW q \in Processes, Execute(q), q # p PROVE FALSE
        BY <2>2, <3>1, <4>2 DEF Execute, Idle
      <4> QED
        BY <2>2, <4>1, <4>2 DEF Next, Tick, Ask, Restart, KeyExpires
    <3> QED
      BY <2>2, <3>2, ExecuteDenies
  <2> QED
    BY <2>1, <2>2 DEF Denies
<1> QED
  BY <1>1, CountIsKept, PTL DEF LimiterSpec, QuietIsAdmitted
=============================================================================
