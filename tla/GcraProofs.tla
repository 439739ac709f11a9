---------------------------- MODULE GcraProofs ----------------------------
(* Theorems about the rate limiter, for every set of limits. *)
EXTENDS Gcra, TLAPS

\* The window's budget is measured against the spent budget itself, and a key
\* lives at least as long as the debt it records.
GcraInv ==
    /\ TypeOK
    /\ \A b \in Buckets : granted[b] * Emission[b] <= Base(b) - opened[b]
    /\ \A b \in Buckets : tat[b] <= expiry[b]

\* A burst is at least one interval long.
LEMMA ToleranceFacts ==
    ASSUME NEW b \in Buckets
    PROVE  /\ Emission[b] \in Nat /\ Emission[b] >= 1
           /\ Tolerance(b) \in Nat /\ Tolerance(b) >= Emission[b]
<1>1. /\ Emission[b] \in Nat /\ Emission[b] >= 1
      /\ Burst[b] \in Nat /\ Burst[b] >= 1
  BY BucketsAssumption
<1>2. \A e, n \in Nat : n >= 1 => e * n \in Nat /\ e * n >= e
  BY SMT
<1>3. QED BY <1>1, <1>2 DEF Tolerance

\* Rounding up adds less than a millisecond.
LEMMA CeilFacts ==
    ASSUME NEW t \in Nat
    PROVE  /\ Ceil(t) \in Int /\ Ceil(t) * Millisecond \in Nat
           /\ Ceil(t) * Millisecond >= t /\ Ceil(t) * Millisecond < t + Millisecond
BY BucketsAssumption DEF Ceil

LEMMA InitInv == Init => GcraInv
<1>1. SUFFICES ASSUME Init PROVE GcraInv
  OBVIOUS
<1>2. TypeOK
  BY <1>1, ToleranceFacts, BucketsAssumption DEF Init, TypeOK, NoKey, None
<1>3. ASSUME NEW b \in Buckets
      PROVE  granted[b] * Emission[b] <= Base(b) - opened[b] /\ tat[b] <= expiry[b]
  BY <1>1, ToleranceFacts DEF Init, Base, NoKey
<1>4. QED BY <1>2, <1>3 DEF GcraInv

\* A call granted to bucket b moves its tat by one interval, within the
\* tolerance, and touches no other bucket.
LEMMA GrantInv ==
    ASSUME GcraInv, NEW b \in Buckets, Grant(b)
    PROVE  GcraInv'
<1>1. /\ Emission[b] \in Nat /\ Emission[b] >= 1 /\ Tolerance(b) \in Nat
      /\ now \in Nat /\ tat[b] \in Int /\ Grace \in Nat
      /\ granted[b] \in Nat /\ opened[b] \in Nat
  BY ToleranceFacts, BucketsAssumption DEF GcraInv, TypeOK, NoKey
<1>2. /\ Base(b) \in Nat /\ Base(b) >= now
      /\ NextTat(b) = Base(b) + Emission[b]
      /\ NextTat(b) <= now + Tolerance(b)
  BY <1>1 DEF Base, NextTat, Wait, Grant
<1>3. NextTat(b) \in Nat /\ now + TimeToLive(b) \in Nat /\ NextTat(b) <= now + TimeToLive(b)
  <2>1. /\ 2 * Tolerance(b) \in Nat /\ Millisecond \in Nat
    BY <1>1, BucketsAssumption
  <2>2. TimeToLive(b) = Ceil(2 * Tolerance(b)) * Millisecond + Grace * Millisecond
    <3>1. \A a, g, m \in Int : (a + g) * m = a * m + g * m
      OBVIOUS
    <3>2. Ceil(2 * Tolerance(b)) \in Int
      BY <2>1, CeilFacts
    <3>3. QED BY <1>1, <2>1, <3>1, <3>2 DEF TimeToLive
  <2>3. Grace * Millisecond \in Nat
    BY <1>1, <2>1
  <2>4. TimeToLive(b) \in Nat /\ TimeToLive(b) >= Tolerance(b)
    <3>1. \A x, g, t \in Nat : x >= 2 * t => x + g \in Nat /\ x + g >= t
      OBVIOUS
    <3>2. /\ Ceil(2 * Tolerance(b)) * Millisecond \in Nat
          /\ Ceil(2 * Tolerance(b)) * Millisecond >= 2 * Tolerance(b)
      BY <2>1, CeilFacts
    <3>3. QED BY <1>1, <2>2, <2>3, <3>1, <3>2
  <2>5. QED BY <1>1, <1>2, <2>4
<1>4. TypeOK'
  BY <1>1, <1>2, <1>3 DEF GcraInv, TypeOK, Grant, NoKey, None, Tolerance
<1>5. (granted[b] + 1) * Emission[b] = granted[b] * Emission[b] + Emission[b]
  BY <1>1
<1>6. ASSUME NEW c \in Buckets
      PROVE  /\ granted'[c] * Emission[c] <= Base(c)' - opened'[c]
             /\ tat'[c] <= expiry'[c]
  <2>1. CASE c = b
    <3>1. /\ tat'[b] = NextTat(b) /\ granted'[b] = granted[b] + 1 /\ opened'[b] = opened[b]
          /\ expiry'[b] = now + TimeToLive(b) /\ now' = now
      BY DEF Grant, GcraInv, TypeOK
    <3>2. Base(b)' = NextTat(b)
      BY <3>1, <1>1, <1>2 DEF Base
    <3>3. granted[b] * Emission[b] <= Base(b) - opened[b] /\ granted[b] * Emission[b] \in Nat
      BY <1>1 DEF GcraInv
    <3>4. QED BY <2>1, <3>1, <3>2, <3>3, <1>1, <1>2, <1>3, <1>5
  <2>2. CASE c # b
    BY <2>2 DEF Grant, GcraInv, TypeOK, Base
  <2>3. QED BY <2>1, <2>2
<1>7. QED BY <1>4, <1>6 DEF GcraInv

\* A key that expires records no debt, so the spent budget never shrinks.
LEMMA TickInv ==
    ASSUME GcraInv, Tick
    PROVE  GcraInv'
<1>1. now \in Nat /\ now' = now + 1 /\ now' \in Nat
  BY DEF GcraInv, TypeOK, Tick
<1>2. TypeOK'
  <2>1. \A b \in Buckets : Tolerance(b) \in Nat /\ tat[b] <= now + Tolerance(b) /\ tat[b] \in Int
    BY ToleranceFacts DEF GcraInv, TypeOK, NoKey
  <2>2. \A b \in Buckets : tat'[b] \in {tat[b], NoKey} /\ tat'[b] <= now' + Tolerance(b)
    BY <1>1, <2>1 DEF Tick, NoKey
  <2>3. tat' \in [Buckets -> Nat \cup {NoKey}]
    BY DEF GcraInv, TypeOK, Tick
  <2>4. QED BY <1>1, <2>2, <2>3 DEF GcraInv, TypeOK, Tick, Tolerance
<1>3. ASSUME NEW b \in Buckets
      PROVE  /\ granted'[b] * Emission[b] <= Base(b)' - opened'[b]
             /\ tat'[b] <= expiry'[b]
  <2>1. /\ tat[b] \in Int /\ expiry[b] \in Nat /\ tat[b] <= expiry[b]
        /\ opened[b] \in Nat /\ granted[b] * Emission[b] \in Nat
        /\ granted[b] * Emission[b] <= Base(b) - opened[b]
    BY ToleranceFacts DEF GcraInv, TypeOK, NoKey
  <2>2. tat'[b] = IF Expired(b) THEN NoKey ELSE tat[b]
    BY DEF Tick
  <2>3. /\ expiry'[b] = expiry[b] /\ granted'[b] = granted[b] /\ opened'[b] = opened[b]
    BY DEF Tick
  <2>4. Base(b)' \in Nat /\ Base(b) \in Nat /\ Base(b)' >= Base(b)
    BY <1>1, <2>1, <2>2 DEF Base, Expired, NoKey, GcraInv, TypeOK
  <2>5. tat'[b] <= expiry'[b]
    BY <2>1, <2>2, <2>3 DEF NoKey
  <2>6. granted'[b] * Emission[b] = granted[b] * Emission[b]
    BY <2>3
  <2>7. QED BY <2>1, <2>3, <2>4, <2>5, <2>6
<1>4. QED BY <1>2, <1>3 DEF GcraInv

LEMMA WindowInv ==
    ASSUME GcraInv, NEW b \in Buckets, OpenWindow(b)
    PROVE  GcraInv'
<1>1. TypeOK'
  BY DEF GcraInv, TypeOK, OpenWindow, Tolerance
<1>2. ASSUME NEW c \in Buckets
      PROVE  granted'[c] * Emission[c] <= Base(c)' - opened'[c]
  <2>1. Base(c)' = Base(c) /\ now \in Nat /\ tat[c] \in Int
    BY DEF OpenWindow, Base, GcraInv, TypeOK, NoKey
  <2>2. CASE c = b
    <3>1. granted'[c] = 0 /\ opened'[c] = now
      BY <2>2 DEF OpenWindow, GcraInv, TypeOK
    <3>2. QED BY <3>1, <2>1, ToleranceFacts DEF Base
  <2>3. CASE c # b
    BY <2>1, <2>3 DEF OpenWindow, GcraInv, TypeOK
  <2>4. QED BY <2>2, <2>3
<1>3. \A c \in Buckets : tat'[c] <= expiry'[c]
  BY DEF OpenWindow, GcraInv
<1>4. QED BY <1>1, <1>2, <1>3 DEF GcraInv

LEMMA RefuseInv ==
    ASSUME GcraInv, NEW b \in Buckets, Refuse(b)
    PROVE  GcraInv'
<1>1. now + RetryAfterMs(b) * Millisecond \in Nat
  <2>1. now \in Nat /\ Wait(b) \in Nat
    BY ToleranceFacts DEF GcraInv, TypeOK, Refuse, Wait, NextTat, Base, NoKey
  <2>2. QED BY <2>1, CeilFacts DEF RetryAfterMs
<1>2. TypeOK'
  BY <1>1 DEF GcraInv, TypeOK, Refuse, Tolerance
<1>3. QED BY <1>2 DEF GcraInv, Refuse, Base

LEMMA NextInv == GcraInv /\ [Next]_vars => GcraInv'
<1>1. SUFFICES ASSUME GcraInv, [Next]_vars PROVE GcraInv'
  OBVIOUS
<1>2. ASSUME NEW c \in Calls, Allow(c) PROVE GcraInv'
  BY <1>1, <1>2, GrantInv, RefuseInv DEF Allow
<1>3. ASSUME NEW b \in Buckets, OpenWindow(b) PROVE GcraInv'
  BY <1>1, <1>3, WindowInv
<1>4. CASE Tick
  BY <1>1, <1>4, TickInv
<1>5. CASE UNCHANGED vars
  BY <1>1, <1>5 DEF vars, GcraInv, TypeOK, Base, Tolerance
<1>6. QED BY <1>1, <1>2, <1>3, <1>4, <1>5 DEF Next

LEMMA Invariance == Spec => []GcraInv
  BY InitInv, NextInv, PTL DEF Spec

-----------------------------------------------------------------------------
\* In no window of time are more calls granted than its length at the
\* sustained rate, plus the burst.
THEOREM RateBounded == Spec => []RateBound
<1>1. GcraInv => RateBound
  <2>1. SUFFICES ASSUME GcraInv, NEW b \in Buckets
                 PROVE  granted[b] * Emission[b] <= now - opened[b] + Tolerance(b)
    BY DEF RateBound
  <2>2. Base(b) <= now + Tolerance(b) /\ Base(b) \in Nat
    BY <2>1, ToleranceFacts DEF GcraInv, TypeOK, Base, NoKey
  <2>3. granted[b] * Emission[b] \in Nat /\ opened[b] \in Nat /\ now \in Nat
    BY <2>1, ToleranceFacts DEF GcraInv, TypeOK
  <2>4. granted[b] * Emission[b] <= Base(b) - opened[b]
    BY <2>1 DEF GcraInv
  <2>5. QED BY <2>2, <2>3, <2>4, ToleranceFacts
<1>2. QED BY <1>1, Invariance, PTL

\* A key expires only when its tat is in the past, so expiry changes no
\* decision.
THEOREM ExpiryForgivesNothing == Spec => ExpiryHarmless
<1>1. ASSUME GcraInv, [Next]_vars, NEW b \in Buckets, tat[b] # NoKey, tat'[b] = NoKey
      PROVE  tat[b] <= now'
  <2>1. CASE Tick
    BY <1>1, <2>1 DEF Tick, Expired, GcraInv, TypeOK, NoKey
  <2>2. ASSUME NEW c \in Calls, Allow(c) PROVE FALSE
    <3>1. PICK d \in Buckets : Grant(d) \/ Refuse(d)
      BY <2>2 DEF Allow
    <3>2. NextTat(d) # NoKey
      BY <1>1, <3>1, ToleranceFacts DEF NextTat, Base, GcraInv, TypeOK, NoKey
    <3>3. QED BY <1>1, <3>1, <3>2 DEF Grant, Refuse, GcraInv, TypeOK
  <2>3. ASSUME NEW c \in Buckets, OpenWindow(c) PROVE FALSE
    BY <1>1, <2>3 DEF OpenWindow
  <2>4. CASE UNCHANGED vars
    BY <1>1, <2>4 DEF vars
  <2>5. QED BY <1>1, <2>1, <2>2, <2>3, <2>4 DEF Next
<1>2. GcraInv /\ [Next]_vars =>
        [\A b \in Buckets : tat[b] # NoKey /\ tat'[b] = NoKey => tat[b] <= now']_vars
  BY <1>1
<1>3. QED BY <1>2, Invariance, PTL DEF Spec, ExpiryHarmless

-----------------------------------------------------------------------------
\* What a refused caller was told is less than a millisecond after its bucket
\* conforms; once the key is gone, that moment is over.
AdviceInv ==
    \A b \in Buckets : advice[b] # None =>
        LET allowAt == tat[b] + Emission[b] - Tolerance(b)
        IN  IF tat[b] = NoKey THEN advice[b] < now + Millisecond
            ELSE allowAt <= advice[b] /\ advice[b] < allowAt + Millisecond

LEMMA AdviceNext == GcraInv /\ AdviceInv /\ [Next]_vars => AdviceInv'
<1>1. SUFFICES ASSUME GcraInv, AdviceInv, [Next]_vars, NEW b \in Buckets, advice'[b] # None
               PROVE  IF tat'[b] = NoKey THEN advice'[b] < now' + Millisecond
                      ELSE /\ tat'[b] + Emission[b] - Tolerance(b) <= advice'[b]
                           /\ advice'[b] < tat'[b] + Emission[b] - Tolerance(b) + Millisecond
  BY DEF AdviceInv, Tolerance
<1>2. /\ now \in Nat /\ tat[b] \in Int /\ expiry[b] \in Nat /\ advice[b] \in Int
      /\ tat[b] <= expiry[b] /\ Millisecond \in Nat /\ Millisecond >= 1
      /\ Emission[b] \in Nat /\ Tolerance(b) \in Nat /\ Tolerance(b) >= Emission[b]
  BY <1>1, ToleranceFacts, BucketsAssumption DEF GcraInv, TypeOK, NoKey, None
<1>3. ASSUME NEW d \in Buckets, Grant(d) \/ Refuse(d), d # b
      PROVE  now' = now /\ tat'[b] = tat[b] /\ advice'[b] = advice[b]
  BY <1>1, <1>3 DEF Grant, Refuse, GcraInv, TypeOK
<1>4. CASE Grant(b)
  BY <1>1, <1>4 DEF Grant, GcraInv, TypeOK
<1>5. CASE Refuse(b)
  <2>1. /\ advice'[b] = now + Ceil(Wait(b)) * Millisecond /\ tat' = tat /\ Wait(b) > 0
    BY <1>1, <1>5 DEF Refuse, GcraInv, TypeOK, RetryAfterMs
  <2>2. tat[b] >= now
    BY <1>2, <2>1 DEF Wait, NextTat, Base
  <2>3. /\ Wait(b) \in Nat /\ now + Wait(b) = tat[b] + Emission[b] - Tolerance(b)
        /\ tat[b] # NoKey
    BY <1>2, <2>1, <2>2 DEF Wait, NextTat, Base, NoKey
  <2>4. /\ Ceil(Wait(b)) * Millisecond \in Nat /\ Ceil(Wait(b)) * Millisecond >= Wait(b)
        /\ Ceil(Wait(b)) * Millisecond < Wait(b) + Millisecond
    BY <2>3, CeilFacts
  <2>5. QED BY <1>2, <2>1, <2>3, <2>4
<1>6. CASE Tick
  <2>1. /\ now' = now + 1 /\ advice'[b] = advice[b] /\ advice[b] # None
        /\ tat'[b] = IF Expired(b) THEN NoKey ELSE tat[b]
    BY <1>1, <1>6 DEF Tick
  <2>2. IF tat[b] = NoKey THEN advice[b] < now + Millisecond
        ELSE /\ tat[b] + Emission[b] - Tolerance(b) <= advice[b]
             /\ advice[b] < tat[b] + Emission[b] - Tolerance(b) + Millisecond
    BY <1>1, <2>1 DEF AdviceInv
  <2>3. QED BY <1>2, <2>1, <2>2 DEF Expired
<1>7. CASE UNCHANGED <<now, tat, advice>>
  BY <1>1, <1>7 DEF AdviceInv
<1>8. ASSUME NEW c \in Calls, Allow(c)
      PROVE  Grant(b) \/ Refuse(b) \/ UNCHANGED <<now, tat[b], advice[b]>>
  BY <1>8, <1>3 DEF Allow
<1>9. CASE UNCHANGED <<now, tat[b], advice[b]>>
  BY <1>1, <1>9 DEF AdviceInv
<1>10. QED
  BY <1>1, <1>4, <1>5, <1>6, <1>7, <1>8, <1>9 DEF Next, OpenWindow, vars

\* The time a refused caller is told is exact to the millisecond: it is granted then
\* unless others are granted first, and refused a millisecond earlier, whether its
\* key has expired in between or not.
THEOREM AdviceExact == Spec => []RetryAfterExact
<1>1. Init => AdviceInv
  BY DEF Init, AdviceInv
<1>2. ASSUME GcraInv, AdviceInv, NEW b \in Buckets, advice[b] # None
      PROVE  /\ now >= advice[b] => Wait(b) <= 0
             /\ now <= advice[b] - Millisecond => Wait(b) > 0
  <2>1. /\ now \in Nat /\ tat[b] \in Int /\ advice[b] \in Int
        /\ Emission[b] \in Nat /\ Tolerance(b) \in Nat /\ Tolerance(b) >= Emission[b]
        /\ Millisecond \in Nat
    BY <1>2, ToleranceFacts, BucketsAssumption DEF GcraInv, TypeOK, NoKey, None
  <2>2. IF tat[b] = NoKey THEN advice[b] < now + Millisecond
        ELSE /\ tat[b] + Emission[b] - Tolerance(b) <= advice[b]
             /\ advice[b] < tat[b] + Emission[b] - Tolerance(b) + Millisecond
    BY <1>2 DEF AdviceInv
  <2>3. QED BY <2>1, <2>2 DEF Wait, NextTat, Base, NoKey
<1>3. GcraInv /\ AdviceInv => RetryAfterExact
  BY <1>2 DEF RetryAfterExact
<1>4. QED BY <1>1, <1>3, AdviceNext, Invariance, PTL DEF Spec

-----------------------------------------------------------------------------
Level == [b \in Buckets |-> Tolerance(b) - (Base(b) - now)]

LEMMA LevelFacts ==
    ASSUME GcraInv, NEW b \in Buckets
    PROVE  /\ Emission[b] \in Nat /\ Tolerance(b) \in Nat
           /\ now \in Nat /\ Base(b) \in Nat /\ Base(b) >= now
           /\ Wait(b) = Emission[b] - Level[b]
BY ToleranceFacts DEF GcraInv, TypeOK, Base, NoKey, Level, Wait, NextTat

\* The step a granted call takes in the abstract bucket.
LEMMA GrantRefines ==
    ASSUME GcraInv, NEW b \in Buckets, Grant(b)
    PROVE  AbstractBucket!Grant(b)
<1>1. Level[b] >= Emission[b]
  BY LevelFacts DEF Grant, Level
<1>2. ASSUME NEW c \in Buckets
      PROVE  Level'[c] = IF c = b THEN Level[c] - Emission[b] ELSE Level[c]
  <2>1. CASE c = b
    <3>1. tat'[b] = NextTat(b) /\ now' = now
      BY DEF Grant, GcraInv, TypeOK
    <3>2. Base(b)' = Base(b) + Emission[b]
      BY <3>1, LevelFacts, ToleranceFacts DEF Base, NextTat
    <3>3. QED BY <2>1, <3>1, <3>2, LevelFacts DEF Level, Tolerance
  <2>2. CASE c # b
    BY <2>2 DEF Grant, GcraInv, TypeOK, Level, Base, Tolerance
  <2>3. QED BY <2>1, <2>2
<1>3. Level' = [Level EXCEPT ![b] = @ - Emission[b]]
  BY <1>2 DEF Level
<1>4. decision' = [decision EXCEPT ![b] = "granted"]
  BY DEF Grant
<1>5. QED BY <1>1, <1>3, <1>4 DEF AbstractBucket!Grant, AbstractBucket!Decide, Level

LEMMA RefuseRefines ==
    ASSUME GcraInv, NEW b \in Buckets, Refuse(b)
    PROVE  AbstractBucket!Refuse(b)
<1>1. Level[b] < Emission[b]
  BY LevelFacts DEF Refuse, Level
<1>2. Level' = Level
  BY DEF Refuse, Level, Base, Tolerance
<1>3. decision' = [decision EXCEPT ![b] = "refused"]
  BY DEF Refuse
<1>4. QED BY <1>1, <1>2, <1>3 DEF AbstractBucket!Refuse, AbstractBucket!Decide, Level

\* A full bucket stays full, whether its key is there or not.
LEMMA TickRefines ==
    ASSUME GcraInv, Tick
    PROVE  AbstractBucket!Fill
<1>1. ASSUME NEW b \in Buckets
      PROVE  Level'[b] = IF Level[b] < Tolerance(b) THEN Level[b] + 1 ELSE Level[b]
  <2>1. /\ now \in Nat /\ now' = now + 1 /\ tat[b] \in Int /\ expiry[b] \in Nat
        /\ tat[b] <= expiry[b]
    BY DEF GcraInv, TypeOK, Tick, NoKey
  <2>2. tat'[b] = IF Expired(b) THEN NoKey ELSE tat[b]
    BY DEF Tick
  <2>3. Base(b)' = IF tat[b] <= now THEN now + 1 ELSE Base(b)
    BY <2>1, <2>2 DEF Base, Expired, NoKey
  <2>4. Base(b) = IF tat[b] <= now THEN now ELSE tat[b]
    BY <2>1 DEF Base
  <2>5. Level[b] = Tolerance(b) - (Base(b) - now) /\ Level'[b] = Tolerance(b) - (Base(b)' - now')
    BY DEF Level, Tolerance
  <2>6. QED BY <2>1, <2>3, <2>4, <2>5, LevelFacts
<1>2. Level' = [b \in Buckets |-> IF Level[b] < Tolerance(b) THEN Level[b] + 1 ELSE Level[b]]
  BY <1>1 DEF Level
<1>3. decision' = decision
  BY DEF Tick
<1>4. QED BY <1>2, <1>3 DEF AbstractBucket!Fill, Level

\* The limiter implements the token bucket: every decision is the one the
\* bucket would make.
THEOREM Refinement == Spec => ImplementsTokenBucket
<1>1. Init => AbstractBucket!Init
  <2>1. SUFFICES ASSUME Init PROVE AbstractBucket!Init
    OBVIOUS
  <2>2. \A b \in Buckets : Level[b] = Tolerance(b)
    BY <2>1, ToleranceFacts DEF Init, Level, Base, NoKey
  <2>3. Level = [b \in Buckets |-> Tolerance(b)]
    BY <2>2 DEF Level
  <2>4. QED BY <2>1, <2>3 DEF Init, AbstractBucket!Init, Level
<1>2. GcraInv /\ [Next]_vars => [AbstractBucket!Next]_AbstractBucket!vars
  <2>1. SUFFICES ASSUME GcraInv, [Next]_vars
                 PROVE  [AbstractBucket!Next]_AbstractBucket!vars
    OBVIOUS
  <2>2. ASSUME NEW c \in Calls, Allow(c) PROVE AbstractBucket!Next
    BY <2>1, <2>2, GrantRefines, RefuseRefines DEF Allow, AbstractBucket!Next
  <2>3. CASE Tick
    BY <2>1, <2>3, TickRefines DEF AbstractBucket!Next
  <2>4. CASE UNCHANGED <<now, tat, decision>>
    BY <2>4 DEF AbstractBucket!vars, Base, Tolerance
  <2>5. QED BY <2>1, <2>2, <2>3, <2>4 DEF Next, OpenWindow, vars
<1>3. QED BY <1>1, <1>2, Invariance, PTL DEF Spec, ImplementsTokenBucket, AbstractBucket!Spec
=============================================================================
