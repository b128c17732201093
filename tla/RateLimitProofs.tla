---------------------------- MODULE RateLimitProofs ----------------------------
(***************************************************************************)
(* Proofs about RateLimit, for any capacity, refill, threads, time and     *)
(* corrections of the clock: the types, and that neither bucket lets       *)
(* through more than its rate.                                             *)
(***************************************************************************)
EXTENDS RateLimit, TLAPS

--------------------------------------------------------------------------------
(* The inductive invariant *)

\* What the rate allows beyond the calls a bucket let through is no less than what is
\* in it, and the refill of the time for which its clock was behind; base is how far
\* the clock had been set back when its time was read.
Kept(b, base) ==
    IF b.used THEN /\ b.ts + base <= b.last
                   /\ b.allowed >= b.tokens + Refill * (b.last - b.ts - base)
    ELSE b.allowed = Capacity

\* A call that read the clock after the last call did not read one less corrected.
RedisInv ==
    /\ \E base \in 0..back :
         /\ Kept(redis, base)
         /\ \A c \in Calls : At(c, "script") /\ redis.last < call[c].read =>
                                 base <= call[c].read - call[c].now
    /\ redis.last <= time
    /\ redis.used => redis.exp = redis.last + Ttl

MemoryInv == Kept(memory, 0) /\ memory.last <= time

\* What a call has read of the clocks.
CallInv(v) ==
    /\ v.read <= time
    /\ v.pc = "script" => v.now <= v.read /\ v.read - v.now <= back
    /\ v.pc = "bucket" => v.now = v.read

IndInv == TypeOK /\ RedisInv /\ MemoryInv /\ \A c \in Calls : CallInv(call[c])

--------------------------------------------------------------------------------
(* Lemmas *)

\* Refills add up, and a longer time refills more.
LEMMA Refills ==
    /\ \A x, y \in Int : Refill * (x + y) = Refill * x + Refill * y
    /\ \A x, y \in Int : x <= y => Refill * x <= Refill * y
    /\ \A x \in Int : Refill * x \in Int /\ Refill * x = x * Refill
    /\ \A x \in Nat : Refill * x >= 0
<1>1. Refill \in Nat \ {0}
  BY BucketAssumption
<1>2. \A x, y \in Int : Refill * (x + y) = Refill * x + Refill * y
  BY <1>1
<1>3. \A x \in Nat : Refill * x >= 0
  BY <1>1
<1>4. ASSUME NEW x \in Int, NEW y \in Int, x <= y PROVE Refill * x <= Refill * y
  <2>1. y - x \in Nat /\ y = x + (y - x)
    BY <1>4
  <2>2. Refill * y = Refill * x + Refill * (y - x) /\ Refill * (y - x) >= 0
    BY <1>2, <1>3, <2>1
  <2>. QED
    BY <1>1, <2>1, <2>2
<1>. QED
  BY <1>1, <1>2, <1>3, <1>4

\* A key that is not used for as long as it lives had been filled.
LEMMA TtlFills == Ttl \in Nat /\ Refill * Ttl >= Capacity
<1>1. Refill \in Nat \ {0} /\ Capacity \in Nat /\ Margin \in Nat \ {0}
  BY BucketAssumption
<1> DEFINE n == (2 * Capacity) \div Refill
<1>2. n \in Nat /\ 2 * Capacity < Refill * n + Refill
  BY <1>1
<1>3. Ttl = n + Margin
  BY DEF Ttl
<1> HIDE DEF n
<1>4. Refill * (n + 1) <= Refill * Ttl /\ Refill * (n + 1) = Refill * n + Refill
  BY <1>1, <1>2, <1>3, Refills
<1>. QED
  BY <1>1, <1>2, <1>3, <1>4

\* Capacity is the most there can be in a bucket.
LEMMA FilledType ==
    ASSUME NEW tokens \in 0..Capacity, NEW since \in Int
    PROVE  /\ Filled(tokens, since) \in 0..Capacity
           /\ Filled(tokens, since) = 0 \/ Filled(tokens, since) <= tokens + Refill * since
<1>1. since * Refill = Refill * since /\ Refill * since \in Int /\ Capacity \in Nat
  BY Refills, BucketAssumption
<1>. QED
  BY <1>1 DEF Filled, AtLeast, AtMost

\* A call keeps the account of its bucket, whenever it read the clock: as long as a
\* bucket that comes back full had been filled, and as the calls that read the clock
\* after the last call did not read one less corrected.
LEMMA TakeKeeps ==
    ASSUME NEW b \in Buckets, NEW base \in Int, NEW now \in Int, NEW read \in Nat,
           NEW corrected \in Nat, NEW anew \in BOOLEAN, time \in Nat,
           Kept(b, base), b.last <= time, read <= time,
           ~b.used => anew,
           b.used /\ anew => Refill * (time - b.last) >= Capacity,
           b.last < read => base <= read - now,
           base <= corrected + (read - now)
    PROVE  LET v == Allow(Take(b, now, anew), b, read, corrected, anew)
           IN v \in Buckets /\ v.used /\ v.last = time /\ v.ts = now /\ Kept(v, read - now)
<1> DEFINE tokens == IF anew THEN Capacity ELSE Filled(b.tokens, now - b.ts)
           taken  == IF tokens >= Cost THEN Cost ELSE 0
           late   == IF anew \/ b.last >= read THEN time - read + corrected ELSE 0
           passed == time - (IF b.used THEN b.last ELSE read)
           v      == Allow(Take(b, now, anew), b, read, corrected, anew)
<1>1. /\ Capacity \in Nat /\ Cost \in Nat /\ Refill \in Nat
      /\ b.tokens \in 0..Capacity /\ b.ts \in Int /\ b.last \in Nat /\ b.allowed \in Int
      /\ b.used \in BOOLEAN /\ b.exp \in Nat
  BY BucketAssumption DEF Buckets
<1>2. tokens \in 0..Capacity
  <2>1. now - b.ts \in Int
    BY <1>1
  <2>2. Filled(b.tokens, now - b.ts) \in 0..Capacity
    BY <1>1, <2>1, FilledType
  <2>. QED
    BY <1>1, <2>2
<1>3. taken \in Nat /\ tokens - taken \in 0..Capacity
  <2> HIDE DEF tokens
  <2>. QED
    BY <1>1, <1>2
<1>4. late \in Nat /\ passed \in Nat
  BY <1>1
<1>5. v = [used |-> TRUE, tokens |-> tokens - taken, ts |-> now, exp |-> b.exp, last |-> time,
           allowed |-> (b.allowed - taken) + Refill * (passed + late)]
  <2>1. Take(b, now, anew) = [b EXCEPT !.used = TRUE, !.tokens = tokens - taken, !.ts = now,
                                       !.allowed = @ - taken]
    BY DEF Take
  <2> DEFINE w == Take(b, now, anew)
  <2>2. v = [w EXCEPT !.last = time, !.allowed = @ + Refill * (passed + late)]
    BY DEF Allow
  <2> HIDE DEF tokens, taken, late, passed, v, w
  <2>3. w = [used |-> TRUE, tokens |-> tokens - taken, ts |-> now, exp |-> b.exp,
             last |-> b.last, allowed |-> b.allowed - taken]
    BY <1>1, <2>1 DEF Buckets, w
  <2>. QED
    BY <2>2, <2>3
<1> HIDE DEF taken, v
<1>6. b.allowed + Refill * (passed + late) >= tokens + Refill * (time - read)
  <2>1. CASE ~b.used
    <3>1. tokens = Capacity /\ b.allowed = Capacity /\ passed + late >= time - read
      BY <1>1, <2>1 DEF Kept
    <3>. QED
      BY <1>1, <1>4, <3>1, Refills
  <2>2. CASE b.used /\ anew
    <3>1. b.last - b.ts - base \in Nat /\ b.allowed >= b.tokens + Refill * (b.last - b.ts - base)
      BY <1>1, <2>2 DEF Kept
    <3>2. b.allowed >= 0
      BY <1>1, <3>1, Refills
    <3>3. /\ tokens = Capacity /\ passed = time - b.last /\ late >= time - read
          /\ Refill * passed >= Capacity
      BY <1>1, <2>2
    <3>4. Refill * (passed + late) = Refill * passed + Refill * late
          /\ Refill * late >= Refill * (time - read)
      BY <1>1, <1>4, <3>3, Refills
    <3>5. Refill * passed \in Int /\ Refill * late \in Int /\ Refill * (time - read) \in Int
      BY <1>1, <1>4, Refills
    <3> HIDE DEF tokens, late, passed
    <3>. QED
      BY <1>1, <3>2, <3>3, <3>4, <3>5
  <2>3. CASE b.used /\ ~anew
    <3> DEFINE behind == b.last - b.ts - base
    <3>1. behind \in Nat /\ b.allowed >= b.tokens + Refill * behind
      BY <1>1, <2>3 DEF Kept
    <3>2. passed = time - b.last /\ tokens = Filled(b.tokens, now - b.ts)
      BY <2>3
    <3>3. passed + late >= time - read
      BY <1>1, <2>3, <3>2
    <3>4. (now - b.ts) + (time - read) <= behind + (passed + late)
      BY <1>1, <2>3, <3>2
    <3>5. /\ Refill * ((now - b.ts) + (time - read)) = Refill * (now - b.ts) + Refill * (time - read)
          /\ Refill * (behind + (passed + late)) = Refill * behind + Refill * (passed + late)
          /\ Refill * ((now - b.ts) + (time - read)) <= Refill * (behind + (passed + late))
          /\ Refill * (time - read) <= Refill * (passed + late)
      BY <1>1, <1>4, <3>1, <3>3, <3>4, Refills
    <3>6. /\ Refill * behind \in Int /\ Refill * (passed + late) \in Int
          /\ Refill * (now - b.ts) \in Int /\ Refill * (time - read) \in Int
          /\ Refill * behind >= 0
      BY <1>1, <1>4, <3>1, Refills
    <3>7. tokens = 0 \/ tokens <= b.tokens + Refill * (now - b.ts)
      <4>1. now - b.ts \in Int
        BY <1>1
      <4>2. LET f == Filled(b.tokens, now - b.ts)
            IN f = 0 \/ f <= b.tokens + Refill * (now - b.ts)
        BY <1>1, <4>1, FilledType
      <4>. QED
        BY <3>2, <4>2
    <3> HIDE DEF tokens, late, passed, behind
    <3>. QED
      BY <1>1, <1>2, <3>1, <3>5, <3>6, <3>7
  <2>. QED
    BY <1>1, <2>1, <2>2, <2>3
<1>7. Refill * (passed + late) \in Int /\ Refill * (time - read) \in Int
  BY <1>1, <1>4, Refills
<1> HIDE DEF tokens, late, passed
<1>8. v \in Buckets /\ v.used /\ v.last = time /\ v.ts = now
  BY <1>1, <1>3, <1>5, <1>7 DEF Buckets
<1>9. time - now - (read - now) = time - read
  OBVIOUS
<1>10. Kept(v, read - now)
  BY <1>1, <1>2, <1>3, <1>5, <1>6, <1>7, <1>9 DEF Kept
<1>. QED
  BY <1>8, <1>10 DEF v

--------------------------------------------------------------------------------
(* The invariant is inductive *)

\* The types of the state, and of what a call has read.
LEMMA InitHolds == Init => IndInv
<1> SUFFICES ASSUME Init PROVE IndInv
  OBVIOUS
<1>1. Capacity \in Nat
  BY BucketAssumption
<1>2. TypeOK
  <2>1. NoBucket \in Buckets
    BY <1>1 DEF NoBucket, Buckets
  <2>2. call \in [Calls -> [pc : PCs, now : Int, read : Nat]]
    BY DEF Init, PCs
  <2>. QED
    BY <2>1, <2>2 DEF Init, TypeOK
<1>3. Kept(redis, 0) /\ Kept(memory, 0) /\ redis.last <= time /\ memory.last <= time /\ ~redis.used
  BY DEF Init, NoBucket, Kept
<1>4. 0 \in 0..back /\ \A c \in Calls : call[c].pc = "idle" /\ call[c].read = 0
  BY DEF Init
<1>5. RedisInv
  BY <1>3, <1>4 DEF RedisInv, At
<1>6. \A c \in Calls : CallInv(call[c])
  <2> SUFFICES ASSUME NEW c \in Calls PROVE CallInv(call[c])
    OBVIOUS
  <2>1. time = 0 /\ call[c] = [pc |-> "idle", now |-> 0, read |-> 0]
    BY DEF Init
  <2>. QED
    BY <2>1 DEF CallInv
<1>. QED
  BY <1>2, <1>3, <1>5, <1>6 DEF IndInv, MemoryInv

\* What is known of a call that a step moves to another point, forgetting what it read.
LEMMA GotoKeeps ==
    ASSUME TypeOK, NEW c \in Calls, NEW pc \in PCs \ {"script", "bucket"}, Goto(c, pc),
           \A d \in Calls : CallInv(call[d]), time' = time, back' = back
    PROVE  /\ call' \in [Calls -> [pc : PCs, now : Int, read : Nat]]
           /\ \A d \in Calls : CallInv(call[d])'
           /\ \A d \in Calls : At(d, "script")' => At(d, "script") /\ call'[d] = call[d]
<1>1. /\ call' \in [Calls -> [pc : PCs, now : Int, read : Nat]]
      /\ call'[c] = [pc |-> pc, now |-> 0, read |-> 0]
      /\ \A d \in Calls \ {c} : call'[d] = call[d]
  BY DEF TypeOK, Goto
<1>2. CallInv(call[c])'
  <2>1. time \in Nat /\ pc # "script" /\ pc # "bucket"
    BY DEF TypeOK
  <2>. QED
    BY <1>1, <2>1 DEF CallInv
<1>3. \A d \in Calls \ {c} : CallInv(call[d])'
  BY <1>1 DEF CallInv
<1>4. \A d \in Calls : At(d, "script")' => At(d, "script") /\ call'[d] = call[d]
  BY <1>1 DEF At
<1>. QED
  BY <1>1, <1>2, <1>3, <1>4

\* A call of the script keeps the account of the bucket in Redis.
LEMMA ScriptKeeps ==
    ASSUME IndInv, NEW c \in Calls, At(c, "script"), RunScript(c),
           time' = time, back' = back,
           \A d \in Calls : At(d, "script")' => At(d, "script") /\ call'[d] = call[d]
    PROVE  redis' \in Buckets /\ RedisInv'
<1> DEFINE now == call[c].now
           read == call[c].read
           corrected == back - (read - now)
           v == Allow(Take(redis, now, Expired), redis, read, corrected, Expired)
<1>1. /\ now \in Int /\ read \in Nat /\ time \in Nat /\ back \in Nat /\ redis \in Buckets
      /\ read <= time /\ now <= read /\ read - now <= back
      /\ \A d \in Calls : call[d].read <= time
  BY DEF IndInv, TypeOK, CallInv, At
<1>2. PICK base \in 0..back :
        /\ Kept(redis, base)
        /\ \A d \in Calls : At(d, "script") /\ redis.last < call[d].read =>
                                base <= call[d].read - call[d].now
  BY DEF IndInv, RedisInv
<1>3. redis.last <= time /\ (redis.used => redis.exp = redis.last + Ttl)
  BY DEF IndInv, RedisInv
<1>4. Ttl \in Nat /\ Refill * Ttl >= Capacity /\ Capacity \in Nat
  BY TtlFills, BucketAssumption
<1>5. redis.used /\ Expired => Refill * (time - redis.last) >= Capacity
  <2> SUFFICES ASSUME redis.used, Expired PROVE Refill * (time - redis.last) >= Capacity
    OBVIOUS
  <2>1. time >= redis.last + Ttl /\ redis.last \in Nat
    BY <1>1, <1>3 DEF Expired, Buckets
  <2>2. PICK n \in Int : n = time - redis.last
    BY <1>1, <2>1
  <2>3. PICK ttl \in Int : ttl = Ttl
    BY <1>4
  <2>4. ttl <= n /\ Refill * ttl >= Capacity
    BY <1>1, <1>4, <2>1, <2>2, <2>3
  <2>5. Refill * ttl <= Refill * n /\ Refill * ttl \in Int /\ Refill * n \in Int
    BY <2>4, Refills
  <2>. QED
    BY <1>4, <2>2, <2>4, <2>5
<1>6. Expired \in BOOLEAN /\ (~redis.used => Expired)
  BY DEF Expired
<1>7. corrected \in Nat /\ base \in Int /\ base <= corrected + (read - now)
      /\ (redis.last < read => base <= read - now)
  BY <1>1, <1>2
<1>8. v \in Buckets /\ v.used /\ v.last = time /\ v.ts = now /\ Kept(v, read - now)
  <2> HIDE DEF now, read, corrected, v
  <2>1. LET u == Allow(Take(redis, now, Expired), redis, read, corrected, Expired)
        IN u \in Buckets /\ u.used /\ u.last = time /\ u.ts = now /\ Kept(u, read - now)
    BY <1>1, <1>2, <1>3, <1>5, <1>6, <1>7, TakeKeeps
  <2>. QED
    BY <2>1 DEF v
<1>9. redis' = [v EXCEPT !.exp = time + Ttl]
  BY DEF RunScript
<1>10. PICK gap \in 0..back : gap = read - now
  BY <1>1
<1> HIDE DEF now, read, corrected, v
<1>11. redis' \in Buckets /\ redis'.last = time /\ redis'.exp = time + Ttl
  BY <1>1, <1>4, <1>8, <1>9 DEF Buckets
<1>12. Kept(redis', gap)
  <2>1. /\ redis'.used = v.used /\ redis'.ts = v.ts /\ redis'.last = v.last
        /\ redis'.allowed = v.allowed /\ redis'.tokens = v.tokens
    BY <1>8, <1>9 DEF Buckets
  <2>. QED
    BY <1>8, <1>10, <2>1 DEF Kept
<1>13. \A d \in Calls : ~(At(d, "script")' /\ redis'.last < call'[d].read)
  <2> SUFFICES ASSUME NEW d \in Calls, At(d, "script")' PROVE ~(redis'.last < call'[d].read)
    OBVIOUS
  <2>1. call'[d].read = call[d].read /\ call[d].read <= time /\ call[d].read \in Nat
    BY <1>1 DEF IndInv, TypeOK
  <2>. QED
    BY <1>1, <1>11, <2>1
<1>14. Ttl' = Ttl
  BY DEF Ttl
<1>15. (\E n \in 0..back :
          /\ Kept(redis, n)
          /\ \A d \in Calls : At(d, "script") /\ redis.last < call[d].read =>
                                  n <= call[d].read - call[d].now)'
  <2>1. Kept(redis', gap) <=> Kept(redis, gap)'
    BY DEF Kept
  <2>. QED
    BY <1>10, <1>12, <1>13 DEF Kept
<1>16. redis'.last <= time' /\ (redis'.used => redis'.exp = redis'.last + Ttl)
  BY <1>1, <1>11
<1>. QED
  BY <1>11, <1>14, <1>15, <1>16 DEF RedisInv

\* What holds of a bucket and of the calls holds after a step that leaves them alone.
LEMMA RedisUnchanged ==
    ASSUME IndInv, UNCHANGED redis, time' \in Nat, time <= time', back' \in Nat, back <= back',
           \A d \in Calls : At(d, "script")' =>
                \/ At(d, "script") /\ call'[d] = call[d]
                \/ call'[d].read - call'[d].now = back
    PROVE  RedisInv'
<1>1. PICK base \in 0..back :
        /\ Kept(redis, base)
        /\ \A d \in Calls : At(d, "script") /\ redis.last < call[d].read =>
                                base <= call[d].read - call[d].now
  BY DEF IndInv, RedisInv
<1>2. redis.last \in Nat /\ time \in Nat /\ back \in Nat
  BY DEF IndInv, TypeOK, Buckets
<1>3. Kept(redis, base)' /\ base \in 0..back'
  BY <1>1, <1>2 DEF Kept
<1>4. ASSUME NEW d \in Calls, At(d, "script")', redis'.last < call'[d].read
      PROVE  base <= call'[d].read - call'[d].now
  <2>1. CASE At(d, "script") /\ call'[d] = call[d]
    BY <1>1, <1>4, <2>1
  <2>2. CASE call'[d].read - call'[d].now = back
    BY <1>1, <1>2, <2>2
  <2>. QED
    BY <1>4, <2>1, <2>2
<1>5. redis'.last <= time' /\ (redis'.used => redis'.exp = redis'.last + Ttl')
  BY <1>2 DEF IndInv, RedisInv, Ttl
<1>. QED
  BY <1>3, <1>4, <1>5 DEF RedisInv

LEMMA MemoryUnchanged ==
    ASSUME IndInv, UNCHANGED memory, time' \in Nat, time <= time'
    PROVE  MemoryInv'
<1>1. memory.last \in Nat /\ time \in Nat /\ memory.last <= time /\ Kept(memory, 0)
  BY DEF IndInv, TypeOK, Buckets, MemoryInv
<1>2. Kept(memory, 0)'
  BY <1>1 DEF Kept
<1>. QED
  BY <1>1, <1>2 DEF MemoryInv

LEMMA StepKeeps == IndInv /\ [Next]_vars => IndInv'
<1> SUFFICES ASSUME IndInv, [Next]_vars PROVE IndInv'
  OBVIOUS
<1> USE DEF IndInv
<1>1. /\ time \in Nat /\ back \in Nat /\ backend \in {"redis", "memory"}
      /\ redis \in Buckets /\ memory \in Buckets /\ failing \in BOOLEAN
      /\ call \in [Calls -> [pc : PCs, now : Int, read : Nat]]
  BY DEF TypeOK
<1>2. CASE Tick
  <2>1. time' = time + 1 /\ UNCHANGED <<back, backend, redis, memory, failing, call>>
    BY <1>2 DEF Tick
  <2>2. TypeOK'
    BY <1>1, <2>1 DEF TypeOK
  <2>3. RedisInv'
    BY <1>1, <2>1, RedisUnchanged DEF At
  <2>4. MemoryInv'
    BY <1>1, <2>1, MemoryUnchanged
  <2>5. \A c \in Calls : CallInv(call[c])'
    BY <1>1, <2>1 DEF CallInv
  <2>. QED
    BY <2>2, <2>3, <2>4, <2>5
<1>3. CASE SetBack
  <2>1. back' = back + 1 /\ UNCHANGED <<time, backend, redis, memory, failing, call>>
    BY <1>3 DEF SetBack
  <2>2. TypeOK'
    BY <1>1, <2>1 DEF TypeOK
  <2>3. RedisInv'
    BY <1>1, <2>1, RedisUnchanged DEF At
  <2>4. MemoryInv'
    BY <1>1, <2>1, MemoryUnchanged
  <2>5. ASSUME NEW c \in Calls PROVE CallInv(call[c])'
    <3>1. call[c].now \in Int /\ call[c].read \in Nat /\ call[c].pc \in PCs
      BY <1>1
    <3>2. CallInv(call[c])
      OBVIOUS
    <3>. QED
      BY <1>1, <2>1, <3>1, <3>2 DEF CallInv
  <2>. QED
    BY <2>2, <2>3, <2>4, <2>5
<1>4. ASSUME NEW c \in Calls, Begin(c) \/ Continue(c) PROVE IndInv'
  <2>1. CASE ReadWall(c)
    <3>1. /\ UNCHANGED <<time, back, backend, redis, memory, failing>>
          /\ call' = [call EXCEPT ![c] = [pc |-> "script", now |-> time - back, read |-> time]]
      BY <2>1 DEF ReadWall, Wall
    <3>2. /\ call'[c] = [pc |-> "script", now |-> time - back, read |-> time]
          /\ \A d \in Calls \ {c} : call'[d] = call[d]
          /\ call' \in [Calls -> [pc : PCs, now : Int, read : Nat]]
      BY <1>1, <3>1 DEF PCs
    <3>3. TypeOK'
      BY <1>1, <3>1, <3>2 DEF TypeOK
    <3>4. call'[c].read - call'[c].now = back
      BY <1>1, <3>2
    <3>5. RedisInv'
      BY <1>1, <3>1, <3>2, <3>4, RedisUnchanged DEF At
    <3>6. MemoryInv'
      BY <1>1, <3>1, MemoryUnchanged
    <3>7. CallInv(call[c])'
      BY <1>1, <3>1, <3>2 DEF CallInv
    <3>8. \A d \in Calls \ {c} : CallInv(call[d])'
      BY <3>1, <3>2 DEF CallInv
    <3>. QED
      BY <3>3, <3>5, <3>6, <3>7, <3>8
  <2>2. CASE Script(c) \/ RedisFails(c)
    <3>1. /\ UNCHANGED <<time, back, backend, memory, failing>> /\ At(c, "script")
          /\ RunScript(c) \/ UNCHANGED redis
      BY <2>2 DEF Script, RedisFails
    <3>2. PICK pc \in {"success", "fallback"} : Goto(c, pc)
      BY <2>2 DEF Script, RedisFails
    <3>3. /\ call' \in [Calls -> [pc : PCs, now : Int, read : Nat]]
          /\ \A d \in Calls : CallInv(call[d])'
          /\ \A d \in Calls : At(d, "script")' => At(d, "script") /\ call'[d] = call[d]
      BY <3>1, <3>2, GotoKeeps DEF PCs
    <3>4. redis' \in Buckets /\ RedisInv'
      <4>1. CASE RunScript(c)
        BY <3>1, <3>3, <4>1, ScriptKeeps
      <4>2. CASE UNCHANGED redis
        BY <1>1, <3>1, <3>3, <4>2, RedisUnchanged
      <4>. QED
        BY <3>1, <4>1, <4>2
    <3>5. MemoryInv'
      BY <1>1, <3>1, MemoryUnchanged
    <3>6. TypeOK'
      BY <1>1, <3>1, <3>3, <3>4 DEF TypeOK
    <3>. QED
      BY <3>3, <3>4, <3>5, <3>6
  <2>3. CASE ReadClock(c)
    <3>1. /\ UNCHANGED <<time, back, backend, redis, memory, failing>>
          /\ call' = [call EXCEPT ![c] = [pc |-> "bucket", now |-> time, read |-> time]]
      BY <2>3 DEF ReadClock
    <3>2. /\ call'[c] = [pc |-> "bucket", now |-> time, read |-> time]
          /\ \A d \in Calls \ {c} : call'[d] = call[d]
          /\ call' \in [Calls -> [pc : PCs, now : Int, read : Nat]]
      BY <1>1, <3>1 DEF PCs
    <3>3. TypeOK'
      BY <1>1, <3>1, <3>2 DEF TypeOK
    <3>4. \A d \in Calls : At(d, "script")' => At(d, "script") /\ call'[d] = call[d]
      BY <3>2 DEF At
    <3>5. RedisInv'
      BY <1>1, <3>1, <3>4, RedisUnchanged
    <3>6. MemoryInv'
      BY <1>1, <3>1, MemoryUnchanged
    <3>7. CallInv(call[c])'
      BY <1>1, <3>1, <3>2 DEF CallInv
    <3>8. \A d \in Calls \ {c} : CallInv(call[d])'
      BY <3>1, <3>2 DEF CallInv
    <3>. QED
      BY <3>3, <3>5, <3>6, <3>7, <3>8
  <2>4. CASE TakeInMemory(c)
    <3> DEFINE now == call[c].now
               anew == ~memory.used
    <3>1. /\ UNCHANGED <<time, back, backend, redis, failing>> /\ At(c, "bucket")
          /\ memory' = Allow(Take(memory, now, anew), memory, now, 0, anew)
      BY <2>4 DEF TakeInMemory
    <3>2. PICK pc \in {"success", "failure"} : Goto(c, pc)
      BY <2>4 DEF TakeInMemory
    <3>3. /\ call' \in [Calls -> [pc : PCs, now : Int, read : Nat]]
          /\ \A d \in Calls : CallInv(call[d])'
          /\ \A d \in Calls : At(d, "script")' => At(d, "script") /\ call'[d] = call[d]
      BY <3>1, <3>2, GotoKeeps DEF PCs
    <3>4. now \in Nat /\ now <= time
      BY <1>1, <3>1 DEF CallInv, At
    <3>5. Kept(memory, 0) /\ memory.last <= time
      BY DEF MemoryInv
    <3> HIDE DEF now
    <3>6. memory' \in Buckets /\ memory'.last = time /\ Kept(memory', now - now)
      <4>1. ASSUME NEW a \in BOOLEAN, a = ~memory.used
            PROVE  LET v == Allow(Take(memory, now, a), memory, now, 0, a)
                   IN v \in Buckets /\ v.used /\ v.last = time /\ v.ts = now /\ Kept(v, now - now)
        <5>1. now \in Int /\ now \in Nat /\ 0 \in Int /\ 0 \in Nat /\ 0 <= now - now /\ 0 <= 0 + (now - now)
          BY <3>4
        <5>2. (~memory.used => a) /\ ~(memory.used /\ a)
          BY <4>1
        <5>. QED
          BY <1>1, <3>4, <3>5, <5>1, <5>2, TakeKeeps
      <4>. QED
        BY <3>1, <4>1
    <3>7. MemoryInv'
      <4>1. now - now = 0
        BY <3>4
      <4>2. Kept(memory', 0)
        BY <3>6, <4>1
      <4>3. Kept(memory, 0)'
        BY <4>2 DEF Kept
      <4>. QED
        BY <1>1, <3>1, <3>6, <4>3 DEF MemoryInv
    <3>8. RedisInv'
      BY <1>1, <3>1, <3>3, RedisUnchanged
    <3>9. TypeOK'
      BY <1>1, <3>1, <3>3, <3>6 DEF TypeOK
    <3>. QED
      BY <3>3, <3>7, <3>8, <3>9
  <2>5. CASE ReportFailure(c) \/ ReportSuccess(c)
    <3>1. /\ UNCHANGED <<time, back, backend, redis, memory>> /\ Goto(c, "idle")
          /\ failing' \in BOOLEAN
      BY <2>5 DEF ReportFailure, ReportSuccess
    <3>2. /\ call' \in [Calls -> [pc : PCs, now : Int, read : Nat]]
          /\ \A d \in Calls : CallInv(call[d])'
          /\ \A d \in Calls : At(d, "script")' => At(d, "script") /\ call'[d] = call[d]
      BY <3>1, GotoKeeps DEF PCs
    <3>3. RedisInv'
      BY <1>1, <3>1, <3>2, RedisUnchanged
    <3>4. MemoryInv'
      BY <1>1, <3>1, MemoryUnchanged
    <3>5. TypeOK'
      BY <1>1, <3>1, <3>2 DEF TypeOK
    <3>. QED
      BY <3>2, <3>3, <3>4, <3>5
  <2>. QED
    BY <1>4, <2>1, <2>2, <2>3, <2>4, <2>5 DEF Begin, Continue
<1>5. CASE UNCHANGED vars
  <2>1. UNCHANGED <<time, back, backend, redis, memory, failing, call>>
    BY <1>5 DEF vars
  <2>2. TypeOK'
    BY <1>1, <2>1 DEF TypeOK
  <2>3. RedisInv'
    BY <1>1, <2>1, RedisUnchanged DEF At
  <2>4. MemoryInv'
    BY <1>1, <2>1, MemoryUnchanged
  <2>5. \A c \in Calls : CallInv(call[c])'
    BY <2>1 DEF CallInv
  <2>. QED
    BY <2>2, <2>3, <2>4, <2>5
<1>. QED
  BY <1>2, <1>3, <1>4, <1>5 DEF Next

LEMMA Inductive == Spec => []IndInv
  BY InitHolds, StepKeeps, PTL DEF Spec

--------------------------------------------------------------------------------
(* The theorems *)

\* A bucket whose account is kept has let through no more than its rate.
LEMMA KeptKeepsRate ==
    ASSUME NEW b \in Buckets, NEW base \in Int, Kept(b, base)
    PROVE  RateKept(b)
<1>1. /\ b.tokens \in Nat /\ b.ts \in Int /\ b.last \in Nat /\ b.allowed \in Int
      /\ b.used \in BOOLEAN /\ Capacity \in Nat
  BY BucketAssumption DEF Buckets
<1>2. CASE b.used
  <2>1. PICK n \in Int : n = b.last - b.ts - base
    BY <1>1
  <2>2. n \in Nat /\ b.allowed >= b.tokens + Refill * n
    BY <1>1, <1>2, <2>1 DEF Kept
  <2>3. Refill * n >= 0 /\ Refill * n \in Int
    BY <2>2, Refills
  <2>. QED
    BY <1>1, <2>2, <2>3 DEF RateKept
<1>3. CASE ~b.used
  BY <1>1, <1>3 DEF Kept, RateKept
<1>. QED
  BY <1>1, <1>2, <1>3

\* The state has its type: the tokens of a bucket, above all, stay between none and
\* its capacity, however far its clock is set back.
THEOREM TypeCorrect == Spec => []TypeOK
  BY Inductive, PTL DEF IndInv

\* The bucket in memory keeps its rate, for any number of threads that read the clock
\* before they have its lock (ratelimit.py:75).
THEOREM MemoryKeepsRate == Spec => []MemoryRate
<1>1. IndInv => MemoryRate
  BY KeptKeepsRate DEF IndInv, TypeOK, MemoryInv, MemoryRate
<1>. QED
  BY <1>1, Inductive, PTL

\* The bucket in Redis keeps its rate, whatever corrections of the wall clock and
\* whenever its key expires (ratelimit.py:109).
THEOREM RedisKeepsRate == Spec => []RedisRate
<1>1. IndInv => RedisRate
  <2> SUFFICES ASSUME IndInv PROVE RedisRate
    OBVIOUS
  <2>1. PICK base \in 0..back : Kept(redis, base)
    BY DEF IndInv, RedisInv
  <2>2. base \in Int /\ redis \in Buckets
    BY <2>1 DEF IndInv, TypeOK
  <2>. QED
    BY <2>1, <2>2, KeptKeepsRate DEF RedisRate
<1>. QED
  BY <1>1, Inductive, PTL
================================================================================
