-------------------------- MODULE TimeDriverProofs -------------------------
(***************************************************************************)
(* The time driver of src/src/time.rs, for every width of the counter's    *)
(* words, conversion ratio, queue size and set of deadlines.               *)
(* Without any assumption on timing:                                       *)
(*   - what counter_to_ticks and ticks_to_counter_ceil are to each other;  *)
(*   - the compare value of ch585_alarm_counter;                           *)
(*   - the types;                                                          *)
(*   - on both chips: the clock is never ahead of the counter, its epoch   *)
(*     never goes back, and no Timer ends early;                           *)
(*   - on CH582: no read of the clock is torn, no Timer is forgotten, and  *)
(*     how late its task can be woken.                                     *)
(* On CH585 that no epoch is missed and no Timer forgotten is proved of a  *)
(* driver that is in time (InTime), which the code does not see to: those  *)
(* are lemmas here, and say under which timing the code does what it means *)
(* to.                                                                     *)
(***************************************************************************)
EXTENDS TimeDriver, TLAPS, WellFoundedInduction, FiniteSetTheorems

-----------------------------------------------------------------------------
(* Numbers.                                                                 *)

\* A number is its quotient and its rest.
LEMMA DivMod ==
    ASSUME NEW n \in Nat, NEW d \in Nat \ {0}
    PROVE  /\ n \div d \in Nat /\ n % d \in Nat /\ n % d < d
           /\ (n \div d) * d \in Nat
           /\ (n \div d) * d + (n % d) = n
<1>1. n \div d \in Nat /\ n % d \in Nat /\ n % d < d
  OBVIOUS
<1>2. n - (n \div d) * d = n % d
  BY SMTT(30)
<1> DEFINE whole == (n \div d) * d
           rest == n % d
<1>3. whole \in Nat
  BY <1>1
<1>4. rest \in Nat /\ n - whole = rest
  BY <1>1, <1>2
<1> HIDE DEF whole, rest
<1>5. whole + rest = n
  BY <1>3, <1>4
<1> QED
  BY <1>1, <1>3, <1>5 DEF whole, rest

\* Products keep the order of their factors ...
LEMMA ProductGrows ==
    ASSUME NEW a \in Nat, NEW b \in Nat, NEW d \in Nat, a <= b
    PROVE  a * d <= b * d /\ a * d \in Nat /\ b * d \in Nat
<1>1. PICK k \in Nat : b = a + k
  <2>1. b - a \in Nat /\ b = a + (b - a)
    OBVIOUS
  <2> QED BY <2>1
<1>2. b * d = a * d + k * d
  BY <1>1, SMTT(30)
<1>3. a * d \in Nat /\ k * d \in Nat
  BY <1>1, SMTT(30)
<1> QED BY <1>2, <1>3

\* ... and show it.
LEMMA ProductOrder ==
    ASSUME NEW a \in Nat, NEW b \in Nat, NEW d \in Nat \ {0}, a * d < b * d
    PROVE  a < b
<1> SUFFICES ASSUME ~(a < b) PROVE FALSE
  OBVIOUS
<1>1. b <= a
  OBVIOUS
<1>2. b * d <= a * d /\ b * d \in Nat /\ a * d \in Nat
  BY <1>1, ProductGrows
<1> QED
  BY <1>2

\* A set of numbers has its least one.
LEMMA LeastOf ==
    ASSUME NEW S, S \subseteq Nat, S # {}
    PROVE  Min(S) \in S /\ \A n \in S : Min(S) <= n
<1>1. PICK least \in S : \A n \in S : ~ (<<n, least>> \in OpToRel(<, Nat))
  BY NatLessThanWellFounded, WFMin
<1>2. \A n \in S : least <= n
  <2> TAKE n \in S
  <2>1. n \in Nat /\ least \in Nat /\ ~ (n < least)
    BY <1>1 DEF OpToRel
  <2> QED
    BY <2>1
<1> QED
  BY <1>2 DEF Min

-----------------------------------------------------------------------------
(* Counts and ticks.                                                        *)

\* counter_to_ticks rounds down: the tick it returns has begun at c, and the next
\* one has not.
LEMMA FloorTicks ==
    ASSUME NEW c \in Nat, chip \in Chips
    PROVE  /\ CounterToTicks(c) \in Nat
           /\ CounterToTicks(c) * Num[chip] <= c * Den[chip]
           /\ c * Den[chip] < (CounterToTicks(c) + 1) * Num[chip]
<1> DEFINE N == Num[chip]
           D == Den[chip]
           q == c \div N
           r == c % N
           f == (r * D) \div N
           s == (r * D) % N
<1>1. N \in Nat \ {0} /\ D \in Nat \ {0}
  BY TimeAssumption
<1> HIDE DEF N, D
<1>2. q \in Nat /\ r \in Nat /\ q * N + r = c
  BY <1>1, DivMod
<1> HIDE DEF q, r
<1>3. r * D \in Nat
  BY <1>1, <1>2
<1>4. f \in Nat /\ s \in Nat /\ s < N /\ f * N + s = r * D
  BY <1>1, <1>3, DivMod
<1>5. CounterToTicks(c) = q * D + f
  BY DEF CounterToTicks, N, D, q, r, f
<1> HIDE DEF f, s
<1>6. q * D \in Nat
  BY <1>1, <1>2
<1>7. c * D = (q * D) * N + r * D
  BY <1>1, <1>2, SMTT(30)
<1>8. (q * D + f) * N = (q * D) * N + f * N
  BY <1>1, <1>4, <1>6, SMTT(30)
<1>9. (q * D + f + 1) * N = (q * D) * N + f * N + N
  BY <1>1, <1>4, <1>6, SMTT(30)
<1>10. (q * D) * N \in Nat /\ f * N \in Nat
  BY <1>1, <1>4, <1>6
<1>11. (q * D + f) * N <= c * D /\ c * D < (q * D + f + 1) * N
  BY <1>1, <1>3, <1>4, <1>7, <1>8, <1>9, <1>10
<1> QED
  BY <1>4, <1>5, <1>6, <1>11 DEF N, D

\* Of a deadline in ticks: the count it falls on, before it is cut to a u64.
FirstCount(t) ==
    (t \div Den[chip]) * Num[chip]
    + ((t % Den[chip]) * Num[chip] + Den[chip] - 1) \div Den[chip]

\* ticks_to_counter_ceil rounds up: the count is the first on which t has begun.
LEMMA CeilCounts ==
    ASSUME NEW t \in Nat, chip \in Chips
    PROVE  /\ FirstCount(t) \in Nat
           /\ t * Num[chip] <= FirstCount(t) * Den[chip]
           /\ FirstCount(t) * Den[chip] < t * Num[chip] + Den[chip]
<1> DEFINE N == Num[chip]
           D == Den[chip]
           q == t \div D
           r == t % D
           g == r * N + D - 1
           f == g \div D
           s == g % D
<1>1. N \in Nat \ {0} /\ D \in Nat \ {0}
  BY TimeAssumption
<1> HIDE DEF N, D
<1>2. q \in Nat /\ r \in Nat /\ q * D + r = t
  BY <1>1, DivMod
<1> HIDE DEF q, r
<1>3. r * N \in Nat
  BY <1>1, <1>2
<1>a. g \in Nat /\ g = r * N + D - 1
  BY <1>1, <1>3
<1> HIDE DEF g
<1>4. f \in Nat /\ s \in Nat /\ s < D /\ f * D + s = g
  BY <1>1, <1>a, DivMod
<1>5. FirstCount(t) = q * N + f
  BY DEF FirstCount, N, D, q, r, f, g
<1> HIDE DEF f, s
<1>6. q * N \in Nat
  BY <1>1, <1>2
<1>7. t * N = (q * N) * D + r * N
  BY <1>1, <1>2, SMTT(30)
<1>8. (q * N + f) * D = (q * N) * D + f * D
  BY <1>1, <1>4, <1>6, SMTT(30)
<1>9. (q * N) * D \in Nat /\ f * D \in Nat
  BY <1>1, <1>4, <1>6
<1>10. t * N <= (q * N + f) * D /\ (q * N + f) * D < t * N + D
  BY <1>1, <1>3, <1>a, <1>4, <1>7, <1>8, <1>9
<1> QED
  BY <1>4, <1>5, <1>6, <1>10 DEF N, D

\* The two conversions are adjoint: for any ratio of counts to ticks, the clock
\* has reached a deadline exactly when the counter has reached the count that
\* ticks_to_counter_ceil gives for it; rounding loses no count on either side.
THEOREM DeadlineHasItsCount ==
    ASSUME NEW t \in Nat, NEW c \in 0 .. MaxU64 - 1, chip \in Chips
    PROVE  t <= CounterToTicks(c) <=> TicksToCounterCeil(t) <= c
<1> DEFINE N == Num[chip]
           D == Den[chip]
           k == CounterToTicks(c)
           m == FirstCount(t)
<1>1. N \in Nat \ {0} /\ D \in Nat \ {0}
  BY TimeAssumption
<1>2. c \in Nat /\ MaxU64 \in Int /\ c < MaxU64
  BY TimeAssumption DEF MaxU64
<1>3. k \in Nat /\ k * N <= c * D /\ c * D < (k + 1) * N
  BY <1>2, FloorTicks
<1>4. m \in Nat /\ t * N <= m * D /\ m * D < t * N + D
  BY CeilCounts
<1>5. TicksToCounterCeil(t) = IF m > MaxU64 THEN MaxU64 ELSE m
  BY DEF TicksToCounterCeil, FirstCount, Saturate
<1> HIDE DEF N, D, k, m
<1>6. TicksToCounterCeil(t) <= c <=> m <= c
  BY <1>2, <1>4, <1>5
<1>7. k * N \in Nat /\ c * D \in Nat /\ t * N \in Nat /\ m * D \in Nat
  BY <1>1, <1>2, <1>3, <1>4
<1>8. ASSUME t <= k
      PROVE  m <= c
  <2>1. t * N <= k * N
    BY <1>1, <1>3, <1>8, ProductGrows
  <2>2. m * D < c * D + D
    BY <1>1, <1>3, <1>4, <1>7, <2>1
  <2>3. m * D < (c + 1) * D
    BY <1>1, <1>2, <2>2, SMTT(30)
  <2>4. m < c + 1
    BY <1>1, <1>2, <1>4, <2>3, ProductOrder
  <2> QED
    BY <1>2, <1>4, <2>4
<1>9. ASSUME m <= c
      PROVE  t <= k
  <2>1. m * D <= c * D
    BY <1>1, <1>2, <1>4, <1>9, ProductGrows
  <2>2. (k + 1) * N \in Nat
    BY <1>1, <1>3
  <2>3. t * N < (k + 1) * N
    BY <1>3, <1>4, <1>7, <2>1, <2>2
  <2>4. t < k + 1
    BY <1>1, <1>3, <2>3, ProductOrder
  <2> QED
    BY <1>3, <2>4
<1> QED
  BY <1>6, <1>8, <1>9 DEF k

-----------------------------------------------------------------------------
(* Words of the counter.                                                    *)

\* What the constants are.
LEMMA Bounds ==
    /\ Period \in Nat \ {0, 1} /\ MaxU64 \in Nat /\ Period <= MaxU64
    /\ Horizon \in 0 .. MaxU64 - 1
    /\ FirstRead \in 0 .. Horizon /\ FirstRead \in 0 .. Period - 1
    /\ Deadlines \subseteq 0 .. MaxU64
<1>1. Period \in Nat \ {0, 1} /\ MaxU64 = Period * Period - 1
  BY TimeAssumption DEF MaxU64
<1>2. Period * Period \in Nat /\ 2 * Period <= Period * Period
  BY <1>1, ProductGrows
<1>3. MaxU64 \in Nat /\ Period <= MaxU64
  BY <1>1, <1>2
<1> QED
  BY <1>3, TimeAssumption DEF MaxU64

\* The words of a u64, and a u64 of its words.
LEMMA WordsFit ==
    /\ \A n \in 0 .. MaxU64 : /\ n \div Period \in 0 .. Period - 1
                             /\ n % Period \in 0 .. Period - 1
    /\ \A h \in 0 .. Period - 1, l \in 0 .. Period - 1 : h * Period + l \in 0 .. MaxU64
<1>1. Period \in Nat \ {0, 1} /\ Period * Period \in Nat /\ MaxU64 = Period * Period - 1
  BY TimeAssumption DEF MaxU64
<1>2. ASSUME NEW n \in 0 .. MaxU64
      PROVE  n \div Period \in 0 .. Period - 1 /\ n % Period \in 0 .. Period - 1
  <2> DEFINE h == n \div Period
  <2>1. n \in Nat /\ n < Period * Period
    BY <1>1
  <2>2. h \in Nat /\ n % Period \in Nat /\ n % Period < Period /\ h * Period \in Nat
        /\ h * Period + (n % Period) = n
    BY <1>1, <2>1, DivMod
  <2> HIDE DEF h
  <2>3. h * Period < Period * Period
    BY <1>1, <2>1, <2>2
  <2>4. h < Period
    BY <1>1, <2>2, <2>3, ProductOrder
  <2> QED
    BY <1>1, <2>2, <2>4 DEF h
<1>3. ASSUME NEW h \in 0 .. Period - 1, NEW l \in 0 .. Period - 1
      PROVE  h * Period + l \in 0 .. MaxU64
  <2>1. h \in Nat /\ h + 1 \in Nat /\ h + 1 <= Period /\ Period \in Nat
    BY <1>1
  <2>2. (h + 1) * Period <= Period * Period /\ h * Period \in Nat
    BY <2>1, ProductGrows
  <2>3. (h + 1) * Period = h * Period + Period
    BY <1>1, <2>1, SMTT(30)
  <2> QED
    BY <1>1, <2>2, <2>3
<1> QED
  BY <1>2, <1>3

\* Splitting a count into its words and back is the identity, and the high
\* word never falls while the counter rises.
LEMMA Words ==
    ASSUME NEW n \in Nat, NEW k \in Nat, n <= k
    PROVE  /\ n \div Period \in Nat /\ n % Period \in Nat
           /\ (n \div Period) * Period + (n % Period) = n
           /\ n \div Period <= k \div Period
<1>1. Period \in Nat \ {0}
  BY TimeAssumption
<1> DEFINE a == n \div Period
           b == k \div Period
<1>2. /\ a \in Nat /\ n % Period \in Nat /\ a * Period + (n % Period) = n
      /\ a * Period \in Nat
  BY <1>1, DivMod
<1>3. /\ b \in Nat /\ k % Period \in Nat /\ k % Period < Period /\ b * Period \in Nat
      /\ b * Period + (k % Period) = k
  BY <1>1, DivMod
<1> HIDE DEF a, b
<1>4. (b + 1) * Period = b * Period + Period
  BY <1>1, <1>3, SMTT(30)
<1>5. a * Period < (b + 1) * Period
  BY <1>1, <1>2, <1>3, <1>4
<1>6. a < b + 1
  BY <1>1, <1>2, <1>3, <1>5, ProductOrder
<1> QED
  BY <1>2, <1>3, <1>6 DEF a, b

\* A word and the one below it.
LEMMA WordsOf ==
    ASSUME NEW h \in Nat, NEW l \in 0 .. Period - 1
    PROVE  (h * Period + l) \div Period = h
<1>1. Period \in Nat \ {0, 1}
  BY Bounds
<1> DEFINE n == h * Period + l
           a == n \div Period
<1>2. h * Period \in Nat /\ n \in Nat /\ n = h * Period + l
  BY <1>1
<1>3. a \in Nat /\ a * Period \in Nat /\ n % Period \in Nat /\ n % Period < Period
      /\ a * Period + (n % Period) = n
  BY <1>1, <1>2, DivMod
<1> HIDE DEF n, a
<1>4. (h + 1) * Period = h * Period + Period /\ (a + 1) * Period = a * Period + Period
  BY <1>1, <1>3, SMTT(30)
<1>5. h * Period < (a + 1) * Period /\ a * Period < (h + 1) * Period
  BY <1>1, <1>2, <1>3, <1>4
<1>6. h < a + 1 /\ a < h + 1
  BY <1>1, <1>3, <1>5, ProductOrder
<1>7. a = h
  BY <1>3, <1>6
<1> QED
  BY <1>7 DEF a, n

\* Two counts less than a period apart differ in their low words.
LEMMA LowWordsDiffer ==
    ASSUME NEW n \in Nat, NEW m \in Nat, n < m, m - n < Period
    PROVE  n % Period # m % Period
<1>1. Period \in Nat \ {0}
  BY TimeAssumption
<1> DEFINE a == n \div Period
           b == m \div Period
           x == n % Period
           y == m % Period
<1>2. a \in Nat /\ x \in Nat /\ a * Period + x = n
  BY Words
<1>3. b \in Nat /\ y \in Nat /\ b * Period + y = m
  BY Words
<1> SUFFICES ASSUME x = y PROVE FALSE
  OBVIOUS
<1> HIDE DEF a, b, x, y
<1>4. a * Period \in Nat /\ b * Period \in Nat /\ (a + 1) * Period = a * Period + Period
  BY <1>1, <1>2, <1>3, SMTT(30)
<1>5. a * Period < b * Period /\ b * Period < (a + 1) * Period
  BY <1>1, <1>2, <1>3, <1>4
<1>6. a < b /\ b < a + 1
  BY <1>1, <1>2, <1>3, <1>5, ProductOrder
<1> QED
  BY <1>2, <1>3, <1>6

-----------------------------------------------------------------------------
(* The compare value of CH585 (ch585_alarm_counter).                        *)

\* The deadline is the compare value itself.
Direct(target, now) ==
    LET thisEpoch == now \div Period
        itsEpoch == target \div Period
    IN  \/ itsEpoch = thisEpoch
        \/ itsEpoch = thisEpoch + 1 /\ target % Period <= now % Period

\* A rollover chosen as the compare value is that of the epoch the counter was
\* read in.
LEMMA AlarmOfRollover ==
    ASSUME NEW target \in 0 .. MaxU64, NEW now \in Nat, now < target,
           ~Direct(target, now)
    PROVE  /\ AlarmCounter(target, now) = (now \div Period) * Period + Period
           /\ AlarmCounter(target, now) <= target
<1>1. Period \in Nat \ {0, 1} /\ target \in Nat
  BY Bounds
<1> DEFINE a == now \div Period
           b == target \div Period
           x == now % Period
           y == target % Period
<1>2. a \in Nat /\ x \in Nat /\ a * Period + x = now /\ a <= b
  BY <1>1, Words
<1>3. b \in 0 .. Period - 1 /\ y \in Nat /\ b * Period + y = target
  BY <1>1, Words, WordsFit
<1>4. a # b /\ AlarmCounter(target, now) = ((a + 1) % Period) * Period
  BY DEF AlarmCounter, Direct
<1> HIDE DEF a, b, x, y
<1>5. a + 1 <= b /\ a + 1 \in Nat /\ (a + 1) % Period = a + 1
  BY <1>1, <1>2, <1>3, <1>4
<1>6. (a + 1) * Period <= b * Period /\ b * Period \in Nat
  BY <1>1, <1>3, <1>5, ProductGrows
<1>7. (a + 1) * Period = a * Period + Period
  BY <1>1, <1>2, SMTT(30)
<1>8. AlarmCounter(target, now) = a * Period + Period
  BY <1>4, <1>5, <1>7
<1>9. a * Period \in Nat
  BY <1>1, <1>2
<1>10. a * Period + Period <= target
  BY <1>1, <1>3, <1>6, <1>7, <1>9
<1> QED
  BY <1>8, <1>10 DEF a

\* A rollover chosen as the compare value is ahead for as long as the counter
\* stays in the epoch it was read in.
LEMMA RolloverIsAhead ==
    ASSUME NEW target \in 0 .. MaxU64, NEW now \in Nat, now < target,
           NEW n \in Nat, n \div Period = now \div Period,
           AlarmCounter(target, now) # target
    PROVE  n < AlarmCounter(target, now)
<1>1. Period \in Nat \ {0, 1}
  BY Bounds
<1> DEFINE whole == (n \div Period) * Period
<1>2. whole \in Nat /\ n % Period \in Nat /\ n % Period < Period /\ whole + (n % Period) = n
  BY <1>1, DivMod
<1>3. AlarmCounter(target, now) = whole + Period
  <2>1. ~Direct(target, now)
    BY DEF AlarmCounter, Direct
  <2> QED
    BY <2>1, AlarmOfRollover
<1> HIDE DEF whole
<1> QED
  BY <1>1, <1>2, <1>3

\* The compare value chosen for a deadline ahead is ahead too, not after the
\* deadline nor by more than one period, and its low word, which is all CMP
\* holds, does not come before it: the alarm is neither late nor taken for an
\* earlier rollover's.
THEOREM AlarmComesFirst ==
    ASSUME NEW target \in 0 .. MaxU64, NEW now \in Nat, now < target
    PROVE  LET alarm == AlarmCounter(target, now)
           IN  /\ alarm \in now + 1 .. target /\ alarm <= now + Period
               /\ \A n \in now + 1 .. alarm - 1 : n % Period # alarm % Period
<1>1. Period \in Nat \ {0, 1} /\ target \in Nat
  BY Bounds
<1> DEFINE a == now \div Period
           b == target \div Period
           x == now % Period
           y == target % Period
           alarm == AlarmCounter(target, now)
<1>2. a \in Nat /\ x \in Nat /\ x < Period /\ a * Period + x = now /\ a * Period \in Nat
  BY <1>1, DivMod
<1>3. b \in Nat /\ y \in Nat /\ y < Period /\ b * Period + y = target
  BY <1>1, DivMod
<1>4. alarm \in now + 1 .. target /\ alarm <= now + Period
  <2>1. CASE ~Direct(target, now)
    <3>1. alarm = a * Period + Period /\ alarm <= target
      BY <2>1, AlarmOfRollover
    <3> HIDE DEF a, b, x, y, alarm
    <3> QED
      BY <1>1, <1>2, <3>1
  <2>2. CASE Direct(target, now)
    <3>1. alarm = target /\ (b = a \/ (b = a + 1 /\ y <= x))
      BY <2>2 DEF AlarmCounter, Direct
    <3> HIDE DEF a, b, x, y, alarm
    <3>2. (a + 1) * Period = a * Period + Period
      BY <1>1, <1>2, SMTT(30)
    <3>3. b * Period = a * Period \/ (b * Period = a * Period + Period /\ y <= x)
      BY <3>1, <3>2
    <3> QED
      BY <1>1, <1>2, <1>3, <3>1, <3>3
  <2> QED
    BY <2>1, <2>2
<1>5. ASSUME NEW n \in now + 1 .. alarm - 1
      PROVE  n % Period # alarm % Period
  <2>1. n \in Nat /\ alarm \in Nat /\ n < alarm /\ alarm - n < Period
    BY <1>1, <1>4
  <2> QED
    BY <2>1, LowWordsDiffer
<1> QED
  BY <1>4, <1>5 DEF alarm

-----------------------------------------------------------------------------
(* Types.                                                                   *)

\* TypeOK, by who writes what: the hardware and its registers,
HwTyped ==
    /\ chip \in Chips /\ cnt \in 0 .. Horizon
    /\ cmp \in 0 .. IF Is585 THEN Period - 1 ELSE MaxU64
    /\ flag \in BOOLEAN /\ stie \in BOOLEAN /\ pend \in BOOLEAN

\* the driver,
DriverTyped ==
    /\ late \in 0 .. MaxLatency
    /\ epoch \in Readings
    /\ pc \in {"thread", "expire", "off", "compute", "high", "low", "clear",
              "check", "enable"}
    /\ next \in 0 .. MaxU64 /\ compare \in 0 .. MaxU64

\* the timer queue
QueueTyped ==
    /\ DOMAIN queue \subseteq Tasks
    /\ IsFiniteSet(DOMAIN queue) /\ Cardinality(DOMAIN queue) <= QueueSize
    /\ \A t \in DOMAIN queue : queue[t] \in Deadlines

\* and the tasks.
TimersTyped ==
    /\ DOMAIN timer \subseteq Tasks /\ woken \subseteq DOMAIN timer
    /\ \A t \in DOMAIN timer : timer[t] \in Deadlines

\* The read in progress has its fields.
ReadTyped ==
    rd \in [stage : {"idle", "high", "low", "again", "decide"},
            task : Tasks \cup {"none"}, high : Nat, lastLow : Nat, from : Nat]

\* The task of a read under way awaits its Timer.
ReadIsOf == rd.stage # "idle" => rd.task \in DOMAIN timer

\* CMP is of two words on CH582 only.
TwoWords == pc = "high" => ~Is585

\* TypeOK, with what it rests on.
TypeInv == HwTyped /\ DriverTyped /\ QueueTyped /\ TimersTyped
           /\ ReadTyped /\ ReadIsOf /\ TwoWords

\* What init() leaves behind has its types.
LEMMA InitTyped == Init => TypeInv
<1> SUFFICES ASSUME Init PROVE TypeInv
  OBVIOUS
<1>1. /\ MaxU64 \in Nat /\ Period \in Nat \ {0, 1}
      /\ FirstRead \in 0 .. Horizon /\ FirstRead \in 0 .. Period - 1
  BY Bounds
<1>2. DOMAIN queue = {} /\ DOMAIN timer = {}
  BY DEF Init
<1>3. HwTyped
  <2>1. 0 \in 0 .. Period - 1 /\ MaxU64 \in 0 .. MaxU64
    BY <1>1
  <2>2. cmp = IF Is585 THEN 0 ELSE MaxU64
    BY DEF Init
  <2>3. cmp \in 0 .. IF Is585 THEN Period - 1 ELSE MaxU64
    BY <2>1, <2>2
  <2>4. chip \in Chips /\ cnt = FirstRead /\ flag = FALSE /\ stie = Is585 /\ pend = FALSE
    BY DEF Init
  <2> QED
    BY <1>1, <2>3, <2>4 DEF HwTyped, Is585
<1>4. DriverTyped
  BY <1>1, TimeAssumption DEF Init, DriverTyped, Readings
<1>5. QueueTyped
  BY <1>2, FS_EmptySet, TimeAssumption DEF QueueTyped
<1>6. TimersTyped /\ ReadTyped /\ ReadIsOf /\ TwoWords
  BY <1>2 DEF Init, TimersTyped, ReadTyped, ReadIsOf, NoRead, TwoWords
<1> QED
  BY <1>3, <1>4, <1>5, <1>6 DEF TypeInv

\* What a read of the clock returns is a u64, and fits the epoch.
LEMMA ClockTyped ==
    ASSUME TypeInv
    PROVE  /\ Observe(cnt % Period) \in Readings
           /\ Counter \in 0 .. MaxU64
           /\ ReadCounter => epoch' \in Readings
<1>1. /\ Period \in Nat \ {0, 1} /\ MaxU64 \in Nat /\ cnt \in 0 .. MaxU64
  BY Bounds DEF TypeInv, HwTyped
<1>2. cnt % Period \in 0 .. Period - 1 /\ (epoch.high + 1) % Period \in 0 .. Period - 1
  BY <1>1 DEF TypeInv, DriverTyped, Readings
<1>3. Observe(cnt % Period) \in Readings
  BY <1>2 DEF Observe, Readings, TypeInv, DriverTyped
<1>4. Value(Observe(cnt % Period)) \in 0 .. MaxU64
  BY <1>3, WordsFit DEF Value, Readings
<1>5. Counter \in 0 .. MaxU64
  BY <1>1, <1>4 DEF Counter
<1> QED
  BY <1>3, <1>5 DEF ReadCounter, TypeInv, DriverTyped

\* Deadlines, and the counts they fall on, are u64.
LEMMA TargetTyped ==
    ASSUME TypeInv, NEW at \in 0 .. MaxU64
    PROVE  Target(at) \in 0 .. MaxU64
<1>1. MaxU64 \in Nat
  BY Bounds
<1>2. ASSUME NEW n \in Nat PROVE Saturate(n) \in 0 .. MaxU64
  BY <1>1 DEF Saturate
<1>3. FirstCount(at) \in Nat /\ TicksToCounterCeil(at) = Saturate(FirstCount(at))
  BY CeilCounts DEF TypeInv, HwTyped, TicksToCounterCeil, FirstCount
<1>4. TicksToCounterCeil(at) + 1 \in Nat
  BY <1>1, <1>2, <1>3
<1> QED
  BY <1>2, <1>4 DEF Target

\* The compare value is a u64, also where the shift drops a rollover.
LEMMA AlarmTyped ==
    ASSUME NEW target \in 0 .. MaxU64, NEW now \in Nat
    PROVE  AlarmCounter(target, now) \in 0 .. MaxU64
<1> DEFINE a == (now \div Period + 1) % Period
<1>1. Period \in Nat \ {0, 1} /\ now \div Period \in Nat
  BY Bounds
<1>2. a \in 0 .. Period - 1
  BY <1>1
<1> HIDE DEF a
<1>3. a * Period + 0 \in 0 .. MaxU64 /\ a * Period \in Nat
  BY <1>1, <1>2, WordsFit, ProductGrows
<1>4. a * Period \in 0 .. MaxU64
  BY <1>3
<1> QED
  BY <1>4 DEF AlarmCounter, a

\* CMP as the driver writes it.
LEMMA CmpTyped ==
    ASSUME TypeInv, NEW v \in 0 .. MaxU64
    PROVE  /\ (IF Is585 THEN 0 ELSE (cmp \div Period) * Period) + (v % Period)
                \in 0 .. IF Is585 THEN Period - 1 ELSE MaxU64
           /\ ~Is585 => (v \div Period) * Period + (cmp % Period) \in 0 .. MaxU64
<1>1. v % Period \in 0 .. Period - 1 /\ v \div Period \in 0 .. Period - 1
  BY WordsFit
<1>2. CASE Is585
  BY <1>1, <1>2, Bounds
<1>3. CASE ~Is585
  <2>1. cmp \in 0 .. MaxU64
    BY <1>3 DEF TypeInv, HwTyped
  <2>2. cmp % Period \in 0 .. Period - 1 /\ cmp \div Period \in 0 .. Period - 1
    BY <2>1, WordsFit
  <2> QED
    BY <1>1, <1>3, <2>2, WordsFit
<1> QED
  BY <1>2, <1>3

\* What the steps of a task and the passing of time do to the driver's variables.
LEMMA TaskSteps ==
    ASSUME Task
    PROVE  /\ late' = late /\ next' = next /\ compare' = compare
           /\ pc = "thread" /\ pc' \in {"thread", "expire"}
           /\ epoch' = epoch \/ ReadCounter
BY DEF Task, StartTimer, CancelTimer, PollTimer, ReadHigh, ReadLow, ReadHighAgain,
       TimerEnds, ScheduleWake, Deciding, Unmasked, driverVars

\* Every step leaves the chip, and the counter never goes back.
LEMMA TimeGoesOn ==
    ASSUME cnt \in Nat, [Next]_vars
    PROVE  chip' = chip /\ cnt' \in Nat /\ cnt <= cnt'
<1>1. MinStep \in Nat /\ MaxStep \in Nat
  BY TimeAssumption
<1>2. cnt \in Nat
  OBVIOUS
<1>3. ASSUME NEW c, NEW f, NEW p, NEW s, Code(c, f, p, s)
      PROVE  chip' = chip /\ cnt' \in Nat /\ cnt <= cnt'
  BY <1>1, <1>2, <1>3 DEF Code, Elapse
<1>4. CASE OtherCode
  BY <1>3, <1>4 DEF OtherCode
<1>5. CASE Idle
  BY <1>1, <1>2, <1>5 DEF Idle, Elapse
<1>6. CASE SysTick
  BY <1>3, <1>6 DEF SysTick
<1>7. CASE Expire
  BY <1>4, <1>7 DEF Expire
<1>8. CASE SetAlarm
  <2>1. CASE AlarmPassed
    BY <1>3, <2>1 DEF AlarmPassed
  <2>2. CASE AlarmAhead
    BY <1>3, <2>2 DEF AlarmAhead
  <2>3. CASE WriteHigh
    BY <1>3, <2>3 DEF WriteHigh
  <2>4. CASE WriteLow
    BY <1>3, <2>4 DEF WriteLow
  <2>5. CASE Clear
    BY <1>3, <2>5 DEF Clear
  <2>6. CASE Enable
    BY <1>3, <2>6 DEF Enable
  <2>7. CASE Compute \/ CheckPassed \/ CheckAhead
    BY <1>4, <2>7 DEF Compute, CheckPassed, CheckAhead
  <2> QED
    BY <1>8, <2>1, <2>2, <2>3, <2>4, <2>5, <2>6, <2>7 DEF SetAlarm
<1>9. CASE Task
  BY <1>4, <1>9
     DEF Task, StartTimer, CancelTimer, PollTimer, ReadHigh, ReadLow,
         ReadHighAgain, TimerEnds, ScheduleWake
<1>10. CASE Stop \/ UNCHANGED vars
  BY <1>2, <1>10 DEF Stop, vars, hwVars
<1> QED
  BY <1>5, <1>6, <1>7, <1>8, <1>9, <1>10 DEF Next

\* Every step leaves CMP and the bits of SysTick what they can hold.
LEMMA StepHw == TypeInv /\ [Next]_vars => HwTyped'
<1> SUFFICES ASSUME TypeInv, [Next]_vars PROVE HwTyped'
  OBVIOUS
<1> DEFINE Fits(c) == c \in 0 .. IF Is585 THEN Period - 1 ELSE MaxU64
<1>1. /\ MinStep \in Nat /\ MaxStep \in Nat /\ Horizon \in Nat
      /\ chip \in Chips /\ cnt \in Nat /\ Fits(cmp)
      /\ flag \in BOOLEAN /\ stie \in BOOLEAN /\ pend \in BOOLEAN
  BY Bounds, TimeAssumption DEF TypeInv, HwTyped
<1>2. ASSUME NEW d \in Nat, NEW c, NEW f \in BOOLEAN, NEW p \in BOOLEAN, NEW s \in BOOLEAN,
             Fits(c), Elapse(d, c, f, p, s), chip' = chip
      PROVE  HwTyped'
  BY <1>1, <1>2 DEF Elapse, HwTyped, Is585
<1>3. ASSUME NEW c, NEW f \in BOOLEAN, NEW p \in BOOLEAN, NEW s \in BOOLEAN,
             Fits(c), Code(c, f, p, s)
      PROVE  HwTyped'
  <2>1. PICK d \in MinStep .. MaxStep : Elapse(d, c, f, p, s) /\ chip' = chip
    BY <1>3 DEF Code
  <2>2. d \in Nat
    BY <1>1
  <2> HIDE DEF Fits
  <2> QED
    BY <1>2, <1>3, <2>1, <2>2
<1> HIDE DEF Fits
<1>4. CASE OtherCode
  BY <1>1, <1>3, <1>4 DEF OtherCode
<1>5. CASE Idle
  <2>1. PICK d \in {1, MaxStep} : Elapse(d, cmp, flag, pend, stie) /\ chip' = chip
    BY <1>5 DEF Idle
  <2> QED
    BY <1>1, <1>2, <2>1
<1>6. CASE SysTick
  BY <1>1, <1>3, <1>6 DEF SysTick
<1>7. CASE Expire
  BY <1>4, <1>7 DEF Expire
<1>8. CASE SetAlarm
  <2>0. compare \in 0 .. MaxU64
    BY DEF TypeInv, DriverTyped
  <2>1. CASE AlarmPassed
    BY <1>1, <1>3, <2>1 DEF AlarmPassed
  <2>2. CASE AlarmAhead
    BY <1>1, <1>3, <2>2 DEF AlarmAhead
  <2>3. CASE WriteHigh
    <3> DEFINE v == (compare \div Period) * Period + (cmp % Period)
    <3>1. Fits(v)
      BY <2>0, <2>3, CmpTyped DEF Fits, WriteHigh, TypeInv, TwoWords
    <3> QED
      BY <1>1, <1>3, <2>3, <3>1 DEF WriteHigh
  <2>4. CASE WriteLow
    <3> DEFINE v == (IF Is585 THEN 0 ELSE (cmp \div Period) * Period) + (compare % Period)
    <3>1. Fits(v)
      BY <2>0, CmpTyped DEF Fits
    <3> QED
      BY <1>1, <1>3, <2>4, <3>1 DEF WriteLow
  <2>5. CASE Clear
    BY <1>1, <1>3, <2>5 DEF Clear
  <2>6. CASE Enable
    BY <1>1, <1>3, <2>6 DEF Enable
  <2>7. CASE Compute \/ CheckPassed \/ CheckAhead
    BY <1>4, <2>7 DEF Compute, CheckPassed, CheckAhead
  <2> QED
    BY <1>8, <2>1, <2>2, <2>3, <2>4, <2>5, <2>6, <2>7 DEF SetAlarm
<1>9. CASE Task
  BY <1>4, <1>9
     DEF Task, StartTimer, CancelTimer, PollTimer, ReadHigh, ReadLow,
         ReadHighAgain, TimerEnds, ScheduleWake
<1>10. CASE Stop \/ UNCHANGED vars
  BY <1>10 DEF Stop, vars, hwVars, TypeInv, HwTyped, Is585
<1> QED
  BY <1>5, <1>6, <1>7, <1>8, <1>9, <1>10 DEF Next

\* The locals of the driver stay u64, the epoch two words, the wait in its bound.
LEMMA StepDriver == TypeInv /\ [Next]_vars => DriverTyped' /\ TwoWords'
<1> SUFFICES ASSUME TypeInv, [Next]_vars PROVE DriverTyped' /\ TwoWords'
  OBVIOUS
<1>1. /\ late \in 0 .. MaxLatency /\ epoch \in Readings
      /\ pc \in {"thread", "expire", "off", "compute", "high", "low", "clear",
                "check", "enable"}
      /\ next \in 0 .. MaxU64 /\ compare \in 0 .. MaxU64 /\ TwoWords
  BY DEF TypeInv, DriverTyped
<1>2. MaxLatency \in Nat /\ MaxStep \in Nat /\ MaxU64 \in Nat
  BY Bounds, TimeAssumption
<1>3. chip' = chip
  <2>1. cnt \in Nat
    BY Bounds DEF TypeInv, HwTyped
  <2> QED
    BY <2>1, TimeGoesOn
<1>4. ReadCounter => epoch' \in Readings
  BY ClockTyped
<1>5. CASE SysTick
  BY <1>1, <1>2, <1>5 DEF SysTick, DriverTyped, TwoWords
<1>6. CASE Idle
  <2>1. late' \in 0 .. MaxLatency
    <3>1. PICK d \in {1, MaxStep} : (pend => late + d <= MaxLatency)
                                   /\ late' = IF pend THEN late + d ELSE 0
      BY <1>6 DEF Idle
    <3> QED
      BY <1>1, <1>2, <3>1
  <2> QED
    BY <1>1, <1>3, <1>6, <2>1 DEF Idle, DriverTyped, TwoWords, driverVars, Is585
<1>7. CASE Expire
  <2>1. next' \in 0 .. MaxU64
    <3> DEFINE rest == DOMAIN queue \ {t \in DOMAIN queue : queue[t] <= Now}
               left == {queue[t] : t \in rest}
    <3>1. next' = IF rest = {} THEN MaxU64 ELSE Min(left)
      BY <1>7 DEF Expire
    <3>2. left \subseteq 0 .. MaxU64 /\ left \subseteq Nat
      <4>1. \A t \in rest : queue[t] \in Deadlines
        BY DEF TypeInv, QueueTyped
      <4>2. left \subseteq Deadlines
        BY <4>1
      <4> HIDE DEF left
      <4>3. Deadlines \subseteq 0 .. MaxU64
        BY Bounds
      <4> QED
        BY <1>2, <4>2, <4>3
    <3>3. CASE rest = {}
      BY <1>2, <3>1, <3>3
    <3>4. CASE rest # {}
      <4>1. left # {}
        BY <3>4
      <4> HIDE DEF left
      <4>2. Min(left) \in left
        BY <3>2, <4>1, LeastOf
      <4> QED
        BY <3>1, <3>2, <3>4, <4>2
    <3> QED
      BY <3>3, <3>4
  <2> QED
    BY <1>1, <1>4, <1>7, <2>1 DEF Expire, DriverTyped, TwoWords
<1>8. CASE AlarmPassed \/ AlarmAhead \/ CheckPassed \/ CheckAhead
  BY <1>1, <1>4, <1>8
     DEF AlarmPassed, AlarmAhead, CheckPassed, CheckAhead, DriverTyped, TwoWords
<1>9. CASE Compute
  <2>1. Target(next) \in 0 .. MaxU64 /\ Counter \in Nat
    BY <1>1, <1>2, ClockTyped, TargetTyped
  <2>2. compare' \in 0 .. MaxU64
    BY <1>9, <2>1, AlarmTyped DEF Compute
  <2> QED
    BY <1>1, <1>3, <1>4, <1>9, <2>2 DEF Compute, DriverTyped, TwoWords, Is585
<1>10. CASE WriteHigh \/ WriteLow \/ Clear \/ Enable
  <2>1. /\ late' = late /\ epoch' = epoch
        /\ (next' = next /\ compare' = compare) \/ (next' = 0 /\ compare' = 0)
        /\ pc' \in {"low", "clear", "check", "thread"}
    BY <1>10 DEF WriteHigh, WriteLow, Clear, Enable
  <2> QED
    BY <1>1, <1>2, <2>1 DEF DriverTyped, TwoWords
<1>11. CASE Task
  BY <1>1, <1>4, <1>11, TaskSteps DEF DriverTyped, TwoWords
<1>12. CASE Stop \/ UNCHANGED vars
  BY <1>1, <1>12 DEF Stop, vars, driverVars, DriverTyped, TwoWords, Is585
<1> QED
  BY <1>5, <1>6, <1>7, <1>8, <1>9, <1>10, <1>11, <1>12 DEF Next, SetAlarm

\* An entry put in or taken out leaves the others.
LEMMA PutAndWithout ==
    ASSUME NEW f, NEW t, NEW at
    PROVE  /\ DOMAIN Put(f, t, at) = DOMAIN f \cup {t}
           /\ Put(f, t, at)[t] = at
           /\ \A u \in DOMAIN f \ {t} : Put(f, t, at)[u] = f[u]
           /\ DOMAIN Without(f, t) = DOMAIN f \ {t}
           /\ \A u \in DOMAIN f \ {t} : Without(f, t)[u] = f[u]
BY DEF Put, Without

\* A full queue makes room for the entry it takes.
LEMMA EnqueueTyped ==
    ASSUME QueueTyped, TimersTyped, NEW t \in Tasks, NEW at \in Deadlines, Enqueue(t, at)
    PROVE  /\ QueueTyped'
           /\ woken \subseteq woken' /\ woken' \subseteq woken \cup DOMAIN timer
<1>1. /\ DOMAIN queue \subseteq Tasks /\ IsFiniteSet(DOMAIN queue)
      /\ Cardinality(DOMAIN queue) \in Nat /\ Cardinality(DOMAIN queue) <= QueueSize
      /\ \A u \in DOMAIN queue : queue[u] \in Deadlines
      /\ QueueSize \in Nat \ {0}
  BY FS_CardinalityType, TimeAssumption DEF QueueTyped
<1>2. CASE /\ t \in DOMAIN queue \/ Cardinality(DOMAIN queue) < QueueSize
           /\ queue' = Put(queue, t, at)
           /\ UNCHANGED woken
  <2>1. /\ DOMAIN queue' = DOMAIN queue \cup {t}
        /\ \A u \in DOMAIN queue' : queue'[u] \in Deadlines
    BY <1>1, <1>2 DEF Put, Without
  <2>2. /\ IsFiniteSet(DOMAIN queue \cup {t})
        /\ Cardinality(DOMAIN queue \cup {t}) <= QueueSize
    <3>1. IsFiniteSet(DOMAIN queue \cup {t})
      BY <1>1, FS_AddElement
    <3>2. Cardinality(DOMAIN queue \cup {t})
          = IF t \in DOMAIN queue THEN Cardinality(DOMAIN queue)
            ELSE Cardinality(DOMAIN queue) + 1
      BY <1>1, FS_AddElement
    <3> QED
      BY <1>1, <1>2, <3>1, <3>2
  <2> QED
    BY <1>1, <1>2, <2>1, <2>2 DEF QueueTyped
<1>3. CASE /\ t \notin DOMAIN queue /\ Cardinality(DOMAIN queue) = QueueSize
           /\ \E u \in DOMAIN queue :
                /\ queue' = Put(Without(queue, u), t, at)
                /\ woken' = woken \cup ({u} \cap DOMAIN timer)
  <2>1. PICK u \in DOMAIN queue : /\ queue' = Put(Without(queue, u), t, at)
                                 /\ woken' = woken \cup ({u} \cap DOMAIN timer)
    BY <1>3
  <2>2. DOMAIN Without(queue, u) = DOMAIN queue \ {u}
    BY PutAndWithout
  <2>3. DOMAIN queue' = (DOMAIN queue \ {u}) \cup {t}
    BY <2>1, <2>2 DEF Put, Without
  <2>4. \A v \in DOMAIN queue' : queue'[v] \in Deadlines
    BY <1>1, <2>1, <2>2, <2>3 DEF Put, Without
  <2>5. /\ IsFiniteSet(DOMAIN queue \ {u})
        /\ Cardinality(DOMAIN queue \ {u}) = Cardinality(DOMAIN queue) - 1
    BY <1>1, FS_RemoveElement
  <2>6. /\ IsFiniteSet((DOMAIN queue \ {u}) \cup {t})
        /\ Cardinality((DOMAIN queue \ {u}) \cup {t}) = Cardinality(DOMAIN queue)
    <3> DEFINE S == DOMAIN queue \ {u}
    <3>1. t \notin S /\ IsFiniteSet(S) /\ Cardinality(S) = Cardinality(DOMAIN queue) - 1
      BY <1>3, <2>5
    <3> HIDE DEF S
    <3>2. IsFiniteSet(S \cup {t}) /\ Cardinality(S \cup {t}) = Cardinality(S) + 1
      BY <3>1, FS_AddElement
    <3>3. Cardinality(S \cup {t}) = Cardinality(DOMAIN queue)
      BY <1>1, <3>1, <3>2
    <3> QED
      BY <3>2, <3>3 DEF S
  <2> QED
    BY <1>1, <2>1, <2>3, <2>4, <2>6 DEF QueueTyped
<1> QED
  BY <1>2, <1>3 DEF Enqueue

\* Only Expire and ScheduleWake change the queue.
LEMMA StepQueue == TypeInv /\ [Next]_vars => QueueTyped'
<1> SUFFICES ASSUME TypeInv, [Next]_vars PROVE QueueTyped'
  OBVIOUS
<1>1. QueueTyped /\ TimersTyped /\ ReadIsOf
  BY DEF TypeInv
<1>2. CASE queue' = queue
  BY <1>1, <1>2 DEF QueueTyped
<1>3. CASE Expire
  <2>1. /\ DOMAIN queue' \subseteq DOMAIN queue
        /\ \A t \in DOMAIN queue' : queue'[t] = queue[t]
    BY <1>3 DEF Expire
  <2>2. /\ IsFiniteSet(DOMAIN queue)
        /\ Cardinality(DOMAIN queue) \in Nat /\ Cardinality(DOMAIN queue) <= QueueSize
        /\ QueueSize \in Nat
    BY <1>1, FS_CardinalityType, TimeAssumption DEF QueueTyped
  <2>3. /\ IsFiniteSet(DOMAIN queue')
        /\ Cardinality(DOMAIN queue') \in Nat
        /\ Cardinality(DOMAIN queue') <= Cardinality(DOMAIN queue)
    BY <2>1, <2>2, FS_Subset, FS_CardinalityType
  <2> QED
    BY <1>1, <2>1, <2>2, <2>3 DEF QueueTyped
<1>4. CASE ScheduleWake
  <2>1. rd.task \in DOMAIN timer
    BY <1>1, <1>4 DEF ScheduleWake, Deciding, ReadIsOf
  <2>2. rd.task \in Tasks /\ timer[rd.task] \in Deadlines
    BY <1>1, <2>1 DEF TimersTyped
  <2>3. queue' = queue \/ Enqueue(rd.task, timer[rd.task])
    BY <1>4 DEF ScheduleWake
  <2> QED
    BY <1>1, <1>2, <2>2, <2>3, EnqueueTyped
<1>5. CASE SysTick \/ SetAlarm \/ Idle \/ Stop \/ UNCHANGED vars
  BY <1>2, <1>5
     DEF SysTick, SetAlarm, AlarmPassed, AlarmAhead, Compute, WriteHigh, WriteLow,
         Clear, CheckPassed, CheckAhead, Enable, Idle, Stop, vars, driverVars
<1>6. CASE Task /\ ~ScheduleWake
  BY <1>2, <1>6
     DEF Task, StartTimer, CancelTimer, PollTimer, ReadHigh, ReadLow,
         ReadHighAgain, TimerEnds, driverVars
<1> QED
  BY <1>3, <1>4, <1>5, <1>6 DEF Next

\* Only tasks that await a Timer are woken for one and read the clock for it.
LEMMA StepTimers == TypeInv /\ [Next]_vars => TimersTyped' /\ ReadTyped' /\ ReadIsOf'
<1> SUFFICES ASSUME TypeInv, [Next]_vars PROVE TimersTyped' /\ ReadTyped' /\ ReadIsOf'
  OBVIOUS
<1>1. /\ QueueTyped /\ TimersTyped /\ ReadTyped /\ ReadIsOf
      /\ DOMAIN timer \subseteq Tasks /\ woken \subseteq DOMAIN timer
      /\ \A t \in DOMAIN timer : timer[t] \in Deadlines
  BY DEF TypeInv, TimersTyped
<1>2. /\ cnt \in Nat /\ cnt \div Period \in Nat /\ cnt % Period \in Nat
      /\ Observe(cnt % Period).high \in Nat /\ Observe(cnt % Period).lastLow \in Nat
  <2>1. cnt \in Nat /\ Period \in Nat \ {0}
    BY Bounds DEF TypeInv, HwTyped
  <2>2. Observe(cnt % Period) \in Readings
    BY ClockTyped
  <2> QED
    BY <2>1, <2>2 DEF Readings
<1>4. ASSUME NEW t \in Tasks, NEW at \in Deadlines, StartTimer(t, at)
      PROVE  TimersTyped' /\ ReadTyped' /\ ReadIsOf'
  <2>1. /\ timer' = Put(timer, t, at) /\ woken' = woken \cup {t} /\ rd' = rd
    BY <1>4 DEF StartTimer
  <2>2. DOMAIN timer' = DOMAIN timer \cup {t}
    BY <2>1, PutAndWithout
  <2>3. \A u \in DOMAIN timer' : timer'[u] \in Deadlines
    BY <1>1, <2>1, <2>2 DEF Put, Without
  <2> QED
    BY <1>1, <2>1, <2>2, <2>3 DEF TimersTyped, ReadTyped, ReadIsOf
<1>5. ASSUME NEW t \in Tasks, CancelTimer(t)
      PROVE  TimersTyped' /\ ReadTyped' /\ ReadIsOf'
  <2>1. timer' = Without(timer, t) /\ woken' = woken \ {t} /\ rd' = rd /\ rd = NoRead
    BY <1>5 DEF CancelTimer
  <2>2. /\ DOMAIN timer' = DOMAIN timer \ {t}
        /\ \A u \in DOMAIN timer' : timer'[u] \in Deadlines
    BY <1>1, <2>1 DEF Put, Without
  <2> QED
    BY <1>1, <2>1, <2>2 DEF TimersTyped, ReadTyped, ReadIsOf, NoRead
<1>6. CASE TimerEnds
  <2>1. timer' = Without(timer, rd.task) /\ woken' = woken \ {rd.task} /\ rd' = NoRead
    BY <1>6 DEF TimerEnds
  <2>2. /\ DOMAIN timer' = DOMAIN timer \ {rd.task}
        /\ \A u \in DOMAIN timer' : timer'[u] \in Deadlines
    BY <1>1, <2>1 DEF Put, Without
  <2> QED
    BY <1>1, <2>1, <2>2 DEF TimersTyped, ReadTyped, ReadIsOf, NoRead
<1>7. ASSUME NEW t \in Tasks, PollTimer(t)
      PROVE  TimersTyped' /\ ReadTyped' /\ ReadIsOf'
  <2>1. /\ t \in woken /\ woken' = woken \ {t} /\ timer' = timer
        /\ \/ rd' = [stage |-> "decide", task |-> t, high |-> Observe(cnt % Period).high,
                     lastLow |-> Observe(cnt % Period).lastLow, from |-> cnt]
           \/ rd' = [stage |-> "high", task |-> t, high |-> 0, lastLow |-> 0, from |-> cnt]
    BY <1>7 DEF PollTimer, NoRead
  <2> QED
    BY <1>1, <1>2, <2>1 DEF TimersTyped, ReadTyped, ReadIsOf
<1>8. CASE ReadHigh \/ ReadLow \/ ReadHighAgain
  <2>1. timer' = timer /\ woken' = woken /\ rd.stage \in {"high", "low", "again"}
    BY <1>8 DEF ReadHigh, ReadLow, ReadHighAgain
  <2>2. ReadTyped' /\ rd'.task = rd.task
    BY <1>1, <1>2, <1>8 DEF ReadHigh, ReadLow, ReadHighAgain, ReadTyped
  <2> QED
    BY <1>1, <2>1, <2>2 DEF TimersTyped, ReadIsOf
<1>9. CASE ScheduleWake
  <2>1. rd.task \in DOMAIN timer
    BY <1>1, <1>9 DEF ScheduleWake, Deciding, ReadIsOf
  <2>2. rd.task \in Tasks /\ timer[rd.task] \in Deadlines
    BY <1>1, <2>1
  <2>3. /\ timer' = timer /\ rd' = NoRead
        /\ woken' = woken \/ Enqueue(rd.task, timer[rd.task])
    BY <1>9 DEF ScheduleWake
  <2>4. woken' \subseteq DOMAIN timer
    BY <1>1, <2>2, <2>3, EnqueueTyped
  <2> QED
    BY <1>1, <2>3, <2>4 DEF TimersTyped, ReadTyped, ReadIsOf, NoRead
<1>10. CASE Expire
  BY <1>1, <1>10 DEF Expire, TimersTyped, ReadTyped, ReadIsOf
<1>11. CASE SysTick \/ SetAlarm \/ Idle \/ Stop \/ UNCHANGED vars
  BY <1>1, <1>11
     DEF SysTick, SetAlarm, AlarmPassed, AlarmAhead, Compute, WriteHigh, WriteLow,
         Clear, CheckPassed, CheckAhead, Enable, Idle, Stop, vars, taskVars,
         TimersTyped, ReadTyped, ReadIsOf
<1> QED
  BY <1>4, <1>5, <1>6, <1>7, <1>8, <1>9, <1>10, <1>11 DEF Next, Task

\* Every step keeps the types.
LEMMA StepTypes == TypeInv /\ [Next]_vars => TypeInv'
BY StepHw, StepDriver, StepQueue, StepTimers DEF TypeInv

\* Whatever the steps of the driver, the handler and the tasks: registers, epoch
\* words, deadlines and compare values fit what holds them, the queue never
\* outgrows its capacity, and only tasks that await a Timer are woken.
THEOREM TypesAreKept == Spec => []TypeOK
<1>1. TypeInv => TypeOK
  BY DEF TypeInv, HwTyped, DriverTyped, QueueTyped, TimersTyped, ReadTyped, TypeOK
<1> QED
  BY <1>1, InitTyped, StepTypes, PTL DEF Spec

-----------------------------------------------------------------------------
(* The read of the CH582 counter (read_counter).                            *)

\* The high word was read from the counter as it was or before.
HighIsPast == rd.stage = "low" => rd.high <= cnt \div Period

\* The low word is that of a count during the read, when the high word was
\* what has been read or more.
LowIsOf ==
    rd.stage = "again" =>
        \E c \in rd.from .. cnt : c % Period = rd.lastLow /\ rd.high <= c \div Period

\* What the loads made so far say of the counter.
ReadInv ==
    /\ chip = "ch582" /\ cnt \in Nat /\ ReadTyped
    /\ rd.from <= cnt
    /\ HighIsPast /\ LowIsOf
    /\ rd.stage = "decide" => Value(rd) \in rd.from .. cnt

\* Before the first poll nothing is being read.
LEMMA InitRead == ~Is585 /\ Init => ReadInv
BY TimeAssumption
   DEF Is585, Init, ReadInv, ReadTyped, HighIsPast, LowIsOf, NoRead

\* Outside of a read the driver, its handler and the passing of time leave what
\* has been read as it is.
LEMMA ReadAlone ==
    ASSUME [Next]_vars
    PROVE  \/ rd' = rd \/ rd' = NoRead
           \/ \E t \in Tasks : PollTimer(t)
           \/ ReadHigh \/ ReadLow \/ ReadHighAgain
<1>1. CASE SysTick \/ Expire \/ Idle \/ Stop \/ UNCHANGED vars
  BY <1>1 DEF SysTick, Expire, Idle, Stop, vars, taskVars
<1>2. CASE SetAlarm
  BY <1>2 DEF SetAlarm, AlarmPassed, AlarmAhead, Compute, WriteHigh, WriteLow,
              Clear, CheckPassed, CheckAhead, Enable, taskVars
<1>3. CASE Task
  BY <1>3 DEF Task, StartTimer, CancelTimer, TimerEnds, ScheduleWake
<1> QED
  BY <1>1, <1>2, <1>3 DEF Next

\* Each load of the read keeps what is known of the ones before it.
LEMMA StepRead == ReadInv /\ [Next]_vars => ReadInv'
<1> SUFFICES ASSUME ReadInv, [Next]_vars
             PROVE  ReadInv'
  OBVIOUS
<1>1. chip' = "ch582" /\ cnt' \in Nat /\ cnt <= cnt'
  BY TimeGoesOn DEF ReadInv
<1>2. /\ cnt \in Nat /\ ReadTyped /\ rd.from \in Nat /\ rd.from <= cnt
      /\ rd.high \in Nat /\ rd.lastLow \in Nat
  BY DEF ReadInv, ReadTyped
<1>3. cnt \div Period \in Nat /\ cnt % Period \in Nat
  BY <1>2, Words
<1>4. cnt \div Period <= cnt' \div Period /\ cnt' \div Period \in Nat
  BY <1>1, <1>2, Words
<1>5. CASE rd' = rd
  <2>1. ReadTyped' /\ rd'.from <= cnt'
    BY <1>1, <1>2, <1>5 DEF ReadTyped
  <2>2. HighIsPast'
    BY <1>2, <1>3, <1>4, <1>5 DEF HighIsPast, ReadInv
  <2>3. LowIsOf'
    BY <1>1, <1>2, <1>5 DEF LowIsOf, ReadInv
  <2>4. (rd.stage = "decide" => Value(rd) \in rd.from .. cnt)'
    BY <1>1, <1>2, <1>5 DEF Value, ReadInv
  <2> QED
    BY <1>1, <2>1, <2>2, <2>3, <2>4 DEF ReadInv
<1>6. CASE rd' = NoRead
  BY <1>1, <1>6 DEF ReadInv, ReadTyped, HighIsPast, LowIsOf, NoRead
<1>7. ASSUME NEW t \in Tasks, PollTimer(t)
      PROVE  ReadInv'
  <2>1. rd' = [stage |-> "high", task |-> t, high |-> 0, lastLow |-> 0, from |-> cnt]
    BY <1>7 DEF PollTimer, NoRead, Is585, ReadInv
  <2> QED
    BY <1>1, <1>2, <2>1 DEF ReadInv, ReadTyped, HighIsPast, LowIsOf
<1>8. CASE ReadHigh
  <2>1. rd' = [rd EXCEPT !.stage = "low", !.high = cnt \div Period]
    BY <1>8 DEF ReadHigh
  <2>2. ReadTyped' /\ rd'.from = rd.from /\ rd'.stage = "low" /\ rd'.high = cnt \div Period
    BY <1>2, <1>3, <2>1 DEF ReadTyped
  <2> QED
    BY <1>1, <1>2, <1>4, <2>2 DEF ReadInv, HighIsPast, LowIsOf
<1>9. CASE ReadLow
  <2>1. rd' = [rd EXCEPT !.stage = "again", !.lastLow = cnt % Period]
    BY <1>9 DEF ReadLow
  <2>2. /\ ReadTyped' /\ rd'.from = rd.from /\ rd'.stage = "again"
        /\ rd'.high = rd.high /\ rd'.lastLow = cnt % Period
    BY <1>2, <1>3, <2>1 DEF ReadTyped
  <2>3. rd.high <= cnt \div Period
    BY <1>9 DEF ReadLow, ReadInv, HighIsPast
  <2>4. cnt \in rd'.from .. cnt'
    BY <1>1, <1>2, <2>2
  <2>5. LowIsOf'
    BY <2>2, <2>3, <2>4 DEF LowIsOf
  <2> QED
    BY <1>1, <1>2, <2>2, <2>5 DEF ReadInv, HighIsPast
<1>10. CASE ReadHighAgain
  <2>1. PICK c \in rd.from .. cnt : c % Period = rd.lastLow /\ rd.high <= c \div Period
    BY <1>10 DEF ReadHighAgain, ReadInv, LowIsOf
  <2>2. c \in Nat /\ c <= cnt
    BY <1>2, <2>1
  <2>3. /\ c \div Period \in Nat /\ c \div Period <= cnt \div Period
        /\ (c \div Period) * Period + (c % Period) = c
    BY <1>2, <2>2, Words
  <2>4. CASE cnt \div Period = rd.high
    <3>1. rd' = [rd EXCEPT !.stage = "decide"]
      BY <1>10, <2>4 DEF ReadHighAgain
    <3>2. /\ ReadTyped' /\ rd'.from = rd.from /\ rd'.stage = "decide"
          /\ rd'.high = rd.high /\ rd'.lastLow = rd.lastLow
      BY <1>2, <3>1 DEF ReadTyped
    <3>3. c \div Period = rd.high
      BY <1>2, <1>3, <2>1, <2>3, <2>4
    <3>4. Value(rd') = c
      <4>1. Value(rd') = rd'.high * Period + rd'.lastLow
        BY DEF Value
      <4>2. rd'.high = c \div Period /\ rd'.lastLow = c % Period
        BY <2>1, <3>2, <3>3
      <4> QED
        BY <4>1, <4>2, <2>3, Zenon
    <3>5. c \in rd'.from .. cnt'
      BY <1>1, <1>2, <2>1, <3>2
    <3>6. (rd.stage = "decide" => Value(rd) \in rd.from .. cnt)'
      BY <3>4, <3>5 DEF Value
    <3> QED
      BY <1>1, <1>2, <3>2, <3>6 DEF ReadInv, HighIsPast, LowIsOf
  <2>5. CASE cnt \div Period # rd.high
    <3>1. rd' = [rd EXCEPT !.stage = "high"]
      BY <1>10, <2>5 DEF ReadHighAgain
    <3>2. ReadTyped' /\ rd'.from = rd.from /\ rd'.stage = "high"
      BY <1>2, <3>1 DEF ReadTyped
    <3> QED
      BY <1>1, <1>2, <3>2 DEF ReadInv, HighIsPast, LowIsOf
  <2> QED
    BY <2>4, <2>5
<1> QED
  BY <1>5, <1>6, <1>7, <1>8, <1>9, <1>10, ReadAlone

-----------------------------------------------------------------------------
(* The clock with any timing.                                               *)

\* The time of the last observation.
Seen == Value(epoch)

\* An observation comes after the one before it and is not ahead of the counter:
\* a low word that fell shows that the counter has rolled over, once at least.
LEMMA ObservedIsPast ==
    ASSUME NEW n \in 0 .. MaxU64, epoch \in Readings, Seen <= n
    PROVE  LET seen == Value(Observe(n % Period))
           IN  seen \in Nat /\ Seen <= seen /\ seen <= n /\ seen % Period = n % Period
<1> DEFINE a == n \div Period
           x == n % Period
           h == epoch.high
           l == epoch.lastLow
           k == IF x < l THEN h + 1 ELSE h
           v == Value(Observe(x))
<1>1. Period \in Nat \ {0, 1} /\ n \in Nat /\ MaxU64 \in Nat
  BY Bounds
<1>2. h \in 0 .. Period - 1 /\ l \in 0 .. Period - 1 /\ Seen = h * Period + l
  BY DEF Readings, Seen, Value
<1>3. a \in 0 .. Period - 1 /\ x \in 0 .. Period - 1 /\ a * Period + x = n
  BY <1>1, Words, WordsFit
<1>4. v = (IF x < l THEN (h + 1) % Period ELSE h) * Period + x
  BY DEF Value, Observe
<1> HIDE DEF a, x, h, l, v
<1>5. /\ a * Period \in Nat /\ h * Period \in Nat
      /\ (h + 1) * Period = h * Period + Period
      /\ (a + 1) * Period = a * Period + Period
  BY <1>1, <1>2, <1>3, SMTT(30)
<1>6. k \in Nat /\ k <= a
  <2>1. CASE x < l
    <3>1. h * Period < a * Period
      BY <1>1, <1>2, <1>3, <1>5, <2>1
    <3>2. h < a
      BY <1>1, <1>2, <1>3, <3>1, ProductOrder
    <3> QED
      BY <1>2, <1>3, <2>1, <3>2
  <2>2. CASE ~(x < l)
    <3>1. h * Period < (a + 1) * Period
      BY <1>1, <1>2, <1>3, <1>5
    <3>2. h < a + 1
      BY <1>1, <1>2, <1>3, <3>1, ProductOrder
    <3> QED
      BY <1>2, <1>3, <2>2, <3>2
  <2> QED
    BY <2>1, <2>2
<1>7. v = k * Period + x
  <2>1. CASE x < l
    <3>1. (h + 1) % Period = h + 1
      BY <1>1, <1>2, <1>3, <1>6, <2>1
    <3> QED
      BY <1>4, <2>1, <3>1
  <2>2. CASE ~(x < l)
    BY <1>4, <2>2
  <2> QED
    BY <2>1, <2>2
<1>8. h * Period + l <= k * Period + x
  BY <1>1, <1>2, <1>3, <1>5
<1> HIDE DEF k
<1>9. k * Period \in Nat /\ k * Period <= a * Period
  BY <1>1, <1>3, <1>6, ProductGrows
<1>10. v \in Nat /\ Seen <= v /\ v <= n
  BY <1>2, <1>3, <1>5, <1>7, <1>8, <1>9
<1>11. v % Period = x
  <2>1. v \div Period = k
    BY <1>3, <1>6, <1>7, WordsOf
  <2>2. (v \div Period) * Period + (v % Period) = v /\ v % Period \in Nat
    BY <1>10, Words
  <2> QED
    BY <1>3, <1>7, <1>9, <2>1, <2>2
<1> QED
  BY <1>10, <1>11 DEF v, x

\* The epoch changes by an observation only.
LEMMA EpochObserves == [Next]_vars => epoch' = epoch \/ ReadCounter
<1>1. CASE SysTick \/ Expire \/ Idle \/ Stop \/ UNCHANGED vars
  BY <1>1 DEF SysTick, Expire, Idle, Stop, vars, driverVars
<1>2. CASE SetAlarm
  BY <1>2 DEF SetAlarm, AlarmPassed, AlarmAhead, Compute, WriteHigh, WriteLow,
              Clear, CheckPassed, CheckAhead, Enable
<1>3. CASE Task
  BY <1>3, TaskSteps
<1> QED
  BY <1>1, <1>2, <1>3 DEF Next

\* A CH585 has observed no more than has been counted.
EpochIsPast ==
    /\ Seen <= cnt
    /\ rd.stage \in {"idle", "decide"}
    /\ rd.stage = "decide" => Value(rd) <= cnt

\* What a CH585 that reads the clock is told.
LEMMA CounterIsPast ==
    ASSUME TypeInv, Is585, Seen <= cnt
    PROVE  /\ Value(Observe(cnt % Period)) \in Nat
           /\ Seen <= Value(Observe(cnt % Period))
           /\ Value(Observe(cnt % Period)) <= cnt
           /\ Counter <= cnt /\ Counter % Period = cnt % Period
           /\ ReadCounter => Seen' = Value(Observe(cnt % Period))
<1>1. cnt \in 0 .. MaxU64 /\ epoch \in Readings
  BY Bounds DEF TypeInv, HwTyped, DriverTyped
<1> QED
  BY <1>1, ObservedIsPast DEF Counter, ReadCounter, Seen, Value

\* Every step keeps it so, and the observations in their order.
LEMMA StepPast ==
    ASSUME TypeInv, Is585, EpochIsPast, [Next]_vars
    PROVE  EpochIsPast' /\ Seen <= Seen'
<1>1. /\ cnt \in Nat /\ cnt' \in Nat /\ cnt <= cnt' /\ ReadTyped
  BY TimeGoesOn, Bounds DEF TypeInv, HwTyped
<1>2. Seen \in Nat
  <2>1. epoch.high \in 0 .. Period - 1 /\ epoch.lastLow \in 0 .. Period - 1
    BY DEF TypeInv, DriverTyped, Readings
  <2>2. epoch.high * Period + epoch.lastLow \in 0 .. MaxU64
    BY <2>1, WordsFit
  <2>3. Seen = epoch.high * Period + epoch.lastLow
    BY DEF Seen, Value
  <2> QED
    BY <2>2, <2>3, Bounds
<1>3. /\ Value(Observe(cnt % Period)) \in Nat
      /\ Seen <= Value(Observe(cnt % Period)) /\ Value(Observe(cnt % Period)) <= cnt
      /\ ReadCounter => Seen' = Value(Observe(cnt % Period))
  BY CounterIsPast DEF EpochIsPast
<1>4. Seen' \in Nat /\ Seen <= Seen' /\ Seen' <= cnt
  <2>1. CASE epoch' = epoch
    BY <1>2, <2>1 DEF Seen, Value, EpochIsPast
  <2>2. CASE ReadCounter
    BY <1>3, <2>2
  <2> QED
    BY <2>1, <2>2, EpochObserves
<1>5. /\ rd'.stage \in {"idle", "decide"}
      /\ rd'.stage = "decide" => Value(rd') \in Nat /\ Value(rd') <= cnt
  <2>1. CASE rd' = rd
    <3>1. rd.high \in Nat /\ rd.lastLow \in Nat /\ Period \in Nat
      BY <1>1, Bounds DEF ReadTyped
    <3>2. Value(rd) \in Nat
      BY <3>1 DEF Value
    <3> QED
      BY <2>1, <3>2 DEF EpochIsPast
  <2>2. CASE rd' = NoRead
    BY <2>2 DEF NoRead
  <2>3. ASSUME NEW t \in Tasks, PollTimer(t)
        PROVE  rd'.stage = "decide" /\ Value(rd') = Value(Observe(cnt % Period))
    BY <2>3 DEF PollTimer, Value
  <2>4. ~(ReadHigh \/ ReadLow \/ ReadHighAgain)
    BY DEF EpochIsPast, ReadHigh, ReadLow, ReadHighAgain
  <2> QED
    BY <1>3, <2>1, <2>2, <2>3, <2>4, ReadAlone
<1>6. (rd.stage = "decide" => Value(rd) <= cnt)'
  <2>1. Value(rd)' = Value(rd')
    BY DEF Value
  <2> QED
    BY <1>1, <1>5, <2>1
<1> QED
  BY <1>1, <1>4, <1>5, <1>6 DEF EpochIsPast

\* What either chip knows of the time, however long its steps and its handler take.
PastInv == TypeInv /\ (Is585 => EpochIsPast) /\ (~Is585 => ReadInv)

\* It holds when the program first reads the clock,
LEMMA InitPast == Init => PastInv
<1> SUFFICES ASSUME Init PROVE PastInv
  OBVIOUS
<1>1. ASSUME Is585 PROVE EpochIsPast
  <2>1. epoch = [lastLow |-> FirstRead, high |-> 0] /\ cnt = FirstRead /\ rd = NoRead
    BY <1>1 DEF Init
  <2> QED
    BY <2>1, Bounds DEF EpochIsPast, Seen, Value, NoRead
<1> QED
  BY <1>1, InitTyped, InitRead DEF PastInv

\* and ever after.
LEMMA StepPastInv == PastInv /\ [Next]_vars => PastInv'
<1> SUFFICES ASSUME PastInv, [Next]_vars PROVE PastInv'
  OBVIOUS
<1>1. TypeInv' /\ chip' = chip
  BY StepTypes, TimeGoesOn, Bounds DEF PastInv, TypeInv, HwTyped
<1>2. Is585 => EpochIsPast'
  BY StepPast DEF PastInv
<1>3. ~Is585 => ReadInv'
  BY StepRead DEF PastInv
<1> QED
  BY <1>1, <1>2, <1>3 DEF PastInv, Is585

\* What has been read of the clock is not ahead of the counter.
LEMMA PastIsNotAhead == PastInv => NowNeverAhead
<1> SUFFICES ASSUME PastInv PROVE NowNeverAhead
  OBVIOUS
<1>1. cnt \in Nat
  BY Bounds DEF PastInv, TypeInv, HwTyped
<1>2. CASE Is585
  BY <1>2, CounterIsPast DEF PastInv, EpochIsPast, NowNeverAhead
<1>3. CASE ~Is585
  BY <1>1, <1>3 DEF PastInv, ReadInv, ReadTyped, NowNeverAhead, Counter
<1> QED
  BY <1>2, <1>3

\* On both chips, however long a step or an interrupt holds the reader or the
\* handler off and wherever a rollover falls: nothing read of the clock is ahead
\* of the counter, and CH585 errs by whole periods only, when rollovers went by
\* unobserved.
THEOREM ClockIsNeverAhead == Spec => []NowNeverAhead
BY InitPast, StepPastInv, PastIsNotAhead, PTL DEF Spec

\* The epoch of CH585 never goes back, nor wraps, so that of two reads the later
\* does not return the lesser.
THEOREM EpochNeverGoesBack == Spec => [][Is585 => Seen <= Seen']_vars
<1>1. PastInv /\ [Next]_vars => [Is585 => Seen <= Seen']_vars
  BY StepPast DEF PastInv
<1> QED
  BY <1>1, InitPast, StepPastInv, PTL DEF Spec

\* A deadline the clock has reached is one the counter has.
LEMMA EndsAreReached == PastInv => NoTimerEarly
<1> SUFFICES ASSUME PastInv, rd.stage = "decide", timer[rd.task] <= ReadTicks
             PROVE  TicksToCounterCeil(timer[rd.task]) <= cnt
  BY DEF NoTimerEarly
<1> DEFINE at == timer[rd.task]
<1>1. /\ cnt \in 0 .. MaxU64 - 1 /\ MaxU64 \in Nat /\ chip \in Chips
      /\ at \in 0 .. MaxU64
  <2>1. rd.task \in DOMAIN timer
    BY DEF PastInv, TypeInv, ReadIsOf
  <2>2. at \in Deadlines
    BY <2>1 DEF PastInv, TypeInv, TimersTyped
  <2> HIDE DEF at
  <2> QED
    BY <2>2, Bounds DEF PastInv, TypeInv, HwTyped
<1>2. Value(rd) \in Nat
  <2>1. rd.high \in Nat /\ rd.lastLow \in Nat /\ Period \in Nat
    BY Bounds DEF PastInv, TypeInv, ReadTyped
  <2> QED
    BY <2>1 DEF Value
<1>3. Value(rd) <= cnt
  BY PastIsNotAhead DEF NowNeverAhead
<1> HIDE DEF at
<1>4. TicksToCounterCeil(at) <= Value(rd)
  <2>1. at <= CounterToTicks(Value(rd))
    BY DEF at, ReadTicks
  <2> QED
    BY <1>1, <1>2, <1>3, <2>1, DeadlineHasItsCount
<1>5. TicksToCounterCeil(at) \in Nat
  <2>1. FirstCount(at) \in Nat
    BY <1>1, CeilCounts
  <2> QED
    BY <1>1, <2>1 DEF TicksToCounterCeil, FirstCount, Saturate
<1> QED
  BY <1>1, <1>2, <1>3, <1>4, <1>5 DEF at

\* On both chips and with any timing, a Timer ends on the count its deadline falls
\* on or after it: neither the rounding of the conversions, nor a carry or a
\* rollover during a read, nor a missed epoch ends one early.
THEOREM TimersAreNeverEarly == Spec => []NoTimerEarly
BY InitPast, StepPastInv, EndsAreReached, PTL DEF Spec

-----------------------------------------------------------------------------
(* The epoch of CH585.                                                      *)

\* The time the driver needs on CH585.  A deadline almost a period ahead is
\* armed directly, and matches as little as three steps before the low word that
\* the check of set_alarm has read comes again; the handler must have read the
\* counter by then, or the epoch misses a rollover.  Nothing in the code holds
\* other critical sections to that.
InTime ==
    /\ ~RolloverInArm
    /\ 2 * MaxStep + MaxLatency <= 3 * MinStep
    /\ 2 * MaxStep + MaxLatency <= FirstRead
    /\ 3 * MaxStep + MaxLatency < Period

\* The last count on which a match leaves the handler time to observe it.
Limit == Seen + Period - (2 * MaxStep + MaxLatency)

\* A match is ahead, in time for the epoch.
AlarmSet == \E a \in cnt + 1 .. Limit : a % Period = cmp

\* Between the driver's sections STIE is set; a match is ahead, or its handler
\* pends and is not held off too long.
Waiting ==
    pc = "thread" =>
        /\ stie
        /\ IF pend THEN cnt < Limit + MaxStep + late ELSE ~flag /\ AlarmSet

\* How long ago the counter was observed in the critical section.
Recent ==
    /\ pc = "expire" => cnt < Seen + Period
    /\ pc \in {"off", "compute"} => cnt <= Seen + MaxStep
    /\ pc = "low" => cnt \in Seen + MinStep .. Seen + MaxStep
    /\ pc = "clear" => cnt \in Seen + 2 * MinStep .. Seen + 2 * MaxStep
    /\ pc = "check" => cnt \in Seen + 3 * MinStep .. Seen + 3 * MaxStep
    /\ pc = "enable" => cnt <= Seen + MaxStep

\* The compare value was chosen for the counter last observed, and its match is
\* not lost: it is ahead, latched, or that of a deadline the check sees pass.
Arming ==
    /\ pc \in {"low", "clear", "check"} => compare = AlarmCounter(Target(next), Seen)
    /\ pc \in {"low", "clear"} => cnt \div Period = Seen \div Period
    /\ pc \in {"clear", "check"} => cmp = compare % Period
    /\ pc = "check" /\ Seen < Target(next) =>
           compare = Target(next) \/ cnt < compare \/ flag
    /\ pc = "enable" => flag \/ AlarmSet

\* Only a pending handler is held off.
LateIsPending == late # 0 => pc = "thread" /\ pend

\* A CH585 reads the clock in one critical section.
ReadIsNow ==
    /\ rd.stage \in {"idle", "decide"}
    /\ rd.stage = "decide" => Value(rd) \in rd.from .. cnt

\* The epoch is not behind by a period, and a match that will keep it so is ahead.
ClockInv ==
    /\ chip = "ch585" /\ Seen <= cnt
    /\ Waiting /\ Recent /\ Arming /\ LateIsPending /\ ReadIsNow

\* A counter observed again before it has come round is known exactly.
LEMMA ObservedIsTrue ==
    ASSUME NEW n \in 0 .. MaxU64, epoch \in Readings, Seen <= n, n < Seen + Period
    PROVE  Value(Observe(n % Period)) = n
<1> DEFINE a == n \div Period
           x == n % Period
           h == epoch.high
           l == epoch.lastLow
<1>1. Period \in Nat \ {0, 1} /\ n \in Nat /\ MaxU64 \in Nat
  BY Bounds
<1>2. h \in 0 .. Period - 1 /\ l \in 0 .. Period - 1 /\ Seen = h * Period + l
  BY DEF Readings, Seen, Value
<1>3. a \in 0 .. Period - 1 /\ x \in 0 .. Period - 1 /\ a * Period + x = n
  BY <1>1, Words, WordsFit
<1>4. Value(Observe(x)) = (IF x < l THEN (h + 1) % Period ELSE h) * Period + x
  BY DEF Value, Observe
<1> SUFFICES Value(Observe(x)) = n
  OBVIOUS
<1> HIDE DEF a, x, h, l
<1>5. /\ a * Period \in Nat /\ h * Period \in Nat
      /\ (h + 1) * Period = h * Period + Period
      /\ (h + 2) * Period = h * Period + 2 * Period
      /\ (a + 1) * Period = a * Period + Period
  BY <1>1, <1>2, <1>3, SMTT(30)
<1>6. h * Period < (a + 1) * Period /\ a * Period < (h + 2) * Period
  BY <1>1, <1>2, <1>3, <1>5
<1>7. h < a + 1
  BY <1>1, <1>2, <1>3, <1>6, ProductOrder
<1>8. a < h + 2
  BY <1>1, <1>2, <1>3, <1>6, ProductOrder
<1>9. CASE a = h
  <2>1. ~ (x < l)
    BY <1>1, <1>2, <1>3, <1>5, <1>9
  <2>2. Value(Observe(x)) = h * Period + x
    BY <1>4, <2>1
  <2> QED
    BY <1>3, <1>9, <2>2
<1>10. CASE a = h + 1
  <2>1. x < l
    BY <1>1, <1>2, <1>3, <1>5, <1>10
  <2>2. (h + 1) % Period = h + 1
    BY <1>1, <1>2, <1>3, <1>10
  <2>3. Value(Observe(x)) = (h + 1) * Period + x
    BY <1>4, <2>1, <2>2
  <2> QED
    BY <1>3, <1>10, <2>3
<1>11. a = h \/ a = h + 1
  BY <1>2, <1>3, <1>7, <1>8
<1> QED
  BY <1>9, <1>10, <1>11

\* The constants, as the driver's steps need them.
LEMMA Times ==
    ASSUME InTime
    PROVE  /\ MinStep \in Nat \ {0} /\ MaxStep \in Nat /\ MaxLatency \in Nat
           /\ MinStep <= MaxStep /\ Period \in Nat /\ FirstRead \in Nat /\ Horizon \in Nat
           /\ 2 * MaxStep + MaxLatency <= 3 * MinStep
           /\ 3 * MaxStep + MaxLatency < Period
           /\ 2 * MaxStep + MaxLatency <= FirstRead
BY Bounds, TimeAssumption DEF InTime

\* Between any two steps the counter has not come round since it was observed,
\* so that whoever reads it is told the truth.
LEMMA ClockIsTrue ==
    ASSUME InTime, TypeInv, ClockInv
    PROVE  /\ Seen \in Nat /\ cnt \in 0 .. MaxU64 - 1 /\ Seen <= cnt /\ cnt < Seen + Period
           /\ Value(Observe(cnt % Period)) = cnt
           /\ Counter = cnt
           /\ ReadCounter => Seen' = cnt
<1>1. /\ Period \in Nat \ {0, 1} /\ MaxU64 \in Nat /\ Horizon \in 0 .. MaxU64 - 1
      /\ cnt \in 0 .. MaxU64 - 1 /\ epoch \in Readings /\ Seen <= cnt
  BY Bounds DEF ClockInv, TypeInv, HwTyped, DriverTyped
<1>2. Seen \in Nat
  <2>1. epoch.high \in 0 .. Period - 1 /\ epoch.lastLow \in 0 .. Period - 1
    BY <1>1 DEF Readings
  <2> QED
    <3>1. epoch.high * Period + epoch.lastLow \in 0 .. MaxU64
      BY <2>1, WordsFit
    <3>2. Seen = epoch.high * Period + epoch.lastLow
      BY DEF Seen, Value
    <3> QED
      BY <1>1, <3>1, <3>2
<1>3. late \in 0 .. MaxLatency
  BY DEF TypeInv, DriverTyped
<1>4. cnt < Seen + Period
  <2>1. CASE pc = "thread"
    <3>1. CASE pend
      BY <1>1, <1>2, <1>3, <2>1, <3>1, Times DEF ClockInv, Waiting, Limit
    <3>2. CASE ~pend
      <4>1. PICK a \in cnt + 1 .. Limit : a % Period = cmp
        BY <2>1, <3>2 DEF ClockInv, Waiting, AlarmSet
      <4> QED
        BY <1>1, <1>2, <4>1, Times DEF Limit
    <3> QED
      BY <3>1, <3>2
  <2>2. CASE pc # "thread"
    <3>1. pc \in {"expire", "off", "compute", "low", "clear", "check", "enable"}
      BY <2>2 DEF TypeInv, DriverTyped, TwoWords, ClockInv, Is585
    <3> QED
      BY <1>1, <1>2, <3>1, Times DEF ClockInv, Recent
  <2> QED
    BY <2>1, <2>2
<1>5. Value(Observe(cnt % Period)) = cnt
  BY <1>1, <1>4, ObservedIsTrue
<1>6. Counter = cnt /\ (ReadCounter => Seen' = cnt)
  BY <1>5 DEF Counter, ReadCounter, Is585, ClockInv, Seen
<1> QED
  BY <1>1, <1>2, <1>4, <1>5, <1>6

\* init() has enabled the match of the first rollover.
LEMMA InitClock == InTime /\ Is585 /\ Init => ClockInv
<1> SUFFICES ASSUME InTime, Is585, Init PROVE ClockInv
  OBVIOUS
<1>1. /\ Period \in Nat \ {0, 1} /\ FirstRead \in 0 .. Period - 1
      /\ 2 * MaxStep + MaxLatency <= FirstRead /\ MaxStep \in Nat /\ MaxLatency \in Nat
  BY Bounds, Times
<1>2. /\ cnt = FirstRead /\ cmp = 0 /\ ~flag /\ stie /\ ~pend /\ late = 0
      /\ epoch = [lastLow |-> FirstRead, high |-> 0] /\ rd = NoRead /\ pc = "thread"
  BY DEF Init, Is585
<1>3. Seen = FirstRead
  BY <1>1, <1>2 DEF Seen, Value
<1>4. Period \in cnt + 1 .. Limit /\ Period % Period = cmp
  BY <1>1, <1>2, <1>3 DEF Limit
<1>5. AlarmSet
  BY <1>4 DEF AlarmSet
<1> QED
  BY <1>1, <1>2, <1>3, <1>5
     DEF ClockInv, Is585, Waiting, Recent, Arming, LateIsPending, ReadIsNow, NoRead

\* What d counts do to the registers: a match among them is latched.
LEMMA Passing ==
    ASSUME TypeInv, NEW d \in Nat, NEW c, NEW f \in BOOLEAN, NEW p \in BOOLEAN,
           NEW s \in BOOLEAN, Elapse(d, c, f, p, s)
    PROVE  /\ cnt \in Nat /\ cnt' = cnt + d /\ cmp' = c /\ stie' = s
           /\ f => flag'
           /\ p => pend'
           /\ s /\ flag' => pend'
           /\ pend' => p \/ (s /\ flag')
           /\ \A a \in cnt + 1 .. cnt' : Matches(a, c) => flag'
           /\ Is585 => \A a \in cnt + 1 .. cnt' : a % Period = c => flag'
<1>1. cnt \in Nat
  BY Bounds DEF TypeInv, HwTyped
<1> QED
  BY <1>1 DEF Elapse, Matches

\* The same of the code, whose steps take MinStep counts at least.
LEMMA CodeRuns ==
    ASSUME TypeInv, NEW c, NEW f \in BOOLEAN, NEW p \in BOOLEAN,
           NEW s \in BOOLEAN, Code(c, f, p, s)
    PROVE  /\ cnt \in Nat /\ cnt' \in cnt + MinStep .. cnt + MaxStep
           /\ cmp' = c /\ stie' = s
           /\ f => flag'
           /\ p => pend'
           /\ s /\ flag' => pend'
           /\ pend' => p \/ (s /\ flag')
           /\ \A a \in cnt + 1 .. cnt' : Matches(a, c) => flag'
           /\ Is585 => \A a \in cnt + 1 .. cnt' : a % Period = c => flag'
           /\ chip' = chip
<1>1. PICK d \in MinStep .. MaxStep : Elapse(d, c, f, p, s) /\ chip' = chip
  BY DEF Code
<1>2. d \in Nat /\ MinStep \in Nat /\ MaxStep \in Nat
  BY TimeAssumption
<1>3. cnt \in Nat /\ cnt' = cnt + d
  BY <1>1, <1>2, Passing
<1>4. cnt' \in cnt + MinStep .. cnt + MaxStep
  BY <1>1, <1>2, <1>3
<1> QED
  BY <1>1, <1>2, <1>3, <1>4, Passing

\* A match that is ahead when a step outside of the driver begins is ahead
\* when it ends, or has raised the interrupt; either way the epoch is in time.
LEMMA WaitGoesOn ==
    ASSUME InTime, TypeInv, ClockInv, pc = "thread", ~pend,
           NEW d \in Nat, d <= MaxStep, Elapse(d, cmp, flag, pend, stie),
           chip' = chip, Seen' \in Nat, Seen <= Seen', Seen' <= cnt,
           late' \in Nat, pc' \in {"thread", "expire"}
    PROVE  Waiting' /\ Recent' /\ Arming' /\ Seen' <= cnt'
<1>1. /\ stie /\ ~flag /\ Is585 /\ flag \in BOOLEAN /\ pend \in BOOLEAN
      /\ MaxStep \in Nat /\ MaxLatency \in Nat /\ Period \in Nat /\ Seen \in Nat
  BY Times, ClockIsTrue DEF ClockInv, Waiting, Is585, TypeInv, HwTyped
<1>2. PICK a \in cnt + 1 .. Limit : a % Period = cmp
  BY DEF ClockInv, Waiting, AlarmSet
<1>3. /\ cnt \in Nat /\ cnt' = cnt + d /\ cmp' = cmp /\ stie' = stie
      /\ stie /\ flag' => pend'
      /\ a \in cnt + 1 .. cnt' => flag'
  BY <1>1, <1>2, Passing
<1> DEFINE n == cnt
           m == cnt'
           l == Limit
           k == Limit'
           x == Seen
           y == Seen'
           t == late'
<1>4. /\ t \in Nat /\ y <= n
      /\ l = x + Period - (2 * MaxStep + MaxLatency)
      /\ k = y + Period - (2 * MaxStep + MaxLatency)
      /\ x \in Nat /\ y \in Nat /\ x <= y /\ n \in Nat /\ m = n + d
      /\ a \in n + 1 .. l
  BY <1>1, <1>2, <1>3 DEF Limit
<1>5. SUFFICES /\ m < k + MaxStep + t /\ m < y + Period /\ y <= m
               /\ a <= m \/ a \in m + 1 .. k
  <2>1. a % Period = cmp' /\ stie'
    BY <1>1, <1>2, <1>3
  <2>2. a <= m => flag' /\ pend'
    <3> SUFFICES ASSUME a <= m PROVE a \in n + 1 .. m
      BY <1>1, <1>3
    <3> HIDE DEF n, m, l, k, x, y
    <3> QED
      BY <1>1, <1>4
  <2>3. a \in m + 1 .. k => AlarmSet'
    BY <2>1, Zenon DEF AlarmSet
  <2>4. stie' /\ (pend' \/ (~flag' /\ AlarmSet'))
    BY <1>1, <1>3, <1>5, <2>1, <2>2, <2>3
  <2>5. Waiting'
    BY <1>5, <2>4, Zenon DEF Waiting
  <2>6. Recent'
    BY <1>5, Zenon DEF Recent
  <2>7. Arming'
    BY DEF Arming
  <2> QED
    BY <1>5, <2>5, <2>6, <2>7
<1> HIDE DEF n, m, l, k, x, y, t
<1> QED
  BY <1>1, <1>4, Times

\* What has been read stays the time of a moment since the read began.
LEMMA ReadKept ==
    ASSUME ClockInv, rd' = rd, cnt \in Nat, cnt' \in Nat, cnt <= cnt', ReadTyped
    PROVE  ReadIsNow'
<1>1. rd.from \in Nat
  BY DEF ReadTyped
<1> QED
  BY <1>1 DEF ClockInv, ReadIsNow, Value

\* The handler comes in time, and what the driver does outside of the arming
\* follows a read at once.
LEMMA StepObserve ==
    ASSUME InTime, TypeInv, ClockInv,
           SysTick \/ Expire \/ AlarmPassed \/ AlarmAhead \/ CheckPassed
    PROVE  ClockInv'
<1>1. /\ MinStep \in Nat /\ MaxStep \in Nat /\ MaxLatency \in Nat /\ Period \in Nat
      /\ 3 * MaxStep + MaxLatency < Period
      /\ Seen \in Nat /\ cnt \in Nat /\ Seen <= cnt
      /\ ReadCounter => Seen' = cnt
      /\ late \in 0 .. MaxLatency /\ ReadTyped
      /\ flag \in BOOLEAN /\ pend \in BOOLEAN /\ stie \in BOOLEAN /\ Is585
  BY Times, ClockIsTrue DEF TypeInv, HwTyped, DriverTyped, ClockInv, Is585
<1>2. /\ rd' = rd /\ late' = 0 /\ chip' = chip /\ cnt' \in cnt + MinStep .. cnt + MaxStep
  <2>1. CASE SysTick
    BY <1>1, <2>1, CodeRuns DEF SysTick, taskVars
  <2>2. late = 0 => late' = 0
    BY DEF SysTick, Expire, AlarmPassed, AlarmAhead, CheckPassed
  <2>3. CASE Expire \/ CheckPassed
    BY <1>1, <2>2, <2>3, CodeRuns
       DEF Expire, CheckPassed, taskVars, OtherCode, ClockInv, LateIsPending
  <2>4. CASE AlarmPassed \/ AlarmAhead
    BY <1>1, <2>2, <2>4, CodeRuns
       DEF AlarmPassed, AlarmAhead, taskVars, ClockInv, LateIsPending
  <2> QED
    BY <2>1, <2>3, <2>4
<1> DEFINE m == cnt'
           y == Seen'
<1>3. m \in cnt + MinStep .. cnt + MaxStep
  BY <1>2
<1>4. ReadIsNow' /\ LateIsPending'
  <2>1. cnt <= m /\ m \in Nat
    <3> HIDE DEF m
    <3> QED
      BY <1>1, <1>3
  <2> QED
    BY <1>1, <1>2, <2>1, ReadKept DEF LateIsPending
<1>5. CASE SysTick
  <2>1. pc' = "expire" /\ y = Seen
    BY <1>5 DEF SysTick, Seen, Value
  <2>2. cnt < Limit + MaxStep + late
    BY <1>5 DEF SysTick, ClockInv, Waiting
  <2>3. m < y + Period /\ y <= m
    <3> HIDE DEF m, y
    <3> QED
      BY <1>1, <1>3, <2>1, <2>2 DEF Limit
  <2>4. Recent'
    BY <2>1, <2>3, Zenon DEF Recent
  <2> QED
    BY <1>2, <1>4, <2>1, <2>3, <2>4 DEF ClockInv, Waiting, Arming
<1>6. CASE Expire \/ AlarmPassed \/ AlarmAhead \/ CheckPassed
  <2>1. y = cnt /\ pc' \in {"expire", "off", "compute"}
    BY <1>1, <1>6 DEF Expire, AlarmPassed, AlarmAhead, CheckPassed
  <2>2. m < y + Period /\ m <= y + MaxStep /\ y <= m
    <3> HIDE DEF m, y
    <3> QED
      BY <1>1, <1>3, <2>1
  <2>3. Recent'
    BY <2>1, <2>2, Zenon DEF Recent
  <2> QED
    BY <1>2, <1>4, <2>1, <2>2, <2>3 DEF ClockInv, Waiting, Arming
<1> QED
  BY <1>5, <1>6

\* What holds in every step of the arming.
LEMMA ArmFacts ==
    ASSUME InTime, TypeInv, ClockInv,
           Compute \/ WriteLow \/ Clear \/ CheckAhead \/ Enable
    PROVE  /\ MinStep \in Nat /\ MaxStep \in Nat /\ MaxLatency \in Nat /\ Period \in Nat
           /\ Seen \in Nat /\ cnt \in 0 .. MaxU64 - 1 /\ Seen <= cnt
           /\ rd' = rd /\ late = 0 /\ late' = 0 /\ chip' = chip /\ Is585
           /\ cnt' \in cnt + MinStep .. cnt + MaxStep
           /\ ReadIsNow' /\ LateIsPending'
           /\ next \in 0 .. MaxU64 /\ Target(next) \in 0 .. MaxU64
           /\ flag \in BOOLEAN /\ pend \in BOOLEAN /\ stie \in BOOLEAN
<1>1. /\ MinStep \in Nat /\ MaxStep \in Nat /\ MaxLatency \in Nat /\ Period \in Nat
      /\ Seen \in Nat /\ cnt \in 0 .. MaxU64 - 1 /\ Seen <= cnt
      /\ ReadTyped /\ next \in 0 .. MaxU64
      /\ flag \in BOOLEAN /\ pend \in BOOLEAN /\ stie \in BOOLEAN /\ Is585
      /\ MaxU64 \in Nat
  BY Bounds, Times, ClockIsTrue DEF TypeInv, HwTyped, DriverTyped, ClockInv, Is585
<1>2. Target(next) \in 0 .. MaxU64
  BY <1>1, TargetTyped
<1>3. rd' = rd /\ late' = late /\ late = 0
  BY DEF Compute, WriteLow, Clear, CheckAhead, Enable, taskVars, ClockInv, LateIsPending
<1>4. chip' = chip /\ cnt' \in cnt + MinStep .. cnt + MaxStep
  BY <1>1, CodeRuns DEF Compute, WriteLow, Clear, CheckAhead, Enable, OtherCode
<1>5. ReadIsNow' /\ LateIsPending'
  <2> DEFINE m == cnt'
  <2>1. m \in cnt + MinStep .. cnt + MaxStep
    BY <1>4
  <2>2. cnt <= m /\ m \in Nat
    <3> HIDE DEF m
    <3> QED
      BY <1>1, <2>1
  <2> QED
    BY <1>1, <1>3, <2>2, ReadKept DEF LateIsPending
<1> QED
  BY <1>1, <1>2, <1>3, <1>4, <1>5

\* The three steps that follow the read keep to the epoch it found.
LEMMA StepArm ==
    ASSUME InTime, TypeInv, ClockInv, Compute \/ WriteLow \/ Clear
    PROVE  ClockInv'
<1> DEFINE m == cnt'
           y == Seen'
<1>1. m \in cnt + MinStep .. cnt + MaxStep
  BY ArmFacts
<1>2. Target(next)' = Target(next)
  BY ArmFacts DEF Compute, WriteLow, Clear, Target, TicksToCounterCeil
<1>3. CASE Compute
  <2>1. /\ y = cnt /\ pc' = "low" /\ compare' = AlarmCounter(Target(next), cnt)
        /\ cnt' \div Period = cnt \div Period
    BY <1>3, ArmFacts, ClockIsTrue DEF Compute, NoRollover, InTime
  <2>2. m \in y + MinStep .. y + MaxStep /\ y <= m
    <3> HIDE DEF m, y
    <3> QED
      BY <1>1, <2>1, ArmFacts
  <2>3. Recent'
    BY <2>1, <2>2, Zenon DEF Recent
  <2>4. Arming'
    BY <1>2, <2>1 DEF Arming
  <2> QED
    BY <2>1, <2>2, <2>3, <2>4, ArmFacts DEF ClockInv, Waiting, Is585
<1>4. CASE WriteLow
  <2>1. /\ y = Seen /\ pc' = "clear" /\ compare' = compare
        /\ cnt' \div Period = cnt \div Period
        /\ cmp' = compare % Period
    <3> DEFINE v == (IF Is585 THEN 0 ELSE (cmp \div Period) * Period) + (compare % Period)
    <3>1. v = compare % Period
      BY Bounds, ArmFacts DEF TypeInv, DriverTyped
    <3>2. cmp' = v
      BY <1>4, ArmFacts, CodeRuns DEF WriteLow
    <3> HIDE DEF v
    <3> QED
      BY <1>4, <3>1, <3>2, ArmFacts DEF WriteLow, NoRollover, InTime, Seen, Value
  <2>2. /\ cnt \in Seen + MinStep .. Seen + MaxStep
        /\ compare = AlarmCounter(Target(next), Seen)
        /\ cnt \div Period = Seen \div Period
    BY <1>4 DEF WriteLow, ClockInv, Recent, Arming
  <2>3. m \in y + 2 * MinStep .. y + 2 * MaxStep /\ y <= m
    <3> HIDE DEF m, y
    <3> QED
      BY <1>1, <2>1, <2>2, ArmFacts
  <2>4. Recent'
    BY <2>1, <2>3, Zenon DEF Recent
  <2>5. Arming'
    BY <1>2, <2>1, <2>2 DEF Arming
  <2> QED
    BY <2>1, <2>3, <2>4, <2>5, ArmFacts DEF ClockInv, Waiting, Is585
<1>5. CASE Clear
  <2>1. /\ y = Seen /\ pc' = "check" /\ compare' = compare /\ cmp' = cmp
        /\ \A a \in cnt + 1 .. cnt' : a % Period = cmp => flag'
    BY <1>5, ArmFacts, CodeRuns DEF Clear, Seen, Value
  <2>2. /\ cnt \in Seen + 2 * MinStep .. Seen + 2 * MaxStep
        /\ compare = AlarmCounter(Target(next), Seen)
        /\ cnt \div Period = Seen \div Period
        /\ cmp = compare % Period
    BY <1>5 DEF Clear, ClockInv, Recent, Arming
  <2>3. m \in y + 3 * MinStep .. y + 3 * MaxStep /\ y <= m
    <3> HIDE DEF m, y
    <3> QED
      BY <1>1, <2>1, <2>2, ArmFacts
  <2>4. Recent'
    BY <2>1, <2>3, Zenon DEF Recent
  <2>5. ASSUME Seen < Target(next), compare # Target(next), ~ (cnt' < compare)
        PROVE  flag'
    <3>1. cnt < compare
      BY <2>2, <2>5, ArmFacts, RolloverIsAhead
    <3>2. compare \in Nat /\ cnt \in Nat /\ ~ (m < compare)
      BY <2>5, ArmFacts, Bounds DEF TypeInv, DriverTyped
    <3>3. compare \in cnt + 1 .. m
      <4> HIDE DEF m
      <4> QED
        BY <1>1, <3>1, <3>2, ArmFacts
    <3> QED
      BY <2>1, <2>2, <3>3
  <2>6. Arming'
    BY <1>2, <2>1, <2>2, <2>5 DEF Arming
  <2> QED
    BY <2>1, <2>3, <2>4, <2>6, ArmFacts DEF ClockInv, Waiting, Is585
<1> QED
  BY <1>3, <1>4, <1>5

\* A deadline the check finds ahead has a compare value that is ahead of the
\* read and, at most, one period from the read before.
LEMMA CheckedAlarm ==
    ASSUME InTime, TypeInv, ClockInv, CheckAhead
    PROVE  /\ cnt < compare \/ flag
           /\ compare \in Nat /\ compare <= Seen + Period /\ compare <= Target(next)
<1>1. /\ next \in Nat /\ cnt \in 0 .. MaxU64 - 1 /\ MaxU64 \in Nat /\ chip \in Chips
      /\ next \in 0 .. MaxU64 /\ Target(next) \in 0 .. MaxU64 /\ Seen \in Nat /\ Seen <= cnt
  BY ArmFacts, Bounds DEF TypeInv, HwTyped
<1>2. ~ (next <= CounterToTicks(cnt))
  <2>1. CounterToTicks(cnt) \in Nat
    BY <1>1, FloorTicks
  <2>2. Now = CounterToTicks(cnt) /\ next > Now
    BY ClockIsTrue DEF CheckAhead, Now
  <2> QED
    BY <1>1, <2>1, <2>2
<1>3. ~ (TicksToCounterCeil(next) <= cnt)
  BY <1>1, <1>2, DeadlineHasItsCount
<1>4. TicksToCounterCeil(next) \in 0 .. MaxU64
  BY <1>1, CeilCounts DEF TicksToCounterCeil, FirstCount, Saturate
<1>5. cnt < Target(next)
  BY <1>1, <1>3, <1>4 DEF Target, Saturate
<1>6. /\ compare = AlarmCounter(Target(next), Seen)
      /\ Seen < Target(next) => compare = Target(next) \/ cnt < compare \/ flag
  BY DEF CheckAhead, ClockInv, Arming
<1>7. Seen < Target(next)
  BY <1>1, <1>5
<1>8. compare \in Seen + 1 .. Target(next) /\ compare <= Seen + Period
  BY <1>1, <1>6, <1>7, AlarmComesFirst
<1> QED
  BY <1>1, <1>5, <1>6, <1>7, <1>8

\* From the last read to STIE and out of the section the match stays ahead or
\* latched.
LEMMA StepEnable ==
    ASSUME InTime, TypeInv, ClockInv, CheckAhead \/ Enable
    PROVE  ClockInv'
<1> DEFINE m == cnt'
           y == Seen'
           k == Limit'
           t == late'
<1>1. /\ m \in cnt + MinStep .. cnt + MaxStep
      /\ k = y + Period - (2 * MaxStep + MaxLatency)
      /\ t = 0
  BY ArmFacts DEF Limit
<1>2. CASE CheckAhead
  <2>1. /\ y = cnt /\ pc' = "enable" /\ cmp' = cmp
        /\ flag => flag'
    BY <1>2, ArmFacts, CodeRuns, ClockIsTrue DEF CheckAhead, OtherCode
  <2>2. cnt \in Seen + 3 * MinStep .. Seen + 3 * MaxStep /\ cmp = compare % Period
    BY <1>2 DEF CheckAhead, ClockInv, Recent, Arming
  <2>3. m <= y + MaxStep /\ y <= m
    <3> HIDE DEF m, y
    <3> QED
      BY <1>1, <2>1, ArmFacts
  <2>4. Recent'
    BY <2>1, <2>3, Zenon DEF Recent
  <2>5. /\ cnt < compare \/ flag
        /\ compare \in Nat /\ compare <= Seen + Period
    BY <1>2, CheckedAlarm
  <2>6. \A a \in cnt + 1 .. cnt' : a % Period = cmp => flag'
    BY <1>2, ArmFacts, CodeRuns DEF CheckAhead, OtherCode
  <2>7. compare \in cnt + 1 .. m \/ compare \in m + 1 .. k \/ flag
    <3> HIDE DEF m, y, k
    <3> QED
      BY <1>1, <2>1, <2>2, <2>5, ArmFacts, Times
  <2>8. compare \in m + 1 .. k => AlarmSet'
    BY <2>1, <2>2, Zenon DEF AlarmSet
  <2>9. flag' \/ AlarmSet'
    BY <2>1, <2>2, <2>6, <2>7, <2>8
  <2>10. Arming'
    BY <2>1, <2>9, Zenon DEF Arming
  <2> QED
    BY <2>1, <2>3, <2>4, <2>10, ArmFacts DEF ClockInv, Waiting, Is585
<1>3. CASE Enable
  <2>1. /\ y = Seen /\ pc' = "thread" /\ cmp' = cmp /\ stie'
        /\ flag => flag'
        /\ flag' => pend'
        /\ \A a \in cnt + 1 .. cnt' : a % Period = cmp => flag'
    BY <1>3, ArmFacts, CodeRuns DEF Enable, Seen, Value
  <2>2. cnt <= Seen + MaxStep /\ (flag \/ AlarmSet)
    BY <1>3 DEF Enable, ClockInv, Recent, Arming
  <2>3. m < k + MaxStep + t /\ y <= m
    <3> HIDE DEF m, y, k, t
    <3> QED
      BY <1>1, <2>1, <2>2, ArmFacts, Times
  <2>4. AlarmSet => flag' \/ AlarmSet'
    <3> SUFFICES ASSUME AlarmSet PROVE flag' \/ AlarmSet'
      OBVIOUS
    <3>1. PICK a \in cnt + 1 .. Limit : a % Period = cmp
      BY DEF AlarmSet
    <3>2. a \in cnt + 1 .. m \/ a \in m + 1 .. k
      <4> HIDE DEF m, y, k
      <4> QED
        BY <1>1, <2>1, <3>1, ArmFacts DEF Limit
    <3>3. a \in m + 1 .. k => AlarmSet'
      BY <2>1, <3>1, Zenon DEF AlarmSet
    <3> QED
      BY <2>1, <3>1, <3>2, <3>3
  <2>5. stie' /\ (pend' \/ (~flag' /\ AlarmSet'))
    BY <2>1, <2>2, <2>4
  <2>6. Waiting'
    BY <2>3, <2>5, Zenon DEF Waiting
  <2>7. Recent' /\ Arming'
    BY <2>1 DEF Recent, Arming
  <2> QED
    BY <2>3, <2>6, <2>7, ArmFacts DEF ClockInv, Is585
<1> QED
  BY <1>2, <1>3

\* What a step outside of the driver does.
LEMMA StepOutside ==
    ASSUME InTime, TypeInv, ClockInv, Task \/ Idle
    PROVE  ClockInv'
<1>1. /\ MinStep \in Nat /\ MaxStep \in Nat /\ MaxLatency \in Nat /\ Period \in Nat
      /\ MinStep \in Nat \ {0} /\ MinStep <= MaxStep
      /\ Seen \in Nat /\ cnt \in Nat /\ Seen <= cnt
      /\ Value(Observe(cnt % Period)) = cnt
      /\ ReadCounter => Seen' = cnt
      /\ late \in 0 .. MaxLatency /\ ReadTyped
      /\ flag \in BOOLEAN /\ pend \in BOOLEAN /\ stie \in BOOLEAN /\ Is585
      /\ pc = "thread" /\ (~pend => late = 0)
  BY Times, ClockIsTrue DEF TypeInv, HwTyped, DriverTyped, ClockInv, Is585,
     LateIsPending, Task, Idle, StartTimer, CancelTimer, PollTimer, ReadHigh, ReadLow,
     ReadHighAgain, TimerEnds, ScheduleWake, Deciding, Unmasked
<1>2. CASE Task
  <2>1. /\ ~pend /\ OtherCode /\ late' = late /\ pc' \in {"thread", "expire"}
        /\ epoch' = epoch \/ ReadCounter
    BY <1>2, TaskSteps
       DEF Task, StartTimer, CancelTimer, PollTimer, ReadHigh, ReadLow, ReadHighAgain,
           TimerEnds, ScheduleWake, Deciding, Unmasked
  <2>2. PICK d \in MinStep .. MaxStep : Elapse(d, cmp, flag, pend, stie) /\ chip' = chip
    BY <2>1 DEF OtherCode, Code
  <2>3. d \in Nat /\ d <= MaxStep
    BY <1>1
  <2>4. Seen' = Seen \/ Seen' = cnt
    BY <1>1, <2>1 DEF Seen, Value
  <2>5. Seen' \in Nat /\ Seen <= Seen' /\ Seen' <= cnt
    BY <1>1, <2>4
  <2>6. late' = 0
    BY <1>1, <2>1
  <2>7. Waiting' /\ Recent' /\ Arming' /\ Seen' <= cnt'
    BY <1>1, <2>1, <2>2, <2>3, <2>5, <2>6, WaitGoesOn
  <2>8. cnt' = cnt + d
    BY <1>1, <2>2, <2>3, Passing
  <2>9. cnt' \in Nat /\ cnt <= cnt'
    BY <1>1, <2>3, <2>8
  <2>10. ReadIsNow'
    <3>1. rd.stage \in {"idle", "decide"}
      BY DEF ClockInv, ReadIsNow
    <3>2. CASE rd' = rd
      BY <1>1, <2>9, <3>2, ReadKept
    <3>3. CASE rd' = NoRead
      BY <3>3 DEF ReadIsNow, NoRead
    <3>4. ASSUME NEW t \in Tasks, PollTimer(t)
          PROVE  ReadIsNow'
      <4>1. /\ rd'.stage = "decide" /\ rd'.from = cnt
            /\ rd'.high = Observe(cnt % Period).high
            /\ rd'.lastLow = Observe(cnt % Period).lastLow
        BY <1>1, <3>4 DEF PollTimer
      <4>2. Value(rd)' = cnt
        BY <1>1, <4>1 DEF Value
      <4>3. cnt \in cnt .. cnt'
        BY <1>1, <2>9
      <4> QED
        BY <4>1, <4>2, <4>3 DEF ReadIsNow
    <3>5. rd' = rd \/ rd' = NoRead \/ \E t \in Tasks : PollTimer(t)
      BY <1>2, <3>1
         DEF Task, StartTimer, CancelTimer, ReadHigh, ReadLow, ReadHighAgain,
             TimerEnds, ScheduleWake
    <3> QED
      BY <3>2, <3>3, <3>4, <3>5
  <2> QED
    BY <2>2, <2>6, <2>7, <2>10 DEF ClockInv, LateIsPending
<1>3. CASE Idle
  <2>1. PICK d \in {1, MaxStep} :
            /\ pend => late + d <= MaxLatency
            /\ Elapse(d, cmp, flag, pend, stie)
            /\ late' = IF pend THEN late + d ELSE 0
            /\ chip' = chip
    BY <1>3 DEF Idle
  <2>2. /\ d \in Nat /\ d <= MaxStep
        /\ cnt' = cnt + d /\ cmp' = cmp /\ stie' = stie
        /\ pend => pend'
    <3>1. d \in Nat /\ d <= MaxStep
      BY <1>1, <2>1
    <3> QED
      BY <1>1, <2>1, <3>1, Passing
  <2>3. cnt' \in Nat /\ cnt <= cnt'
    BY <1>1, <2>2
  <2>4. pc' = "thread" /\ epoch' = epoch /\ rd' = rd
    BY <1>1, <1>3 DEF Idle, driverVars, taskVars
  <2>5. Seen' = Seen
    BY <2>4 DEF Seen, Value
  <2>6. ReadIsNow'
    BY <1>1, <2>3, <2>4, ReadKept
  <2>7. CASE ~pend
    <3>1. late' = 0
      BY <2>1, <2>7
    <3>2. Waiting' /\ Recent' /\ Arming' /\ Seen' <= cnt'
      BY <1>1, <2>1, <2>2, <2>4, <2>5, <2>7, <3>1, WaitGoesOn
    <3> QED
      BY <2>1, <2>6, <3>1, <3>2 DEF ClockInv, LateIsPending
  <2>8. CASE pend
    <3> DEFINE m == cnt'
               t == late'
               k == Limit'
    <3>1. stie /\ cnt < Limit + MaxStep + late
      BY <1>1, <2>8 DEF ClockInv, Waiting
    <3>2. k = Limit /\ t = late + d /\ m = cnt + d
      BY <2>1, <2>2, <2>5, <2>8 DEF Limit
    <3>3. m < k + MaxStep + t
      <4> HIDE DEF m, t, k
      <4> QED
        BY <1>1, <2>2, <3>1, <3>2 DEF Limit
    <3>4. stie' /\ pend'
      BY <2>2, <2>8, <3>1
    <3>5. Waiting'
      BY <3>3, <3>4, Zenon DEF Waiting
    <3>6. Recent' /\ Arming' /\ LateIsPending'
      BY <2>4, <3>4 DEF Recent, Arming, LateIsPending
    <3>7. Seen' <= cnt'
      BY <1>1, <2>3, <2>5
    <3> QED
      BY <2>1, <2>6, <3>5, <3>6, <3>7 DEF ClockInv
  <2> QED
    BY <2>7, <2>8
<1> QED
  BY <1>2, <1>3

\* Every step leaves a match ahead, or its handler due, before the counter comes
\* round.
LEMMA StepClock == InTime /\ TypeInv /\ ClockInv /\ [Next]_vars => ClockInv'
<1> SUFFICES ASSUME InTime, TypeInv, ClockInv, [Next]_vars PROVE ClockInv'
  OBVIOUS
<1>1. CASE Stop \/ UNCHANGED vars
  <2>1. UNCHANGED vars
    BY <1>1 DEF Stop
  <2> QED
    BY <2>1
       DEF vars, hwVars, driverVars, taskVars, ClockInv, Seen, Value, Limit, AlarmSet,
           Waiting, Recent, Arming, LateIsPending, ReadIsNow, Target, TicksToCounterCeil
<1>2. ~WriteHigh
  BY DEF WriteHigh, TypeInv, TwoWords, ClockInv, Is585
<1> QED
  BY <1>1, <1>2, StepObserve, StepArm, StepEnable, StepOutside DEF Next, SetAlarm

-----------------------------------------------------------------------------
(* The time.                                                                *)

\* InTime, where the build is for CH585: CH582 needs nothing of it.
InTimeIf585 == "ch585" \in Chips => InTime

\* What the driver knows of the time, on either chip.
Informed == TypeInv /\ (Is585 => ClockInv)

\* Whoever reads the clock in the driver is told the time.
LEMMA CounterIsNow ==
    ASSUME InTimeIf585, Informed
    PROVE  /\ Counter = cnt /\ cnt \in 0 .. MaxU64 - 1 /\ MaxU64 \in Nat
           /\ MaxStep \in Nat \ {0} /\ MinStep \in Nat /\ chip \in Chips
<1>1. /\ Horizon \in 0 .. MaxU64 - 1 /\ MaxU64 \in Nat
      /\ cnt \in 0 .. Horizon /\ chip \in Chips
  BY Bounds DEF Informed, TypeInv, HwTyped
<1>2. MaxStep \in Nat \ {0} /\ MinStep \in Nat
  BY TimeAssumption
<1>3. Counter = cnt
  <2>1. CASE Is585
    <3>1. InTime /\ TypeInv /\ ClockInv
      BY <1>1, <2>1 DEF InTimeIf585, Informed, Is585
    <3> QED
      BY <3>1, ClockIsTrue
  <2>2. CASE ~Is585
    BY <2>2 DEF Counter
  <2> QED
    BY <2>1, <2>2
<1> QED
  BY <1>1, <1>2, <1>3

\* When the program first reads the clock, its epoch is that of the counter.
LEMMA InitInformed == InTimeIf585 /\ Init => Informed
<1> SUFFICES ASSUME InTimeIf585, Init PROVE Informed
  OBVIOUS
<1>1. TypeInv
  BY InitTyped
<1>2. Is585 => InTime
  BY DEF Init, Is585, InTimeIf585
<1> QED
  BY <1>1, <1>2, InitClock DEF Informed

\* Every step keeps what the driver knows of the time, and which chip it is on.
LEMMA StepInformed == InTimeIf585 /\ Informed /\ [Next]_vars => Informed' /\ chip' = chip
<1> SUFFICES ASSUME InTimeIf585, Informed, [Next]_vars PROVE Informed' /\ chip' = chip
  OBVIOUS
<1>1. TypeInv /\ TypeInv' /\ cnt \in Nat /\ chip \in Chips
  BY StepTypes, Bounds DEF Informed, TypeInv, HwTyped
<1>2. chip' = chip
  BY <1>1, TimeGoesOn
<1>3. ASSUME Is585 PROVE ClockInv'
  BY <1>1, <1>3, StepClock DEF InTimeIf585, Informed, Is585
<1> QED
  BY <1>1, <1>2, <1>3 DEF Informed, Is585

\* On either chip a read under way returns the time of a moment since it began.
NowInv == Informed /\ (~Is585 => ReadInv)

\* A CH585 that is in time misses no rollover: the alarm that is set, for a
\* deadline or for the rollover, comes before the counter has come round.
LEMMA ClockIfInTime == ASSUME InTimeIf585 PROVE Spec => []NowIsTrue
<1>1. Init => NowInv
  BY InitInformed, InitRead DEF NowInv
<1>2. NowInv /\ [Next]_vars => NowInv'
  BY StepInformed, StepRead DEF NowInv, Is585
<1>3. NowInv => NowIsTrue
  BY CounterIsNow DEF NowInv, Informed, ClockInv, ReadIsNow, ReadInv, NowIsTrue
<1> QED
  BY <1>1, <1>2, <1>3, PTL DEF Spec

\* The build for CH582.
OnlyCh582 == Chips = {"ch582"}

\* On CH582 no assumption on timing is needed: a read of the clock returns a
\* value the counter had between the first load and the last, however often it
\* carries between them and however long interrupts hold the reader off.
THEOREM ReadsAreWhole == ASSUME OnlyCh582 PROVE Spec => []NowIsTrue
BY ClockIfInTime DEF OnlyCh582, InTimeIf585

-----------------------------------------------------------------------------
(* Timers.                                                                  *)

\* A Timer nobody polls is in the queue, at its deadline or before.
TimersQueued ==
    \A t \in DOMAIN timer :
        \/ t \in woken
        \/ rd.stage # "idle" /\ rd.task = t
        \/ t \in DOMAIN queue /\ queue[t] <= timer[t]

\* The deadline being armed is the first of the queue.
NextIsFirst ==
    pc \in {"off", "compute", "high", "low", "clear", "check", "enable"} =>
        \A t \in DOMAIN queue : next <= queue[t]

\* A match is ahead, at or before every deadline of the queue.
Covered ==
    \E a \in Nat : /\ cnt < a /\ Matches(a, cmp)
                   /\ \A t \in DOMAIN queue : a <= Target(queue[t])

\* No deadline of the queue is more than n counts ago.
Within(n) == \A t \in DOMAIN queue : cnt <= Target(queue[t]) + n

\* On CH582 the two words of the compare value become CMP.
WordsWritten ==
    ~Is585 =>
        /\ pc \in {"high", "low", "clear", "check"} => compare = Target(next)
        /\ pc = "low" => cmp \div Period = compare \div Period
        /\ pc \in {"clear", "check"} => cmp = compare

\* When the driver leaves off, a match is latched, or is ahead and not after any
\* deadline; and none was missed for long.
Timely ==
    /\ pc = "enable" => Within(MaxStep - 2) /\ (flag \/ Covered)
    /\ pc = "thread" /\ DOMAIN queue # {} =>
        /\ stie
        /\ IF pend THEN Within(2 * MaxStep - 2 + late) ELSE ~flag /\ Covered

\* What the timers rest on.
TimersInv ==
    /\ TimersQueued /\ NextIsFirst /\ WordsWritten /\ Timely /\ LateIsPending

\* Nothing awaits a Timer before the first task does.
LEMMA InitTimers == Init => TimersInv
<1> SUFFICES ASSUME Init PROVE TimersInv
  OBVIOUS
<1>1. DOMAIN queue = {} /\ DOMAIN timer = {} /\ pc = "thread" /\ late = 0
  BY DEF Init
<1> QED
  BY <1>1 DEF TimersInv, TimersQueued, NextIsFirst, WordsWritten, Timely, LateIsPending

\* Room is made for a Timer by one that is woken, and its entry is not after
\* its deadline.
LEMMA StepQueued == TypeInv /\ TimersQueued /\ [Next]_vars => TimersQueued'
<1> SUFFICES ASSUME TypeInv, TimersQueued, [Next]_vars PROVE TimersQueued'
  OBVIOUS
<1>1. /\ TimersTyped /\ QueueTyped /\ ReadIsOf /\ ReadTyped
      /\ Deadlines \subseteq Nat
  BY Bounds DEF TypeInv
<1>2. \A t \in DOMAIN timer : timer[t] \in Nat
  BY <1>1 DEF TimersTyped
<1>3. ASSUME NEW t \in Tasks, NEW at \in Deadlines, StartTimer(t, at)
      PROVE  TimersQueued'
  <2>1. /\ timer' = Put(timer, t, at) /\ woken' = woken \cup {t}
        /\ rd' = rd /\ queue' = queue
    BY <1>3 DEF StartTimer, driverVars
  <2>2. /\ DOMAIN timer' = DOMAIN timer \cup {t}
        /\ \A u \in DOMAIN timer \ {t} : timer'[u] = timer[u]
    BY <2>1 DEF Put
  <2> QED
    BY <2>1, <2>2 DEF TimersQueued
<1>4. ASSUME NEW t \in Tasks, CancelTimer(t)
      PROVE  TimersQueued'
  <2>1. /\ timer' = Without(timer, t) /\ woken' = woken \ {t}
        /\ rd' = rd /\ queue' = queue
    BY <1>4 DEF CancelTimer, driverVars
  <2> QED
    BY <2>1 DEF TimersQueued, Without
<1>5. CASE TimerEnds
  <2>1. /\ timer' = Without(timer, rd.task) /\ woken' = woken \ {rd.task} /\ queue' = queue
    BY <1>5 DEF TimerEnds, driverVars
  <2> QED
    BY <2>1 DEF TimersQueued, Without
<1>6. ASSUME NEW t \in Tasks, PollTimer(t)
      PROVE  TimersQueued'
  <2>1. /\ rd'.stage # "idle" /\ rd'.task = t /\ rd = NoRead
        /\ woken' = woken \ {t} /\ timer' = timer /\ queue' = queue
    BY <1>6 DEF PollTimer, NoRead
  <2> QED
    BY <2>1 DEF TimersQueued, NoRead
<1>7. CASE ReadHigh \/ ReadLow \/ ReadHighAgain
  <2>1. /\ timer' = timer /\ woken' = woken /\ queue' = queue
        /\ rd'.task = rd.task /\ rd'.stage # "idle"
    BY <1>1, <1>7 DEF ReadHigh, ReadLow, ReadHighAgain, ReadTyped, driverVars
  <2>2. rd.stage # "idle"
    BY <1>7 DEF ReadHigh, ReadLow, ReadHighAgain
  <2> QED
    BY <2>1, <2>2 DEF TimersQueued
<1>8. CASE ScheduleWake
  <2> DEFINE t == rd.task
             at == timer[rd.task]
  <2>1. /\ t \in DOMAIN timer /\ at \in Nat /\ timer' = timer
    BY <1>1, <1>2, <1>8 DEF ScheduleWake, Deciding, ReadIsOf
  <2>2. CASE t \in DOMAIN queue /\ queue[t] <= at /\ UNCHANGED <<queue, woken>>
    BY <2>1, <2>2 DEF TimersQueued
  <2>3. CASE Enqueue(t, at)
    <3>1. CASE queue' = Put(queue, t, at) /\ UNCHANGED woken
      <4>1. /\ t \in DOMAIN queue' /\ queue'[t] = at
            /\ \A u \in DOMAIN queue \ {t} : u \in DOMAIN queue' /\ queue'[u] = queue[u]
        BY <3>1 DEF Put
      <4>2. at <= at
        BY <2>1
      <4> QED
        BY <2>1, <3>1, <4>1, <4>2 DEF TimersQueued
    <3>2. ASSUME NEW v \in DOMAIN queue, queue' = Put(Without(queue, v), t, at),
                 woken' = woken \cup ({v} \cap DOMAIN timer)
          PROVE  TimersQueued'
      <4>1. /\ t \in DOMAIN queue' /\ queue'[t] = at
            /\ \A u \in DOMAIN queue \ {t, v} : u \in DOMAIN queue' /\ queue'[u] = queue[u]
        BY <3>2 DEF Put, Without
      <4>2. at <= at
        BY <2>1
      <4> QED
        BY <2>1, <3>2, <4>1, <4>2 DEF TimersQueued
    <3> QED
      BY <2>3, <3>1, <3>2 DEF Enqueue
  <2> QED
    BY <1>8, <2>2, <2>3 DEF ScheduleWake
<1>9. CASE Expire
  <2> DEFINE due == {t \in DOMAIN queue : queue[t] <= Now}
  <2>1. /\ queue' = [t \in DOMAIN queue \ due |-> queue[t]]
        /\ woken' = woken \cup (due \cap DOMAIN timer)
        /\ timer' = timer /\ rd' = rd
    BY <1>9 DEF Expire
  <2> HIDE DEF due
  <2> QED
    BY <2>1 DEF TimersQueued
<1>10. CASE SysTick \/ SetAlarm \/ Idle \/ Stop \/ UNCHANGED vars
  <2>1. queue' = queue /\ timer' = timer /\ woken' = woken /\ rd' = rd
    BY <1>10
       DEF SysTick, SetAlarm, AlarmPassed, AlarmAhead, Compute, WriteHigh, WriteLow,
           Clear, CheckPassed, CheckAhead, Enable, Idle, Stop, vars, taskVars, driverVars
  <2> QED
    BY <2>1 DEF TimersQueued
<1> QED
  BY <1>3, <1>4, <1>5, <1>6, <1>7, <1>8, <1>9, <1>10 DEF Next, Task

\* The deadline that is armed is the first of those the queue has left.
LEMMA StepFirst == TypeInv /\ NextIsFirst /\ [Next]_vars => NextIsFirst'
<1> SUFFICES ASSUME TypeInv, NextIsFirst, [Next]_vars PROVE NextIsFirst'
  OBVIOUS
<1>1. CASE pc' \in {"thread", "expire"}
  BY <1>1 DEF NextIsFirst
<1>2. CASE Expire
  <2> DEFINE rest == DOMAIN queue \ {t \in DOMAIN queue : queue[t] <= Now}
             left == {queue[t] : t \in rest}
  <2>1. /\ next' = IF rest = {} THEN MaxU64 ELSE Min(left)
        /\ queue' = [t \in rest |-> queue[t]]
    BY <1>2 DEF Expire
  <2>2. left \subseteq Nat
    <3>1. \A t \in rest : queue[t] \in Deadlines
      BY DEF TypeInv, QueueTyped
    <3>2. Deadlines \subseteq Nat
      BY Bounds
    <3>3. \A t \in rest : queue[t] \in Nat
      BY <3>1, <3>2
    <3> QED
      BY <3>3
  <2>3. ASSUME NEW t \in rest PROVE next' <= queue[t]
    <3>1. queue[t] \in left /\ rest # {}
      OBVIOUS
    <3> HIDE DEF left
    <3>2. Min(left) <= queue[t]
      BY <2>2, <3>1, LeastOf
    <3> HIDE DEF rest
    <3> QED
      BY <2>1, <3>1, <3>2
  <2> HIDE DEF rest
  <2> QED
    BY <2>1, <2>3 DEF NextIsFirst
<1>3. CASE AlarmAhead \/ Compute \/ WriteHigh \/ WriteLow \/ Clear \/ CheckAhead
  <2>1. /\ next' = next /\ queue' = queue
        /\ pc \in {"off", "compute", "high", "low", "clear", "check"}
    BY <1>3 DEF AlarmAhead, Compute, WriteHigh, WriteLow, Clear, CheckAhead
  <2> QED
    BY <2>1 DEF NextIsFirst
<1>4. CASE SysTick \/ AlarmPassed \/ CheckPassed \/ Enable \/ Task \/ Idle
  <2>1. pc' \in {"thread", "expire"}
    BY <1>4, TaskSteps DEF SysTick, AlarmPassed, CheckPassed, Enable, Idle, driverVars
  <2> QED
    BY <1>1, <2>1
<1>5. CASE Stop \/ UNCHANGED vars
  BY <1>5 DEF Stop, vars, driverVars, NextIsFirst
<1> QED
  BY <1>2, <1>3, <1>4, <1>5 DEF Next, SetAlarm

\* Between Compute and the check nothing changes the value or the deadline it
\* is of; the words are written in turn.
LEMMA StepWords == TypeInv /\ WordsWritten /\ [Next]_vars => WordsWritten'
<1> SUFFICES ASSUME TypeInv, WordsWritten, [Next]_vars, ~Is585' PROVE WordsWritten'
  BY DEF WordsWritten
<1>1. /\ compare \in 0 .. MaxU64 /\ Period \in Nat \ {0, 1} /\ MaxU64 \in Nat
      /\ flag \in BOOLEAN /\ pend \in BOOLEAN /\ stie \in BOOLEAN
  BY Bounds DEF TypeInv, DriverTyped, HwTyped
<1>2. CASE pc' \notin {"high", "low", "clear", "check"}
  BY <1>2 DEF WordsWritten
<1>3. CASE Compute \/ WriteHigh \/ WriteLow \/ Clear
  <2>1. chip' = chip
    BY <1>1, <1>3, CodeRuns DEF Compute, WriteHigh, WriteLow, Clear, OtherCode
  <2>2. ~Is585 /\ cmp \in 0 .. MaxU64
    BY <2>1 DEF Is585, TypeInv, HwTyped
  <2>3. /\ compare \div Period \in 0 .. Period - 1 /\ compare % Period \in 0 .. Period - 1
        /\ cmp % Period \in 0 .. Period - 1
        /\ (compare \div Period) * Period + (compare % Period) = compare
    <3>1. compare \in Nat
      BY <1>1
    <3> QED
      BY <1>1, <2>2, <3>1, WordsFit, DivMod
  <2>4. next' = next /\ Target(next)' = Target(next)
    BY <1>3, <2>1 DEF Compute, WriteHigh, WriteLow, Clear, Target, TicksToCounterCeil
  <2>5. CASE Compute
    BY <2>2, <2>4, <2>5 DEF Compute, WordsWritten
  <2>6. CASE WriteHigh
    <3> DEFINE v == (compare \div Period) * Period + (cmp % Period)
    <3>1. cmp' = v /\ compare' = compare /\ pc' = "low" /\ pc = "high"
      BY <1>1, <2>6, CodeRuns DEF WriteHigh
    <3>2. v \div Period = compare \div Period
      BY <1>1, <2>3, WordsOf
    <3> HIDE DEF v
    <3>3. cmp' \div Period = compare' \div Period
      BY <3>1, <3>2
    <3>4. compare' = Target(next)'
      BY <2>2, <2>4, <3>1 DEF WordsWritten
    <3> QED
      BY <3>1, <3>3, <3>4, Zenon DEF WordsWritten
  <2>7. CASE WriteLow
    <3>1. /\ cmp' = (cmp \div Period) * Period + (compare % Period)
          /\ compare' = compare /\ pc' = "clear" /\ pc = "low"
      <4> DEFINE v == (IF Is585 THEN 0 ELSE (cmp \div Period) * Period) + (compare % Period)
      <4>1. Code(v, flag, pend, stie)
        BY <2>7 DEF WriteLow
      <4> HIDE DEF v
      <4>2. cmp' = v
        BY <1>1, <4>1, CodeRuns
      <4> USE DEF v
      <4> QED
        BY <2>2, <2>7, <4>2 DEF WriteLow
    <3>2. cmp \div Period = compare \div Period /\ compare = Target(next)
      BY <2>2, <3>1 DEF WordsWritten
    <3>3. cmp' = compare
      BY <2>3, <3>1, <3>2
    <3> QED
      BY <2>4, <3>1, <3>2, <3>3 DEF WordsWritten
  <2>8. CASE Clear
    <3>1. cmp' = cmp /\ compare' = compare /\ pc' = "check" /\ pc = "clear"
      BY <1>1, <2>8, CodeRuns DEF Clear
    <3> QED
      BY <2>2, <2>4, <3>1 DEF WordsWritten
  <2> QED
    BY <1>3, <2>5, <2>6, <2>7, <2>8
<1>4. CASE SysTick \/ Expire \/ AlarmPassed \/ AlarmAhead \/ CheckPassed \/ CheckAhead
           \/ Enable \/ Task \/ Idle
  <2>1. pc' \notin {"high", "low", "clear", "check"}
    BY <1>4, TaskSteps
       DEF SysTick, Expire, AlarmPassed, AlarmAhead, CheckPassed, CheckAhead, Enable,
           Idle, driverVars
  <2> QED
    BY <1>2, <2>1
<1>5. CASE Stop \/ UNCHANGED vars
  BY <1>5
     DEF Stop, vars, driverVars, hwVars, WordsWritten, Is585, Target, TicksToCounterCeil
<1> QED
  BY <1>3, <1>4, <1>5 DEF Next, SetAlarm

\* The handler ends the wait.
LEMMA StepLate == LateIsPending /\ TypeInv /\ [Next]_vars => LateIsPending'
<1> SUFFICES ASSUME LateIsPending, TypeInv, [Next]_vars PROVE LateIsPending'
  OBVIOUS
<1>1. CASE SysTick \/ Expire \/ SetAlarm
  <2>1. (late' = late /\ pc # "thread") \/ late' = 0
    BY <1>1
       DEF SysTick, Expire, SetAlarm, AlarmPassed, AlarmAhead, Compute, WriteHigh, WriteLow,
           Clear, CheckPassed, CheckAhead, Enable
  <2> QED
    BY <2>1 DEF LateIsPending
<1>2. CASE Task
  <2>1. late' = late /\ ~pend
    BY <1>2
       DEF Task, StartTimer, CancelTimer, PollTimer, ReadHigh, ReadLow, ReadHighAgain,
           TimerEnds, ScheduleWake, Deciding, Unmasked
  <2> QED
    BY <2>1 DEF LateIsPending
<1>3. CASE Idle
  <2>1. PICK d \in {1, MaxStep} : Elapse(d, cmp, flag, pend, stie)
    BY <1>3 DEF Idle
  <2>2. d \in Nat /\ flag \in BOOLEAN /\ pend \in BOOLEAN /\ stie \in BOOLEAN
    BY TimeAssumption DEF TypeInv, HwTyped
  <2>3. (pend => pend') /\ pc' = "thread" /\ (pend \/ late' = 0)
    BY <1>3, <2>1, <2>2, Passing DEF Idle, driverVars
  <2> QED
    BY <2>3 DEF LateIsPending
<1>4. CASE Stop \/ UNCHANGED vars
  BY <1>4 DEF Stop, vars, driverVars, hwVars, LateIsPending
<1> QED
  BY <1>1, <1>2, <1>3, <1>4 DEF Next

\* Later deadlines have later counts.
LEMMA TargetGrows ==
    ASSUME TypeInv, NEW s \in 0 .. MaxU64, NEW t \in 0 .. MaxU64, s <= t
    PROVE  Target(s) <= Target(t)
<1> DEFINE N == Num[chip]
           D == Den[chip]
           m == FirstCount(s)
           k == FirstCount(t)
<1>1. N \in Nat \ {0} /\ D \in Nat \ {0} /\ chip \in Chips /\ s \in Nat /\ t \in Nat
      /\ MaxU64 \in Nat
  BY TimeAssumption, Bounds DEF TypeInv, HwTyped
<1>2. /\ m \in Nat /\ m * D < s * N + D
      /\ k \in Nat /\ t * N <= k * D
  BY <1>1, CeilCounts
<1>3. /\ TicksToCounterCeil(s) = Saturate(m) /\ TicksToCounterCeil(t) = Saturate(k)
  BY DEF TicksToCounterCeil, FirstCount
<1> HIDE DEF N, D, m, k
<1>4. s * N <= t * N /\ s * N \in Nat /\ t * N \in Nat
  BY <1>1, ProductGrows
<1>5. (k + 1) * D = k * D + D /\ m * D \in Nat /\ k * D \in Nat
  BY <1>1, <1>2, SMTT(30)
<1>6. m * D < (k + 1) * D
  BY <1>1, <1>2, <1>4, <1>5
<1>7. m < k + 1
  BY <1>1, <1>2, <1>6, ProductOrder
<1> QED
  BY <1>1, <1>2, <1>3, <1>7 DEF Target, Saturate

\* Deadlines of the queue, and their counts, are u64.
LEMMA QueueTargets ==
    ASSUME TypeInv, NEW t \in DOMAIN queue
    PROVE  queue[t] \in 0 .. MaxU64 /\ Target(queue[t]) \in 0 .. MaxU64
<1>1. queue[t] \in Deadlines
  BY DEF TypeInv, QueueTyped
<1>2. queue[t] \in 0 .. MaxU64
  BY <1>1, Bounds
<1> QED
  BY <1>2, TargetTyped

\* The count of a deadline does not change while the queue does not.
LEMMA TargetKept ==
    ASSUME chip' = chip, queue' = queue
    PROVE  \A t : Target(queue[t])' = Target(queue[t])
BY DEF Target, TicksToCounterCeil

\* A match that is ahead stays ahead or is latched.
LEMMA CoverGoesOn ==
    ASSUME TypeInv, NEW a \in Nat, cnt < a, Matches(a, cmp), cnt' \in Nat,
           \A t \in DOMAIN queue : a <= Target(queue[t]),
           chip' = chip, queue' = queue, cmp' = cmp,
           \A n \in cnt + 1 .. cnt' : Matches(n, cmp) => flag'
    PROVE  flag' \/ Covered'
<1> DEFINE m == cnt'
<1>1. cnt \in Nat /\ m \in Nat
  BY Bounds DEF TypeInv, HwTyped
<1>2. CASE a <= m
  <2>1. a \in cnt + 1 .. m
    <3> HIDE DEF m
    <3> QED
      BY <1>1, <1>2
  <2> QED
    BY <2>1
<1>3. CASE m < a
  <2>1. Matches(a, cmp)'
    BY DEF Matches, Is585
  <2>2. \A t \in DOMAIN queue' : a <= Target(queue[t])'
    BY TargetKept
  <2> QED
    BY <1>3, <2>1, <2>2 DEF Covered
<1>4. a <= m \/ m < a
  <2> HIDE DEF m
  <2> QED
    BY <1>1
<1> QED
  BY <1>2, <1>3, <1>4

\* A deadline the check finds ahead is still so when the check is made, and
\* CMP holds a match for it.
LEMMA CheckedAhead ==
    ASSUME InTimeIf585, Informed, TimersInv, CheckAhead
    PROVE  /\ cnt + 2 <= Target(next) \/ Target(next) = MaxU64
           /\ \E a \in Nat : /\ a <= Target(next) /\ Matches(a, cmp)
                             /\ cnt < a \/ flag
<1>1. /\ next \in 0 .. MaxU64 /\ next \in Nat /\ cnt \in 0 .. MaxU64 - 1 /\ MaxU64 \in Nat
      /\ chip \in Chips /\ Target(next) \in 0 .. MaxU64 /\ TypeInv
  BY CounterIsNow, TargetTyped DEF Informed, TypeInv, DriverTyped
<1>2. ~ (next <= CounterToTicks(cnt))
  <2>1. CounterToTicks(cnt) \in Nat
    BY <1>1, FloorTicks
  <2>2. Now = CounterToTicks(cnt) /\ next > Now
    BY CounterIsNow DEF CheckAhead, Now
  <2> QED
    BY <1>1, <2>1, <2>2
<1>3. ~ (TicksToCounterCeil(next) <= cnt)
  BY <1>1, <1>2, DeadlineHasItsCount
<1>4. TicksToCounterCeil(next) \in 0 .. MaxU64
  BY <1>1, CeilCounts DEF TicksToCounterCeil, FirstCount, Saturate
<1>5. cnt + 2 <= Target(next) \/ Target(next) = MaxU64
  BY <1>1, <1>3, <1>4 DEF Target, Saturate
<1>6. CASE Is585
  <2>1. InTime /\ ClockInv
    BY <1>1, <1>6 DEF InTimeIf585, Informed, Is585
  <2>2. (cnt < compare \/ flag) /\ compare \in Nat /\ compare <= Target(next)
    BY <1>1, <2>1, CheckedAlarm
  <2>3. Matches(compare, cmp)
    BY <1>6, <2>1 DEF CheckAhead, ClockInv, Arming, Matches
  <2> QED
    BY <1>5, <2>2, <2>3
<1>7. CASE ~Is585
  <2>1. compare = Target(next) /\ cmp = compare
    BY <1>7 DEF CheckAhead, TimersInv, WordsWritten
  <2>2. Matches(Target(next), cmp) /\ Target(next) \in Nat /\ Target(next) <= Target(next)
        /\ cnt < Target(next)
    BY <1>1, <1>5, <1>7, <2>1 DEF Matches
  <2> QED
    BY <1>5, <2>2
<1> QED
  BY <1>6, <1>7

\* The last look at the clock leaves the queue its deadlines and the alarm ahead.
LEMMA StepCheck ==
    ASSUME InTimeIf585, Informed, TimersInv, CheckAhead, cnt' \in 0 .. MaxU64 - 1
    PROVE  Timely'
<1>1. /\ cnt \in 0 .. MaxU64 - 1 /\ MaxU64 \in Nat /\ MaxStep \in Nat \ {0}
      /\ MinStep \in Nat /\ TypeInv /\ next \in 0 .. MaxU64
      /\ flag \in BOOLEAN /\ pend \in BOOLEAN /\ stie \in BOOLEAN
      /\ Target(next) \in 0 .. MaxU64
  BY CounterIsNow, TargetTyped DEF Informed, TypeInv, DriverTyped, HwTyped
<1>2. /\ queue' = queue /\ pc' = "enable"
      /\ chip' = chip /\ cmp' = cmp /\ (flag => flag')
      /\ cnt' \in cnt + MinStep .. cnt + MaxStep
      /\ \A n \in cnt + 1 .. cnt' : Matches(n, cmp) => flag'
  BY <1>1, CodeRuns DEF CheckAhead, OtherCode
<1>3. PICK a \in Nat : a <= Target(next) /\ Matches(a, cmp) /\ (cnt < a \/ flag)
  BY CheckedAhead
<1>4. ASSUME NEW u \in DOMAIN queue
      PROVE  Target(next) <= Target(queue[u]) /\ Target(queue[u]) \in 0 .. MaxU64
  <2>1. next <= queue[u]
    BY DEF CheckAhead, TimersInv, NextIsFirst
  <2> QED
    BY <1>1, <2>1, QueueTargets, TargetGrows
<1>5. flag' \/ Covered'
  <2>1. \A u \in DOMAIN queue : a <= Target(queue[u])
    BY <1>1, <1>3, <1>4
  <2> QED
    BY <1>1, <1>2, <1>3, <2>1, CoverGoesOn
<1>6. Within(MaxStep - 2)'
  <2> DEFINE m == cnt'
             g(u) == Target(queue[u])'
  <2>1. m \in cnt + MinStep .. cnt + MaxStep /\ m \in 0 .. MaxU64 - 1
    BY <1>2
  <2>2. \A u : g(u) = Target(queue[u])
    BY <1>2, TargetKept
  <2>3. SUFFICES ASSUME NEW u \in DOMAIN queue
                 PROVE  m <= g(u) + (MaxStep - 2)
    BY <1>2, Zenon DEF Within
  <2>4. cnt + 2 <= Target(next) \/ Target(next) = MaxU64
    BY CheckedAhead
  <2> HIDE DEF m, g
  <2> QED
    BY <1>1, <1>4, <2>1, <2>2, <2>4
<1> QED
  BY <1>2, <1>5, <1>6 DEF Timely

\* When STIE is set, what is ahead raises the interrupt and what is latched has.
LEMMA StepArmed ==
    ASSUME InTimeIf585, Informed, TimersInv, Enable
    PROVE  Timely'
<1>1. /\ cnt \in Nat /\ MaxStep \in Nat \ {0} /\ MinStep \in Nat /\ TypeInv
      /\ flag \in BOOLEAN /\ pend \in BOOLEAN /\ stie \in BOOLEAN
      /\ late = 0
  BY CounterIsNow DEF Informed, TypeInv, HwTyped, Enable, TimersInv, LateIsPending
<1>2. /\ queue' = queue /\ pc' = "thread" /\ late' = late
      /\ chip' = chip /\ cmp' = cmp /\ (flag => flag')
      /\ cnt' \in cnt + MinStep .. cnt + MaxStep
      /\ \A n \in cnt + 1 .. cnt' : Matches(n, cmp) => flag'
      /\ stie' /\ (flag' => pend')
  BY <1>1, CodeRuns DEF Enable
<1>3. Within(MaxStep - 2) /\ (flag \/ Covered)
  BY DEF Enable, TimersInv, Timely
<1> DEFINE m == cnt'
           t == late'
           g(u) == Target(queue[u])'
<1>4. m \in cnt + MinStep .. cnt + MaxStep
  BY <1>2
<1>5. m \in Nat
  <2> HIDE DEF m
  <2> QED
    BY <1>1, <1>4
<1>6. flag' \/ Covered'
  BY <1>1, <1>2, <1>3, <1>5, CoverGoesOn DEF Covered
<1>7. \A u \in DOMAIN queue' : m <= g(u) + (2 * MaxStep - 2 + t)
  <2>1. \A u : g(u) = Target(queue[u])
    BY <1>2, TargetKept
  <2>2. t = 0 /\ queue' = queue
    BY <1>1, <1>2
  <2> HIDE DEF m, g, t
  <2>3. ASSUME NEW u \in DOMAIN queue
        PROVE  m <= g(u) + (2 * MaxStep - 2 + t)
    <3>1. cnt <= Target(queue[u]) + (MaxStep - 2) /\ Target(queue[u]) \in Nat
      BY <1>1, <1>3, QueueTargets, Bounds DEF Within
    <3> QED
      BY <1>1, <1>4, <1>5, <2>1, <2>2, <3>1
  <2> QED
    BY <2>2, <2>3
<1>8. Within(2 * MaxStep - 2 + late)'
  BY <1>7, Zenon DEF Within
<1>9. stie' /\ (pend' \/ (~flag' /\ Covered'))
  BY <1>2, <1>6
<1> QED
  BY <1>2, <1>8, <1>9 DEF Timely

\* Outside of the driver.
LEMMA StepWait ==
    ASSUME InTimeIf585, Informed, TimersInv, Idle \/ (Task /\ pc' = "thread")
    PROVE  Timely'
<1>1. /\ cnt \in Nat /\ MaxStep \in Nat \ {0} /\ MinStep \in Nat \ {0} /\ MinStep <= MaxStep
      /\ TypeInv /\ late \in Nat
      /\ flag \in BOOLEAN /\ pend \in BOOLEAN /\ stie \in BOOLEAN
      /\ pc = "thread" /\ pc' = "thread" /\ queue' = queue
  <2>1. MinStep \in Nat \ {0} /\ MinStep <= MaxStep
    BY TimeAssumption
  <2>2. pc = "thread" /\ pc' = "thread" /\ queue' = queue
    BY DEF Idle, driverVars, Task, StartTimer, CancelTimer, PollTimer, ReadHigh, ReadLow,
           ReadHighAgain, TimerEnds, ScheduleWake, Deciding, Unmasked
  <2>3. late \in Nat
    BY TimeAssumption DEF Informed, TypeInv, DriverTyped
  <2> QED
    BY <2>1, <2>2, <2>3, CounterIsNow DEF Informed, TypeInv, HwTyped
<1>2. \E d \in Nat : /\ d <= MaxStep /\ Elapse(d, cmp, flag, pend, stie) /\ chip' = chip
                     /\ late' = IF pend THEN late + d ELSE 0
  <2>1. CASE Idle
    <3>1. PICK d \in {1, MaxStep} : Elapse(d, cmp, flag, pend, stie) /\ chip' = chip
                                   /\ late' = IF pend THEN late + d ELSE 0
      BY <2>1 DEF Idle
    <3>2. d \in Nat /\ d <= MaxStep
      BY <1>1
    <3> QED
      BY <3>1, <3>2
  <2>2. CASE Task
    <3>1. OtherCode /\ ~pend /\ late' = late
      BY <2>2
         DEF Task, StartTimer, CancelTimer, PollTimer, ReadHigh, ReadLow,
             ReadHighAgain, TimerEnds, ScheduleWake, Deciding, Unmasked
    <3>2. late = 0
      BY <3>1 DEF TimersInv, LateIsPending
    <3>3. PICK d \in MinStep .. MaxStep : Elapse(d, cmp, flag, pend, stie) /\ chip' = chip
      BY <3>1 DEF OtherCode, Code
    <3>4. d \in Nat /\ d <= MaxStep
      BY <1>1
    <3>5. late' = IF pend THEN late + d ELSE 0
      BY <3>1, <3>2
    <3> QED
      BY <3>3, <3>4, <3>5, Zenon
  <2> QED
    BY <2>1, <2>2
<1>3. PICK d \in Nat : /\ d <= MaxStep /\ Elapse(d, cmp, flag, pend, stie) /\ chip' = chip
                       /\ late' = IF pend THEN late + d ELSE 0
  BY <1>2
<1>4. pend => late' = late + d
  BY <1>3
<1>5. ~pend => late' = 0
  BY <1>3
<1>6. d \in Nat /\ d <= MaxStep /\ Elapse(d, cmp, flag, pend, stie) /\ chip' = chip
  BY <1>3
<1>7. TypeInv /\ flag \in BOOLEAN /\ pend \in BOOLEAN /\ stie \in BOOLEAN
  BY <1>1
<1>8. /\ cnt' = cnt + d /\ cmp' = cmp /\ stie' = stie
      /\ pend => pend'
      /\ stie /\ flag' => pend'
      /\ \A n \in cnt + 1 .. cnt' : Matches(n, cmp) => flag'
  BY <1>6, <1>7, Passing
<1> SUFFICES ASSUME DOMAIN queue # {}
             PROVE  /\ stie'
                    /\ IF pend THEN Within(2 * MaxStep - 2 + late)' /\ pend'
                       ELSE /\ Within(2 * MaxStep - 2 + late)'
                            /\ pend' \/ (~flag' /\ Covered')
  BY <1>1, <1>8 DEF Timely
<1>9. /\ stie
      /\ IF pend THEN Within(2 * MaxStep - 2 + late) ELSE ~flag /\ Covered
  BY <1>1 DEF TimersInv, Timely
<1> DEFINE m == cnt'
           t == late'
           g(u) == Target(queue[u])'
<1>10. m = cnt + d /\ m \in Nat
  BY <1>1, <1>8
<1>11. \A u : g(u) = Target(queue[u])
  BY <1>1, <1>6, TargetKept
<1>12. ASSUME NEW u \in DOMAIN queue
      PROVE  Target(queue[u]) \in Nat
  BY <1>1, QueueTargets, Bounds
<1>13. CASE pend
  <2>1. t = late + d
    BY <1>4, <1>13
  <2>2. \A u \in DOMAIN queue : m <= g(u) + (2 * MaxStep - 2 + t)
    <3> HIDE DEF m, t, g
    <3> TAKE u \in DOMAIN queue
    <3>1. cnt <= Target(queue[u]) + (2 * MaxStep - 2 + late)
      BY <1>9, <1>13 DEF Within
    <3> QED
      BY <1>1, <1>6, <1>10, <1>11, <1>12, <2>1, <3>1
  <2>3. Within(2 * MaxStep - 2 + late)'
    BY <1>1, <2>2, Zenon DEF Within
  <2> QED
    BY <1>8, <1>9, <1>13, <2>3
<1>14. CASE ~pend
  <2>1. t = 0
    BY <1>5, <1>14
  <2>2. PICK a \in Nat : /\ cnt < a /\ Matches(a, cmp)
                        /\ \A u \in DOMAIN queue : a <= Target(queue[u])
    BY <1>9, <1>14 DEF Covered
  <2>3. \A u \in DOMAIN queue : m <= g(u) + (2 * MaxStep - 2 + t)
    <3> HIDE DEF m, t, g
    <3> TAKE u \in DOMAIN queue
    <3>1. a <= Target(queue[u])
      BY <2>2
    <3> QED
      BY <1>1, <1>6, <1>10, <1>11, <1>12, <2>1, <2>2, <3>1
  <2>4. Within(2 * MaxStep - 2 + late)'
    BY <1>1, <2>3, Zenon DEF Within
  <2>5. flag' \/ Covered'
    BY <1>1, <1>6, <1>8, <1>10, <2>2, CoverGoesOn
  <2>6. pend' \/ (~flag' /\ Covered')
    BY <1>8, <1>9, <2>5
  <2> QED
    BY <1>8, <1>9, <1>14, <2>4, <2>6
<1> QED
  BY <1>13, <1>14

\* However a step ends, the first deadline is covered when the driver leaves off.
LEMMA StepTimely ==
    InTimeIf585 /\ Informed /\ TimersInv /\ [Next]_vars => Timely'
<1> SUFFICES ASSUME InTimeIf585, Informed, TimersInv, [Next]_vars PROVE Timely'
  OBVIOUS
<1>1. CASE CheckAhead
  <2>1. cnt' \in 0 .. MaxU64 - 1
    <3>1. HwTyped'
      BY StepHw DEF Informed
    <3>2. Horizon \in 0 .. MaxU64 - 1 /\ MaxU64 \in Nat /\ cnt' \in 0 .. Horizon
      BY <3>1, Bounds DEF HwTyped
    <3> QED
      BY <3>2
  <2> QED
    BY <1>1, <2>1, StepCheck
<1>2. CASE SysTick \/ Expire \/ AlarmPassed \/ AlarmAhead \/ Compute \/ WriteHigh
           \/ WriteLow \/ Clear \/ CheckPassed
  <2>1. pc' \notin {"thread", "enable"}
    BY <1>2
       DEF SysTick, Expire, AlarmPassed, AlarmAhead, Compute, WriteHigh, WriteLow,
           Clear, CheckPassed
  <2> QED
    BY <2>1 DEF Timely
<1>3. CASE Task
  <2>1. pc' \in {"thread", "expire"}
    BY <1>3, TaskSteps
  <2>2. CASE pc' = "expire"
    BY <2>2 DEF Timely
  <2> QED
    BY <1>3, <2>1, <2>2, StepWait
<1>4. CASE Stop \/ UNCHANGED vars
  <2>1. UNCHANGED vars
    BY <1>4 DEF Stop
  <2> QED
    BY <2>1
       DEF vars, hwVars, driverVars, TimersInv, Timely, Within, Covered, Matches, Is585,
           Target, TicksToCounterCeil
<1> QED
  BY <1>1, <1>2, <1>3, <1>4, StepArmed, StepWait DEF Next, SetAlarm

\* A Timer is no later than the entry the queue has for it.
LEMMA OnTimeFollows == Informed /\ TimersInv => NoTimerLate
<1> SUFFICES ASSUME Informed, TimersInv, pc = "thread", NEW t \in DOMAIN timer,
                    t \notin woken, rd.task # t
             PROVE  cnt <= Target(timer[t]) + MaxLateness
  BY DEF NoTimerLate
<1>1. t \in DOMAIN queue /\ queue[t] <= timer[t]
  BY DEF TimersInv, TimersQueued
<1>2. TypeInv /\ timer[t] \in 0 .. MaxU64
  BY Bounds DEF Informed, TypeInv, TimersTyped
<1>3. /\ queue[t] \in 0 .. MaxU64 /\ Target(queue[t]) \in 0 .. MaxU64
      /\ Target(timer[t]) \in 0 .. MaxU64 /\ Target(queue[t]) <= Target(timer[t])
  BY <1>1, <1>2, QueueTargets, TargetTyped, TargetGrows
<1>4. /\ cnt \in Nat /\ late \in 0 .. MaxLatency /\ MaxLatency \in Nat /\ MaxU64 \in Nat
      /\ MaxStep \in Nat \ {0}
  BY <1>2, TimeAssumption, Bounds DEF TypeInv, HwTyped, DriverTyped
<1>5. CASE pend
  <2>1. cnt <= Target(queue[t]) + (2 * MaxStep - 2 + late)
    BY <1>1, <1>5 DEF TimersInv, Timely, Within
  <2> QED
    BY <1>3, <1>4, <2>1 DEF MaxLateness
<1>6. CASE ~pend
  <2>1. PICK a \in Nat : cnt < a /\ a <= Target(queue[t])
    BY <1>1, <1>6 DEF TimersInv, Timely, Covered
  <2> QED
    BY <1>3, <1>4, <2>1 DEF MaxLateness
<1> QED
  BY <1>5, <1>6

\* A driver that is in time forgets no Timer, and none is late by more than the
\* code and the wait for the handler take.
LEMMA TimersIfInTime == ASSUME InTimeIf585 PROVE Spec => []NoTimerLate
<1>1. Init => Informed /\ TimersInv
  BY InitInformed, InitTimers
<1>2. Informed /\ TimersInv /\ [Next]_vars => (Informed /\ TimersInv)'
  BY StepInformed, StepQueued, StepFirst, StepWords, StepTimely, StepLate
     DEF Informed, TimersInv
<1>3. Informed /\ TimersInv => NoTimerLate
  BY OnTimeFollows
<1> QED
  BY <1>1, <1>2, <1>3, PTL DEF Spec

\* On CH582 no assumption on timing is needed: no Timer ends early and none is
\* forgotten; outside of the driver, a task whose deadline is more than
\* MaxLateness counts ago has been woken, however deadlines, evictions, carries of
\* the counter and the arming of CMP fall.
THEOREM TimersAreOnTime == ASSUME OnlyCh582 PROVE Spec => []TimersOnTime
<1>1. Spec => []NoTimerLate
  BY TimersIfInTime DEF OnlyCh582, InTimeIf585
<1> QED
  BY <1>1, TimersAreNeverEarly, PTL DEF TimersOnTime

=============================================================================
