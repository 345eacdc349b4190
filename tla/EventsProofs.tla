---------------------------- MODULE EventsProofs ----------------------------
(***************************************************************************)
(* Proofs about Events, for counts, units and bounds of every size that    *)
(* EventsAssumption allows, whatever the programs schedule.                *)
(***************************************************************************)
EXTENDS Events, FiniteSetTheorems, TLAPS

Clocks == 0 .. Word * Word - 1
EventControl == [status : Units, time : 0 .. Word - 1] \cup {Inactive, ZeroDelay}

TypeInv ==
  /\ build \in Builds /\ clock \in Clocks /\ now \in Clocks
  /\ control \in [Events -> EventControl]
  /\ pc \in {"handlers", "asleep", "awake", "events"} /\ next \in Events
  /\ timer \in Nat /\ slept \in Units /\ lastTask \in 0 .. Word - 1
  /\ left \in [Events -> Int] /\ waited \in 0 .. WakeTimeout + 1 /\ gap \in 0 .. MaxGap
  /\ removed \in BOOLEAN

\* What is to come until the time of an event: in whole units, of which the
\* first is under way, and in milliseconds; below zero it is overdue.  Half a
\* count of units may be overdue, and the rest of the count ahead.
Remaining(v, t) ==
  LET x == Elapsed(Count(v.status, t), v.time) IN IF x < Word - Half THEN x ELSE x - Word
Ahead(v, t) == Ticks[v.status] * Remaining(v, t) - (t % Ticks[v.status])

\* What a minute that is counted exceeds one of af.h by, over a delay.
Slip(v) == IF v.status = "minute" THEN (MaxSleepUnits - 1) * Drift ELSE 0

\* The control of an event and what is left of the delay asked for agree, and
\* the time is near enough that MaxGap more does not turn ahead into overdue.
Kept(v, l, c) ==
  /\ v.status = "zero" => l <= 0
  /\ v.status \in Units =>
       /\ Ahead(v, c) <= Ticks[v.status] * (MaxSleepUnits - 1)
       /\ Ahead(v, c) + MaxGap + Ticks[v.status] <= Ticks[v.status] * (Word - Half)
       /\ -Slip(v) <= l - Ahead(v, c) /\ l - Ahead(v, c) <= Early[v.status]
       /\ v.status = "ms" => 2 * MaxGap <= Half

\* An event is late by no more than g, and one in minutes by what it may be.
InTime(v, l, c, g) ==
  v.status # "inactive" =>
    /\ l >= -(g + Slip(v))
    /\ v.status \in Units => Ahead(v, c) >= -(g + Ticks[v.status] - 1)

\* One in minutes that the host has slept past.
Overslept(v, c, g) ==
  v.status = "minute" /\ Ahead(v, c) >= -(g + Drift * MaxTimerUnits)

\* One that is yet to be looked at in the round under way.
Pending(v, c, g) ==
  v.status \in Units => \/ Ahead(v, c) >= -(g + MaxGap + Ticks[v.status] - 1)
                        \/ Overslept(v, c, g + MaxGap)

\* The time that is gone by since the clock was read for the table.
RoundInv == pc = "events" => \E g \in 0 .. gap : clock = (now + g) % (Word * Word)

AllKept == \A e \in Events : Kept(control[e], left[e], clock)

\* The NCP wakes a host before its next event, but for a sleep of minutes.
SleepInv ==
  pc = "asleep" =>
    \A e \in Events : Active(e) =>
      /\ control[e].status \in Units
      /\ IF slept = "minute"
         THEN /\ control[e].status = "minute"
              /\ Ahead(control[e], clock) >= timer - Drift * MaxTimerUnits
         ELSE Ahead(control[e], clock) >= timer

Reached(e) == \/ InTime(control[e], left[e], clock, gap)
              \/ slept = "minute" /\ Overslept(control[e], clock, gap)
LoopInv == pc \in {"handlers", "awake"} => \A e \in Events : Reached(e)

EventInv(e) == IF next <= e THEN Pending(control[e], clock, gap)
               ELSE InTime(control[e], left[e], clock, gap)
EventsInv == pc = "events" => \A e \in Events : EventInv(e)

\* From the common time on, a timed task is waited for; the time is that of
\* the last addition, or none when a task was removed since.
TaskInv == tasks \cap TimedTasks # {} =>
             IF removed THEN lastTask = 0
             ELSE waited <= WakeTimeout => Elapsed(lastTask, clock % Word) <= waited

-----------------------------------------------------------------------------
(* Division and counts that wrap.                                          *)

LEMMA Euclid ==
  ASSUME NEW a \in Int, NEW n \in Nat \ {0}
  PROVE  /\ a \div n \in Int /\ a % n \in 0 .. n - 1
         /\ a = n * (a \div n) + (a % n)
  OBVIOUS

LEMMA Multiple ==
  ASSUME NEW n \in Nat \ {0}, NEW x \in Int, x > 0
  PROVE  n * x >= n
  OBVIOUS

\* There is one quotient and one remainder.
LEMMA Unique ==
  ASSUME NEW n \in Nat \ {0}, NEW q \in Int, NEW r \in 0 .. n - 1,
         NEW p \in Int, NEW s \in 0 .. n - 1, n * q + r = n * p + s
  PROVE  q = p /\ r = s
<1>1. n * (q - p) = s - r
  OBVIOUS
<1>2. ~(q - p > 0)
  BY <1>1, Multiple
<1>3. n * (p - q) = r - s
  OBVIOUS
<1>4. ~(p - q > 0)
  BY <1>3, Multiple
<1>5. q = p
  BY <1>2, <1>4
<1> QED
  BY <1>5, <1>1

LEMMA Quotient ==
  ASSUME NEW n \in Nat \ {0}, NEW q \in Int, NEW r \in 0 .. n - 1, NEW a \in Int,
         a = n * q + r
  PROVE  a \div n = q /\ a % n = r
  BY Euclid, Unique

\* What is left of a whole number of wraps, and of a number less one.
LEMMA Wrap ==
  ASSUME NEW n \in Nat \ {0}, NEW a \in Int, NEW b \in Int, NEW k \in Int,
         a = b + n * k
  PROVE  a % n = b % n
<1>1. b \div n \in Int /\ b % n \in 0 .. n - 1 /\ b = n * (b \div n) + (b % n)
  BY Euclid
<1> DEFINE q == (b \div n) + k
<1>2. q \in Int /\ a = n * q + (b % n)
  BY <1>1
<1> HIDE DEF q
<1> QED
  BY <1>1, <1>2, Quotient

LEMMA Consts ==
  /\ Word \in Nat \ {0} /\ Word > 1 /\ Half \in Nat \ {0} /\ 2 * Half <= Word /\ Word <= 2 * Half + 1
  /\ Quarter \in Nat \ {0} /\ Word = Quarter * (Word \div Quarter)
  /\ Word \div Quarter \in Nat \ {0}
  BY EventsAssumption DEF EventsAssumption, Half

LEMMA TicksType ==
  ASSUME NEW u \in Units
  PROVE  Ticks[u] \in Nat \ {0} /\ AfTicks[u] \in Nat \ {0} /\ AfTicks[u] <= Ticks[u]
  BY EventsAssumption DEF EventsAssumption, Units, Ticks, AfTicks

\* The clock wraps when every count does.
LEMMA WrapsTogether ==
  ASSUME NEW u \in Units
  PROVE  \E m \in Nat : Word * Word = Ticks[u] * (m * Word)
<1>1. CASE u = "ms"
  BY <1>1, Consts DEF Ticks
<1>2. CASE u = "qs"
  <2>1. Word * Word = Quarter * ((Word \div Quarter) * Word)
    BY Consts
  <2> QED
    BY <1>2, <2>1, Consts DEF Ticks
<1>3. CASE u = "minute"
  <2>1. Word * Word = Word * (1 * Word)
    BY Consts
  <2> QED
    BY <1>3, <2>1, Consts DEF Ticks
<1> QED
  BY <1>1, <1>2, <1>3 DEF Units

\* What has elapsed, from a count or to one, is what has in whole units.
LEMMA ElapsedOf ==
  ASSUME NEW a \in Int, NEW q \in Int
  PROVE  Elapsed(q % Word, a) = (a - q) % Word /\ Elapsed(a, q % Word) = (q - a) % Word
<1> DEFINE c == q % Word
           k == q \div Word
<1>1. k \in Int /\ c \in Int /\ q = Word * k + c
  BY Euclid, Consts
<1> HIDE DEF c, k
<1>2. Word \in Nat \ {0}
  BY Consts
<1> DEFINE m == -k
<1>m. m \in Int
  BY <1>1
<1>3. a - c \in Int /\ a - q \in Int /\ a - c = (a - q) + Word * k
  BY <1>1, <1>2
<1>4. c - a \in Int /\ q - a \in Int /\ c - a = (q - a) + Word * m
  BY <1>1, <1>2
<1> HIDE DEF m
<1>5. (a - c) % Word = (a - q) % Word
  BY <1>1, <1>2, <1>3, Wrap
<1>6. (c - a) % Word = (q - a) % Word
  BY <1>2, <1>m, <1>4, Wrap
<1> QED
  BY <1>5, <1>6 DEF Elapsed, c

\* An active event that waits for a time, and a clock
Timed(v, t) == v \in [status : Units, time : 0 .. Word - 1] /\ t \in Nat

LEMMA CountType ==
  ASSUME NEW v, NEW t, Timed(v, t)
  PROVE  /\ Ticks[v.status] \in Nat \ {0} /\ v.time \in 0 .. Word - 1
         /\ t \div Ticks[v.status] \in Int /\ t % Ticks[v.status] \in 0 .. Ticks[v.status] - 1
         /\ t = Ticks[v.status] * (t \div Ticks[v.status]) + (t % Ticks[v.status])
         /\ Count(v.status, t) = (t \div Ticks[v.status]) % Word
<1>1. Ticks[v.status] \in Nat \ {0} /\ v.time \in 0 .. Word - 1
  BY TicksType DEF Timed
<1>2. t \in Nat
  BY DEF Timed
<1> DEFINE n == Ticks[v.status]
<1>3. n \in Nat \ {0} /\ t \in Int
  BY <1>1, <1>2
<1> HIDE DEF n
<1>4. t \div n \in Int /\ t % n \in 0 .. n - 1 /\ t = n * (t \div n) + (t % n)
  BY <1>3, Euclid
<1> QED
  BY <1>1, <1>4 DEF Count, n

\* The units that remain are those to the time, but for whole wraps,
LEMMA RemainingForm ==
  ASSUME NEW v, NEW t, Timed(v, t)
  PROVE  /\ Remaining(v, t) \in -Half .. Word - Half - 1
         /\ \E k \in Int : Remaining(v, t) = v.time + Word * k - (t \div Ticks[v.status])
<1> DEFINE q == t \div Ticks[v.status]
           x == (v.time - q) % Word
<1>1. v.time \in 0 .. Word - 1 /\ v.time \in Int /\ q \in Int
  BY CountType
<1>2. Elapsed(Count(v.status, t), v.time) = x
  <2>1. Count(v.status, t) = q % Word
    BY CountType
  <2> HIDE DEF q
  <2>2. Elapsed(q % Word, v.time) = (v.time - q) % Word
    BY <1>1, ElapsedOf
  <2> QED
    BY <2>1, <2>2
<1>3. Remaining(v, t) = IF x < Word - Half THEN x ELSE x - Word
  BY <1>2 DEF Remaining
<1> HIDE DEF q
<1>4. PICK j \in Int : v.time - q = Word * j + x /\ x \in 0 .. Word - 1
  <2>1. v.time - q \in Int
    BY <1>1
  <2> QED
    BY <2>1, Euclid, Consts
<1> HIDE DEF x
<1>5. Remaining(v, t) \in -Half .. Word - Half - 1
  BY <1>3, <1>4, Consts
<1>6. x = v.time + Word * (-j) - q /\ x - Word = v.time + Word * (-j - 1) - q
  BY <1>1, <1>4, Consts
<1>7. -j \in Int /\ -j - 1 \in Int
  OBVIOUS
<1>8. \E k \in Int : Remaining(v, t) = v.time + Word * k - q
  BY <1>3, <1>6, <1>7
<1> QED
  BY <1>5, <1>8 DEF q

\* and there is one such number in the range.
LEMMA RemainingIs ==
  ASSUME NEW v, NEW t, Timed(v, t), NEW k \in Int,
         NEW r \in -Half .. Word - Half - 1, r = v.time + Word * k - (t \div Ticks[v.status])
  PROVE  Remaining(v, t) = r
<1> DEFINE q == t \div Ticks[v.status]
<1>1. v.time \in Int /\ q \in Int
  BY CountType
<1>2. PICK j \in Int : Remaining(v, t) = v.time + Word * j - q
  BY RemainingForm
<1> DEFINE s == Remaining(v, t)
<1>3. s \in -Half .. Word - Half - 1
  BY RemainingForm
<1> HIDE DEF q, s
<1>4. r = v.time + Word * k - q /\ s = v.time + Word * j - q
  BY <1>2 DEF q, s
<1>5. s + Half \in 0 .. Word - 1 /\ r + Half \in 0 .. Word - 1
  BY <1>3, Consts
<1>6. Word * k + (s + Half) = Word * j + (r + Half)
  BY <1>1, <1>3, <1>4, Consts
<1>7. s + Half = r + Half
  <2>1. Word \in Nat \ {0}
    BY Consts
  <2> DEFINE s2 == s + Half
             r2 == r + Half
  <2>2. s2 \in 0 .. Word - 1 /\ r2 \in 0 .. Word - 1 /\ Word * k + s2 = Word * j + r2
    BY <1>5, <1>6
  <2> HIDE DEF s2, r2
  <2>3. r2 = s2
    BY <2>1, <2>2, Unique
  <2> QED
    BY <2>3 DEF s2, r2
<1> QED
  BY <1>3, <1>7, Consts DEF s

\* An event is due when nothing remains, which is when its time has come;
LEMMA DueIs ==
  ASSUME NEW v, NEW t, Timed(v, t)
  PROVE  Due(v, t) <=> Remaining(v, t) <= 0
<1> DEFINE q == t \div Ticks[v.status]
           r == Remaining(v, t)
<1>1. v.time \in 0 .. Word - 1 /\ v.time \in Int /\ q \in Int /\ Count(v.status, t) = q % Word
  BY CountType
<1>2. r \in -Half .. Word - Half - 1 /\ \E k \in Int : r = v.time + Word * k - q
  BY RemainingForm
<1>3. Due(v, t) <=> Elapsed(v.time, q % Word) <= Half
  BY <1>1 DEF Due, Timed, Units
<1> HIDE DEF q, r
<1>4. Elapsed(v.time, q % Word) = (q - v.time) % Word
  BY <1>1, ElapsedOf
<1>5. PICK k \in Int : r = v.time + Word * k - q
  BY <1>2
<1>6. /\ q - v.time \in Int /\ Word \in Nat \ {0} /\ r \in Int
      /\ q - v.time = Word * k + (-r) /\ q - v.time = Word * (k - 1) + (Word - r)
  BY <1>1, <1>2, <1>5, Consts
<1>7. CASE r <= 0
  <2>1. -r \in 0 .. Word - 1 /\ -r <= Half
    BY <1>2, <1>7, Consts
  <2>2. (q - v.time) % Word = -r
    BY <1>6, <2>1, Quotient
  <2> QED
    BY <1>3, <1>4, <1>7, <2>1, <2>2 DEF r
<1>8. CASE r > 0
  <2>1. Word - r \in 0 .. Word - 1 /\ ~(Word - r <= Half) /\ k - 1 \in Int
    BY <1>2, <1>8, Consts
  <2>2. (q - v.time) % Word = Word - r
    <3> DEFINE j == k - 1
               w == Word - r
               z == q - v.time
    <3>1. j \in Int /\ w \in 0 .. Word - 1 /\ z \in Int /\ z = Word * j + w
      BY <1>6, <2>1
    <3> HIDE DEF j, w, z
    <3>2. z % Word = w
      BY <1>6, <3>1, Quotient
    <3> QED
      BY <3>2 DEF w, z
  <2> QED
    BY <1>3, <1>4, <1>6, <1>8, <2>1, <2>2 DEF r
<1> QED
  BY <1>6, <1>7, <1>8

LEMMA AheadType ==
  ASSUME NEW v, NEW t, Timed(v, t)
  PROVE  /\ Ahead(v, t) \in Int /\ Remaining(v, t) \in Int /\ Ticks[v.status] \in Nat \ {0}
         /\ Ahead(v, t) = Ticks[v.status] * Remaining(v, t) - (t % Ticks[v.status])
         /\ Ahead(v, t) <= 0 <=> Remaining(v, t) <= 0
<1> DEFINE r == Remaining(v, t)
           p == t % Ticks[v.status]
           n == Ticks[v.status]
<1>1. r \in Int /\ n \in Nat \ {0} /\ p \in 0 .. n - 1 /\ Ahead(v, t) = n * r - p
  BY RemainingForm, CountType, Consts DEF Ahead
<1> HIDE DEF r, p, n
<1>2. r <= 0 => n * r - p <= 0
  BY <1>1
<1>3. r > 0 => n * r - p > 0
  BY <1>1, Multiple
<1>4. n * r - p \in Int
  BY <1>1
<1> QED
  BY <1>1, <1>2, <1>3, <1>4 DEF r, n, p

LEMMA DueAhead ==
  ASSUME NEW v, NEW t, Timed(v, t)
  PROVE  Due(v, t) <=> Ahead(v, t) <= 0
  BY DueIs, AheadType

\* until then, emberMsToNextEvent gives the milliseconds ahead.
LEMMA WaitIs ==
  ASSUME NEW v, Timed(v, clock)
  PROVE  WaitOf(v) = IF Ahead(v, clock) <= 0 THEN 0 ELSE Ahead(v, clock)
<1>1. CASE Ahead(v, clock) <= 0
  BY <1>1, DueAhead DEF WaitOf
<1>2. CASE ~(Ahead(v, clock) <= 0)
  <2> DEFINE x == Elapsed(Count(v.status, clock), v.time)
  <2>1. ~Due(v, clock) /\ ~(Remaining(v, clock) <= 0)
    BY <1>2, DueAhead, DueIs
  <2>2. x \in 0 .. Word - 1
    <3>1. Count(v.status, clock) \in Int /\ v.time \in Int
      BY CountType, Consts
    <3>2. v.time - Count(v.status, clock) \in Int
      BY <3>1
    <3> QED
      BY <3>2, Consts, Euclid DEF Elapsed
  <2>3. x = Remaining(v, clock)
    BY <2>1, <2>2, Consts DEF Remaining
  <2> QED
    BY <1>2, <2>1, <2>3 DEF WaitOf, Ahead
<1> QED
  BY <1>1, <1>2

LEMMA Cancel ==
  ASSUME NEW n \in Nat \ {0}, NEW a \in Int, NEW b \in Int, n * a < n * b
  PROVE  a < b
<1>1. SUFFICES ASSUME a - b >= 0  PROVE FALSE
  OBVIOUS
<1>2. n * (a - b) >= 0
  BY <1>1
<1> QED
  BY <1>2

\* The time of an event, counted from a clock, is so many units from zero.
LEMMA AheadForm ==
  ASSUME NEW v, NEW t, Timed(v, t)
  PROVE  \E z \in Int : /\ Ahead(v, t) = Ticks[v.status] * z - t
                        /\ \E k \in Int : z = v.time + Word * k
<1> DEFINE n == Ticks[v.status]
           q == t \div n
           p == t % n
           r == Remaining(v, t)
<1>1. n \in Nat \ {0} /\ q \in Int /\ p \in Int /\ t = n * q + p /\ v.time \in Int
  BY CountType
<1>2. PICK k \in Int : r = v.time + Word * k - q
  BY RemainingForm
<1>3. r \in Int /\ Ahead(v, t) = n * r - p
  BY AheadType
<1> HIDE DEF n, q, p, r
<1> DEFINE z == v.time + Word * k
<1>4. z \in Int /\ r = z - q
  BY <1>1, <1>2, Consts
<1>5. z = v.time + Word * k
  OBVIOUS
<1> HIDE DEF z
<1>6. n * r - p = n * z - t
  BY <1>1, <1>4
<1> QED
  BY <1>3, <1>4, <1>5, <1>6 DEF n

\* What is ahead is what is in its range and stands for the time of the event.
LEMMA AheadIs ==
  ASSUME NEW v, NEW t, Timed(v, t), NEW z \in Int, NEW k \in Int, z = v.time + Word * k,
         -Half <= z - (t \div Ticks[v.status]), z - (t \div Ticks[v.status]) < Word - Half
  PROVE  Ahead(v, t) = Ticks[v.status] * z - t
<1> DEFINE n == Ticks[v.status]
           q == t \div n
           p == t % n
           r == Remaining(v, t)
<1>1. n \in Nat \ {0} /\ q \in Int /\ p \in Int /\ t = n * q + p /\ v.time \in Int
  BY CountType
<1>2. r = z - q
  <2>1. z - q \in -Half .. Word - Half - 1 /\ z - q = v.time + Word * k - q
    BY <1>1, Consts
  <2> QED
    BY <2>1, RemainingIs
<1>3. Ahead(v, t) = n * r - p
  BY AheadType
<1> HIDE DEF n, q, p, r
<1>4. n * (z - q) - p = n * z - t
  BY <1>1
<1> QED
  BY <1>2, <1>3, <1>4 DEF n

\* A later clock is later by whole wraps of every count less.
LEMMA LaterForm ==
  ASSUME NEW n \in Units, NEW t \in Nat, NEW g \in Nat, NEW u \in Nat,
         u = (t + g) % (Word * Word)
  PROVE  \E j \in Int : t + g = Ticks[n] * (Word * j) + u
<1> DEFINE w == Word * Word
           x == t + g
           d == Ticks[n]
<1>1. PICK m \in Nat : w = d * (m * Word)
  BY WrapsTogether
<1>2. w \in Nat \ {0} /\ d \in Nat /\ x \in Int
  BY Consts, TicksType
<1>3. x = w * (x \div w) + u /\ x \div w \in Int
  <2> HIDE DEF w, x
  <2> QED
    BY <1>2, Euclid DEF w, x
<1> HIDE DEF w, d
<1> DEFINE q == x \div w
           j == m * q
<1>4. x = d * (m * Word) * q + u /\ q \in Int
  BY <1>1, <1>3
<1> HIDE DEF x, q
<1>5. j \in Int /\ d * (m * Word) * q = d * (Word * j)
  BY <1>2, <1>4, Consts
<1> HIDE DEF j
<1>6. x = d * (Word * j) + u
  BY <1>4, <1>5
<1> QED
  BY <1>5, <1>6 DEF d, x

\* As time goes by, the time of an event comes nearer, or is longer ago.
LEMMA Shifted ==
  ASSUME NEW v, NEW t, NEW u, NEW g \in Nat, NEW j \in Int, Timed(v, t), Timed(v, u),
         t + g = Ticks[v.status] * (Word * j) + u,
         \/ Ahead(v, t) - g >= -(Ticks[v.status] * Half)
         \/ Ahead(v, u) + g + Ticks[v.status] <= Ticks[v.status] * (Word - Half)
  PROVE  Ahead(v, u) = Ahead(v, t) - g
<1> DEFINE n == Ticks[v.status]
           qt == t \div n
           pt == t % n
           qu == u \div n
           pu == u % n
           rt == Remaining(v, t)
           ru == Remaining(v, u)
<1>1. /\ n \in Nat \ {0} /\ v.time \in Int /\ t \in Nat /\ u \in Nat
      /\ qt \in Int /\ pt \in 0 .. n - 1 /\ t = n * qt + pt
      /\ qu \in Int /\ pu \in 0 .. n - 1 /\ u = n * qu + pu
  <2>1. t \in Nat /\ u \in Nat
    BY DEF Timed
  <2>2. n \in Nat \ {0} /\ v.time \in Int /\ qt \in Int /\ pt \in 0 .. n - 1 /\ t = n * qt + pt
    BY CountType
  <2>3. qu \in Int /\ pu \in 0 .. n - 1 /\ u = n * qu + pu
    BY CountType
  <2> QED
    BY <2>1, <2>2, <2>3
<1>2. /\ rt \in -Half .. Word - Half - 1 /\ Ahead(v, t) = n * rt - pt
      /\ ru \in -Half .. Word - Half - 1 /\ Ahead(v, u) = n * ru - pu
  BY AheadType, RemainingForm
<1>3. t + g = n * (Word * j) + u
  OBVIOUS
<1>4. PICK zt \in Int : Ahead(v, t) = n * zt - t /\ \E k \in Int : zt = v.time + Word * k
  BY AheadForm
<1>5. PICK zu \in Int : Ahead(v, u) = n * zu - u /\ \E k \in Int : zu = v.time + Word * k
  BY AheadForm
<1> DEFINE At == Ahead(v, t)
           Au == Ahead(v, u)
<1>6. /\ At = n * rt - pt /\ At = n * zt - t
      /\ Au = n * ru - pu /\ Au = n * zu - u
  BY <1>2, <1>4, <1>5
<1>7. At - g >= -(n * Half) \/ Au + g + n <= n * (Word - Half)
  OBVIOUS
<1> HIDE DEF n, qt, pt, qu, pu, rt, ru, At, Au
<1>8. At \in Int /\ Au \in Int
  BY <1>1, <1>6
<1>9. CASE At - g >= -(n * Half)
  <2> DEFINE z == zt - Word * j
             r == z - qu
  <2>1. z \in Int /\ r \in Int
    BY <1>1, Consts
  <2>2. n * z = n * zt - n * (Word * j)
    BY <1>1, Consts
  <2>3. n * z - u = At - g
    <3> DEFINE a == n * z
               b == n * zt
               c == n * (Word * j)
    <3>1. a \in Int /\ b \in Int /\ c \in Int /\ a = b - c
      BY <1>1, <2>1, <2>2, Consts
    <3>2. At = b - t /\ t + g = c + u
      BY <1>3, <1>6
    <3> HIDE DEF a, b, c
    <3>3. a - u = At - g
      BY <1>1, <1>8, <3>1, <3>2
    <3> QED
      BY <3>3 DEF a
  <2>4. n * r = n * z - n * qu
    BY <1>1, <2>1
  <2>5. n * r = At - g + pu
    BY <1>1, <1>8, <2>1, <2>3, <2>4
  <2>6. n * (-Half - 1) < n * r
    BY <1>1, <1>8, <1>9, <2>5, Consts
  <2>7. n * r < n * (rt + 1)
    BY <1>1, <1>2, <1>6, <1>8, <2>5
  <2>8. -Half <= r /\ r < Word - Half
    <3>1. -Half - 1 < r
      BY <1>1, <2>1, <2>6, Cancel, Consts
    <3>2. r < rt + 1
      BY <1>1, <1>2, <2>1, <2>7, Cancel
    <3> QED
      BY <1>2, <2>1, <3>1, <3>2, Consts
  <2>9. \E k \in Int : z = v.time + Word * k
    <3>1. PICK k \in Int : zt = v.time + Word * k
      BY <1>4
    <3>2. z = v.time + Word * (k - j) /\ k - j \in Int
      BY <1>1, <3>1, Consts
    <3> QED
      BY <3>2
  <2> HIDE DEF z
  <2>10. Au = n * z - u
    <3>1. -Half <= z - (u \div Ticks[v.status]) /\ z - (u \div Ticks[v.status]) < Word - Half
      BY <2>8 DEF qu, n
    <3> QED
      BY <2>1, <2>9, <3>1, AheadIs DEF n, Au
  <2> QED
    BY <2>3, <2>10 DEF At, Au
<1>10. CASE Au + g + n <= n * (Word - Half)
  <2> DEFINE z == zu + Word * j
             r == z - qt
  <2>1. z \in Int /\ r \in Int
    BY <1>1, Consts
  <2>2. n * z = n * zu + n * (Word * j)
    BY <1>1, Consts
  <2>3. n * z - t = Au + g
    <3> DEFINE a == n * z
               b == n * zu
               c == n * (Word * j)
    <3>1. a \in Int /\ b \in Int /\ c \in Int /\ a = b + c
      BY <1>1, <2>1, <2>2, Consts
    <3>2. Au = b - u /\ t + g = c + u
      BY <1>3, <1>6
    <3> HIDE DEF a, b, c
    <3>3. a - t = Au + g
      BY <1>1, <1>8, <3>1, <3>2
    <3> QED
      BY <3>3 DEF a
  <2>4. n * r = n * z - n * qt
    BY <1>1, <2>1
  <2>5. n * r = Au + g + pt
    BY <1>1, <1>8, <2>1, <2>3, <2>4
  <2>6. n * r < n * (Word - Half)
    BY <1>1, <1>8, <1>10, <2>5, Consts
  <2>7. n * (ru - 1) < n * r
    BY <1>1, <1>2, <1>6, <1>8, <2>5
  <2>8. -Half <= r /\ r < Word - Half
    <3>1. r < Word - Half
      BY <1>1, <2>1, <2>6, Cancel, Consts
    <3>2. ru - 1 < r
      BY <1>1, <1>2, <2>1, <2>7, Cancel
    <3> QED
      BY <1>2, <2>1, <3>1, <3>2, Consts
  <2>9. \E k \in Int : z = v.time + Word * k
    <3>1. PICK k \in Int : zu = v.time + Word * k
      BY <1>5
    <3>2. z = v.time + Word * (k + j) /\ k + j \in Int
      BY <1>1, <3>1, Consts
    <3> QED
      BY <3>2
  <2> HIDE DEF z
  <2>10. At = n * z - t
    <3>1. -Half <= z - (t \div Ticks[v.status]) /\ z - (t \div Ticks[v.status]) < Word - Half
      BY <2>8 DEF qt, n
    <3> QED
      BY <2>1, <2>9, <3>1, AheadIs DEF n, At
  <2> QED
    BY <1>8, <2>3, <2>10 DEF At, Au
<1> QED
  BY <1>7, <1>9, <1>10

LEMMA Nearer ==
  ASSUME NEW v, NEW t, NEW u, NEW g \in Nat, Timed(v, t), Timed(v, u),
         u = (t + g) % (Word * Word),
         \/ Ahead(v, t) - g >= -(Ticks[v.status] * Half)
         \/ Ahead(v, u) + g + Ticks[v.status] <= Ticks[v.status] * (Word - Half)
  PROVE  Ahead(v, u) = Ahead(v, t) - g
<1>1. v.status \in Units /\ t \in Nat /\ u \in Nat
  BY DEF Timed
<1>2. PICK j \in Int : t + g = Ticks[v.status] * (Word * j) + u
  BY <1>1, LaterForm
<1> QED
  BY <1>2, Shifted

-----------------------------------------------------------------------------
(* What a program schedules.                                               *)

\* The constants, as far as the bounds on an event need them
LEMMA Bounds ==
  /\ MaxSleepUnits \in Nat \ {0} /\ MaxSleepUnits <= Half /\ MaxGap \in Nat
  /\ MaxTimerUnits \in Nat /\ MaxTimerUnits <= Half - 1 /\ MaxSleepUnits <= MaxTimerUnits + 1
  /\ MinuteTicks \in Nat \ {0} /\ Quarter <= MinuteTicks /\ MinuteTicks <= Word
  /\ Drift \in Nat /\ Drift = Word - MinuteTicks
  /\ MaxGap <= Quarter * (Half - MaxSleepUnits) /\ 2 * MaxGap + Quarter <= Quarter * Half
  BY EventsAssumption DEF EventsAssumption, Half, Drift

LEMMA Larger ==
  ASSUME NEW a \in Nat, NEW b \in Nat, a <= b, NEW x \in Nat
  PROVE  a * x <= b * x
<1>1. (b - a) * x >= 0
  OBVIOUS
<1> QED
  BY <1>1

LEMMA FreshAhead ==
  ASSUME NEW u \in Units, NEW d \in Nat, d < MaxSleepUnits, NEW t \in Nat
  PROVE  LET v == [status |-> u, time |-> (Count(u, t) + d) % Word] IN
           /\ v \in [status : Units, time : 0 .. Word - 1]
           /\ Ahead(v, t) = Ticks[u] * d - (t % Ticks[u])
<1> DEFINE n == Ticks[u]
           q == t \div n
           c == q % Word
           time == (c + d) % Word
           v == [status |-> u, time |-> time]
<1>1. n \in Nat \ {0} /\ Word \in Nat \ {0} /\ t \in Int
  BY TicksType, Consts
<1>2. q \in Int /\ t % n \in Int /\ t = n * q + (t % n)
  <2> HIDE DEF n
  <2> QED
    BY <1>1, Euclid
<1>3. c \in 0 .. Word - 1 /\ q \div Word \in Int /\ q = Word * (q \div Word) + c
  <2> HIDE DEF q
  <2> QED
    BY <1>1, <1>2, Euclid
<1> HIDE DEF c
<1>4. time \in 0 .. Word - 1 /\ (c + d) \div Word \in Int /\ c + d = Word * ((c + d) \div Word) + time
  <2>1. c + d \in Int
    BY <1>3
  <2> QED
    BY <1>1, <2>1, Euclid
<1>5. v \in [status : Units, time : 0 .. Word - 1] /\ v.status = u /\ v.time = time
  BY <1>4
<1> DEFINE z == q + d
           x == q \div Word
           y == (c + d) \div Word
<1>6. Timed(v, t)
  BY <1>5 DEF Timed
<1>7. z \in Int /\ x + y \in Int /\ z = time + Word * (x + y)
  <2>1. x \in Int /\ y \in Int /\ time \in Int /\ q = Word * x + c /\ c + d = Word * y + time
    BY <1>3, <1>4
  <2> HIDE DEF x, y, time, q
  <2> QED
    BY <1>1, <1>2, <1>3, <2>1
<1>8. -Half <= z - q /\ z - q < Word - Half
  BY <1>2, Bounds, Consts
<1> HIDE DEF v, time, x, y
<1>9. Ahead(v, t) = n * z - t
  <2>1. z = v.time + Word * (x + y)
    BY <1>5, <1>7
  <2>2. -Half <= z - (t \div Ticks[v.status]) /\ z - (t \div Ticks[v.status]) < Word - Half
    BY <1>5, <1>8
  <2> HIDE DEF z, q
  <2> QED
    BY <1>5, <1>6, <1>7, <2>1, <2>2, AheadIs
<1> HIDE DEF n, q
<1>10. n * z - t = n * d - (t % n)
  <2> DEFINE r == t % n
  <2>1. r \in Int /\ t = n * q + r
    BY <1>2
  <2> HIDE DEF r
  <2>2. n * (q + d) = n * q + n * d
    BY <1>1, <1>2
  <2>3. n * d \in Int /\ n * q \in Int
    BY <1>1, <1>2
  <2>4. n * (q + d) - t = n * d - r
    BY <1>1, <2>1, <2>2, <2>3
  <2> QED
    BY <2>4 DEF r
<1> QED
  BY <1>5, <1>9, <1>10 DEF n, v, time, c, q, Count

\* The event that a delay is asked for: its time is near enough, and no more
\* of the delay is lost than what is cut off of it.
LEMMA FreshKept ==
  ASSUME build \in Builds, clock \in Clocks,
         NEW ms \in Delays[build], Fits(DelayUnit(ms), ms)
  PROVE  LET v == SetDelay(ms) IN
           /\ v \in [status : Units, time : 0 .. Word - 1]
           /\ Kept(v, ms, clock) /\ Ahead(v, clock) >= -(Ticks[v.status] - 1)
<1> DEFINE u == DelayUnit(ms)
           n == Ticks[u]
           a == AfTicks[u]
           d == ms \div a
           v == SetDelay(ms)
           p == clock % n
           A == Ahead(v, clock)
<1>1. ms \in Nat /\ clock \in Nat
  BY EventsAssumption, Consts DEF EventsAssumption, Clocks
<1>2. u \in Units
  BY DEF DelayUnit, Units
<1>3. n \in Nat \ {0} /\ a \in Nat \ {0}
  BY <1>2, TicksType
<1> HIDE DEF n, a
<1>4. d \in Int /\ ms % a \in 0 .. a - 1 /\ ms = a * d + (ms % a)
  <2>1. ms \in Int
    BY <1>1
  <2>2. ms \div a \in Int /\ ms % a \in 0 .. a - 1 /\ ms = a * (ms \div a) + (ms % a)
    BY <1>3, <2>1, Euclid
  <2> QED
    BY <2>2
<1>5. p \in 0 .. n - 1
  BY <1>1, <1>3, Euclid
<1>6. d < MaxSleepUnits
  BY DEF Fits, a
<1>7. d \in Nat
  <2>1. a * (-1) < a * d
    BY <1>1, <1>3, <1>4
  <2> QED
    BY <1>3, <1>4, <2>1, Cancel
<1>8. v = [status |-> u, time |-> (Count(u, clock) + d) % Word]
  BY DEF SetDelay, a
<1> HIDE DEF d, u
<1>9. v \in [status : Units, time : 0 .. Word - 1] /\ v.status = u /\ A = n * d - p
  BY <1>1, <1>2, <1>6, <1>7, <1>8, FreshAhead DEF n
<1> HIDE DEF v, p, A
<1>10. n * d <= n * (MaxSleepUnits - 1)
  BY <1>3, <1>6, <1>7, Bounds
<1>11. A \in Int /\ A <= n * (MaxSleepUnits - 1) /\ A >= -(n - 1)
  BY <1>3, <1>5, <1>7, <1>9, <1>10, Bounds
<1>12. ms - A = (a - n) * d + (ms % a) + p
  BY <1>1, <1>3, <1>4, <1>5, <1>7, <1>9
<1>13. CASE u = "ms"
  <2>1. n = 1 /\ a = 1 /\ p = 0 /\ ms % a = 0 /\ A = ms /\ d = ms
    <3>1. n = 1 /\ a = 1
      BY <1>13 DEF n, a, Ticks, AfTicks
    <3> QED
      BY <1>1, <1>4, <1>5, <1>7, <1>9, <3>1
  <2>2. ms < MaxSleepUnits
    BY <1>6, <2>1
  <2>3. ms + MaxGap < Half /\ 2 * MaxGap <= Half
    BY <2>2, EventsAssumption DEF EventsAssumption
  <2>4. A + MaxGap + n <= n * (Word - Half)
    BY <1>1, <2>1, <2>3, Consts, Bounds
  <2>5. Slip(v) = 0 /\ Early[v.status] = 0
    BY <1>9, <1>13 DEF Slip, Early
  <2> QED
    BY <1>1, <1>9, <1>11, <1>13, <2>1, <2>3, <2>4, <2>5 DEF Kept, n, v, A
<1>14. CASE u = "qs"
  <2>1. n = Quarter /\ a = Quarter
    BY <1>14 DEF n, a, Ticks, AfTicks
  <2>2. A + MaxGap + n <= n * (Word - Half)
    <3>1. n * (MaxSleepUnits - 1) + n * (Half - MaxSleepUnits) + n = n * Half
      BY <1>3, Bounds, Consts
    <3>2. n * Half <= n * (Word - Half)
      BY <1>3, Consts
    <3>3. MaxGap <= n * (Half - MaxSleepUnits)
      BY <2>1, Bounds
    <3> QED
      BY <1>3, <1>11, <3>1, <3>2, <3>3, Bounds, Consts
  <2>3. Slip(v) = 0 /\ Early[v.status] = 2 * (Quarter - 1)
    BY <1>9, <1>14 DEF Slip, Early
  <2>4. 0 <= ms - A /\ ms - A <= 2 * (Quarter - 1)
    BY <1>4, <1>5, <1>7, <1>12, <2>1, Consts
  <2> QED
    BY <1>9, <1>11, <1>14, <2>2, <2>3, <2>4 DEF Kept, n, v, A
<1>15. CASE u = "minute"
  <2>1. n = Word /\ a = MinuteTicks
    BY <1>15 DEF n, a, Ticks, AfTicks
  <2>2. A + MaxGap + n <= n * (Word - Half)
    <3>1. n * (MaxSleepUnits - 1) + n * (Half - MaxSleepUnits) + n = n * Half
      BY <1>3, Bounds, Consts
    <3>2. n * Half <= n * (Word - Half)
      BY <1>3, Consts
    <3>3. Quarter * (Half - MaxSleepUnits) <= n * (Half - MaxSleepUnits)
      <4>1. Quarter \in Nat /\ n \in Nat /\ Quarter <= n /\ Half - MaxSleepUnits \in Nat
        BY <2>1, Consts, Bounds
      <4> QED
        BY <4>1, Larger
    <3>4. MaxGap <= n * (Half - MaxSleepUnits)
      BY <1>3, <3>3, Bounds, Consts
    <3> QED
      BY <1>3, <1>11, <3>1, <3>2, <3>4, Bounds, Consts
  <2>3. Slip(v) = (MaxSleepUnits - 1) * Drift /\ Early[v.status] = MinuteTicks + Word - 2
    BY <1>9, <1>15 DEF Slip, Early
  <2>4. ms - A <= MinuteTicks + Word - 2 /\ ms - A >= -((MaxSleepUnits - 1) * Drift)
    <3>1. ms - A = (ms % a) + p - (d * Drift)
      BY <1>4, <1>5, <1>7, <1>12, <2>1, Consts, Bounds
    <3>2. d * Drift <= (MaxSleepUnits - 1) * Drift /\ d * Drift >= 0
      BY <1>6, <1>7, Bounds, Larger
    <3> QED
      BY <1>4, <1>5, <1>7, <2>1, <3>1, <3>2, Bounds, Consts
  <2> QED
    BY <1>9, <1>11, <1>15, <2>2, <2>3, <2>4 DEF Kept, n, v, A
<1> QED
  BY <1>2, <1>9, <1>11, <1>13, <1>14, <1>15 DEF Units, n, v, A

\* An event that is scheduled or stopped, seen at once
New(x) == /\ Kept(control'[x], left'[x], clock)
          /\ \A g \in Nat : InTime(control'[x], left'[x], clock, g)
Same(x) == control'[x] = control[x] /\ left'[x] = left[x]

Stops(from) == /\ from \in [Events -> EventControl]
               /\ \A x \in Events : from[x] = control[x] \/ from[x] = Inactive

LEMMA InactiveNew ==
  ASSUME NEW x, control'[x] = Inactive
  PROVE  New(x)
<1>1. Inactive.status \notin Units \cup {"zero"} /\ Inactive.status = "inactive"
  BY DEF Inactive, Units
<1> QED
  BY <1>1 DEF New, Kept, InTime

\* What is asked of an event, when it is accepted
LEMMA AcceptedKept ==
  ASSUME TypeInv, NEW a \in Accepted
  PROVE  /\ a.event \in EventControl /\ a.delay \in Nat /\ Kept(a.event, a.delay, clock)
         /\ \A g \in Nat : InTime(a.event, a.delay, clock, g)
<1> DEFINE v == a.event
           ms == a.delay
<1>1. ms \in Delays[build] /\ ms \in Nat /\ build \in Builds /\ clock \in Clocks
  BY EventsAssumption DEF EventsAssumption, TypeInv, Accepted
<1>2. CASE a \in [delay : {0}, event : {ZeroDelay}]
  <2>1. v = ZeroDelay /\ v.status = "zero" /\ v.status \notin Units /\ ms = 0
    BY <1>2 DEF ZeroDelay, Units
  <2>2. Slip(v) = 0
    BY <2>1 DEF Slip
  <2> QED
    BY <2>1, <2>2 DEF Kept, InTime, EventControl
<1>3. CASE \E m \in {0} \cup Delays[build] : a = [delay |-> m, event |-> SetDelay(m)]
  <2>1. v = SetDelay(ms)
    BY <1>3
  <2>2. SetDelay(ms).status \in Units /\ ZeroDelay.status \notin Units
    BY DEF SetDelay, DelayUnit, ZeroDelay, Units
  <2>3. Fits(DelayUnit(ms), ms)
    BY <2>1, <2>2 DEF Accepted
  <2>4. /\ v \in [status : Units, time : 0 .. Word - 1] /\ Kept(v, ms, clock)
        /\ Ahead(v, clock) >= -(Ticks[v.status] - 1)
    BY <1>1, <2>1, <2>3, FreshKept
  <2>5. Timed(v, clock)
    BY <1>1, <2>4, Consts DEF Timed, Clocks
  <2> HIDE DEF v, ms
  <2>6. Slip(v) \in Nat
    BY Bounds DEF Slip
  <2>7. Ticks[v.status] \in Nat /\ Ahead(v, clock) \in Int
    BY <2>5, AheadType
  <2>8. ASSUME NEW g \in Nat  PROVE InTime(v, ms, clock, g)
    BY <1>1, <2>4, <2>6, <2>7 DEF InTime
  <2> QED
    BY <1>1, <2>4, <2>8 DEF EventControl, v, ms
<1> QED
  BY <1>2, <1>3 DEF Accepted, Asked

\* Handlers schedule any events and leave the others as they are in `from'.
LEMMA Scheduled ==
  ASSUME TypeInv, NEW from, Stops(from), NEW S \in SUBSET Events,
         NEW asked \in [S -> Accepted], Schedule(asked, from)
  PROVE  /\ control' \in [Events -> EventControl] /\ left' \in [Events -> Int]
         /\ \A x \in Events : New(x) \/ (Same(x) /\ from[x] = control[x])
         /\ \A x \in Events : from[x] = Inactive => New(x)
<1>1. DOMAIN asked = S /\ \A x \in S : asked[x] \in Accepted
  OBVIOUS
<1>2. control' = [x \in Events |-> IF x \in S THEN asked[x].event ELSE from[x]]
  BY <1>1 DEF Schedule
<1>3. left' = [x \in Events |-> IF x \in S THEN asked[x].delay
                               ELSE IF from[x] = Inactive THEN 0 ELSE left[x]]
  BY <1>1 DEF Schedule
<1>4. ASSUME NEW x \in S  PROVE New(x) /\ control'[x] \in EventControl /\ left'[x] \in Int
  <2> DEFINE a == asked[x]
  <2>1. a \in Accepted
    BY <1>1, <1>4
  <2>2. control'[x] = a.event /\ left'[x] = a.delay
    BY <1>2, <1>3, <1>4
  <2> HIDE DEF a
  <2> QED
    BY <2>1, <2>2, AcceptedKept DEF New
<1>5. ASSUME NEW x \in Events, x \notin S
      PROVE  control'[x] = from[x] /\ left'[x] = IF from[x] = Inactive THEN 0 ELSE left[x]
  BY <1>2, <1>3, <1>5
<1>6. ASSUME NEW x \in Events, x \notin S, from[x] = Inactive  PROVE New(x)
  BY <1>5, <1>6, InactiveNew
<1>7. ASSUME NEW x \in Events, x \notin S, from[x] # Inactive
      PROVE  Same(x) /\ from[x] = control[x]
  BY <1>5, <1>7 DEF Same, Stops
<1>8. ASSUME NEW x \in Events  PROVE control'[x] \in EventControl /\ left'[x] \in Int
  <2>1. CASE x \in S
    BY <1>4, <2>1
  <2>2. CASE x \notin S
    BY <1>5, <2>2 DEF Stops, TypeInv
  <2> QED
    BY <2>1, <2>2
<1>9. control' \in [Events -> EventControl] /\ left' \in [Events -> Int]
  BY <1>2, <1>3, <1>8
<1> QED
  BY <1>4, <1>6, <1>7, <1>9

LEMMA StoppedStops ==
  ASSUME TypeInv, NEW S
  PROVE  Stops(Stopped(S)) /\ \A x \in Events \cap S : Stopped(S)[x] = Inactive
  BY DEF Stops, Stopped, TypeInv, EventControl

LEMMA HandlerLeaves ==
  ASSUME TypeInv, HandlerSchedules
  PROVE  /\ control' \in [Events -> EventControl] /\ left' \in [Events -> Int]
         /\ \A x \in Events : New(x) \/ Same(x)
<1>1. PICK e \in Events :
        \/ \E asked \in [{e} -> Accepted] : Schedule(asked, control)
        \/ \E none \in [{} -> Accepted] : Schedule(none, Stopped({e}))
  BY DEF HandlerSchedules
<1>2. Stops(control) /\ Stops(Stopped({e}))
  BY StoppedStops DEF Stops, TypeInv
<1>3. {e} \in SUBSET Events /\ {} \in SUBSET Events
  BY <1>1
<1> QED
  BY <1>1, <1>2, <1>3, Scheduled

LEMMA RunLeaves ==
  ASSUME TypeInv, RunEvent
  PROVE  /\ control' \in [Events -> EventControl] /\ left' \in [Events -> Int]
         /\ New(next) /\ \A x \in Events : New(x) \/ Same(x)
<1>1. PICK others \in SUBSET Events, stopped \in SUBSET Events :
           \E asked \in [others -> Accepted] : Schedule(asked, Stopped(stopped \cup {next}))
  BY DEF RunEvent
<1>2. Stops(Stopped(stopped \cup {next})) /\ Stopped(stopped \cup {next})[next] = Inactive
  BY StoppedStops DEF TypeInv
<1> QED
  BY <1>1, <1>2, Scheduled DEF TypeInv

-----------------------------------------------------------------------------
(* A millisecond.                                                          *)

LEMMA ClockLater ==
  ASSUME NEW c \in Clocks
  PROVE  (c + 1) % (Word * Word) \in Clocks
<1> DEFINE w == Word * Word
<1>1. w \in Nat \ {0}
  BY Consts
<1> HIDE DEF w
<1>2. c + 1 \in Int
  BY Consts DEF Clocks
<1>3. (c + 1) % w \in 0 .. w - 1
  BY <1>1, <1>2, Euclid
<1> QED
  BY <1>3 DEF w, Clocks

\* What is yet to be looked at is not so long overdue that it would seem ahead.
LEMMA InRange ==
  ASSUME NEW v, NEW l, NEW c, Timed(v, c), Kept(v, l, c), NEW g \in Nat, g < MaxGap,
         Pending(v, c, g)
  PROVE  Ahead(v, c) - 1 >= -(Ticks[v.status] * Half)
<1> DEFINE A == Ahead(v, c)
<1>1. A \in Int /\ v.status \in Units
  BY AheadType DEF Timed
<1> HIDE DEF A
<1>2. \/ A >= -(g + MaxGap + Ticks[v.status] - 1)
      \/ v.status = "minute" /\ A >= -(g + MaxGap + Drift * MaxTimerUnits)
  BY <1>1 DEF Pending, Overslept, A
<1>3. v.status = "ms" => 2 * MaxGap <= Half
  BY <1>1 DEF Kept
<1>4. g + MaxGap <= 2 * MaxGap - 1
  BY Bounds
<1>5. CASE v.status = "ms"
  <2>1. Ticks[v.status] = 1
    BY <1>5 DEF Ticks
  <2> QED
    BY <1>1, <1>2, <1>3, <1>4, <1>5, <2>1, Bounds, Consts DEF A
<1>6. CASE v.status = "qs"
  <2>1. Ticks[v.status] = Quarter
    BY <1>6 DEF Ticks
  <2>2. A >= -(g + MaxGap + Quarter - 1)
    BY <1>2, <1>6, <2>1
  <2> QED
    BY <1>1, <1>4, <2>1, <2>2, Bounds, Consts DEF A
<1>7. CASE v.status = "minute"
  <2>1. Ticks[v.status] = Word
    BY <1>7 DEF Ticks
  <2>2. 2 * MaxGap <= Quarter * (Half - 1) /\ Quarter * (Half - 1) <= Word * (Half - 1)
    <3>1. Quarter * (Half - 1) = Quarter * Half - Quarter
      BY Consts
    <3>2. Quarter \in Nat /\ Word \in Nat /\ Quarter <= Word /\ Half - 1 \in Nat
      BY Consts, Bounds
    <3>3. Quarter * (Half - 1) <= Word * (Half - 1)
      BY <3>2, Larger
    <3> QED
      BY <3>1, <3>3, Bounds, Consts
  <2>3. Word * (Half - 1) = Word * Half - Word
    BY Consts
  <2>4. CASE A >= -(g + MaxGap + Word - 1)
    BY <1>1, <1>4, <2>1, <2>2, <2>3, <2>4, Bounds, Consts DEF A
  <2>5. CASE A >= -(g + MaxGap + Drift * MaxTimerUnits)
    <3>1. Drift * MaxTimerUnits <= Drift * (Half - 1)
      BY Bounds, Consts
    <3>2. Drift * (Half - 1) <= (Word - Quarter) * (Half - 1)
      <4>1. Drift \in Nat /\ Word - Quarter \in Nat /\ Drift <= Word - Quarter /\ Half - 1 \in Nat
        BY Consts, Bounds
      <4> QED
        BY <4>1, Larger
    <3>3. (Word - Quarter) * (Half - 1) = Word * (Half - 1) - Quarter * (Half - 1)
      BY Consts
    <3>4. Drift * MaxTimerUnits \in Nat /\ Quarter * (Half - 1) \in Int /\ Word * Half \in Int
      BY Consts, Bounds
    <3>5. Drift * MaxTimerUnits + 2 * MaxGap <= Word * Half
      BY <2>2, <2>3, <3>1, <3>2, <3>3, <3>4, Consts, Bounds
    <3> QED
      BY <1>1, <1>4, <2>1, <2>5, <3>4, <3>5, Bounds DEF A
  <2> QED
    BY <1>2, <1>7, <2>1, <2>4, <2>5
<1> QED
  BY <1>1, <1>5, <1>6, <1>7 DEF Units

LEMMA InTimePending ==
  ASSUME NEW v, NEW l \in Int, NEW c \in Clocks, v \in EventControl, NEW g \in Nat, InTime(v, l, c, g)
  PROVE  Pending(v, c, g)
<1> SUFFICES ASSUME v.status \in Units  PROVE Ahead(v, c) >= -(g + MaxGap + Ticks[v.status] - 1)
  BY DEF Pending
<1>1. Timed(v, c)
  BY Consts DEF EventControl, Inactive, ZeroDelay, Timed, Clocks, Units
<1>2. Ahead(v, c) \in Int /\ Ticks[v.status] \in Nat
  BY <1>1, AheadType
<1>3. v.status # "inactive"
  BY DEF Units
<1>4. Ahead(v, c) >= -(g + Ticks[v.status] - 1)
  BY <1>3 DEF InTime
<1> QED
  BY <1>2, <1>4, Bounds

LEMMA OversleptPending ==
  ASSUME NEW v, NEW c \in Clocks, v \in EventControl, NEW g \in Nat, Overslept(v, c, g)
  PROVE  Pending(v, c, g)
<1>1. Timed(v, c)
  BY Consts DEF EventControl, Inactive, ZeroDelay, Timed, Clocks, Units, Overslept
<1>2. Ahead(v, c) \in Int
  BY <1>1, AheadType
<1>3. Drift * MaxTimerUnits \in Int
  BY Bounds
<1>4. Overslept(v, c, g + MaxGap)
  BY <1>2, <1>3, Bounds DEF Overslept
<1> QED
  BY <1>4 DEF Pending

\* An event, and a millisecond by which its time comes nearer
LEMMA Passed ==
  ASSUME NEW v, v \in EventControl, NEW l \in Int, NEW c \in Clocks, Kept(v, l, c),
         NEW c2, c2 = (c + 1) % (Word * Word), NEW l2, v.status # "inactive" => l2 = l - 1,
         v.status \in Units => Ahead(v, c) - 1 >= -(Ticks[v.status] * Half)
  PROVE  /\ v.status \in Units => Ahead(v, c2) = Ahead(v, c) - 1
         /\ Kept(v, l2, c2)
         /\ \A g \in Nat : InTime(v, l, c, g) => InTime(v, l2, c2, g + 1)
         /\ \A g \in Nat : Overslept(v, c, g) => Overslept(v, c2, g + 1)
         /\ \A g \in Nat : Pending(v, c, g) => Pending(v, c2, g + 1)
<1>1. c2 \in Clocks
  BY ClockLater
<1>2. CASE v.status \in Units
  <2>1. Timed(v, c) /\ Timed(v, c2) /\ v.status # "inactive" /\ v.status # "zero"
    BY <1>1, <1>2, Consts DEF EventControl, Inactive, ZeroDelay, Timed, Clocks, Units
  <2> DEFINE A == Ahead(v, c)
             n == Ticks[v.status]
  <2>2. A \in Int /\ n \in Nat \ {0} /\ l2 = l - 1
    BY <2>1, AheadType
  <2>3. Ahead(v, c2) = A - 1
    BY <1>2, <2>1, Nearer
  <2> HIDE DEF A, n
  <2>4. Slip(v) \in Nat /\ Drift * MaxTimerUnits \in Nat /\ MaxGap \in Nat
    BY Bounds DEF Slip
  <2> DEFINE s == Slip(v)
             m == Drift * MaxTimerUnits
             h == n * (Word - Half)
             k == n * (MaxSleepUnits - 1)
             y == Early[v.status]
  <2>5. h \in Int /\ k \in Int /\ y \in Int
    BY <1>2, <2>2, Bounds, Consts DEF Early, Units
  <2>6. A <= k /\ A + MaxGap + n <= h /\ -s <= l - A /\ l - A <= y /\ (v.status = "ms" => 2 * MaxGap <= Half)
    BY <1>2 DEF Kept, A, n
  <2> HIDE DEF s, m, h, k, y
  <2>7. A - 1 <= k /\ A - 1 + MaxGap + n <= h /\ -s <= l - 1 - (A - 1) /\ l - 1 - (A - 1) <= y
    BY <2>2, <2>4, <2>5, <2>6 DEF s
  <2>8. Kept(v, l2, c2)
    BY <2>1, <2>2, <2>3, <2>6, <2>7 DEF Kept, s, h, k, y, n
  <2>9. ASSUME NEW g \in Nat, InTime(v, l, c, g)  PROVE InTime(v, l2, c2, g + 1)
    <3>1. l >= -(g + s) /\ A >= -(g + n - 1)
      BY <1>2, <2>1, <2>9 DEF InTime, s, A, n
    <3>2. l - 1 >= -(g + 1 + s) /\ A - 1 >= -(g + 1 + n - 1)
      BY <2>2, <2>4, <3>1 DEF s
    <3> QED
      BY <2>2, <2>3, <3>2 DEF InTime, s, n
  <2>10. ASSUME NEW g \in Nat, Overslept(v, c, g)  PROVE Overslept(v, c2, g + 1)
    <3>1. v.status = "minute" /\ A >= -(g + m)
      BY <2>10 DEF Overslept, m, A
    <3>2. A - 1 >= -(g + 1 + m)
      BY <2>2, <2>4, <3>1 DEF m
    <3> QED
      BY <2>3, <3>1, <3>2 DEF Overslept, m
  <2>11. ASSUME NEW g \in Nat, Pending(v, c, g)  PROVE Pending(v, c2, g + 1)
    <3>1. A >= -(g + MaxGap + n - 1) \/ Overslept(v, c, g + MaxGap)
      BY <1>2, <2>11 DEF Pending, A, n
    <3>2. A >= -(g + MaxGap + n - 1) => A - 1 >= -(g + 1 + MaxGap + n - 1)
      BY <2>2, <2>4
    <3>3. Overslept(v, c, g + MaxGap) => Overslept(v, c2, g + 1 + MaxGap)
      <4>1. g + MaxGap \in Nat /\ (g + MaxGap) + 1 = g + 1 + MaxGap
        BY <2>4
      <4> QED
        BY <2>10, <4>1
    <3> QED
      BY <2>3, <3>1, <3>2, <3>3 DEF Pending, n
  <2> QED
    BY <2>3, <2>8, <2>9, <2>10, <2>11 DEF A
<1>3. CASE v.status \notin Units
  <2>1. v.status \in {"zero", "inactive"} /\ v.status # "minute"
    BY <1>3 DEF EventControl, Inactive, ZeroDelay, Units
  <2>2. Slip(v) = 0
    BY <2>1 DEF Slip
  <2>3. Kept(v, l2, c2)
    BY <1>3, <2>1 DEF Kept
  <2>4. \A g \in Nat : InTime(v, l, c, g) => InTime(v, l2, c2, g + 1)
    BY <1>3, <2>1, <2>2 DEF InTime
  <2> QED
    BY <1>3, <2>1, <2>3, <2>4 DEF Overslept, Pending
<1> QED
  BY <1>2, <1>3

-----------------------------------------------------------------------------
(* The time to the next event.                                             *)

LEMMA MinOfTwo ==
  ASSUME NEW a \in Int, NEW b \in Int
  PROVE  Min({a, b}) = IF a <= b THEN a ELSE b
<1> DEFINE m == IF a <= b THEN a ELSE b
<1>1. m \in {a, b} /\ \A y \in {a, b} : m <= y
  OBVIOUS
<1>2. ASSUME NEW x \in {a, b}, \A y \in {a, b} : x <= y  PROVE x = m
  BY <1>2
<1> QED
  BY <1>1, <1>2 DEF Min

\* Naturals have a least one.
LEMMA MinOfNats ==
  ASSUME NEW S, S \subseteq Nat, S # {}
  PROVE  Min(S) \in S /\ \A y \in S : Min(S) <= y
<1> DEFINE Below(i) == {j \in S : j < i}
<1>1. PICK n \in S : n \in Nat
  OBVIOUS
<1> DEFINE F == 0 .. n
           T == {Below(i) : i \in S \cap F}
<1>2. IsFiniteSet(F)
  BY FS_Interval
<1>3. FiniteSubsetsOf(F) = SUBSET F
  BY <1>2, FS_FiniteSubsetsOfFinite
<1>4. T \subseteq FiniteSubsetsOf(F)
  <2>1. ASSUME NEW i \in S \cap F, NEW j \in Below(i)  PROVE j \in F
    <3>1. i \in 0 .. n /\ j \in Nat /\ j < i
      BY <2>1
    <3> QED
      BY <1>1, <3>1
  <2> QED
    BY <1>3, <2>1
<1>5. T # {}
  <2>1. n \in S \cap F
    BY <1>1
  <2> QED
    BY <2>1
<1>6. PICK X \in T : \A Y \in T : ~(<<Y, X>> \in StrictSubsetOrdering(F))
  BY <1>2, <1>4, <1>5, FS_StrictSubsetOrderingWellFounded, WFMin
<1>7. PICK x \in S \cap F : X = Below(x)
  OBVIOUS
<1>8. ASSUME NEW y \in S  PROVE x <= y
  <2>1. SUFFICES ASSUME y < x  PROVE FALSE
    BY <1>8
  <2>2. y \in Below(x) /\ y \notin Below(y)
    BY <2>1
  <2>3. \A j \in S : j < y => j < x
    BY <2>1
  <2>4. Below(y) \subseteq Below(x)
    BY <2>3
  <2>5. y \in S \cap F
    <3>1. x \in 0 .. n /\ y \in Nat
      BY <1>8
    <3> QED
      BY <1>1, <1>8, <2>1, <3>1
  <2>6. Below(x) \in SUBSET F /\ Below(y) \in SUBSET F
    <3>1. Below(x) \in T /\ Below(y) \in T
      BY <2>5
    <3> HIDE DEF Below, T, F
    <3> QED
      BY <1>3, <1>4, <3>1
  <2>7. Below(y) \in T
    BY <2>5
  <2> HIDE DEF Below, T, F
  <2>8. <<Below(y), X>> \in StrictSubsetOrdering(F)
    BY <1>7, <2>2, <2>4, <2>6 DEF StrictSubsetOrdering
  <2> QED
    BY <1>6, <2>7, <2>8
<1> QED
  BY <1>8 DEF Min

\* What an active event is, and how long emberMsToNextEvent takes it to be.
LEMMA Waits ==
  ASSUME TypeInv, NEW e \in Events, Active(e)
  PROVE  /\ WaitOf(control[e]) \in Nat
         /\ control[e].status \in Units => /\ Timed(control[e], clock)
                                          /\ Ahead(control[e], clock) \in Int
         /\ WaitOf(control[e]) > 0 => /\ control[e].status \in Units
                                      /\ WaitOf(control[e]) = Ahead(control[e], clock)
<1>1. control[e] \in EventControl /\ clock \in Clocks
  BY DEF TypeInv
<1>2. CASE control[e].status \in Units
  <2>1. Timed(control[e], clock)
    BY <1>1, <1>2, Consts DEF EventControl, Inactive, ZeroDelay, Timed, Clocks, Units
  <2> QED
    BY <1>2, <2>1, WaitIs, AheadType
<1>3. CASE control[e].status \notin Units
  <2>1. control[e].status = "zero"
    BY <1>1, <1>3 DEF EventControl, Inactive, ZeroDelay, Active
  <2> QED
    BY <1>3, <2>1 DEF WaitOf, Due
<1> QED
  BY <1>2, <1>3

LEMMA NextWait ==
  ASSUME TypeInv, NEW max \in Nat
  PROVE  /\ MsToNextEvent(max) \in Nat /\ MsToNextEvent(max) <= max
         /\ \A e \in Events : Active(e) => MsToNextEvent(max) <= WaitOf(control[e])
         /\ \/ MsToNextEvent(max) = max
            \/ \E e \in Events : Active(e) /\ MsToNextEvent(max) = WaitOf(control[e])
<1> DEFINE S == {max} \cup {WaitOf(control[e]) : e \in {x \in Events : Active(x)}}
<1>1. S \subseteq Nat /\ S # {}
  BY Waits
<1>2. MsToNextEvent(max) = Min(S)
  BY DEF MsToNextEvent
<1> HIDE DEF S
<1>3. Min(S) \in S /\ \A y \in S : Min(S) <= y
  BY <1>1, MinOfNats
<1> QED
  BY <1>1, <1>2, <1>3 DEF S

\* The NCP's timer is no longer than the time to the next event, but by what
\* the minutes of af.h are shorter than those that are counted.
LEMMA TimerFor ==
  ASSUME NEW ms \in Nat
  PROVE  LET u == TimerUnit(ms)
             d == Ticks[u] * TimerDuration(ms) IN
           /\ u \in Units /\ d \in Nat
           /\ u # "minute" => d <= ms
           /\ u = "minute" => d - Drift * MaxTimerUnits <= ms /\ Quarter * (MaxTimerUnits + 1) <= ms
<1> DEFINE u == TimerUnit(ms)
           n == Ticks[u]
           a == AfTicks[u]
           x == ms \div a
           k == TimerDuration(ms)
<1>1. u \in Units
  BY DEF TimerUnit, Units
<1>2. n \in Nat \ {0} /\ a \in Nat \ {0}
  BY <1>1, TicksType
<1> HIDE DEF a, n
<1>3. x \in Nat /\ a * x <= ms
  <2>1. x \in Int /\ ms % a \in 0 .. a - 1 /\ ms = a * x + (ms % a)
    BY <1>2, Euclid
  <2> DEFINE r == ms % a
  <2> HIDE DEF x, r
  <2>2. a * (-1) < a * x
    BY <1>2, <2>1 DEF r
  <2>3. -1 < x
    BY <1>2, <2>1, <2>2, Cancel
  <2> QED
    BY <1>2, <2>1, <2>3 DEF r
<1>4. k = IF x <= MaxTimerUnits THEN x ELSE MaxTimerUnits
  <2>1. k = Min({x, MaxTimerUnits})
    BY DEF TimerDuration, a
  <2> HIDE DEF x, k
  <2> QED
    BY <1>3, <2>1, MinOfTwo, Bounds
<1> HIDE DEF x, k
<1>5. k \in Nat /\ k <= x /\ k <= MaxTimerUnits
  BY <1>3, <1>4, Bounds
<1>6. n * k \in Nat /\ a * k <= a * x
  BY <1>2, <1>3, <1>5
<1>7. CASE u # "minute"
  <2>1. n = a
    BY <1>1, <1>7 DEF n, a, Ticks, AfTicks, Units
  <2> QED
    BY <1>1, <1>2, <1>3, <1>5, <1>6, <1>7, <2>1 DEF n, k
<1>8. CASE u = "minute"
  <2>1. n = Word /\ a = MinuteTicks
    BY <1>8 DEF n, a, Ticks, AfTicks
  <2>2. n * k = a * k + Drift * k
    BY <1>2, <1>5, <2>1, Bounds, Consts
  <2>3. Drift * k <= Drift * MaxTimerUnits
    BY <1>5, Bounds
  <2>4. a * k \in Int /\ Drift * k \in Int /\ Drift * MaxTimerUnits \in Int /\ a * x \in Int
    BY <1>2, <1>3, <1>5, Bounds
  <2>5. n * k - Drift * MaxTimerUnits <= ms
    BY <1>3, <1>6, <2>2, <2>3, <2>4
  <2>6. Quarter * (MaxTimerUnits + 1) <= ms
    <3> DEFINE y == ms \div Quarter
               r == ms % Quarter
    <3>1. ~(y <= MaxTimerUnits)
      BY <1>8 DEF TimerUnit, AfTicks
    <3>2. y \in Int /\ r \in 0 .. Quarter - 1 /\ ms = Quarter * y + r
      BY Euclid, Consts
    <3> HIDE DEF y, r
    <3>3. Quarter * (MaxTimerUnits + 1) <= Quarter * y
      BY <3>1, <3>2, Consts, Bounds
    <3> QED
      BY <3>2, <3>3, Consts, Bounds
  <2> QED
    BY <1>1, <1>6, <1>8, <2>5, <2>6 DEF n, k
<1> QED
  BY <1>7, <1>8

LEMMA SleepNext ==
  ASSUME TypeInv
  PROVE  /\ SleepDuration \in Nat
         /\ SleepDuration > 0 =>
              \A e \in Events : Active(e) => /\ control[e].status \in Units
                                            /\ SleepDuration <= Ahead(control[e], clock)
<1> DEFINE nap == NapDuration * Quarter
           hibernate == MaxTimerUnits * MinuteTicks
<1>1. nap \in Nat /\ hibernate \in Nat
  BY Bounds, Consts, EventsAssumption DEF EventsAssumption
<1>2. SleepDuration = MsToNextEvent(nap) \/ SleepDuration = MsToNextEvent(hibernate)
  BY DEF SleepDuration
<1> HIDE DEF nap, hibernate
<1>3. PICK max \in Nat : SleepDuration = MsToNextEvent(max)
  BY <1>1, <1>2
<1>4. MsToNextEvent(max) \in Nat /\ \A e \in Events : Active(e) => MsToNextEvent(max) <= WaitOf(control[e])
  BY NextWait
<1>5. ASSUME NEW e \in Events, Active(e), MsToNextEvent(max) > 0
      PROVE  control[e].status \in Units /\ MsToNextEvent(max) <= Ahead(control[e], clock)
  <2>1. MsToNextEvent(max) <= WaitOf(control[e]) /\ WaitOf(control[e]) \in Nat
    BY <1>4, <1>5, Waits
  <2>2. WaitOf(control[e]) > 0
    BY <1>4, <1>5, <2>1
  <2> QED
    BY <1>5, <2>1, <2>2, Waits
<1> QED
  BY <1>3, <1>4, <1>5

-----------------------------------------------------------------------------
(* Every state has its types.                                              *)

LEMMA InitType == Init => TypeInv
<1> SUFFICES ASSUME Init  PROVE TypeInv
  OBVIOUS
<1>1. 0 \in Clocks /\ 1 \in Events /\ 0 \in 0 .. Word - 1 /\ 0 \in 0 .. WakeTimeout + 1 /\ 0 \in 0 .. MaxGap
  <2>1. Word * Word >= Word
    BY Consts
  <2>2. NumEvents \in Nat \ {0} /\ WakeTimeout \in Nat
    BY EventsAssumption DEF EventsAssumption
  <2> QED
    BY <2>1, <2>2, Consts, Bounds DEF Clocks, Events
<1>2. /\ build \in Builds /\ clock \in Clocks /\ now \in Clocks
      /\ control \in [Events -> EventControl]
      /\ pc \in {"handlers", "asleep", "awake", "events"} /\ next \in Events
      /\ timer \in Nat /\ slept \in Units /\ lastTask \in 0 .. Word - 1
      /\ left \in [Events -> Int] /\ waited \in 0 .. WakeTimeout + 1 /\ gap \in 0 .. MaxGap
  BY <1>1 DEF Init, Clocks, EventControl, Units
<1>3. removed \in BOOLEAN
  BY DEF Init
<1> QED
  BY <1>2, <1>3 DEF TypeInv

LEMMA TickType ==
  ASSUME TypeInv, ClockTick
  PROVE  clock' \in Clocks /\ left' \in [Events -> Int] /\ waited' \in 0 .. WakeTimeout + 1
<1>1. clock' \in Clocks
  BY ClockLater DEF TypeInv, ClockTick
<1>2. left' \in [Events -> Int]
  BY DEF TypeInv, ClockTick
<1>3. waited' \in 0 .. WakeTimeout + 1
  <2>1. WakeTimeout \in Nat
    BY EventsAssumption DEF EventsAssumption
  <2>2. PICK x \in Int : x = waited /\ x \in 0 .. WakeTimeout + 1
    BY DEF TypeInv
  <2>3. Min({x + 1, WakeTimeout + 1}) \in 0 .. WakeTimeout + 1
    <3>1. Min({x + 1, WakeTimeout + 1}) = IF x + 1 <= WakeTimeout + 1 THEN x + 1 ELSE WakeTimeout + 1
      BY <2>1, MinOfTwo
    <3> QED
      BY <2>1, <2>2, <3>1
  <2> QED
    BY <2>1, <2>2, <2>3 DEF ClockTick
<1> QED
  BY <1>1, <1>2, <1>3

LEMMA TypeStep == TypeInv /\ [Next]_vars => TypeInv'
<1> SUFFICES ASSUME TypeInv, [Next]_vars  PROVE TypeInv'
  OBVIOUS
<1>1. CASE Tick
  <2>1. gap' \in 0 .. MaxGap
    BY <1>1, Bounds DEF Tick, TypeInv
  <2> QED
    BY <1>1, <2>1, TickType DEF Tick, ClockTick, TypeInv
<1>2. CASE TickAsleep
  <2>1. timer' \in Nat
    BY <1>2 DEF TickAsleep, TypeInv
  <2> QED
    BY <1>2, <2>1, TickType DEF TickAsleep, ClockTick, TypeInv
<1>3. CASE HandlerSchedules
  <2>3. control' \in [Events -> EventControl] /\ left' \in [Events -> Int]
    BY <1>3, HandlerLeaves
  <2> QED
    BY <1>3, <2>3 DEF HandlerSchedules, taskVars, TypeInv
<1>4. CASE AddToCurrentAppTasks
  <2>1. lastTask' \in 0 .. Word - 1
    BY <1>4, Euclid, Consts DEF AddToCurrentAppTasks, TypeInv, Clocks
  <2>2. waited' \in 0 .. WakeTimeout + 1
    BY <1>4, EventsAssumption DEF EventsAssumption, AddToCurrentAppTasks, TypeInv
  <2> QED
    BY <1>4, <2>1, <2>2 DEF AddToCurrentAppTasks, TypeInv
<1>5. CASE RemoveFromCurrentAppTasks
  <2>1. lastTask' \in 0 .. Word - 1
    BY <1>5, Consts DEF RemoveFromCurrentAppTasks
  <2>2. waited' \in 0 .. WakeTimeout + 1
    BY <1>5, EventsAssumption DEF EventsAssumption, RemoveFromCurrentAppTasks, TypeInv
  <2> QED
    BY <1>5, <2>1, <2>2 DEF RemoveFromCurrentAppTasks, TypeInv
<1>6. CASE CheckForSleep
  <2>1. lastTask' \in 0 .. Word - 1
    BY <1>6, Consts DEF CheckForSleep, TypeInv
  <2>2. waited' \in 0 .. WakeTimeout + 1
    BY <1>6, EventsAssumption DEF EventsAssumption, CheckForSleep, TypeInv
  <2>3. slept' \in Units /\ timer' \in Nat
    BY <1>6, SleepNext, TimerFor DEF CheckForSleep, TypeInv
  <2> QED
    BY <1>6, <2>1, <2>2, <2>3 DEF CheckForSleep, TypeInv
<1>7. CASE Wake
  BY <1>7 DEF Wake, taskVars, TypeInv
<1>8. CASE StartEvents
  <2>1. 1 \in Events /\ 0 \in 0 .. MaxGap /\ "ms" \in Units
    BY Bounds, EventsAssumption DEF EventsAssumption, Events, Units
  <2> QED
    BY <1>8, <2>1 DEF StartEvents, taskVars, TypeInv
<1>9. CASE EventsHeldBack
  BY <1>9 DEF EventsHeldBack, taskVars, TypeInv
<1>10. ASSUME Advance, pc = "events", clock \in Clocks
       PROVE  pc' \in {"events", "handlers"} /\ next' \in Events /\ now' \in Clocks
  <2>1. 0 \in Clocks
    <3>1. Word * Word >= Word
      BY Consts
    <3> QED
      BY <3>1, Consts DEF Clocks
  <2>2. next \in 1 .. NumEvents /\ NumEvents \in Nat /\ now \in Clocks
    BY EventsAssumption DEF EventsAssumption, TypeInv, Events
  <2> QED
    BY <1>10, <2>1, <2>2 DEF Advance, Events
<1>11. CASE SkipEvent
  BY <1>10, <1>11 DEF SkipEvent, taskVars, TypeInv
<1>12. CASE RunEvent
  <2>3. control' \in [Events -> EventControl] /\ left' \in [Events -> Int]
    BY <1>12, RunLeaves
  <2> QED
    BY <1>10, <1>12, <2>3 DEF RunEvent, taskVars, TypeInv
<1>13. CASE UNCHANGED vars
  BY <1>13 DEF vars, taskVars, TypeInv
<1> QED
  BY <1>1, <1>2, <1>3, <1>4, <1>5, <1>6, <1>7, <1>8, <1>9, <1>11, <1>12, <1>13 DEF Next

\* The state of events, clocks, tasks and the main loop stays what it is typed.
THEOREM EventTypes == Spec => []TypeInv
<1>1. TypeInv /\ [Next]_vars => TypeInv'
  BY TypeStep
<1> QED
  BY InitType, <1>1, PTL DEF Spec

-----------------------------------------------------------------------------
(* A timed task is waited for.                                             *)

\* A millisecond adds no more than one to what has elapsed.
LEMMA ElapsedTick ==
  ASSUME NEW a \in 0 .. Word - 1, NEW c \in Clocks
  PROVE  /\ Elapsed(a, c % Word) \in Nat
         /\ Elapsed(a, ((c + 1) % (Word * Word)) % Word) \in Nat
         /\ Elapsed(a, ((c + 1) % (Word * Word)) % Word) <= Elapsed(a, c % Word) + 1
<1> DEFINE c2 == (c + 1) % (Word * Word)
           x == (c - a) % Word
           y == (c2 - a) % Word
<1>1. a \in Int /\ c \in Int /\ c2 \in Int /\ Word \in Nat \ {0} /\ c \in Nat /\ c2 \in Nat
  BY ClockLater, Consts DEF Clocks
<1>2. PICK j \in Int : c + 1 = Word * j + c2
  <2> DEFINE w == Word * Word
             d == c + 1
             q == d \div w
  <2>1. w \in Nat \ {0} /\ d \in Int
    BY <1>1, Consts
  <2>2. q \in Int /\ d = w * q + (d % w)
    <3> HIDE DEF w, d
    <3> QED
      BY <2>1, Euclid
  <2>3. c2 = d % w
    OBVIOUS
  <2> HIDE DEF c2, q
  <2>4. c + 1 = Word * (Word * q) + c2 /\ Word * q \in Int
    BY <1>1, <2>2, <2>3
  <2> QED
    BY <2>4
<1>3. Elapsed(a, c % Word) = x /\ Elapsed(a, c2 % Word) = y
  <2> HIDE DEF c2
  <2> QED
    BY <1>1, ElapsedOf
<1> HIDE DEF c2
<1>4. PICK k \in Int : c - a = Word * k + x /\ x \in 0 .. Word - 1
  <2>1. c - a \in Int
    BY <1>1
  <2> QED
    BY <1>1, <2>1, Euclid
<1>5. PICK m \in Int : c2 - a = Word * m + y /\ y \in 0 .. Word - 1
  <2>1. c2 - a \in Int
    BY <1>1
  <2> QED
    BY <1>1, <2>1, Euclid
<1> HIDE DEF x, y
<1>6. Word * k + (x + 1) = Word * (m + j) + y
  <2>1. Word * (m + j) = Word * m + Word * j
    BY <1>1
  <2>2. Word * m \in Int /\ Word * j \in Int /\ Word * k \in Int
    BY <1>1
  <2> QED
    BY <1>1, <1>2, <1>4, <1>5, <2>1, <2>2
<1>7. y <= x + 1
  <2>1. CASE x + 1 <= Word - 1
    <3> DEFINE i == m + j
               z == x + 1
    <3>1. i \in Int /\ z \in 0 .. Word - 1 /\ Word * k + z = Word * i + y
      BY <1>4, <1>6, <2>1
    <3> HIDE DEF i, z
    <3>2. y = z
      BY <1>1, <1>5, <3>1, Unique
    <3> QED
      BY <1>4, <1>5, <3>2 DEF z
  <2>2. CASE x + 1 > Word - 1
    BY <1>1, <1>4, <1>5, <2>2
  <2> QED
    BY <1>1, <1>4, <2>1, <2>2
<1> QED
  BY <1>3, <1>4, <1>5, <1>7 DEF c2

LEMMA TaskStep == TypeInv /\ TaskInv /\ [Next]_vars => TaskInv'
<1> SUFFICES ASSUME TypeInv, TaskInv, [Next]_vars  PROVE TaskInv'
  OBVIOUS
<1>1. ASSUME ClockTick  PROVE TaskInv'
  <2> SUFFICES ASSUME tasks \cap TimedTasks # {}, ~removed, waited' <= WakeTimeout
               PROVE  Elapsed(lastTask, clock' % Word) <= waited'
    BY <1>1 DEF TaskInv, ClockTick
  <2> DEFINE E(t) == Elapsed(lastTask, t % Word)
  <2>1. lastTask \in 0 .. Word - 1 /\ clock \in Clocks /\ WakeTimeout \in Nat
    BY EventsAssumption DEF EventsAssumption, TypeInv
  <2>2. PICK w \in Int : w = waited /\ w \in 0 .. WakeTimeout + 1
    BY DEF TypeInv
  <2>3. Min({w + 1, WakeTimeout + 1}) = IF w + 1 <= WakeTimeout + 1 THEN w + 1 ELSE WakeTimeout + 1
    BY <2>1, MinOfTwo
  <2>4. waited' = Min({w + 1, WakeTimeout + 1}) /\ clock' = (clock + 1) % (Word * Word)
    BY <1>1, <2>2 DEF ClockTick
  <2>5. w <= WakeTimeout /\ waited' = w + 1
    BY <2>1, <2>2, <2>3, <2>4
  <2>6. E(clock) \in Nat /\ E(clock') \in Nat /\ E(clock') <= E(clock) + 1
    BY <2>1, <2>4, ElapsedTick
  <2>7. E(clock) <= w
    BY <2>2, <2>5 DEF TaskInv
  <2> HIDE DEF E
  <2>8. PICK x \in Nat : x = E(clock') /\ x <= E(clock) + 1
    BY <2>6
  <2>9. x <= w + 1
    BY <2>2, <2>6, <2>7, <2>8
  <2> QED
    BY <2>5, <2>8, <2>9 DEF E
<1>2. CASE AddToCurrentAppTasks
  <2>1. /\ lastTask' = clock % Word /\ clock' = clock /\ ~removed'
        /\ waited' \in {0, waited} /\ waited \in Nat
    BY <1>2, EventsAssumption DEF EventsAssumption, AddToCurrentAppTasks, TypeInv
  <2>2. clock % Word \in 0 .. Word - 1
    BY Euclid, Consts DEF TypeInv, Clocks
  <2>3. Elapsed(clock % Word, clock % Word) = 0
    BY <2>2, Consts DEF Elapsed
  <2>4. waited' >= 0
    BY <2>1
  <2> QED
    BY <2>1, <2>3, <2>4 DEF TaskInv
<1>3. CASE RemoveFromCurrentAppTasks
  BY <1>3 DEF RemoveFromCurrentAppTasks, TaskInv
<1>4. CASE CheckForSleep
  <2>1. CASE TasksTimeOut
    BY <1>4, <2>1 DEF CheckForSleep, TaskInv
  <2>2. CASE ~TasksTimeOut
    BY <1>4, <2>2 DEF CheckForSleep, TaskInv
  <2> QED
    BY <2>1, <2>2
<1>5. CASE UNCHANGED <<clock, taskVars>>
  BY <1>5 DEF taskVars, TaskInv
<1> QED
  BY <1>1, <1>2, <1>3, <1>4, <1>5
  DEF Next, Tick, TickAsleep, HandlerSchedules, Wake, StartEvents, EventsHeldBack,
      SkipEvent, RunEvent, vars

LEMMA TaskInitially == Init => TaskInv
  BY DEF Init, TaskInv

\* A host does not drop a task with a timeout before the timeout has passed since
\* a timed task was added last; or, once any task was removed, while the clock
\* itself is within the timeout: property TasksHeld, of every step of
\* emberAfOkToHibernate.
THEOREM TimedTasksHeld == Spec => TasksHeld
<1>1. Init => TypeInv /\ TaskInv
  BY InitType, TaskInitially
<1>2. (TypeInv /\ TaskInv) /\ [Next]_vars => (TypeInv /\ TaskInv)'
  BY TypeStep, TaskStep
<1>3. TypeInv /\ TaskInv =>
        [\A t \in TimedTasks : CheckForSleep /\ t \in tasks \ tasks' =>
           waited > WakeTimeout \/ (removed /\ clock % Word > WakeTimeout)]_vars
  <2> SUFFICES ASSUME TypeInv, TaskInv, NEW t \in TimedTasks, CheckForSleep, t \in tasks \ tasks'
               PROVE  waited > WakeTimeout \/ (removed /\ clock % Word > WakeTimeout)
    OBVIOUS
  <2>1. TasksTimeOut
    BY DEF CheckForSleep
  <2>2. Elapsed(lastTask, clock % Word) > WakeTimeout /\ tasks \cap TimedTasks # {}
    BY <2>1 DEF TasksTimeOut
  <2>3. CASE removed
    <3>1. lastTask = 0 /\ clock % Word \in 0 .. Word - 1
      BY <2>2, <2>3, Euclid, Consts DEF TaskInv, TypeInv, Clocks
    <3>2. Elapsed(0, clock % Word) = clock % Word
      BY <3>1, Consts DEF Elapsed
    <3> QED
      BY <2>2, <2>3, <3>1, <3>2
  <2>4. CASE ~removed
    <3>1. Elapsed(lastTask, clock % Word) \in Nat /\ waited \in Nat /\ WakeTimeout \in Nat
      BY ElapsedTick, EventsAssumption DEF EventsAssumption, TypeInv
    <3> QED
      BY <2>2, <2>4, <3>1 DEF TaskInv
  <2> QED
    BY <2>3, <2>4
<1> QED
  BY <1>1, <1>2, <1>3, PTL DEF Spec, TasksHeld

-----------------------------------------------------------------------------
(* The times of events: what is ahead and what is overdue, of every state. *)

TimeInv == RoundInv /\ AllKept /\ SleepInv /\ LoopInv /\ EventsInv

LEMMA InitTime == Init => TimeInv
<1> SUFFICES ASSUME Init  PROVE TimeInv
  OBVIOUS
<1>1. pc = "handlers" /\ \A e \in Events : control[e] = Inactive /\ left[e] = 0
  BY DEF Init
<1>2. Inactive.status = "inactive" /\ Inactive.status # "zero" /\ Inactive.status \notin Units
  BY DEF Inactive, Units
<1> QED
  BY <1>1, <1>2
     DEF TimeInv, RoundInv, AllKept, Kept, SleepInv, LoopInv, Reached, InTime, EventsInv

\* Two steps of the clock are one.
LEMMA NowLater ==
  ASSUME NEW t \in Nat, NEW g \in Nat, NEW c, c = (t + g) % (Word * Word)
  PROVE  (c + 1) % (Word * Word) = (t + (g + 1)) % (Word * Word)
<1> DEFINE w == Word * Word
           d == t + g
           q == d \div w
           e == d + 1
           f == c + 1
           j == -q
<1>1. w \in Nat \ {0} /\ d \in Int
  BY Consts
<1>2. q \in Int /\ c \in Int /\ d = w * q + c
  <2>1. c = d % w
    OBVIOUS
  <2> HIDE DEF w, d
  <2> QED
    BY <1>1, <2>1, Euclid
<1> HIDE DEF w, q
<1>3. e \in Int /\ f \in Int /\ j \in Int /\ f = e + w * j
  BY <1>1, <1>2
<1> HIDE DEF d, e, f, j
<1>4. f % w = e % w
  BY <1>1, <1>3, Wrap
<1>5. e = t + (g + 1)
  BY DEF e, d
<1> QED
  BY <1>4, <1>5 DEF f, w

\* Out of its sleep, no event is so long overdue that it would seem ahead.
LEMMA AllPending ==
  ASSUME TypeInv, TimeInv, pc # "asleep", NEW e \in Events
  PROVE  Pending(control[e], clock, gap)
<1>1. control[e] \in EventControl /\ left[e] \in Int /\ clock \in Clocks /\ gap \in Nat
  BY Bounds DEF TypeInv
<1>2. \/ InTime(control[e], left[e], clock, gap)
      \/ Overslept(control[e], clock, gap)
      \/ Pending(control[e], clock, gap)
  BY DEF TypeInv, TimeInv, LoopInv, Reached, EventsInv, EventInv
<1> QED
  BY <1>1, <1>2, InTimePending, OversleptPending

LEMMA TickTime == TypeInv /\ TimeInv /\ Tick => TimeInv'
<1> SUFFICES ASSUME TypeInv, TimeInv, Tick  PROVE TimeInv'
  OBVIOUS
<1>1. /\ pc # "asleep" /\ gap < MaxGap /\ gap' = gap + 1 /\ gap \in Nat
      /\ clock' = (clock + 1) % (Word * Word) /\ clock \in Clocks
      /\ control' = control /\ pc' = pc /\ next' = next /\ now' = now /\ slept' = slept
  BY Bounds DEF Tick, ClockTick, TypeInv
<1>2. ASSUME NEW e \in Events
      PROVE  LET v == control[e] IN
             /\ Kept(v, left'[e], clock')
             /\ InTime(v, left[e], clock, gap) => InTime(v, left'[e], clock', gap')
             /\ Overslept(v, clock, gap) => Overslept(v, clock', gap')
             /\ Pending(v, clock, gap) => Pending(v, clock', gap')
  <2> DEFINE v == control[e]
  <2>1. v \in EventControl /\ left[e] \in Int /\ Kept(v, left[e], clock)
    BY DEF TypeInv, TimeInv, AllKept
  <2>2. v.status # "inactive" => left'[e] = left[e] - 1
    BY DEF Tick, ClockTick, Active
  <2>3. ASSUME v.status \in Units  PROVE Ahead(v, clock) - 1 >= -(Ticks[v.status] * Half)
    <3>1. Timed(v, clock)
      BY <1>1, <2>1, <2>3, Consts DEF EventControl, Inactive, ZeroDelay, Timed, Clocks, Units
    <3>2. Pending(v, clock, gap)
      BY <1>1, AllPending
    <3> HIDE DEF v
    <3> QED
      BY <1>1, <2>1, <3>1, <3>2, InRange
  <2> DEFINE l2 == left'[e]
             c2 == clock'
  <2>4. c2 = (clock + 1) % (Word * Word)
    BY <1>1
  <2> HIDE DEF v, l2, c2
  <2>5. Kept(v, l2, c2)
    BY <1>1, <2>1, <2>2, <2>3, <2>4, Passed DEF l2
  <2>6. \A g \in Nat : InTime(v, left[e], clock, g) => InTime(v, l2, c2, g + 1)
    BY <1>1, <2>1, <2>2, <2>3, <2>4, Passed DEF l2
  <2>7. Kept(v, l2, c2) /\ \A g \in Nat : Overslept(v, clock, g) => Overslept(v, c2, g + 1)
    BY <1>1, <2>1, <2>2, <2>3, <2>4, Passed DEF l2
  <2>8. Kept(v, l2, c2) /\ \A g \in Nat : Pending(v, clock, g) => Pending(v, c2, g + 1)
    BY <1>1, <2>1, <2>2, <2>3, <2>4, Passed DEF l2
  <2> QED
    BY <1>1, <2>5, <2>6, <2>7, <2>8 DEF v, l2, c2
<1>3. AllKept'
  BY <1>1, <1>2 DEF AllKept
<1>4. RoundInv'
  <2> SUFFICES ASSUME pc = "events"  PROVE \E g \in 0 .. gap' : clock' = (now + g) % (Word * Word)
    BY <1>1 DEF RoundInv
  <2>1. PICK g \in 0 .. gap : clock = (now + g) % (Word * Word)
    BY DEF TimeInv, RoundInv
  <2>2. now \in Nat
    BY Consts DEF TypeInv, Clocks
  <2>3. clock' = (now + (g + 1)) % (Word * Word)
    BY <1>1, <2>1, <2>2, NowLater
  <2>4. g + 1 \in 0 .. gap'
    BY <1>1, <2>1
  <2> QED
    BY <2>3, <2>4
<1>5. SleepInv'
  BY <1>1 DEF SleepInv
<1>6. LoopInv'
  BY <1>1, <1>2 DEF TimeInv, LoopInv, Reached
<1>7. EventsInv'
  BY <1>1, <1>2 DEF TimeInv, EventsInv, EventInv
<1> QED
  BY <1>3, <1>4, <1>5, <1>6, <1>7 DEF TimeInv

LEMMA TickAsleepTime == TypeInv /\ TimeInv /\ TickAsleep => TimeInv'
<1> SUFFICES ASSUME TypeInv, TimeInv, TickAsleep  PROVE TimeInv'
  OBVIOUS
<1>1. /\ pc = "asleep" /\ timer > 0 /\ timer' = timer - 1 /\ timer \in Nat
      /\ clock' = (clock + 1) % (Word * Word) /\ clock \in Clocks
      /\ control' = control /\ pc' = pc /\ slept' = slept
  BY DEF TickAsleep, ClockTick, TypeInv
<1> DEFINE m == Drift * MaxTimerUnits
<1>2. m \in Nat /\ m <= Word * Half
  <2>1. Drift <= Word /\ Drift \in Nat /\ Word \in Nat /\ MaxTimerUnits \in Nat
    BY Bounds, Consts
  <2>2. m <= Word * MaxTimerUnits
    BY <2>1, Larger
  <2>3. Word * MaxTimerUnits <= Word * Half
    BY Bounds, Consts
  <2> QED
    BY <2>1, <2>2, <2>3, Consts
<1> HIDE DEF m
<1>3. ASSUME NEW e \in Events
      PROVE  LET v == control[e] IN
             /\ Kept(v, left'[e], clock')
             /\ v.status \in Units => Ahead(v, clock') = Ahead(v, clock) - 1 /\ Ahead(v, clock) \in Int
  <2> DEFINE v == control[e]
  <2>1. v \in EventControl /\ left[e] \in Int /\ Kept(v, left[e], clock)
    BY DEF TypeInv, TimeInv, AllKept
  <2>2. v.status # "inactive" => left'[e] = left[e] - 1
    BY DEF TickAsleep, ClockTick, Active
  <2>3. ASSUME v.status \in Units
        PROVE  Ahead(v, clock) - 1 >= -(Ticks[v.status] * Half) /\ Ahead(v, clock) \in Int
    <3>1. Timed(v, clock) /\ v.status # "inactive"
      BY <1>1, <2>1, <2>3, Consts DEF EventControl, Inactive, ZeroDelay, Timed, Clocks, Units
    <3>2. \/ v.status = "minute" /\ Ahead(v, clock) >= timer - m
          \/ Ahead(v, clock) >= timer
      BY <1>1, <3>1 DEF TimeInv, SleepInv, Active, m
    <3> DEFINE A == Ahead(v, clock)
               n == Ticks[v.status]
    <3>3. A \in Int /\ n \in Nat \ {0} /\ (v.status = "minute" => n = Word)
      BY <3>1, AheadType DEF Ticks
    <3> HIDE DEF A, n
    <3>4. n * Half \in Nat
      BY <3>3, Consts
    <3>5. (A - 1 >= -m /\ v.status = "minute") \/ A - 1 >= 0
      BY <1>1, <1>2, <3>2, <3>3 DEF A
    <3> QED
      BY <1>2, <3>3, <3>4, <3>5 DEF A, n
  <2> HIDE DEF v
  <2>4. /\ Kept(v, left'[e], clock')
        /\ v.status \in Units => Ahead(v, clock') = Ahead(v, clock) - 1
    BY <1>1, <2>1, <2>2, <2>3, Passed
  <2> QED
    BY <2>3, <2>4 DEF v
<1>4. AllKept'
  BY <1>1, <1>3 DEF AllKept
<1>5. SleepInv'
  <2> SUFFICES ASSUME NEW e \in Events, Active(e)
               PROVE  /\ control[e].status \in Units
                      /\ IF slept = "minute"
                         THEN control[e].status = "minute" /\ Ahead(control[e], clock') >= timer' - m
                         ELSE Ahead(control[e], clock') >= timer'
    BY <1>1 DEF SleepInv, Active, m
  <2> DEFINE A == Ahead(control[e], clock)
  <2>1. /\ control[e].status \in Units
        /\ IF slept = "minute" THEN control[e].status = "minute" /\ A >= timer - m ELSE A >= timer
    BY <1>1 DEF TimeInv, SleepInv, m
  <2>2. Ahead(control[e], clock') = A - 1 /\ A \in Int
    BY <1>3, <2>1
  <2> HIDE DEF A
  <2>3. (A >= timer - m => A - 1 >= timer - 1 - m) /\ (A >= timer => A - 1 >= timer - 1)
    BY <1>1, <1>2, <2>2
  <2> QED
    BY <1>1, <2>1, <2>2, <2>3
<1>6. RoundInv' /\ LoopInv' /\ EventsInv'
  BY <1>1 DEF RoundInv, LoopInv, EventsInv
<1> QED
  BY <1>4, <1>5, <1>6 DEF TimeInv

\* Events that are scheduled, stopped or left alone keep what holds of events.
LEMMA KeptStep ==
  ASSUME TimeInv, clock' = clock, \A x \in Events : New(x) \/ Same(x)
  PROVE  AllKept'
  BY DEF TimeInv, AllKept, New, Same

LEMMA ScheduleTime == TypeInv /\ TimeInv /\ HandlerSchedules => TimeInv'
<1> SUFFICES ASSUME TypeInv, TimeInv, HandlerSchedules  PROVE TimeInv'
  OBVIOUS
<1>1. pc = "handlers" /\ pc' = pc /\ clock' = clock /\ gap' = gap /\ slept' = slept /\ gap \in Nat
  BY Bounds DEF HandlerSchedules, TypeInv
<1>4. \A x \in Events : New(x) \/ Same(x)
  BY HandlerLeaves
<1>5. AllKept'
  BY <1>1, <1>4, KeptStep
<1>6. LoopInv'
  BY <1>1, <1>4 DEF TimeInv, LoopInv, Reached, New, Same
<1> QED
  BY <1>1, <1>5, <1>6 DEF TimeInv, RoundInv, SleepInv, EventsInv

LEMMA SleepTime == TypeInv /\ TimeInv /\ CheckForSleep => TimeInv'
<1> SUFFICES ASSUME TypeInv, TimeInv, CheckForSleep  PROVE TimeInv'
  OBVIOUS
<1>1. pc = "handlers" /\ clock' = clock /\ control' = control /\ left' = left /\ gap' = gap
  BY DEF CheckForSleep
<1>2. AllKept'
  BY <1>1 DEF TimeInv, AllKept
<1>3. CASE pc' = "awake" /\ slept' = slept
  BY <1>1, <1>2, <1>3
     DEF TimeInv, RoundInv, SleepInv, LoopInv, Reached, EventsInv
<1>4. CASE /\ SleepDuration > 0 /\ pc' = "asleep" /\ slept' = TimerUnit(SleepDuration)
           /\ timer' = Ticks[slept'] * TimerDuration(SleepDuration)
  <2> DEFINE s == SleepDuration
             u == TimerUnit(s)
             d == Ticks[u] * TimerDuration(s)
             m == Drift * MaxTimerUnits
  <2>1. s \in Nat /\ s > 0 /\ slept' = u /\ timer' = d
    BY <1>4, SleepNext
  <2>2. /\ d \in Nat /\ (u # "minute" => d <= s)
        /\ (u = "minute" => d - m <= s /\ Quarter * (MaxTimerUnits + 1) <= s)
    BY <2>1, TimerFor
  <2>3. m \in Nat
    BY Bounds
  <2> HIDE DEF s, u, d, m
  <2>4. ASSUME NEW e \in Events, Active(e)
        PROVE  /\ control[e].status \in Units
               /\ IF u = "minute"
                  THEN control[e].status = "minute" /\ Ahead(control[e], clock) >= d - m
                  ELSE Ahead(control[e], clock) >= d
    <3> DEFINE A == Ahead(control[e], clock)
               n == Ticks[control[e].status]
    <3>1. control[e].status \in Units /\ s <= A
      BY <2>1, <2>4, SleepNext DEF s
    <3>2. A \in Int
      BY <2>4, <3>1, Waits
    <3>3. A <= n * (MaxSleepUnits - 1)
      BY <3>1 DEF TimeInv, AllKept, Kept
    <3> HIDE DEF A
    <3>4. ASSUME u = "minute"  PROVE control[e].status = "minute"
      <4>1. SUFFICES ASSUME n <= Quarter, n \in Nat \ {0}  PROVE FALSE
        BY <3>1, Consts DEF Ticks, Units
      <4>2. n * (MaxSleepUnits - 1) <= Quarter * (MaxSleepUnits - 1)
        <5>1. n \in Nat /\ Quarter \in Nat /\ MaxSleepUnits - 1 \in Nat
          BY <4>1, Consts, Bounds
        <5> HIDE DEF n
        <5> QED
          BY <4>1, <5>1, Larger
      <4> HIDE DEF n
      <4>3. Quarter * (MaxSleepUnits - 1) <= Quarter * MaxTimerUnits
        BY Consts, Bounds
      <4>4. Quarter * (MaxTimerUnits + 1) = Quarter * MaxTimerUnits + Quarter
        BY Consts, Bounds
      <4>5. /\ n * (MaxSleepUnits - 1) \in Int /\ Quarter * (MaxSleepUnits - 1) \in Int
            /\ Quarter * MaxTimerUnits \in Int
        BY <4>1, Consts, Bounds
      <4> QED
        BY <2>1, <2>2, <3>1, <3>2, <3>3, <3>4, <4>2, <4>3, <4>4, <4>5, Consts
    <3> QED
      BY <2>1, <2>2, <2>3, <3>1, <3>2, <3>4 DEF A
  <2>5. SleepInv'
    BY <1>1, <1>4, <2>1, <2>4 DEF SleepInv, Active, m
  <2> QED
    BY <1>2, <1>4, <2>5 DEF TimeInv, RoundInv, LoopInv, EventsInv
<1> QED
  BY <1>3, <1>4 DEF CheckForSleep

LEMMA WakeTime == TypeInv /\ TimeInv /\ Wake => TimeInv'
<1> SUFFICES ASSUME TypeInv, TimeInv, Wake  PROVE TimeInv'
  OBVIOUS
<1>1. /\ pc = "asleep" /\ pc' = "awake" /\ slept' = slept
      /\ clock' = clock /\ control' = control /\ left' = left /\ gap' = gap
      /\ timer \in Nat /\ gap \in Nat /\ clock \in Clocks
  BY Bounds DEF Wake, TypeInv
<1>2. ASSUME NEW e \in Events  PROVE Reached(e)
  <2> DEFINE v == control[e]
             A == Ahead(v, clock)
             n == Ticks[v.status]
             m == Drift * MaxTimerUnits
             l == left[e]
  <2>1. CASE v.status = "inactive"
    BY <2>1 DEF Reached, InTime
  <2>2. CASE v.status # "inactive"
    <3>1. /\ v.status \in Units
          /\ IF slept = "minute" THEN v.status = "minute" /\ A >= timer - m ELSE A >= timer
      BY <1>1, <2>2 DEF TimeInv, SleepInv, Active
    <3>2. A \in Int /\ n \in Nat \ {0} /\ m \in Nat /\ l \in Int /\ Slip(v) \in Nat
      BY <2>2, <3>1, Waits, TicksType, Bounds DEF Active, TypeInv, Slip
    <3>3. -Slip(v) <= l - A
      BY <3>1 DEF TimeInv, AllKept, Kept
    <3> DEFINE s == Slip(v)
    <3> HIDE DEF A, n, m, l, s
    <3>4. CASE slept = "minute"
      <4>1. A >= -(gap + m)
        BY <1>1, <3>1, <3>2, <3>4
      <4> QED
        BY <3>1, <3>4, <4>1 DEF Reached, Overslept, A, m
    <3>5. CASE slept # "minute"
      <4>1. l >= -(gap + s) /\ A >= -(gap + n - 1)
        BY <1>1, <3>1, <3>2, <3>3, <3>5 DEF s
      <4> QED
        BY <4>1 DEF Reached, InTime, A, n, l, s
    <3> QED
      BY <3>4, <3>5
  <2> QED
    BY <2>1, <2>2
<1>3. LoopInv'
  BY <1>1, <1>2 DEF LoopInv, Reached
<1> QED
  BY <1>1, <1>3 DEF TimeInv, AllKept, RoundInv, SleepInv, EventsInv

LEMMA ClockNow ==
  ASSUME NEW c \in Clocks
  PROVE  c = (c + 0) % (Word * Word)
<1> DEFINE w == Word * Word
<1>1. w \in Nat \ {0} /\ c \in 0 .. w - 1
  BY Consts DEF Clocks
<1> HIDE DEF w
<1>2. c + 0 = c /\ c = w * 0 + c /\ c \in Int
  BY <1>1
<1>3. c % w = c
  BY <1>1, <1>2, Quotient
<1> QED
  BY <1>2, <1>3 DEF w

LEMMA StartTime == TypeInv /\ TimeInv /\ StartEvents => TimeInv'
<1> SUFFICES ASSUME TypeInv, TimeInv, StartEvents  PROVE TimeInv'
  OBVIOUS
<1>1. /\ pc = "awake" /\ pc' = "events" /\ next' = 1 /\ now' = clock /\ gap' = 0
      /\ clock' = clock /\ control' = control /\ left' = left
      /\ gap \in 0 .. MaxGap /\ clock \in Clocks
  BY DEF StartEvents, TypeInv
<1>2. ASSUME NEW e \in Events  PROVE Pending(control[e], clock, 0)
  <2> SUFFICES ASSUME control[e].status \in Units  PROVE Pending(control[e], clock, 0)
    BY DEF Pending
  <2> DEFINE v == control[e]
             A == Ahead(v, clock)
             n == Ticks[v.status]
             m == Drift * MaxTimerUnits
  <2>1. Active(e) /\ v.status # "inactive"
    BY DEF Active, Units
  <2>2. A \in Int /\ n \in Nat \ {0} /\ m \in Nat
    BY <2>1, Waits, TicksType, Bounds
  <2>3. A >= -(gap + n - 1) \/ (v.status = "minute" /\ A >= -(gap + m))
    BY <1>1, <2>1 DEF TimeInv, LoopInv, Reached, InTime, Overslept
  <2> HIDE DEF A, n, m
  <2>4. A >= -(0 + MaxGap + n - 1) \/ (v.status = "minute" /\ A >= -(0 + MaxGap + m))
    BY <1>1, <2>2, <2>3, Bounds
  <2> QED
    BY <2>4 DEF Pending, Overslept, A, n, m
<1>3. EventsInv'
  <2>1. \A e \in Events : 1 <= e
    BY DEF Events
  <2> QED
    BY <1>1, <1>2, <2>1 DEF EventsInv, EventInv
<1>4. RoundInv'
  <2>1. clock = (clock + 0) % (Word * Word)
    BY <1>1, ClockNow
  <2>2. 0 \in 0 .. 0
    OBVIOUS
  <2> QED
    BY <1>1, <2>1, <2>2 DEF RoundInv
<1> QED
  BY <1>1, <1>3, <1>4 DEF TimeInv, AllKept, SleepInv, LoopInv

\* One event of a round is done with, and the next one is looked at.
LEMMA AdvanceTime ==
  ASSUME TypeInv, TimeInv, pc = "events", Advance, TypeInv',
         clock' = clock, gap' = gap, slept' = slept,
         \A x \in Events : New(x) \/ Same(x),
         InTime(control'[next], left'[next], clock, gap)
  PROVE  TimeInv'
<1>1. AllKept'
  BY KeptStep
<1>2. gap \in Nat /\ next \in Events /\ clock \in Clocks /\ NumEvents \in Nat
  BY Bounds, EventsAssumption DEF EventsAssumption, TypeInv
<1>3. ASSUME NEW x \in Events
      PROVE  /\ InTime(control[x], left[x], clock, gap) => InTime(control'[x], left'[x], clock, gap)
             /\ Pending(control[x], clock, gap) => Pending(control'[x], clock, gap)
  <2>1. CASE Same(x)
    BY <2>1 DEF Same
  <2>2. CASE New(x)
    <3>1. InTime(control'[x], left'[x], clock, gap)
      BY <1>2, <2>2 DEF New
    <3>2. control'[x] \in EventControl /\ left'[x] \in Int
      BY DEF TypeInv
    <3>3. Pending(control'[x], clock, gap)
      BY <1>2, <3>1, <3>2, InTimePending
    <3> QED
      BY <3>1, <3>3
  <2> QED
    BY <2>1, <2>2
<1>4. ASSUME NEW x \in Events, x < next  PROVE InTime(control'[x], left'[x], clock, gap)
  <2>1. ~(next <= x)
    BY <1>2, <1>4 DEF Events
  <2> QED
    BY <1>3, <2>1 DEF TimeInv, EventsInv, EventInv
<1>5. ASSUME NEW x \in Events, next <= x  PROVE Pending(control'[x], clock, gap)
  BY <1>3, <1>5 DEF TimeInv, EventsInv, EventInv
<1>6. CASE next = NumEvents
  <2>1. pc' = "handlers"
    BY <1>6 DEF Advance
  <2>2. \A x \in Events : x < next \/ x = next
    BY <1>2, <1>6 DEF Events
  <2>3. LoopInv'
    BY <1>4, <2>1, <2>2 DEF LoopInv, Reached
  <2> QED
    BY <1>1, <2>1, <2>3 DEF TimeInv, RoundInv, SleepInv, EventsInv
<1>7. CASE next # NumEvents
  <2>1. pc' = "events" /\ next' = next + 1 /\ now' = IF next = AppEvents[build] THEN clock ELSE now
    BY <1>7 DEF Advance
  <2>2. \A x \in Events : (next' <= x => next <= x) /\ (~(next' <= x) => x < next \/ x = next)
    BY <1>2, <2>1 DEF Events
  <2>3. EventsInv'
    BY <1>4, <1>5, <2>2 DEF EventsInv, EventInv
  <2>4. RoundInv'
    <3>1. CASE now' = now
      BY <2>1, <3>1 DEF TimeInv, RoundInv
    <3>2. CASE now' = clock
      <4>1. clock = (clock + 0) % (Word * Word)
        BY <1>2, ClockNow
      <4>2. 0 \in 0 .. gap
        BY <1>2
      <4> QED
        BY <2>1, <3>2, <4>1, <4>2 DEF RoundInv
    <3> QED
      BY <2>1, <3>1, <3>2
  <2> QED
    BY <1>1, <2>1, <2>3, <2>4 DEF TimeInv, SleepInv, LoopInv
<1> QED
  BY <1>6, <1>7

\* What an event is to the clock that was read for its table
LEMMA AtRound ==
  ASSUME TypeInv, TimeInv, pc = "events", NEW e \in Events, control[e].status \in Units
  PROVE  \E g \in 0 .. gap :
           /\ Ahead(control[e], clock) \in Int /\ Ahead(control[e], now) \in Int
           /\ Ahead(control[e], clock) = Ahead(control[e], now) - g
           /\ Due(control[e], now) <=> Ahead(control[e], now) <= 0
<1> DEFINE v == control[e]
<1>1. Timed(v, clock) /\ Timed(v, now)
  BY Consts DEF TypeInv, EventControl, Inactive, ZeroDelay, Timed, Clocks, Units
<1>2. PICK g \in 0 .. gap : clock = (now + g) % (Word * Word)
  BY DEF TimeInv, RoundInv
<1>3. g \in Nat /\ g <= MaxGap
  BY <1>2, Bounds DEF TypeInv
<1>4. Ahead(v, clock) + MaxGap + Ticks[v.status] <= Ticks[v.status] * (Word - Half)
  BY DEF TimeInv, AllKept, Kept
<1>5. Ahead(v, clock) \in Int /\ Ahead(v, now) \in Int /\ Ticks[v.status] \in Nat \ {0}
  BY <1>1, AheadType
<1> HIDE DEF v
<1>6. Ahead(v, clock) + g + Ticks[v.status] <= Ticks[v.status] * (Word - Half)
  <2> DEFINE A == Ahead(v, clock)
             n == Ticks[v.status]
             h == n * (Word - Half)
  <2>1. A \in Int /\ n \in Nat /\ h \in Int /\ A + MaxGap + n <= h
    BY <1>4, <1>5, Consts
  <2> HIDE DEF A, n, h
  <2>2. A + g + n <= h
    BY <1>3, <2>1, Bounds
  <2> QED
    BY <2>2 DEF A, n, h
<1>7. Ahead(v, clock) = Ahead(v, now) - g
  BY <1>1, <1>2, <1>3, <1>6, Nearer
<1>8. Due(v, now) <=> Ahead(v, now) <= 0
  BY <1>1, DueAhead
<1> QED
  BY <1>5, <1>7, <1>8 DEF v

LEMMA SkipTime == TypeInv /\ TypeInv' /\ TimeInv /\ SkipEvent => TimeInv'
<1> SUFFICES ASSUME TypeInv, TypeInv', TimeInv, SkipEvent  PROVE TimeInv'
  OBVIOUS
<1>1. /\ pc = "events" /\ Advance /\ clock' = clock /\ gap' = gap /\ slept' = slept
      /\ control' = control /\ left' = left /\ next \in Events /\ gap \in Nat
  BY Bounds DEF SkipEvent, TypeInv
<1>2. InTime(control[next], left[next], clock, gap)
  <2> DEFINE v == control[next]
             l == left[next]
             A == Ahead(v, clock)
             n == Ticks[v.status]
             s == Slip(v)
  <2>1. v \in EventControl /\ l \in Int /\ ~Due(v, now)
    BY <1>1 DEF SkipEvent, TypeInv
  <2>2. CASE v.status \notin Units
    <3>1. v.status = "inactive"
      BY <2>1, <2>2 DEF EventControl, Inactive, ZeroDelay, Due
    <3> QED
      BY <3>1 DEF InTime
  <2>3. CASE v.status \in Units
    <3>1. PICK g \in 0 .. gap :
            /\ A \in Int /\ Ahead(v, now) \in Int /\ A = Ahead(v, now) - g
            /\ Due(v, now) <=> Ahead(v, now) <= 0
      BY <1>1, <2>3, AtRound
    <3>2. n \in Nat \ {0} /\ s \in Nat
      BY <2>3, TicksType, Bounds DEF Slip
    <3>3. -s <= l - A
      BY <1>1, <2>3 DEF TimeInv, AllKept, Kept
    <3>4. ~(Ahead(v, now) <= 0)
      BY <2>1, <3>1
    <3> HIDE DEF v, l, A, n, s
    <3>5. l >= -(gap + s) /\ A >= -(gap + n - 1)
      BY <1>1, <2>1, <3>1, <3>2, <3>3, <3>4
    <3> QED
      BY <3>5 DEF InTime, v, l, A, n, s
  <2> QED
    BY <2>2, <2>3
<1>3. \A x \in Events : Same(x)
  BY <1>1 DEF Same
<1> QED
  BY <1>1, <1>2, <1>3, AdvanceTime

LEMMA RunTime == TypeInv /\ TypeInv' /\ TimeInv /\ RunEvent => TimeInv'
<1> SUFFICES ASSUME TypeInv, TypeInv', TimeInv, RunEvent  PROVE TimeInv'
  OBVIOUS
<1>1. /\ pc = "events" /\ Advance /\ clock' = clock /\ gap' = gap /\ slept' = slept
      /\ next \in Events /\ gap \in Nat
  BY Bounds DEF RunEvent, TypeInv
<1>4. New(next) /\ \A x \in Events : New(x) \/ Same(x)
  BY RunLeaves
<1>5. InTime(control'[next], left'[next], clock, gap)
  BY <1>1, <1>4 DEF New
<1> QED
  BY <1>1, <1>4, <1>5, AdvanceTime

LEMMA TimeStep == TypeInv /\ TypeInv' /\ TimeInv /\ [Next]_vars => TimeInv'
<1> SUFFICES ASSUME TypeInv, TypeInv', TimeInv, [Next]_vars  PROVE TimeInv'
  OBVIOUS
<1>1. CASE UNCHANGED <<clock, control, pc, next, now, timer, slept, left, gap>>
  BY <1>1
     DEF TimeInv, RoundInv, AllKept, SleepInv, Active, LoopInv, Reached, EventsInv, EventInv
<1>2. CASE EventsHeldBack
  BY <1>2
     DEF EventsHeldBack, TimeInv, RoundInv, AllKept, SleepInv, LoopInv, Reached, EventsInv
<1> QED
  BY <1>1, <1>2, TickTime, TickAsleepTime, ScheduleTime, SleepTime, WakeTime, StartTime,
     SkipTime, RunTime
  DEF Next, AddToCurrentAppTasks, RemoveFromCurrentAppTasks, vars, taskVars

LEMMA EventsInvariant == Spec => [](TypeInv /\ TimeInv)
<1>1. Init => TypeInv /\ TimeInv
  BY InitType, InitTime
<1>2. (TypeInv /\ TimeInv) /\ [Next]_vars => (TypeInv /\ TimeInv)'
  BY TypeStep, TimeStep
<1> QED
  BY <1>1, <1>2, PTL DEF Spec

\* An event whose time has come is run by the next round of the main loop,
\* whatever count wraps on the way, and the host does not sleep past it, but
\* for what a minute of af.h is short: property EventsInTime, of every state.
THEOREM EventsRunInTime == Spec => []EventsInTime
<1>1. TypeInv /\ TimeInv => EventsInTime
  <2> SUFFICES ASSUME TypeInv, TimeInv, NEW e \in Events, Active(e),
                      ~(pc = "events" /\ next <= e),
                      ~(pc \in {"asleep", "awake", "handlers"} /\ slept = "minute")
               PROVE  ~(left[e] < -(gap + Late(e)))
    BY DEF EventsInTime
  <2> DEFINE v == control[e]
             s == Slip(v)
             l == left[e]
  <2>1. gap \in Nat /\ l \in Int /\ s \in Nat /\ Late(e) = s
    BY Bounds DEF TypeInv, Slip, Late
  <2>2. CASE pc = "asleep"
    <3> DEFINE A == Ahead(v, clock)
    <3>1. v.status \in Units /\ A >= timer /\ timer \in Nat
      BY <2>2 DEF TypeInv, TimeInv, SleepInv
    <3>2. A \in Int /\ -s <= l - A
      BY <3>1, Waits DEF TimeInv, AllKept, Kept
    <3> HIDE DEF A, s, l
    <3>3. l >= -(gap + s)
      BY <2>1, <3>1, <3>2
    <3> QED
      BY <2>1, <3>3 DEF l
  <2>3. CASE pc # "asleep"
    <3>1. InTime(v, l, clock, gap)
      BY <2>3 DEF TypeInv, TimeInv, LoopInv, Reached, EventsInv, EventInv
    <3>2. l >= -(gap + s)
      BY <3>1 DEF InTime, Active
    <3> HIDE DEF s, l
    <3> QED
      BY <2>1, <3>2 DEF l
  <2> QED
    BY <2>2, <2>3
<1> QED
  BY EventsInvariant, <1>1, PTL

\* No event is run before its time, but for what is lost of its delay when it
\* is cut to whole units: property NeverEarly, of every step.
THEOREM EventsNeverEarly == Spec => NeverEarly
<1>1. TypeInv /\ TimeInv => [RunEvent => left[next] <= Early[control[next].status]]_vars
  <2> SUFFICES ASSUME TypeInv, TimeInv, RunEvent
               PROVE  left[next] <= Early[control[next].status]
    OBVIOUS
  <2> DEFINE v == control[next]
             l == left[next]
             A == Ahead(v, clock)
             y == Early[v.status]
  <2>1. pc = "events" /\ Due(v, now) /\ next \in Events /\ l \in Int
    BY DEF RunEvent, TypeInv
  <2>2. CASE v.status \notin Units
    <3>1. v.status = "zero"
      BY <2>1, <2>2 DEF Due
    <3>2. Early["zero"] = 0 /\ l <= 0
      BY <2>1, <3>1 DEF Early, TimeInv, AllKept, Kept
    <3> QED
      BY <3>1, <3>2
  <2>3. CASE v.status \in Units
    <3>1. PICK g \in 0 .. gap :
            /\ A \in Int /\ Ahead(v, now) \in Int /\ A = Ahead(v, now) - g
            /\ Due(v, now) <=> Ahead(v, now) <= 0
      BY <2>1, <2>3, AtRound
    <3>2. l - A <= y /\ y \in Int
      BY <2>1, <2>3, Consts, Bounds DEF TimeInv, AllKept, Kept, Early, Units
    <3>3. Ahead(v, now) <= 0 /\ gap \in Nat
      BY <2>1, <3>1, Bounds DEF TypeInv
    <3> HIDE DEF v, l, A, y
    <3>4. l <= y
      BY <2>1, <3>1, <3>2, <3>3
    <3> QED
      BY <3>4 DEF v, l, y
  <2> QED
    BY <2>2, <2>3
<1> QED
  BY EventsInvariant, <1>1, PTL DEF NeverEarly

\* emberRunEvents has an event to run when the time that emberMsToNextEvent
\* gives has passed, and none before: property NextEventExact, of every state.
THEOREM NextEventIsExact == Spec => []NextEventExact
<1>1. ASSUME TypeInv, NEW e \in Events, NEW ms \in Nat, control[e].status \in Units,
             ms <= Ahead(control[e], clock)
      PROVE  Due(control[e], clock + ms) <=> ms = Ahead(control[e], clock)
  <2> DEFINE v == control[e]
             u == clock + ms
             A == Ahead(v, clock)
  <2>1. Timed(v, clock) /\ clock \in Nat
    BY <1>1, Consts DEF TypeInv, EventControl, Inactive, ZeroDelay, Timed, Clocks, Units
  <2>2. Timed(v, u)
    BY <2>1 DEF Timed
  <2>3. A \in Int /\ Ticks[v.status] \in Nat \ {0}
    BY <2>1, AheadType
  <2>4. clock + ms = Ticks[v.status] * (Word * 0) + u
    BY <2>1, <2>3, Consts
  <2>5. A - ms >= -(Ticks[v.status] * Half)
    <3> DEFINE h == Ticks[v.status] * Half
    <3>1. h \in Nat
      BY <2>3, Consts
    <3> HIDE DEF h
    <3>2. A - ms >= -h
      BY <1>1, <2>3, <3>1
    <3> QED
      BY <3>2 DEF h
  <2> HIDE DEF v, u
  <2>6. Ahead(v, u) = A - ms
    BY <2>1, <2>2, <2>4, <2>5, Shifted
  <2>7. Due(v, u) <=> Ahead(v, u) <= 0
    BY <2>2, DueAhead
  <2>8. ms <= A
    BY <1>1 DEF v
  <2> HIDE DEF A
  <2>9. A - ms <= 0 <=> ms = A
    BY <2>3, <2>8
  <2> QED
    BY <2>6, <2>7, <2>9 DEF v, u, A
<1>2. TypeInv => NextEventExact
  <2> SUFFICES ASSUME TypeInv  PROVE NextEventExact
    OBVIOUS
  <2> DEFINE max == Word * Word
             first == MsToNextEvent(max)
  <2>1. max \in Nat
    BY Consts
  <2>2. /\ first \in Nat /\ first <= max
        /\ \A e \in Events : Active(e) => first <= WaitOf(control[e])
        /\ first = max \/ \E e \in Events : Active(e) /\ first = WaitOf(control[e])
    <3> HIDE DEF max
    <3> QED
      BY <2>1, NextWait
  <2> HIDE DEF first
  <2>3. ASSUME NEW ms \in 0 .. first - 1, NEW e \in Events  PROVE ~Due(control[e], clock + ms)
    <3>1. CASE ~Active(e)
      <4>1. control[e].status \notin Units /\ control[e].status # "zero"
        BY <3>1 DEF Active, Units
      <4> QED
        BY <4>1 DEF Due
    <3>2. CASE Active(e)
      <4>1. first <= WaitOf(control[e]) /\ WaitOf(control[e]) \in Nat
        BY <2>2, <3>2, Waits
      <4>2. WaitOf(control[e]) > 0 /\ ms \in Nat /\ ms < WaitOf(control[e])
        BY <2>2, <2>3, <4>1
      <4>3. /\ control[e].status \in Units /\ WaitOf(control[e]) = Ahead(control[e], clock)
        BY <3>2, <4>2, Waits
      <4>4. ms <= Ahead(control[e], clock) /\ ms # Ahead(control[e], clock)
        BY <4>1, <4>2, <4>3
      <4> QED
        BY <1>1, <4>2, <4>3, <4>4
    <3> QED
      BY <3>1, <3>2
  <2>4. ASSUME first < max  PROVE \E e \in Events : Due(control[e], clock + first)
    <3>1. PICK e \in Events : Active(e) /\ first = WaitOf(control[e])
      BY <2>1, <2>2, <2>4
    <3>2. CASE control[e].status \notin Units
      <4>1. control[e].status = "zero"
        BY <3>1, <3>2 DEF TypeInv, EventControl, Inactive, ZeroDelay, Active
      <4> QED
        BY <4>1 DEF Due
    <3>3. CASE control[e].status \in Units /\ WaitOf(control[e]) > 0
      <4>1. first = Ahead(control[e], clock)
        BY <3>1, <3>3, Waits
      <4> QED
        BY <1>1, <2>2, <3>3, <4>1
    <3>4. CASE control[e].status \in Units /\ ~(WaitOf(control[e]) > 0)
      <4>1. Timed(control[e], clock) /\ Ahead(control[e], clock) \in Int
        BY <3>1, <3>4, Waits
      <4>2. Ahead(control[e], clock) <= 0
        BY <3>4, <4>1, WaitIs
      <4>3. first = 0 /\ clock + first = clock
        BY <3>1, <4>1, <4>2, WaitIs, Consts DEF TypeInv, Clocks
      <4> QED
        BY <4>1, <4>2, <4>3, DueAhead
    <3> QED
      BY <3>2, <3>3, <3>4
  <2> QED
    BY <2>3, <2>4 DEF NextEventExact, first
<1> QED
  BY EventTypes, <1>2, PTL
=============================================================================
