----------------------- MODULE PeriodicScheduleProofs -----------------------
(***************************************************************************)
(* What holds of PeriodicSchedule for all schedules, zones and delays.     *)
(***************************************************************************)
EXTENDS PeriodicSchedule, WellFoundedInduction, TLAPS

-----------------------------------------------------------------------------
(* The schedule functions.                                                 *)

LEMMA LeastNumber ==
  ASSUME NEW S \in SUBSET Nat, S # {}
  PROVE  \E k \in S : \A j \in S : k <= j
<1>1. IsWellFoundedOn(OpToRel(<, Nat), Nat)
  BY NatLessThanWellFounded
<1>2. PICK k \in S : \A j \in S : ~ (<<j, k>> \in OpToRel(<, Nat))
  BY <1>1, WFMin
<1>3. \A j \in S : ~ (j < k)
  BY <1>2 DEF OpToRel
<1>. QED  BY <1>3

LEMMA FirstIsLeast ==
  ASSUME NEW S \in SUBSET Nat, S # {}
  PROVE  First(S) \in S /\ \A j \in S : First(S) <= j
  BY LeastNumber DEF First

LEMMA Midnights ==
  ASSUME NEW w \in Nat
  PROVE  /\ Midnight(w) \in Nat
         /\ Midnight(w) <= w /\ w < Midnight(w) + Day
         /\ Day \in Nat
  BY DEF Midnight, Day, Hour, Minute

LEMMA TimeIsNat == \A time \in TimesOfDay : time \in Nat
  BY DEF TimesOfDay, Minute

LEMMA Horizon ==
  /\ 7 * 24 * 60 \in 1 .. CronHorizon
  /\ \A k \in 1 .. CronHorizon :
       k \in Nat \ {0} /\ \A j \in 1 .. k - 1 : j \in 1 .. CronHorizon /\ ~ (k <= j)
<1>1. CronHorizon \in Nat /\ CronHorizon >= 7 * 24 * 60
  BY SMT DEF CronHorizon
<1>. QED  BY SMT, <1>1

LEMMA Minutes ==
  ASSUME NEW w \in Nat, NEW k \in Nat \ {0}
  PROVE  MinuteAfter(w, k) \in Nat /\ MinuteAfter(w, k) > w
  BY DEF MinuteAfter, Minute

LEMMA NextWeeklyIsLater ==
  ASSUME NEW w \in Nat, NEW time \in TimesOfDay, NEW days
  PROVE  \/ NextWeekly(w, time, days) = Raises
         \/ NextWeekly(w, time, days) \in Nat /\ NextWeekly(w, time, days) > w
<1> DEFINE coming == Coming(w, time, days, 0 .. 7)
<1>1. CASE coming = {}
  BY <1>1 DEF NextWeekly
<1>2. CASE coming # {}
  <2>1. coming \in SUBSET Nat
    BY DEF Coming
  <2>2. First(coming) \in coming
    BY <1>2, <2>1, FirstIsLeast
  <2>3. First(coming) \in 0 .. 7 /\ Midnight(w) + First(coming) * Day + time > w
    BY <2>2 DEF Coming
  <2>4. NextWeekly(w, time, days) = Midnight(w) + First(coming) * Day + time
    BY <1>2 DEF NextWeekly
  <2>5. time \in Nat
    BY TimeIsNat
  <2> HIDE DEF coming
  <2>6. First(coming) * Day \in Nat
    BY <2>3 DEF Day, Hour, Minute
  <2>. QED  BY <2>3, <2>4, <2>5, <2>6, Midnights
<1>. QED  BY <1>1, <1>2

LEMMA NextCronIsLater ==
  ASSUME NEW w \in Nat, NEW s
  PROVE  \/ NextCron(w, s) = Raises
         \/ /\ NextCron(w, s) \in Nat /\ NextCron(w, s) > w
            /\ \E k \in 1 .. CronHorizon :
                 /\ NextCron(w, s) = MinuteAfter(w, k)
                 /\ Found(w, s, k) /\ MatchesCron(MinuteAfter(w, k), s)
<1> DEFINE found(k) == Found(w, s, k)
<1>1. CASE ~ \E k \in 1 .. CronHorizon : Found(w, s, k)
  BY <1>1 DEF NextCron
<1>2. CASE \E k \in 1 .. CronHorizon : Found(w, s, k)
  <2>1. PICK k : k = CHOOSE i \in 1 .. CronHorizon : Found(w, s, i)
    OBVIOUS
  <2>2. k \in 1 .. CronHorizon /\ Found(w, s, k)
    BY <1>2, <2>1
  <2>3. NextCron(w, s) = IF MatchesCron(MinuteAfter(w, k), s) THEN MinuteAfter(w, k) ELSE Raises
    BY <1>2, <2>1 DEF NextCron
  <2>5. k \in Nat \ {0}
    BY <2>2, Horizon
  <2>. QED  BY <2>2, <2>3, <2>5, Minutes
<1>. QED  BY <1>1, <1>2

\* A run is always computed to be later than the time it is computed from.
LEMMA NextIsLater ==
  ASSUME NEW s, IsSchedule(s), NEW w \in Nat
  PROVE  \/ NextRunAfter(s, w) = Raises
         \/ NextRunAfter(s, w) \in Nat /\ NextRunAfter(s, w) > w
<1>1. CASE s.type = "interval" /\ s.every \in Nat \ {0}
  BY <1>1 DEF NextRunAfter
<1>2. CASE s.type = "daily" /\ s.time \in TimesOfDay
  <2>1. s.time \in Nat
    BY <1>2, TimeIsNat
  <2>2. NextRunAfter(s, w) = NextDaily(w, s.time)
    BY <1>2 DEF NextRunAfter
  <2>3. NextDaily(w, s.time) \in Nat /\ NextDaily(w, s.time) > w
    BY <2>1, Midnights DEF NextDaily
  <2>. QED  BY <2>2, <2>3
<1>3. CASE s.type = "weekly" /\ s.time \in TimesOfDay
  BY <1>3, NextWeeklyIsLater DEF NextRunAfter
<1>4. CASE s.type = "cron"
  BY <1>4, NextCronIsLater DEF NextRunAfter
<1>5. CASE s.type = "unparsable"
  BY <1>5 DEF NextRunAfter
<1>. QED  BY <1>1, <1>2, <1>3, <1>4, <1>5 DEF IsSchedule

-----------------------------------------------------------------------------
(* There is always a next run.                                             *)

\* A week later the clock and the weekday are the same.
LEMMA WeekLater ==
  ASSUME NEW w \in Nat
  PROVE  LET v == w + 7 * Day IN
         MinuteOf(v) = MinuteOf(w) /\ HourOf(v) = HourOf(w) /\ DowOf(v) = DowOf(w)
  BY DEF MinuteOf, HourOf, DowOf, Weekday, Day, Hour, Minute

LEMMA CronGoesOn ==
  ASSUME NEW s, Readable(s), s.type = "cron",
         NEW w \in Nat, w % Minute = 0, MatchesCron(w, s)
  PROVE  NextCron(w + 1, s) # Raises
<1> DEFINE minute(k) == MinuteAfter(w + 1, k)
           week == 7 * 24 * 60
           stops == {k \in 1 .. CronHorizon : StopsAt(minute(k), s)}
<1>1. minute(week) = w + 7 * Day
  BY DEF MinuteAfter, Day, Hour, Minute
<1>2. MatchesCron(minute(week), s)
  BY <1>1, WeekLater DEF MatchesCron
<1>3. week \in 1 .. CronHorizon
  BY Horizon
<1>4. stops \in SUBSET Nat /\ stops # {}
  BY <1>2, <1>3, Horizon DEF StopsAt
<1>5. PICK k \in stops : \A j \in stops : k <= j
  BY <1>4, LeastNumber
<1>6. k \in 1 .. CronHorizon /\ Found(w + 1, s, k)
  <2>1. k \in 1 .. CronHorizon /\ StopsAt(minute(k), s)
    BY <1>5
  <2>2. \A j \in 1 .. k - 1 : j \in 1 .. CronHorizon /\ ~ (k <= j)
    BY <2>1, Horizon
  <2>. QED  BY <1>5, <2>1, <2>2 DEF Found
<1>7. PICK c : c = CHOOSE i \in 1 .. CronHorizon : Found(w + 1, s, i)
  OBVIOUS
<1>8. c \in 1 .. CronHorizon /\ Found(w + 1, s, c)
  BY <1>6, <1>7
<1>9. MatchesCron(MinuteAfter(w + 1, c), s)
  BY <1>8 DEF Found, StopsAt, CronRaises, FieldRaises, Readable
<1>10. NextCron(w + 1, s) = MinuteAfter(w + 1, c)
  BY <1>6, <1>7, <1>9 DEF NextCron
<1>11. c \in Nat \ {0}
  BY <1>8, Horizon
<1>. QED  BY <1>10, <1>11, Minutes DEF Raises

LEMMA WeeklyGoesOn ==
  ASSUME NEW w \in Nat, NEW time \in TimesOfDay, NEW days \in SUBSET Weekdays, days # {}
  PROVE  NextWeekly(w, time, days) # Raises
<1>1. PICK d \in days : d \in Weekdays
  OBVIOUS
<1>2. time \in Nat
  BY TimeIsNat
<1>3. PICK k \in 0 .. 7 :
        Weekday(w + k * Day) = d /\ Midnight(w) + k * Day + time > w
  <2>1. PICK i \in 0 .. 6 : Weekday(w + i * Day) = d
    <3>1. \A i \in Nat : (w + i * Day) \div Day = (w \div Day) + i
      BY DEF Day, Hour, Minute
    <3>2. PICK day \in Nat : day = w \div Day
      BY DEF Day, Hour, Minute
    <3>3. PICK i \in 0 .. 6 : (day + i) % 7 = d
      <4>1. d \in 0 .. 6 /\ day % 7 \in 0 .. 6
        BY <1>1 DEF Weekdays
      <4>2. CASE d >= day % 7
        <5>1. (day + (d - (day % 7))) % 7 = d
          BY <4>1, <4>2
        <5>. QED  BY <4>1, <4>2, <5>1
      <4>3. CASE d < day % 7
        <5>1. (day + (d + 7 - (day % 7))) % 7 = d
          BY <4>1, <4>3
        <5>. QED  BY <4>1, <4>3, <5>1
      <4>. QED  BY <4>1, <4>2, <4>3
    <3>. QED  BY <3>1, <3>2, <3>3 DEF Weekday
  <2>2. CASE i = 0
    <3>1. Weekday(w + 7 * Day) = Weekday(w + i * Day)
      BY <2>2 DEF Weekday, Day, Hour, Minute
    <3>2. Midnight(w) + 7 * Day + time > w
      BY <1>2 DEF Midnight, Day, Hour, Minute
    <3>. QED  BY <2>1, <3>1, <3>2
  <2>3. CASE i # 0
    BY <1>2, <2>1, <2>3 DEF Midnight, Day, Hour, Minute
  <2>. QED  BY <2>2, <2>3
<1> DEFINE coming == Coming(w, time, days, 0 .. 7)
<1>4. coming \in SUBSET Nat /\ coming # {}
  BY <1>3 DEF Coming
<1>5. First(coming) \in Nat
  BY <1>4, FirstIsLeast
<1>6. First(coming) * Day \in Nat /\ Midnight(w) \in Nat
  BY <1>5, Midnights DEF Day, Hour, Minute
<1>7. NextWeekly(w, time, days) = Midnight(w) + First(coming) * Day + time
  BY <1>4 DEF NextWeekly
<1> HIDE DEF coming
<1>. QED  BY <1>2, <1>6, <1>7 DEF Raises

\* The times a schedule names.
Fits(s, m) ==
  \/ s.type = "daily" /\ m % Day = s.time
  \/ s.type = "weekly" /\ m % Day = s.time /\ Weekday(m) \in s.days
  \/ s.type = "cron" /\ m % Minute = 0 /\ MatchesCron(m, s)

LEMMA DayAndTime ==
  ASSUME NEW d \in Nat, NEW time \in TimesOfDay
  PROVE  /\ (d * Day + time) % Day = time
         /\ (d * Day + time) \div Day = d
         /\ (d * Day + time) % Minute = 0
<1>1. PICK m \in 0 .. 24 * 60 - 1 : time = m * Minute
  BY DEF TimesOfDay
<1>. QED  BY <1>1 DEF Day, Hour, Minute

LEMMA OfADay ==
  ASSUME NEW m \in Nat
  PROVE  m \div Day \in Nat /\ m = (m \div Day) * Day + (m % Day) /\ Midnight(m) = (m \div Day) * Day
  BY DEF Midnight, Day, Hour, Minute

\* They are full minutes.
LEMMA FitsFull ==
  ASSUME NEW s, IsSchedule(s), NEW m \in Nat, Fits(s, m)
  PROVE  m % Minute = 0
<1>1. CASE s.type = "cron"
  BY <1>1 DEF Fits
<1>2. CASE s.type # "cron"
  <2>1. m % Day = s.time /\ s.time \in TimesOfDay
    BY <1>2 DEF Fits, IsSchedule
  <2>. QED  BY <2>1, OfADay, DayAndTime
<1>. QED  BY <1>1, <1>2

LEMMA NamedFits ==
  ASSUME NEW s, IsSchedule(s), NEW v \in Nat, NEW w \in Nat
  PROVE  Named(s, v, w) = {m \in Nat : v < m /\ m < w /\ Fits(s, m)}
<1> DEFINE days == v \div Day .. w \div Day
           at(time) == {d * Day + time : d \in days}
<1>1. days \subseteq Nat
  BY OfADay
<1>2. ASSUME NEW time \in TimesOfDay
      PROVE  \A m : m \in at(time) /\ v < m /\ m < w <=> m \in Nat /\ m % Day = time /\ v < m /\ m < w
  <2>1. ASSUME NEW m \in at(time)
        PROVE  m \in Nat /\ m % Day = time
    <3>1. PICK d \in days : m = d * Day + time
      OBVIOUS
    <3>2. d \in Nat /\ d * Day \in Nat /\ time \in Nat
      BY <1>1, TimeIsNat DEF Day, Hour, Minute
    <3>. QED  BY <3>1, <3>2, DayAndTime
  <2>2. ASSUME NEW m \in Nat, m % Day = time, v < m, m < w
        PROVE  m \in at(time)
    <3>1. m \div Day \in days
      BY <2>2 DEF Day, Hour, Minute
    <3>2. m = (m \div Day) * Day + time
      BY <2>2, OfADay
    <3>. QED  BY <3>1, <3>2
  <2>. QED  BY <2>1, <2>2
<1> HIDE DEF days, at
<1>3. CASE s.type = "daily" /\ s.time \in TimesOfDay
  <2>1. Named(s, v, w) = {m \in at(s.time) : v < m /\ m < w}
    BY <1>3 DEF Named, at, days
  <2>. QED  BY <1>2, <1>3, <2>1 DEF Fits
<1>4. CASE s.type = "weekly" /\ s.time \in TimesOfDay
  <2>1. Named(s, v, w) = {m \in {n \in at(s.time) : Weekday(n) \in s.days} : v < m /\ m < w}
    BY <1>4 DEF Named, at, days
  <2>. QED  BY <1>2, <1>4, <2>1 DEF Fits
<1>5. CASE s.type = "cron"
  <2> DEFINE minutes == {k * Minute : k \in v \div Minute .. w \div Minute}
  <2>1. Named(s, v, w) = {m \in {n \in minutes : MatchesCron(n, s)} : v < m /\ m < w}
    BY <1>5 DEF Named
  <2>2. \A m \in minutes : m \in Nat /\ m % Minute = 0
    BY DEF Minute
  <2>3. ASSUME NEW m \in Nat, m % Minute = 0, v < m, m < w
        PROVE  m \in minutes
    <3>1. m \div Minute \in v \div Minute .. w \div Minute /\ m = (m \div Minute) * Minute
      BY <2>3 DEF Minute
    <3>. QED  BY <3>1
  <2> HIDE DEF minutes
  <2>. QED  BY <1>5, <2>1, <2>2, <2>3 DEF Fits
<1>6. CASE s.type \in {"interval", "unparsable"}
  BY <1>6 DEF Named, Fits
<1>. QED  BY <1>3, <1>4, <1>5, <1>6 DEF IsSchedule

LEMMA NextDailyIsNext ==
  ASSUME NEW w \in Nat, NEW time \in TimesOfDay
  PROVE  /\ NextDaily(w, time) % Day = time
         /\ \A m \in Nat : w < m /\ m < NextDaily(w, time) => m % Day # time
<1>1. PICK d \in Nat : Midnight(w) = d * Day /\ d * Day <= w /\ w < d * Day + Day
  BY OfADay, Midnights
<1>2. NextDaily(w, time) = d * Day + time \/ NextDaily(w, time) = (d + 1) * Day + time
  BY <1>1, TimeIsNat DEF NextDaily, Day, Hour, Minute
<1>3. NextDaily(w, time) % Day = time
  BY <1>2, DayAndTime
<1>4. ASSUME NEW m \in Nat, w < m, m < NextDaily(w, time), m % Day = time
      PROVE  FALSE
  <2>1. PICK e \in Nat : m = e * Day + time
    BY <1>4, OfADay
  <2>2. time \in Nat
    BY TimeIsNat
  <2>3. CASE d * Day + time <= w
    BY <1>1, <1>4, <2>1, <2>2, <2>3 DEF NextDaily, Day, Hour, Minute
  <2>4. CASE d * Day + time > w
    BY <1>1, <1>4, <2>1, <2>2, <2>4 DEF NextDaily, Day, Hour, Minute
  <2>. QED  BY <2>2, <2>3, <2>4 DEF Day, Hour, Minute
<1>. QED  BY <1>3, <1>4

LEMMA NextWeeklyIsNext ==
  ASSUME NEW w \in Nat, NEW time \in TimesOfDay, NEW days,
         NextWeekly(w, time, days) # Raises
  PROVE  LET n == NextWeekly(w, time, days) IN
         /\ n % Day = time /\ Weekday(n) \in days
         /\ \A m \in Nat : w < m /\ m < n => ~ (m % Day = time /\ Weekday(m) \in days)
<1> DEFINE coming == Coming(w, time, days, 0 .. 7)
<1>1. coming # {}
  BY DEF NextWeekly
<1>2. coming \in SUBSET Nat
  BY DEF Coming
<1>3. PICK k \in coming : k = First(coming) /\ \A j \in coming : k <= j
  BY <1>1, <1>2, FirstIsLeast
<1>4. k \in 0 .. 7 /\ Weekday(w + k * Day) \in days
  BY <1>3 DEF Coming
<1>5. NextWeekly(w, time, days) = Midnight(w) + k * Day + time
  BY <1>1, <1>3 DEF NextWeekly
<1>6. PICK d \in Nat : d = w \div Day /\ Midnight(w) = d * Day
  BY OfADay
<1>7. ASSUME NEW j \in Nat
      PROVE  /\ Midnight(w) + j * Day + time = (d + j) * Day + time
             /\ Weekday((d + j) * Day + time) = Weekday(w + j * Day)
  <2>1. time \in Nat
    BY TimeIsNat
  <2>2. Midnight(w) + j * Day + time = (d + j) * Day + time
    BY <1>6, <2>1 DEF Day, Hour, Minute
  <2>3. ((d + j) * Day + time) \div Day = d + j
    BY DayAndTime
  <2>4. (w + j * Day) \div Day = d + j
    BY <1>6 DEF Day, Hour, Minute
  <2>. QED  BY <2>2, <2>3, <2>4 DEF Weekday
<1>8. NextWeekly(w, time, days) = (d + k) * Day + time /\ d + k \in Nat
  BY <1>4, <1>5, <1>7
<1>9. NextWeekly(w, time, days) % Day = time /\ Weekday(NextWeekly(w, time, days)) \in days
  BY <1>4, <1>7, <1>8, DayAndTime
<1>10. ASSUME NEW m \in Nat, w < m, m < NextWeekly(w, time, days),
              m % Day = time, Weekday(m) \in days
       PROVE  FALSE
  <2>1. PICK e \in Nat : m = e * Day + time
    BY <1>10, OfADay
  <2>2. time \in Nat
    BY TimeIsNat
  <2>3. e >= d /\ e < d + k
    <3>1. time < Day
      BY <1>10 DEF Day, Hour, Minute
    <3>2. d * Day <= w
      BY <1>6, Midnights
    <3>. QED  BY <1>4, <1>8, <1>10, <2>1, <2>2, <3>1, <3>2 DEF Day, Hour, Minute
  <2>4. PICK j \in Nat : e = d + j /\ j < k
    <3>1. e - d \in Nat /\ e = d + (e - d) /\ e - d < k
      BY <1>4, <2>3
    <3>. QED  BY <3>1
  <2>5. m = Midnight(w) + j * Day + time /\ Weekday(w + j * Day) \in days
    BY <1>7, <1>10, <2>1, <2>4
  <2>6. j \in 0 .. 7
    BY <1>4, <2>4
  <2>7. j \in coming
    BY <1>10, <2>5, <2>6 DEF Coming
  <2>. QED  BY <1>3, <1>4, <2>4, <2>7
<1>. QED  BY <1>9, <1>10

LEMMA NextCronIsNext ==
  ASSUME NEW w \in Nat, NEW s, NextCron(w, s) # Raises
  PROVE  LET n == NextCron(w, s) IN
         /\ n % Minute = 0 /\ MatchesCron(n, s)
         /\ \A m \in Nat : w < m /\ m < n => ~ (m % Minute = 0 /\ MatchesCron(m, s))
<1>1. PICK k \in 1 .. CronHorizon :
        /\ NextCron(w, s) = MinuteAfter(w, k)
        /\ Found(w, s, k) /\ MatchesCron(MinuteAfter(w, k), s)
  BY NextCronIsLater
<1>2. k \in Nat
  BY <1>1, Horizon
<1>3. MinuteAfter(w, k) % Minute = 0
  BY <1>2 DEF MinuteAfter, Minute
<1>4. ASSUME NEW m \in Nat, w < m, m < MinuteAfter(w, k), m % Minute = 0
      PROVE  ~ MatchesCron(m, s)
  <2>1. PICK j \in 1 .. k - 1 : m = MinuteAfter(w, j)
    <3>1. PICK q \in Nat : m = q * Minute
      BY <1>4 DEF Minute
    <3>2. q - (w \div Minute) \in 1 .. k - 1
      BY <1>2, <1>4, <3>1 DEF MinuteAfter, Minute
    <3>3. m = MinuteAfter(w, q - (w \div Minute))
      BY <1>4, <3>1 DEF MinuteAfter, Minute
    <3>. QED  BY <3>2, <3>3
  <2>. QED  BY <1>1, <2>1 DEF Found, StopsAt
<1>. QED  BY <1>1, <1>3, <1>4

\* The next run is the first time the schedule names.
LEMMA NextIsNext ==
  ASSUME NEW s, IsSchedule(s), NEW w \in Nat, NextRunAfter(s, w) # Raises
  PROVE  /\ s.type # "interval" => Fits(s, NextRunAfter(s, w))
         /\ \A m \in Nat : w < m /\ m < NextRunAfter(s, w) => ~ Fits(s, m)
<1>1. CASE s.type = "interval"
  BY <1>1 DEF Fits
<1>2. CASE s.type = "daily" /\ s.time \in TimesOfDay
  <2>1. NextRunAfter(s, w) = NextDaily(w, s.time)
    BY <1>2 DEF NextRunAfter
  <2>. QED  BY <1>2, <2>1, NextDailyIsNext DEF Fits
<1>3. CASE s.type = "weekly" /\ s.time \in TimesOfDay
  <2>1. NextRunAfter(s, w) = NextWeekly(w, s.time, s.days)
    BY <1>3 DEF NextRunAfter
  <2>. QED  BY <1>3, <2>1, NextWeeklyIsNext DEF Fits
<1>4. CASE s.type = "cron"
  <2>1. NextRunAfter(s, w) = NextCron(w, s)
    BY <1>4 DEF NextRunAfter
  <2>. QED  BY <1>4, <2>1, NextCronIsNext DEF Fits
<1>5. CASE s.type = "unparsable"
  BY <1>5 DEF NextRunAfter
<1>. QED  BY <1>1, <1>2, <1>3, <1>4, <1>5 DEF IsSchedule

\* What a loop that is asleep waits for.
Waits(s, n) ==
  /\ s.type # "unparsable"
  /\ s.type # "interval" => Fits(s, n)

LEMMA NextWaits ==
  ASSUME NEW s, IsSchedule(s), NEW w \in Nat, NextRunAfter(s, w) # Raises
  PROVE  Waits(s, NextRunAfter(s, w))
<1>1. s.type # "unparsable"
  BY DEF NextRunAfter
<1>. QED  BY <1>1, NextIsNext DEF Waits

LEMMA WaitsGoOn ==
  ASSUME NEW s, IsSchedule(s), Readable(s), NEW n \in Nat, Waits(s, n)
  PROVE  NextRunAfter(s, n + 1) # Raises
<1>1. CASE s.type = "interval" /\ s.every \in Nat \ {0}
  BY <1>1 DEF NextRunAfter, Raises
<1>2. CASE s.type = "daily" /\ s.time \in TimesOfDay
  <2>1. s.time \in Nat
    BY <1>2, TimeIsNat
  <2>2. NextRunAfter(s, n + 1) = NextDaily(n + 1, s.time)
    BY <1>2 DEF NextRunAfter
  <2>. QED  BY <2>1, <2>2, Midnights DEF NextDaily, Raises
<1>3. CASE s.type = "weekly" /\ s.time \in TimesOfDay /\ s.days \subseteq Weekdays /\ s.days # {}
  <2>1. s.days \in SUBSET Weekdays /\ n + 1 \in Nat
    BY <1>3
  <2>2. NextRunAfter(s, n + 1) = NextWeekly(n + 1, s.time, s.days)
    BY <1>3 DEF NextRunAfter
  <2>. QED  BY <1>3, <2>1, <2>2, WeeklyGoesOn
<1>4. CASE s.type = "cron"
  BY <1>4, CronGoesOn DEF NextRunAfter, Waits, Fits
<1>. QED  BY <1>1, <1>2, <1>3, <1>4 DEF IsSchedule, Waits

-----------------------------------------------------------------------------
(* Types.                                                                  *)

LEMMA WallIsNat ==
  ASSUME TypeOK, NEW t \in Nat
  PROVE  Wall(t) \in Nat
  BY ScheduleAssumption DEF TypeOK, Wall

LEMMA AlarmIsLater ==
  ASSUME TypeOK, NEW t \in Nat, NEW n \in Nat
  PROVE  Alarm(t, n) \in Nat /\ Alarm(t, n) >= t
  BY WallIsNat DEF Alarm

LEMMA Scheduled ==
  ASSUME TypeOK
  PROVE  IsSchedule(schedule)
  BY ScheduleAssumption DEF TypeOK

LEMMA InitTypes == Init => TypeOK
  BY ScheduleAssumption DEF Init, TypeOK, Raises

LEMMA BeginTypes ==
  ASSUME TypeOK, Begin
  PROVE  TypeOK'
<1>1. Wall(now) \in Nat
  BY WallIsNat DEF TypeOK
<1> DEFINE n == NextRunAfter(schedule, Wall(now))
<1>2. n = Raises \/ n \in Nat
  BY <1>1, Scheduled, NextIsLater
<1>3. MaxRuns \in Nat
  BY ScheduleAssumption
<1>4. CASE n = Raises
  BY <1>3, <1>4 DEF Begin, TypeOK, times
<1>5. CASE n # Raises
  <2>1. /\ pc' = "asleep" /\ next' = n /\ since' = now /\ alarm' = Alarm(now, n)
    BY <1>5 DEF Begin, Sleep
  <2>2. n \in Nat /\ Alarm(now, n) \in Nat
    BY <1>2, <1>5, AlarmIsLater DEF TypeOK
  <2>3. UNCHANGED <<zone, now, schedule, last, reloads>> /\ runs' = 0
    BY DEF Begin
  <2> HIDE DEF n
  <2>. QED  BY <1>3, <1>5, <2>1, <2>2, <2>3 DEF TypeOK
<1>. QED  BY <1>4, <1>5

LEMMA WakeTypes ==
  ASSUME TypeOK, NEW t \in Nat, Wake(t)
  PROVE  /\ TypeOK'
         /\ next' \in Nat /\ next' > next + 1 /\ next \in Nat
<1>1. next \in Nat /\ pc = "asleep"
  BY DEF TypeOK, Wake
<1>2. next' = NextRunAfter(schedule, next + 1) /\ next' # Raises
  BY DEF Wake, Sleep, Resumed
<1>3. next' \in Nat /\ next' > next + 1
  BY <1>1, <1>2, Scheduled, NextIsLater
<1>4. alarm' = Alarm(t, next') /\ since' = t /\ now' = t
  BY DEF Wake, Sleep
<1>5. alarm' \in Nat
  BY <1>3, <1>4, AlarmIsLater
<1>6. /\ runs < MaxRuns /\ runs' = runs + 1 /\ last' = next
      /\ UNCHANGED <<zone, schedule, pc, reloads>>
  BY DEF Wake
<1>7. runs' \in 0 .. MaxRuns
  BY <1>6, ScheduleAssumption DEF TypeOK
<1>. QED  BY <1>1, <1>2, <1>3, <1>4, <1>5, <1>6, <1>7 DEF TypeOK

LEMMA WakeRaisesTypes ==
  ASSUME TypeOK, WakeRaises
  PROVE  TypeOK' /\ next' = next /\ since' = alarm /\ alarm' = Alarm(alarm, next)
<1>1. next \in Nat /\ pc = "asleep" /\ alarm \in Nat
  BY DEF TypeOK, WakeRaises
<1>2. next' = next /\ since' = alarm /\ alarm' = Alarm(alarm, next) /\ now' = alarm
  BY DEF WakeRaises, Sleep
<1>3. alarm' \in Nat
  BY <1>1, <1>2, AlarmIsLater
<1>. QED  BY <1>1, <1>2, <1>3 DEF TypeOK, WakeRaises

LEMMA ReloadTypes ==
  ASSUME TypeOK, NEW t \in Nat, Reload(t)
  PROVE  TypeOK'
  BY ScheduleAssumption DEF TypeOK, Reload, times

-----------------------------------------------------------------------------
(* The inductive invariant.                                                *)

TurnedBack == reloads > 0 /\ zone.shift < 0

\* A loop that is asleep.
Asleep ==
  pc = "asleep" =>
    /\ now = since /\ since <= alarm
    /\ Waits(schedule, next) /\ next # 0
    /\ next > last \/ TurnedBack

\* What is over is over: the last run's time has come on the wall clock.
Past ==
  /\ zone.shift >= 0 => last <= Wall(now)
  /\ reloads = 0 /\ pc = "begin" => last = Raises

\* Two runs of an interval by one loop.
Paced ==
  pc = "asleep" /\ runs > 0 /\ schedule.type = "interval" =>
    next = last + 1 + schedule.every

ScheduleInv == TypeOK /\ Asleep /\ Past /\ OnTime /\ Paced

LEMMA ZoneTypes ==
  ASSUME TypeOK
  PROVE  zone.at \in Nat /\ zone.shift \in Int /\ zone.at + zone.shift >= 0
  BY ScheduleAssumption DEF TypeOK

LEMMA SleptOnTime ==
  ASSUME TypeOK, NEW t \in Nat, NEW n \in Nat, n = next', t = since', alarm' = Alarm(t, n),
         UNCHANGED zone
  PROVE  OnTime'
<1>1. \A u : Wall(u)' = Wall(u)
  BY DEF Wall
<1>2. \/ Wall(alarm') = n /\ alarm' >= t
      \/ Wall(t) >= n /\ alarm' = t
      \/ t < zone.at /\ zone.at <= alarm' /\ Wall(alarm') = n + zone.shift
  <2>1. zone.at \in Nat /\ zone.shift \in Int
    BY ZoneTypes
  <2>2. PICK a, s : a = zone.at /\ s = zone.shift
    OBVIOUS
  <2>3. a \in Nat /\ s \in Int
    BY <2>1, <2>2
  <2>4. \A u \in Nat : Wall(u) = IF u >= a THEN u + s ELSE u
    BY <2>2 DEF Wall
  <2>5. Wall(t) \in Nat
    BY WallIsNat
  <2>6. CASE n <= Wall(t)
    <3>1. alarm' = t
      BY <2>5, <2>6 DEF Alarm
    <3>. QED  BY <2>6, <3>1
  <2>7. CASE n > Wall(t)
    <3>1. alarm' = t + n - Wall(t) /\ alarm' \in Nat /\ alarm' > t
      BY <2>5, <2>7 DEF Alarm
    <3>2. CASE t >= a
      BY <2>3, <2>4, <3>1, <3>2
    <3>3. CASE t < a
      <4>1. alarm' = n
        BY <2>4, <3>1, <3>3, <2>3
      <4>. QED  BY <2>2, <2>3, <2>4, <3>1, <3>3, <4>1
    <3>. QED  BY <2>3, <3>2, <3>3
  <2>. QED  BY <2>5, <2>6, <2>7
<1>. QED  BY <1>1, <1>2 DEF OnTime, Wall

LEMMA WallGrows ==
  ASSUME TypeOK, zone.shift >= 0, NEW t \in Nat, NEW u \in Nat, t <= u
  PROVE  Wall(t) <= Wall(u)
  BY ZoneTypes DEF Wall

LEMMA InitInv == Init => ScheduleInv
<1> SUFFICES ASSUME Init PROVE ScheduleInv
  OBVIOUS
<1>1. TypeOK
  BY InitTypes
<1>2. Wall(now) \in Nat
  BY <1>1, WallIsNat DEF TypeOK
<1>3. Past
  BY <1>2 DEF Init, Past, Raises
<1>. QED  BY <1>1, <1>3 DEF Init, ScheduleInv, Asleep, OnTime, Paced

LEMMA BeginInv ==
  ASSUME ScheduleInv, Begin
  PROVE  ScheduleInv'
<1>1. TypeOK /\ TypeOK'
  BY BeginTypes DEF ScheduleInv
<1>2. now \in Nat /\ Wall(now) \in Nat /\ last \in Nat \cup {Raises}
  BY <1>1, WallIsNat DEF TypeOK
<1>3. CASE pc' = "dead"
  <2>1. UNCHANGED <<zone, now, last, reloads>>
    BY DEF Begin
  <2>2. Past'
    BY <1>3, <2>1 DEF ScheduleInv, Past, Wall
  <2>. QED  BY <1>1, <1>3, <2>2 DEF ScheduleInv, Asleep, OnTime, Paced
<1>4. CASE pc' # "dead"
  <2>1. /\ pc' = "asleep" /\ pc = "begin" /\ runs' = 0
        /\ NextRunAfter(schedule, Wall(now)) # Raises
        /\ next' = NextRunAfter(schedule, Wall(now))
        /\ since' = now /\ alarm' = Alarm(now, next')
        /\ UNCHANGED <<zone, now, schedule, last, reloads>>
    BY <1>4 DEF Begin, Sleep
  <2>2. next' \in Nat /\ next' > Wall(now)
    BY <1>1, <1>2, <2>1, Scheduled, NextIsLater
  <2>3. Waits(schedule, next')
    BY <1>1, <1>2, <2>1, Scheduled, NextWaits
  <2>4. OnTime'
    BY <1>1, <1>2, <2>1, <2>2, SleptOnTime
  <2>5. alarm' >= now
    BY <1>1, <1>2, <2>1, <2>2, AlarmIsLater
  <2>6. next' > last \/ TurnedBack
    <3>1. CASE zone.shift >= 0
      BY <1>2, <2>2, <3>1 DEF ScheduleInv, Past, Raises
    <3>2. CASE reloads = 0
      BY <2>1, <2>2, <3>2 DEF ScheduleInv, Past, Raises
    <3>3. CASE zone.shift < 0 /\ reloads # 0
      BY <1>1, <3>3 DEF TypeOK, TurnedBack
    <3>. QED  BY <1>1, <3>1, <3>2, <3>3, ZoneTypes
  <2>7. Asleep'
    BY <2>1, <2>2, <2>3, <2>5, <2>6, <1>2 DEF Asleep, TurnedBack
  <2>8. Past'
    BY <2>1 DEF ScheduleInv, Past, Wall
  <2>9. Paced'
    BY <2>1 DEF Paced
  <2>. QED  BY <1>1, <2>4, <2>7, <2>8, <2>9 DEF ScheduleInv
<1>. QED  BY <1>3, <1>4

LEMMA WakeInv ==
  ASSUME ScheduleInv, NEW t \in Nat, t >= alarm, Wake(t)
  PROVE  ScheduleInv'
<1>1. TypeOK /\ TypeOK' /\ next' \in Nat /\ next' > next + 1 /\ next \in Nat
  BY WakeTypes DEF ScheduleInv
<1>2. /\ pc = "asleep" /\ pc' = "asleep"
      /\ runs' = runs + 1 /\ last' = next /\ now' = t /\ since' = t
      /\ alarm' = Alarm(t, next')
      /\ next' = NextRunAfter(schedule, next + 1) /\ next' # Raises
      /\ UNCHANGED <<zone, schedule, reloads>>
  BY DEF Wake, Sleep, Resumed
<1>3. OnTime'
  BY <1>1, <1>2, SleptOnTime
<1>4. alarm' >= t
  BY <1>1, <1>2, AlarmIsLater
<1>5. Waits(schedule, next')
  BY <1>1, <1>2, Scheduled, NextWaits
<1>6. Asleep'
  BY <1>1, <1>2, <1>4, <1>5 DEF Asleep
<1>7. Past'
  <2>1. ASSUME zone.shift >= 0
        PROVE  next <= Wall(t)
    <3>1. alarm \in Nat /\ since \in Nat
      BY <1>1 DEF TypeOK
    <3>2. Wall(alarm) \in Nat /\ Wall(t) \in Nat /\ Wall(alarm) <= Wall(t)
      BY <1>1, <2>1, <3>1, WallGrows, WallIsNat
    <3>3. zone.shift \in Nat
      BY <1>1, <2>1, ZoneTypes
    <3>4. Wall(alarm) >= next
      BY <1>1, <1>2, <3>3 DEF ScheduleInv, OnTime
    <3>. QED  BY <1>1, <3>2, <3>4
  <2>2. Wall(t)' = Wall(t)
    BY <1>2 DEF Wall
  <2>3. zone.shift >= 0 => last' <= Wall(now)'
    BY <1>2, <2>1, <2>2 DEF Wall
  <2>. QED  BY <1>2, <2>3 DEF Past
<1>8. Paced'
  BY <1>1, <1>2 DEF NextRunAfter, Paced
<1>. QED  BY <1>1, <1>3, <1>6, <1>7, <1>8 DEF ScheduleInv

LEMMA WakeRaisesInv ==
  ASSUME ScheduleInv, WakeRaises
  PROVE  ScheduleInv'
<1>1. TypeOK /\ TypeOK' /\ next' = next /\ since' = alarm /\ alarm' = Alarm(alarm, next)
  BY WakeRaisesTypes DEF ScheduleInv
<1>2. /\ pc = "asleep" /\ pc' = "asleep" /\ now' = alarm
      /\ UNCHANGED <<zone, schedule, runs, last, reloads>>
  BY DEF WakeRaises
<1>3. next \in Nat /\ alarm \in Nat /\ now \in Nat /\ last \in Nat \cup {Raises}
  BY <1>1, <1>2 DEF TypeOK
<1>4. OnTime'
  BY <1>1, <1>2, <1>3, SleptOnTime
<1>5. alarm' >= alarm
  BY <1>1, <1>3, AlarmIsLater
<1>6. Asleep'
  BY <1>1, <1>2, <1>5 DEF ScheduleInv, Asleep, TurnedBack
<1>7. Past'
  <2>1. ASSUME zone.shift >= 0
        PROVE  last <= Wall(alarm)
    <3>1. Wall(now) <= Wall(alarm) /\ last <= Wall(now)
      BY <1>1, <1>2, <1>3, <2>1, WallGrows DEF ScheduleInv, Past, Asleep
    <3>2. Wall(now) \in Nat /\ Wall(alarm) \in Nat
      BY <1>1, <1>3, WallIsNat
    <3>. QED  BY <1>3, <3>1, <3>2 DEF Raises
  <2>. QED  BY <1>2, <2>1 DEF Past, Wall
<1>8. Paced'
  BY <1>1, <1>2 DEF ScheduleInv, Paced
<1>. QED  BY <1>1, <1>4, <1>6, <1>7, <1>8 DEF ScheduleInv

LEMMA ReloadInv ==
  ASSUME ScheduleInv, NEW t \in Nat, t >= now, Reload(t)
  PROVE  ScheduleInv'
<1>1. TypeOK /\ TypeOK'
  BY ReloadTypes DEF ScheduleInv
<1>2. /\ pc' = "begin" /\ now' = t /\ reloads' = reloads + 1
      /\ UNCHANGED <<zone, last>>
  BY DEF Reload
<1>3. Past'
  <2>1. ASSUME zone.shift >= 0
        PROVE  last <= Wall(t)
    <3>1. now \in Nat /\ last \in Nat \cup {Raises}
      BY <1>1 DEF TypeOK
    <3>2. Wall(now) <= Wall(t) /\ last <= Wall(now)
      BY <1>1, <2>1, <3>1, WallGrows DEF ScheduleInv, Past
    <3>3. Wall(now) \in Nat /\ Wall(t) \in Nat
      BY <1>1, <3>1, WallIsNat
    <3>. QED  BY <3>1, <3>2, <3>3 DEF Raises
  <2>2. reloads' # 0
    BY <1>1, <1>2, ScheduleAssumption DEF TypeOK
  <2>. QED  BY <1>2, <2>1, <2>2 DEF Past, Wall
<1>. QED  BY <1>1, <1>2, <1>3 DEF ScheduleInv, Asleep, OnTime, Paced

LEMMA NextInv == ScheduleInv /\ [Next]_vars => ScheduleInv'
<1> SUFFICES ASSUME ScheduleInv, [Next]_vars PROVE ScheduleInv'
  OBVIOUS
<1>1. now \in Nat /\ alarm \in Nat /\ Delays \subseteq Nat
  BY ScheduleAssumption DEF ScheduleInv, TypeOK
<1>2. CASE Begin
  BY <1>2, BeginInv
<1>3. CASE WakeRaises
  BY <1>3, WakeRaisesInv
<1>4. ASSUME NEW d \in Delays, Wake(alarm + d) PROVE ScheduleInv'
  BY <1>1, <1>4, WakeInv
<1>5. ASSUME NEW d \in Delays, Reload(now + d) PROVE ScheduleInv'
  BY <1>1, <1>5, ReloadInv
<1>6. CASE UNCHANGED vars
  BY <1>6 DEF ScheduleInv, TypeOK, Asleep, TurnedBack, Past, OnTime, Paced, Wall, vars, times
<1>. QED  BY <1>2, <1>3, <1>4, <1>5, <1>6 DEF Next

THEOREM ScheduleInvariant == Spec => []ScheduleInv
<1>1. Init => ScheduleInv
  BY InitInv
<1>2. ScheduleInv /\ [Next]_vars => ScheduleInv'
  BY NextInv
<1>. QED  BY <1>1, <1>2, PTL DEF Spec

-----------------------------------------------------------------------------
(* What follows.                                                           *)

\* Every state is well typed: every computed time is a number or an error.
THEOREM ScheduleTypes == Spec => []TypeOK
<1>1. ScheduleInv => TypeOK
  BY DEF ScheduleInv
<1>. QED  BY <1>1, ScheduleInvariant, PTL

\* Whatever its schedule, its zone and its delays, a loop is off by at most one
\* change of the clocks.
THEOREM LoopsSleepOnTime == Spec => []OnTime
<1>1. ScheduleInv => OnTime
  BY DEF ScheduleInv
<1>. QED  BY <1>1, ScheduleInvariant, PTL

\* The runs of an interval job are evenly spaced, however late the loop is.
THEOREM IntervalsDoNotDrift == Spec => EvenlySpaced
<1>1. ScheduleInv /\ [Next]_vars => [runs' = runs + 1 /\ runs > 0 /\ schedule.type = "interval" =>
                                        next' - next = next - last]_vars
  <2> SUFFICES ASSUME ScheduleInv, [Next]_vars, runs' = runs + 1, runs > 0,
                      schedule.type = "interval"
               PROVE  next' - next = next - last
    OBVIOUS
  <2>1. runs \in Nat
    BY ScheduleAssumption DEF ScheduleInv, TypeOK
  <2>2. PICK d \in Delays : Wake(alarm + d)
    BY <2>1 DEF Next, Begin, WakeRaises, Reload, vars
  <2>3. /\ pc = "asleep" /\ next' = NextRunAfter(schedule, next + 1)
        /\ next \in Nat /\ last \in Nat \cup {Raises}
    BY <2>2 DEF Wake, Sleep, Resumed, ScheduleInv, TypeOK
  <2>4. schedule.every \in Nat
    BY Scheduled DEF IsSchedule, ScheduleInv
  <2>5. next' = next + 1 + schedule.every
    BY <2>3 DEF NextRunAfter
  <2>6. next = last + 1 + schedule.every
    BY <2>3 DEF ScheduleInv, Paced
  <2>. QED  BY <2>3, <2>4, <2>5, <2>6 DEF Raises
<1>. QED  BY <1>1, ScheduleInvariant, PTL DEF Spec, EvenlySpaced

\* A loop that found its first run finds every other: eight days and a year are
\* far enough to look.
THEOREM LoopsGoOn == Spec => []LoopGoesOn
<1>1. ScheduleInv => LoopGoesOn
  <2> SUFFICES ASSUME ScheduleInv, pc = "asleep", Readable(schedule)
               PROVE  NextRunAfter(schedule, next + 1) # Raises
    BY DEF LoopGoesOn
  <2>1. IsSchedule(schedule) /\ next \in Nat
    BY Scheduled DEF ScheduleInv, TypeOK
  <2>2. Waits(schedule, next)
    BY DEF ScheduleInv, Asleep
  <2>. QED  BY <2>1, <2>2, WaitsGoOn
<1>. QED  BY <1>1, ScheduleInvariant, PTL

\* No time is run twice, unless a reload follows clocks put back.
THEOREM NothingRunsTwice == Spec => NeverTwice
<1>1. ScheduleInv /\ [Next]_vars =>
        [runs' = runs + 1 => last' > last \/ (reloads > 0 /\ zone.shift < 0)]_vars
  <2> SUFFICES ASSUME ScheduleInv, [Next]_vars, runs' = runs + 1
               PROVE  last' > last \/ (reloads > 0 /\ zone.shift < 0)
    OBVIOUS
  <2>1. runs \in Nat
    BY ScheduleAssumption DEF ScheduleInv, TypeOK
  <2>2. PICK t : Wake(t)
    BY <2>1 DEF Next, Begin, WakeRaises, Reload, vars
  <2>3. pc = "asleep" /\ last' = next
    BY <2>2 DEF Wake
  <2>. QED  BY <2>3 DEF ScheduleInv, Asleep, TurnedBack
<1>. QED  BY <1>1, ScheduleInvariant, PTL DEF Spec, NeverTwice

\* Each time the schedule names gets its run, in turn, however late the loop is.
THEOREM NothingIsSkipped == Spec => NoneSkipped
<1>1. ASSUME ScheduleInv, ScheduleInv', Begin, pc' = "asleep"
      PROVE  /\ Named(schedule, Wall(now), next') = {}
             /\ schedule.type # "interval" => Fits(schedule, next')
             /\ next' \in Nat \ {0}
  <2>1. Wall(now) \in Nat /\ IsSchedule(schedule)
    BY <1>1, WallIsNat, Scheduled DEF ScheduleInv, TypeOK
  <2>2. next' = NextRunAfter(schedule, Wall(now)) /\ next' # Raises
    BY <1>1 DEF Begin, Sleep
  <2>3. next' \in Nat /\ next' > Wall(now)
    BY <2>1, <2>2, NextIsLater
  <2>4. Named(schedule, Wall(now), next') = {}
    BY <2>1, <2>2, <2>3, NextIsNext, NamedFits
  <2>. QED  BY <2>1, <2>2, <2>3, <2>4, NextIsNext
<1>2. ASSUME ScheduleInv, NEW t \in Nat, Wake(t)
      PROVE  /\ Named(schedule, next, next') = {}
             /\ schedule.type # "interval" => Fits(schedule, next')
             /\ next' \in Nat \ {0}
  <2>1. next \in Nat /\ IsSchedule(schedule) /\ next' \in Nat /\ next' > next + 1
    BY <1>2, WakeTypes, Scheduled DEF ScheduleInv
  <2>2. next' = NextRunAfter(schedule, next + 1) /\ next' # Raises
    BY <1>2 DEF Wake, Sleep, Resumed
  <2>3. \A m \in Nat : next + 1 < m /\ m < next' => ~ Fits(schedule, m)
    BY <2>1, <2>2, NextIsNext
  <2>4. schedule.type # "interval" => Fits(schedule, next)
    BY <1>2 DEF Wake, ScheduleInv, Asleep, Waits
  <2>5. ~ Fits(schedule, next + 1)
    <3>1. CASE schedule.type = "interval"
      BY <3>1 DEF Fits
    <3>2. CASE schedule.type # "interval"
      <4>1. next % Minute = 0
        BY <2>1, <2>4, <3>2, FitsFull
      <4>2. (next + 1) % Minute # 0
        BY <2>1, <4>1 DEF Minute
      <4>. QED  BY <2>1, <4>2, FitsFull
    <3>. QED  BY <3>1, <3>2
  <2>6. \A m \in Nat : next < m /\ m < next' => ~ Fits(schedule, m)
    BY <2>1, <2>3, <2>5
  <2>7. Named(schedule, next, next') = {}
    BY <2>1, <2>6, NamedFits
  <2>. QED  BY <2>1, <2>2, <2>7, NextIsNext
<1>3. ASSUME ScheduleInv, WakeRaises
      PROVE  /\ schedule.type # "interval" => Fits(schedule, next')
             /\ next' \in Nat
             /\ runs' # runs + 1
  BY <1>3, WakeRaisesTypes, ScheduleAssumption
  DEF WakeRaises, ScheduleInv, Asleep, Waits, TypeOK
<1>4. ASSUME ScheduleInv, ScheduleInv', Next
      PROVE  /\ pc = "begin" /\ pc' = "asleep" => Named(schedule, Wall(now), next') = {}
             /\ runs' = runs + 1 => Named(schedule, next, next') = {}
             /\ pc' = "asleep" /\ schedule.type # "interval" =>
                  next' \in Named(schedule, next' - 1, next' + 1)
  <2>1. now \in Nat /\ alarm \in Nat /\ Delays \subseteq Nat /\ runs \in Nat /\ IsSchedule(schedule)
    BY <1>4, Scheduled, ScheduleAssumption DEF ScheduleInv, TypeOK
  <2>2. ASSUME next' \in Nat \ {0}, Fits(schedule, next')
        PROVE  next' \in Named(schedule, next' - 1, next' + 1)
    BY <2>1, <2>2, NamedFits
  <2>3. CASE Begin
    <3>1. runs' # runs + 1 /\ pc = "begin"
      BY <2>1, <2>3 DEF Begin
    <3>. QED  BY <1>1, <1>4, <2>2, <2>3, <3>1
  <2>4. ASSUME NEW t \in Nat, Wake(t)
        PROVE  /\ pc = "asleep"
               /\ Named(schedule, next, next') = {}
               /\ schedule.type # "interval" => next' \in Named(schedule, next' - 1, next' + 1)
    BY <1>2, <1>4, <2>2, <2>4 DEF Wake
  <2>5. CASE WakeRaises
    <3>1. next' \in Nat /\ pc = "asleep"
      BY <1>3, <1>4, <2>5 DEF WakeRaises
    <3>2. next' # 0
      BY <2>5, <1>4 DEF WakeRaises, Sleep, ScheduleInv, Asleep
    <3>. QED  BY <1>3, <1>4, <2>2, <2>5, <3>1, <3>2
  <2>6. ASSUME NEW d \in Delays, Reload(now + d)
        PROVE  pc' = "begin" /\ runs' # runs + 1
    BY <2>1, <2>6 DEF Reload
  <2>. QED  BY <1>4, <2>1, <2>3, <2>4, <2>5, <2>6 DEF Next
<1>. QED  BY <1>4, ScheduleInvariant, PTL DEF Spec, NoneSkipped
=============================================================================
