--------------------------- MODULE ContentMovement ---------------------------
(***************************************************************************)
(* What the video readings of an artist say of movement, hour by hour: the *)
(* velocity of a video in the last window is compared with that of owned   *)
(* videos of like age, and with its own in the window before.              *)
(*                                                                         *)
(* The readings of a video are one per hour at most, and its views may     *)
(* fall, for the platform takes views back.                                *)
(***************************************************************************)
EXTENDS Integers, FiniteSets, Sequences

CONSTANTS
  NoReading,
  Owned,               \* the videos, numbered, on the artist's own channel
  Hours,               \* the hours a reading may be of
  MayGather,           \* the readings there may come to be: video -> hour -> views
  MayPublish,          \* the hours of publication, of a video perhaps none
  LastHour,            \* bound
  WindowHours, MinSpan, MinReadings, MinCohort,
  AgeBounds, YoungAge, \* hours
  RisingRatio, BreakoutRatio, BreakoutAcceleration, CoolingRatio,  \* <<n, d>> for n/d
  PerHour              \* velocities are counted in views per PerHour hours

(* Twice every span divides PerHour: velocities and their medians are      *)
(* whole.  Views are counted; every ratio is of positive numbers.          *)
ASSUME MovementAssumption ==
  /\ WindowHours \in Nat /\ PerHour \in Nat /\ MinSpan \in Nat
  /\ \A h \in 1..WindowHours : PerHour % (2 * h) = 0
  /\ Hours \subseteq Nat /\ LastHour \in Nat
  /\ IsFiniteSet(Owned) /\ Owned \subseteq Int
  /\ \A readings \in MayGather :
       /\ Owned \subseteq DOMAIN readings
       /\ \A v \in DOMAIN readings : \A h \in Hours : readings[v][h] \in Int \cup {NoReading}
  /\ \A ratio \in {RisingRatio, BreakoutRatio, BreakoutAcceleration, CoolingRatio} :
       ratio[1] \in Nat \ {0} /\ ratio[2] \in Nat \ {0}
  /\ NoReading \notin Int

VARIABLES gathered, published, hour

movementVars == <<gathered, published, hour>>

\* The videos of the artist.
Videos == DOMAIN gathered

-----------------------------------------------------------------------------
(* Velocities *)

\* The hours of the ascending series of a video, as far as it has been read.
ContentSeries(v) == {h \in Hours : h <= hour /\ gathered[v][h] # NoReading}

FirstOf(hours) == CHOOSE h \in hours : \A g \in hours : h <= g
LastOf(hours) == CHOOSE h \in hours : \A g \in hours : g <= h

Gain(v, hours) == gathered[v][LastOf(hours)] - gathered[v][FirstOf(hours)]
Span(hours) == LastOf(hours) - FirstOf(hours)

\* Both ends belong to a window.
InWindow(h, back) ==
  hour - (back + 1) * WindowHours <= h /\ h <= hour - back * WindowHours

WindowVelocity(v, back) ==
  LET points == {h \in ContentSeries(v) : InWindow(h, back)}
  IN IF Cardinality(points) < 2 \/ Span(points) < MinSpan THEN NoReading
     ELSE Gain(v, points) * (PerHour \div Span(points))

\* cur / base >= n / d, and <=, whatever the sign of base.
RatioAtLeast(cur, base, ratio) ==
  IF base > 0 THEN cur * ratio[2] >= ratio[1] * base ELSE cur * ratio[2] <= ratio[1] * base

RatioAtMost(cur, base, ratio) ==
  IF base > 0 THEN cur * ratio[2] <= ratio[1] * base ELSE cur * ratio[2] >= ratio[1] * base

-----------------------------------------------------------------------------
(* The cohort *)

AgeBucket(v) == Cardinality({i \in DOMAIN AgeBounds : AgeBounds[i] <= hour - published[v]})

Dated(v) == published[v] # NoReading

Comparable(v, w) == w # v /\ Dated(v) /\ Dated(w) /\ AgeBucket(w) = AgeBucket(v)

Cohort(v) ==
  {[video |-> w, velocity |-> WindowVelocity(w, 0)] :
     w \in {u \in Owned : Comparable(v, u) /\ WindowVelocity(u, 0) # NoReading}}

\* The k-th of the velocities, from the slowest.
AtRank(cohort, k) ==
  LET reached == {c.velocity : c \in {d \in cohort :
                    Cardinality({e \in cohort : e.velocity <= d.velocity}) >= k}}
  IN CHOOSE x \in reached : \A y \in reached : x <= y

Median(cohort) ==
  LET n == Cardinality(cohort)
  IN (AtRank(cohort, (n + 1) \div 2) + AtRank(cohort, n \div 2 + 1)) \div 2

HasBaseline_AnySign(cohort) == cohort # {} /\ Cardinality(cohort) >= MinCohort /\ Median(cohort) # 0

\* A baseline that falls, or stands, is none.
HasBaseline(cohort) == cohort # {} /\ Cardinality(cohort) >= MinCohort /\ Median(cohort) > 0

-----------------------------------------------------------------------------
(* The classification *)

WasMoving(prior) == prior # NoReading /\ prior > 0

VideoMovement(v) ==
  LET series == ContentSeries(v)
      cur == WindowVelocity(v, 0)
      prior == WindowVelocity(v, 1)
      cohort == Cohort(v)
      rated == cur # NoReading /\ HasBaseline(cohort)
      accelerated == cur # NoReading /\ prior \notin {NoReading, 0}
      outpaces(ratio) == rated /\ RatioAtLeast(cur, Median(cohort), ratio)
      breaksOut == /\ Dated(v) /\ hour - published[v] <= YoungAge
                   /\ outpaces(BreakoutRatio)
                   /\ accelerated /\ RatioAtLeast(cur, prior, BreakoutAcceleration)
  IN IF Cardinality(series) < MinReadings \/ Span(series) < MinSpan THEN "INSUFFICIENT_HISTORY"
     ELSE IF breaksOut THEN "BREAKOUT_CANDIDATE"
     ELSE IF outpaces(RisingRatio) THEN "RISING"
     ELSE IF accelerated /\ RatioAtMost(cur, prior, CoolingRatio) /\ WasMoving(prior) THEN "COOLING"
     ELSE IF ~rated THEN "INSUFFICIENT_HISTORY"
     ELSE "NORMAL"

Moving == {v \in Videos : VideoMovement(v) \in {"RISING", "BREAKOUT_CANDIDATE"}}

-----------------------------------------------------------------------------
MovementInit ==
  /\ gathered \in MayGather
  /\ published \in MayPublish
  /\ hour = 0

PassHour ==
  /\ hour < LastHour
  /\ hour' = hour + 1
  /\ UNCHANGED <<gathered, published>>

MovementNext == PassHour

MovementSpec == MovementInit /\ [][MovementNext]_movementVars

-----------------------------------------------------------------------------
\* The readings of the last window, and of the one before.
Recent(v, back) ==
  {h \in Hours : /\ gathered[v][h] # NoReading /\ h <= hour
                 /\ hour - (back + 1) * WindowHours <= h /\ h <= hour - back * WindowHours}

(* A video that is said to move has more views now than when the window    *)
(* began, though views are taken back and whole cohorts may fall.          *)
MovingIsGaining ==
  \A v \in Moving :
    \E g, h \in Recent(v, 0) : g < h /\ gathered[v][g] < gathered[v][h]

(* A cooling video gained views in the window before, and has gained fewer *)
(* an hour since.                                                          *)
CoolingIsSlower ==
  \A v \in Videos :
    VideoMovement(v) = "COOLING" =>
      /\ \E g, h \in Recent(v, 1) : g < h /\ gathered[v][g] < gathered[v][h]
      /\ WindowVelocity(v, 0) < WindowVelocity(v, 1)

(* A breakout is faster than at least half of the owned videos of its age  *)
(* that have a velocity, never mind older ones, and than it was itself.    *)
BreakoutOutpaces ==
  \A v \in Videos :
    VideoMovement(v) = "BREAKOUT_CANDIDATE" =>
      LET siblings == {w \in Owned \ {v} : Dated(w) /\ AgeBucket(w) = AgeBucket(v) /\ WindowVelocity(w, 0) # NoReading}
          slower == {w \in siblings : WindowVelocity(w, 0) < WindowVelocity(v, 0)}
      IN slower # {} /\ 2 * Cardinality(slower) >= Cardinality(siblings)
           /\ WindowVelocity(v, 1) # NoReading /\ WindowVelocity(v, 1) < WindowVelocity(v, 0)

(* A video that was not read twice within the last window is not said to   *)
(* move, or to cool, on what was read before it.                           *)
StaleIsSilent ==
  \A v \in Videos :
    Cardinality(Recent(v, 0)) < 2 => VideoMovement(v) \in {"INSUFFICIENT_HISTORY", "NORMAL"}

(* A label says of a video what its readings in the windows show, with     *)
(* losses of views, gaps and whole cohorts that fall (classify_movement).  *)
LabelsAreEarned == MovingIsGaining /\ CoolingIsSlower /\ BreakoutOutpaces /\ StaleIsSilent
==============================================================================
