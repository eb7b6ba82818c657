-------------------------------- MODULE Clock -------------------------------
(***************************************************************************)
(* A PerfClock and clock_delay (src/clock/Clock_*.c), called by one thread *)
(* that starts, stops and resets the clock in any order but does not stop  *)
(* it before it has once started it.  Time is in one small unit, of which  *)
(* MICRO2NANO are a microsecond and SEC2NANO a second.                     *)
(***************************************************************************)
EXTENDS Integers, SequencesExt, FiniteSetsExt

CONSTANTS MICRO2NANO, SEC2NANO,
          Delays,       \* arguments of clock_delay
          MaxTime,      \* bound: when the thread stops
          MaxSamples    \* bound: the samples between two resets

ASSUME UnitsAssumption == /\ MICRO2NANO \in Nat \ {0} /\ SEC2NANO \in Nat \ {0}
                          /\ SEC2NANO % MICRO2NANO = 0
ASSUME DelaysAssumption == Delays \subseteq Int
ASSUME ClockBoundsAssumption == MaxTime \in Nat /\ MaxSamples \in Nat

(* Measurements are doubled: the smallest is then above FLT_MIN, as it is   *)
(* in the code.                                                             *)
FLT_MIN == 1
FLT_MAX == 2 * (MaxTime + 1)

VARIABLES
  source,       \* "timespec" (Linux, macOS) or "counter" (Windows)
  now,
  internal,     \* the fields of the PerfClock
  count_query, delta_sum, delta, avg, min, max,
  sleep,        \* the last delay: asked, since when, and towait, 0 at the end
  begun,        \* history: when it was started last, -1 if never
  samples       \* history: what passed from a start to a stop, since the reset

clockvars == <<source, now, internal, count_query, delta_sum, delta, avg, min, max,
               sleep, begun, samples>>
statistics == <<count_query, delta_sum, delta, avg, min, max>>

(* A reading of the clock. *)
Reading(t) == IF source = "timespec" THEN <<t % SEC2NANO, t \div SEC2NANO>> ELSE <<t>>

(* The time from a reading to a later one. *)
Passed(from, to) ==
  IF source = "timespec" THEN (to[1] - from[1]) + SEC2NANO * (to[2] - from[2])
                         ELSE to[1] - from[1]

(* avg, which is a quotient, is a pair.  A clock is reset before its first  *)
(* use; delta and avg then have no value.                                   *)
ClockInit ==
  /\ source \in {"timespec", "counter"}
  /\ now = 0 /\ internal = <<>> /\ begun = -1 /\ samples = <<>>
  /\ count_query = 0 /\ delta_sum = 0 /\ delta = 0 /\ avg = <<0, 0>>
  /\ max = FLT_MIN /\ min = FLT_MAX
  /\ sleep = [asked |-> 0, since |-> 0, towait |-> 0]

Awake == sleep.towait = 0

ClockStart ==
  /\ Awake
  /\ internal' = Reading(now)
  /\ begun' = now
  /\ UNCHANGED <<source, now, statistics, sleep, samples>>

(* Mutant: the smallest is looked for only where the greatest is not found. *)
ClockStop_ElseMin ==
  /\ Awake /\ begun >= 0 /\ Len(samples) < MaxSamples
  /\ LET d == 2 * Passed(internal, Reading(now))
     IN  /\ count_query' = count_query + 1
         /\ delta_sum' = delta_sum + d
         /\ avg' = <<delta_sum', count_query'>>
         /\ delta' = d
         /\ max' = IF d > max THEN d ELSE max
         /\ min' = IF d <= max /\ d < min THEN d ELSE min
  /\ samples' = Append(samples, now - begun)
  /\ UNCHANGED <<source, now, internal, sleep, begun>>

ClockStop ==
  /\ Awake /\ begun >= 0 /\ Len(samples) < MaxSamples
  /\ LET d == 2 * Passed(internal, Reading(now))
     IN  /\ count_query' = count_query + 1
         /\ delta_sum' = delta_sum + d
         /\ avg' = <<delta_sum', count_query'>>
         /\ delta' = d
         /\ max' = IF d > max THEN d ELSE max
         /\ min' = IF d < min THEN d ELSE min
  /\ samples' = Append(samples, now - begun)
  /\ UNCHANGED <<source, now, internal, sleep, begun>>

ClockReset ==
  /\ Awake
  /\ count_query' = 0 /\ delta_sum' = 0
  /\ max' = FLT_MIN /\ min' = FLT_MAX
  /\ samples' = <<>>
  /\ UNCHANGED <<source, now, internal, delta, avg, sleep, begun>>

(* The calls out of bounds return at once. *)
ClockDelay(usecs) ==
  /\ Awake
  /\ IF usecs <= 0 \/ usecs >= SEC2NANO \div MICRO2NANO
       THEN UNCHANGED sleep
       ELSE LET wait == usecs * MICRO2NANO
            IN  sleep' = [asked |-> wait, since |-> now, towait |-> wait]
  /\ UNCHANGED <<source, now, internal, statistics, begun, samples>>

(* The system's sleep ends, in time or a little late. *)
SleepEnds ==
  /\ ~Awake
  /\ \E late \in {0, 1} : now' = now + sleep.towait + late
  /\ sleep' = [sleep EXCEPT !.towait = 0]
  /\ UNCHANGED <<source, internal, statistics, begun, samples>>

(* nanosleep was interrupted by a signal (EINTR): the code sleeps again for *)
(* what it reports as remaining.                                            *)
SleepInterrupted ==
  /\ ~Awake /\ source = "timespec"
  /\ \E remain \in 1..sleep.towait :
       /\ now' = now + (sleep.towait - remain)
       /\ sleep' = [sleep EXCEPT !.towait = remain]
  /\ UNCHANGED <<source, internal, statistics, begun, samples>>

Pass ==
  /\ Awake /\ now < MaxTime
  /\ now' = now + 1
  /\ UNCHANGED <<source, internal, statistics, sleep, begun, samples>>

ClockNext ==
  \/ now < MaxTime /\ (ClockStart \/ ClockStop \/ ClockReset \/ Pass)
  \/ now < MaxTime /\ \E usecs \in Delays : ClockDelay(usecs)
  \/ SleepEnds \/ SleepInterrupted

ClockSpec == ClockInit /\ [][ClockNext]_clockvars
-----------------------------------------------------------------------------
Total(s) == LET total[i \in 0..Len(s)] == IF i = 0 THEN 0 ELSE total[i - 1] + s[i]
            IN  total[Len(s)]

(* The statistics are those of the samples since the last reset (but for    *)
(* delta and avg, which a reset keeps, and for max while all samples are 0),*)
(* also across a change of the second and over several stops for one start; *)
(* and a delay within bounds has lasted as long as was asked, however often *)
(* a signal interrupted it.                                                 *)
Measured ==
  LET taken == {2 * s : s \in ToSet(samples)}
  IN  /\ count_query = Len(samples)
      /\ delta_sum = 2 * Total(samples)
      /\ samples # <<>> =>
           /\ delta = 2 * Last(samples) /\ avg = <<delta_sum, count_query>>
           /\ min = Min(taken) /\ max = Max(taken \cup {FLT_MIN})
      /\ Awake => now - sleep.since >= sleep.asked
=============================================================================
