------------------------------ MODULE GcTuner ------------------------------
(***************************************************************************)
(* The second half of TaskScheduler::frame: after the tasks, each frame    *)
(* measures how fast the heap of every VM grows, lets each collector work  *)
(* for its step size, and moves the step size towards the measured rate.   *)
(* Rates are int32_t, step sizes uint32_t: IntMod is 2^32 in the program.  *)
(***************************************************************************)
EXTENDS Integers

CONSTANTS
  VMs, FirstVM,              \* LuauRuntime::VMType, and VM_SCRIPT_LOAD
  StepMin, StepInc, StepMax, \* STEPSIZE_MIN, STEPSIZE_INC, STEPSIZE_MAX
  IntMod,                    \* two to the width of an int
  Sizes,                     \* heap sizes, as LUA_GCCOUNT reports them
  Deltas, PerSecond          \* lengths of a frame, in units of 1/PerSecond s

ASSUME StepAssumption ==
  /\ StepMin \in Nat /\ StepInc \in Nat \ {0} /\ StepMax \in Nat
  /\ StepMin + StepInc <= StepMax
  /\ IntMod \in Nat /\ StepMax + StepInc < IntMod
ASSUME FrameAssumption ==
  FirstVM \in VMs /\ Sizes \subseteq Nat /\ Deltas \subseteq Nat /\ PerSecond \in Nat \ {0}

VARIABLES gc_stepsize, last_gc_size, gc_rate

vars == <<gc_stepsize, last_gc_size, gc_rate>>

IntMin == -(IntMod \div 2)
IntMax == IntMod \div 2 - 1

TypeOK ==
  /\ gc_stepsize \in [VMs -> 0..IntMod - 1]
  /\ last_gc_size \in [VMs -> Sizes \cup {0}]
  /\ gc_rate \in [VMs -> IntMin..IntMax]

\* `= { STEPSIZE_MIN }` sets the first element; the others are zero.
Init ==
  /\ gc_stepsize = [v \in VMs |-> IF v = FirstVM THEN StepMin ELSE 0]
  /\ last_gc_size = [v \in VMs |-> 0]
  /\ gc_rate = [v \in VMs |-> 0]

\* (new - last) / p_delta, a double, converted to int32_t.  The conversion drops
\* the fraction; it is undefined for the infinities and the NaN that a frame of
\* length zero yields, and out of range: a build saturates (a NaN gives 0) or
\* yields INT_MIN.
Rate(diff, d, saturates) ==
  LET exact == IF d = 0 THEN 0
               ELSE IF diff >= 0 THEN (diff * PerSecond) \div d
               ELSE -((-diff * PerSecond) \div d)
  IN CASE d # 0 /\ exact \in IntMin..IntMax -> exact
     [] OTHER -> IF ~saturates \/ diff < 0 THEN IntMin ELSE IF diff > 0 THEN IntMax ELSE 0

\* In `rate > curr_size` C++ converts the signed rate to unsigned.
Unsigned(rate) == rate % IntMod

\* Mutants: the sum, the difference not clamped; the lower clamp forgets the
\* increment; the step only grows.
TunedUnclamped(curr, rate) ==
  IF Unsigned(rate) > curr THEN IF curr > StepMax THEN StepMax ELSE curr + StepInc
  ELSE curr
TunedBelow(curr, rate) ==
  IF Unsigned(rate) > curr
  THEN IF (curr + StepInc) % IntMod > StepMax THEN StepMax ELSE curr + StepInc
  ELSE IF Unsigned(rate) < curr THEN curr - StepInc ELSE curr
TunedLate(curr, rate) ==
  IF Unsigned(rate) > curr
  THEN IF (curr + StepInc) % IntMod > StepMax THEN StepMax ELSE curr + StepInc
  ELSE IF Unsigned(rate) < curr
  THEN IF curr < StepMin THEN StepMin ELSE curr - StepInc
  ELSE curr
TunedGrows(curr, rate) ==
  IF Unsigned(rate) > curr
  THEN IF (curr + StepInc) % IntMod > StepMax THEN StepMax ELSE curr + StepInc
  ELSE curr

Tuned(curr, rate) ==
  IF Unsigned(rate) > curr
  THEN IF (curr + StepInc) % IntMod > StepMax THEN StepMax ELSE curr + StepInc
  ELSE IF Unsigned(rate) < curr
  THEN IF curr < StepMin + StepInc THEN StepMin ELSE curr - StepInc
  ELSE curr

\* What the collectors free shows in the sizes the next frame measures.
Frame(size, d, saturates) ==
  /\ last_gc_size' = size
  /\ gc_rate' = [v \in VMs |-> Rate(size[v] - last_gc_size[v], d, saturates)]
  /\ gc_stepsize' = [v \in VMs |-> Tuned(gc_stepsize[v], gc_rate'[v])]

Next == \E size \in [VMs -> Sizes], d \in Deltas, saturates \in BOOLEAN :
          Frame(size, d, saturates)

Spec == Init /\ [][Next]_vars

\* Frames go on when the sizes they measure no longer change, and take time.  (WF_vars(Next)
\* would not do: it holds only of behaviours whose sizes change for ever.)
QuietFrame == \E d \in Deltas \ {0}, saturates \in BOOLEAN : Frame(last_gc_size, d, saturates)
FairSpec == Spec /\ WF_vars(QuietFrame)

----------------------------------------------------------------------------
\* No step size passes STEPSIZE_MAX, whatever the conversions yield: the unsigned
\* sums do not wrap around the clamp.
StepBounded == \A v \in VMs : gc_stepsize[v] <= StepMax

\* A step size that has reached STEPSIZE_MIN stays there: the subtraction never
\* undershoots (all but the first VM begin below it, at zero).
MinKept == [][\A v \in VMs : gc_stepsize[v] >= StepMin => gc_stepsize'[v] >= StepMin]_vars

\* The step size of a heap whose measured rate stays at zero comes down to STEPSIZE_MIN
\* and stays there, whatever the other heaps do: a grown step is not kept for ever.
Settles ==
  \A v \in VMs : <>[](gc_rate[v] = 0) => <>[](gc_stepsize[v] <= StepMin)

=============================================================================
