---------------------------- MODULE GcTuner_proof ----------------------------
(* Proofs about GcTuner: the step sizes keep to their bounds. *)
EXTENDS GcTuner, TLAPS

\* What the tuning of one step size yields, whatever rate was measured.
LEMMA TunedFacts ==
  ASSUME NEW curr \in 0..StepMax, NEW rate \in Int
  PROVE  /\ Tuned(curr, rate) \in 0..StepMax
         /\ curr >= StepMin => Tuned(curr, rate) >= StepMin
<1>1. Unsigned(rate) \in Nat
  BY StepAssumption DEF Unsigned
<1>2. (curr + StepInc) % IntMod = curr + StepInc
  BY StepAssumption
<1> QED BY <1>1, <1>2, StepAssumption DEF Tuned

\* The invariant: the bounds, and that the rate of every heap fits an int32_t.
Inv ==
  /\ gc_stepsize \in [VMs -> 0..StepMax]
  /\ last_gc_size \in [VMs -> Sizes \cup {0}]
  /\ gc_rate \in [VMs -> IntMin..IntMax]

\* The ends of int32_t, with zero between them.
LEMMA IntRange == IntMin \in Int /\ IntMax \in Nat /\ IntMin <= 0
<1> DEFINE half == IntMod \div 2
<1>1. IntMod \in Nat /\ IntMod >= 2
  BY StepAssumption
<1>2. half \in Nat /\ half >= 1
  BY <1>1
<1>3. IntMin = -half /\ IntMax = half - 1
  BY DEF IntMin, IntMax
<1> QED BY <1>2, <1>3

\* Every measurement fits an int32_t: the conversion cuts what it cannot hold.
LEMMA RateType ==
  ASSUME NEW diff \in Int, NEW d \in Deltas, NEW saturates \in BOOLEAN
  PROVE  Rate(diff, d, saturates) \in IntMin..IntMax
<1> DEFINE exact == IF d = 0 THEN 0
                    ELSE IF diff >= 0 THEN (diff * PerSecond) \div d
                    ELSE -((-diff * PerSecond) \div d)
<1>1. CASE d # 0 /\ exact \in IntMin..IntMax
  <2>1. Rate(diff, d, saturates) = exact
    BY <1>1 DEF Rate
  <2> QED BY <2>1, <1>1
<1>2. CASE ~(d # 0 /\ exact \in IntMin..IntMax)
  <2>1. Rate(diff, d, saturates)
          = IF ~saturates \/ diff < 0 THEN IntMin ELSE IF diff > 0 THEN IntMax ELSE 0
    BY <1>2 DEF Rate
  <2> QED BY <2>1, IntRange
<1> QED BY <1>1, <1>2

\* The arrays begin with the minimum and zeros.
LEMMA InitInv == Init => Inv
BY FrameAssumption, StepAssumption, IntRange DEF Init, Inv

\* A frame measures numbers that fit, and tunes within the bounds.
LEMMA NextInv == Inv /\ [Next]_vars => Inv'
<1> SUFFICES ASSUME Inv, [Next]_vars PROVE Inv'
  OBVIOUS
<1>1. ASSUME NEW size \in [VMs -> Sizes], NEW d \in Deltas, NEW saturates \in BOOLEAN,
             Frame(size, d, saturates)
      PROVE  Inv'
  <2>1. (last_gc_size \in [VMs -> Sizes \cup {0}])'
    BY <1>1 DEF Frame
  <2>2. \A v \in VMs : Rate(size[v] - last_gc_size[v], d, saturates) \in IntMin..IntMax
    <3> TAKE v \in VMs
    <3>0. \A x \in Sizes : x \in Int
      BY FrameAssumption
    <3>1. size[v] \in Sizes /\ last_gc_size[v] \in Sizes \cup {0}
      BY DEF Inv
    <3>2. size[v] - last_gc_size[v] \in Int
      <4>1. size[v] \in Int
        BY <3>0, <3>1
      <4>2. last_gc_size[v] \in Int
        BY <3>0, <3>1
      <4> QED BY <4>1, <4>2
    <3> QED BY <3>2, RateType
  <2>3. (gc_rate \in [VMs -> IntMin..IntMax])'
    BY <1>1, <2>2 DEF Frame
  <2>4. \A v \in VMs : Tuned(gc_stepsize[v], gc_rate'[v]) \in 0..StepMax
    BY <2>3, IntRange, TunedFacts DEF Inv
  <2>5. (gc_stepsize \in [VMs -> 0..StepMax])'
    BY <1>1, <2>4 DEF Frame
  <2> QED BY <2>1, <2>3, <2>5 DEF Inv
<1>2. CASE UNCHANGED vars
  BY <1>2 DEF vars, Inv
<1> QED BY <1>1, <1>2 DEF Next

\* Every reachable state satisfies the invariant.
THEOREM Invariance == Spec => []Inv
BY InitInv, NextInv, PTL DEF Spec

\* The type invariant: step sizes are uint32_t and rates int32_t, also where a heap
\* shrank or a frame had no length.
THEOREM TypeCorrect == Spec => []TypeOK
<1>1. 0..StepMax \subseteq 0..IntMod - 1
  BY StepAssumption
<1>2. Inv => TypeOK
  BY <1>1 DEF Inv, TypeOK
<1> QED BY Invariance, <1>2, PTL

\* No step size passes STEPSIZE_MAX, whatever heaps and frames are measured and
\* however the undefined conversions of `frame` come out.
THEOREM StepBoundedTheorem == Spec => []StepBounded
<1>1. Inv => StepBounded
  BY StepAssumption DEF Inv, StepBounded
<1> QED BY Invariance, <1>1, PTL

\* The subtraction of a step never takes a step size from STEPSIZE_MIN to below it.
THEOREM MinKeptTheorem == Spec => MinKept
<1> DEFINE Kept == \A v \in VMs : gc_stepsize[v] >= StepMin => gc_stepsize'[v] >= StepMin
<1>1. Inv /\ Inv' /\ [Next]_vars => [Kept]_vars
  <2> SUFFICES ASSUME Inv, Inv', Next, NEW v \in VMs, gc_stepsize[v] >= StepMin
               PROVE  gc_stepsize'[v] >= StepMin
    OBVIOUS
  <2>1. PICK size \in [VMs -> Sizes], d \in Deltas, saturates \in BOOLEAN :
          Frame(size, d, saturates)
    BY DEF Next
  <2>2. gc_stepsize'[v] = Tuned(gc_stepsize[v], gc_rate'[v])
    BY <2>1 DEF Frame
  <2>3. gc_stepsize[v] \in 0..StepMax /\ gc_rate'[v] \in Int
    BY IntRange DEF Inv
  <2> QED BY <2>2, <2>3, TunedFacts
<1>2. Spec => [][Kept]_vars
  BY Invariance, <1>1, PTL DEF Spec
<1> QED BY <1>2 DEF MinKept

=============================================================================
